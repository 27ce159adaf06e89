--------------------------- MODULE SectionRebuild ---------------------------
(***************************************************************************)
(* A handle whose sections depend on a key (action_class_section.cc and    *)
(* the accessor lookup of grib_query.cc).                                  *)
(*                                                                         *)
(* The message is a key "n", the sections 1..Len(Kind) and a last key "t"; *)
(* the sections lie in others, each with a length key of its own.          *)
(* Section s is a list of n elements, an if on n or a template chosen by   *)
(* n.  Setting n notifies the sections one after the other; a section      *)
(* whose definitions changed is created again in a temporary handle (the   *)
(* "kid"), its values are copied from the old one by name, its bytes and   *)
(* its accessors replace the old ones, and the old accessors are freed.    *)
(*                                                                         *)
(* Keys are found through a cache of accessor pointers, h->accessors (the  *)
(* trie), which is marked invalid after a replacement and rebuilt by the   *)
(* next lookup made when no kid exists.                                    *)
(***************************************************************************)
EXTENDS Integers, Sequences, SequencesExt, FiniteSets

CONSTANTS
    Kind,              \* the sections: a sequence of "if", "list", "template"
    MaxKey,            \* bound: values of n are 0..MaxKey
    Depth,             \* what the sections lie in, the message included
    CreateCanFail,     \* creating the accessors of a section may fail
    LengthCanOverflow  \* a length key may be too narrow

KindAssumption ==
    /\ Kind \in Seq({"if", "list", "template"})
    /\ {MaxKey, Depth} \subseteq Nat \ {0}
    /\ {CreateCanFail, LengthCanOverflow} \subseteq BOOLEAN
ASSUME KindAssumption

VARIABLES
    key,      \* the encoded value of n
    secs,     \* the section accessors with what they contain
    tail,     \* offset of t
    buflen,   \* buffer->ulength
    outer,    \* the encoded lengths of what the sections lie in, innermost first
    cache,    \* h->accessors: the address cached for each name
    invalid,  \* h->trie_invalid
    kid,      \* h->kid is set
    live,     \* addresses of the accessors that exist in h and in its kid
    pc,       \* where the notification of section "cur" stands
    cur,
    tmp,      \* the elements of the temporary handle
    result,   \* what the last grib_set returned
    touched,  \* history: the addresses the last lookups returned
    failures  \* history: the errors that grib_set has returned

layout == <<secs, tail, buflen, outer>>
vars == <<key, layout, cache, invalid, kid, live, pc, cur, tmp, result, touched, failures>>

Section == DOMAIN Kind

(* An address: what is created at a time shares a block of memory.         *)
MaxBlock == 2 * Len(Kind) + 2
Address == (0..MaxBlock) \X Nat
Null == <<0, 0>>
KeyAddr == <<0, 1>>
TailAddr == <<0, 2>>
N == <<0, "n">>
T == <<0, "t">>
Name == {N, T} \cup (Section \X {"a", "b"})
SizeOf(name) == IF name[2] = "a" THEN 2 ELSE 1

(* An element: a list's elements share a name and their values, copied as  *)
(* an array, are not followed.                                             *)
Element == [name : Name, addr : Address, val : {0, 1}, off : Nat]
Bytes(elems) == FoldLeft(LAMBDA n, e : n + SizeOf(e.name), 0, elems)

-----------------------------------------------------------------------------
(* The definitions *)

(* The list of actions that reparse selects for the value v of n.  A list  *)
(* has one block however many elements it has; a template whose file is    *)
(* missing has none.                                                       *)
MissingFile(s, v) == Kind[s] = "template" /\ v = MaxKey
Branch(s, v) ==
    IF Kind[s] = "list" THEN "block"
    ELSE IF Kind[s] = "if" THEN IF v # 0 THEN "block_true" ELSE "block_false"
    ELSE IF MissingFile(s, v) THEN "NULL" ELSE IF v # 0 THEN "file1" ELSE "file0"

(* The names of the elements that the section has for the value v of n.    *)
Body(s, v) ==
    IF Kind[s] = "list" THEN [i \in 1..v |-> <<s, "b">>]
    ELSE IF v # 0 THEN <<<<s, "a">>, <<s, "b">>>> ELSE <<<<s, "b">>>>

-----------------------------------------------------------------------------
(* Finding a key *)

Elements == FoldLeft(LAMBDA l, s : l \o s.elems, <<>>, secs)

(* The places in the tree, section and element, and their order.           *)
Places == UNION {{s} \X DOMAIN secs[s].elems : s \in Section}
At(p) == secs[p[1]].elems[p[2]]
Before(p, q) == p[1] < q[1] \/ (p[1] = q[1] /\ p[2] < q[2])

(* search: a walk of the tree, the last accessor of that name wins.        *)
Search(name) ==
    LET places == {p \in Places : At(p).name = name}
    IN  IF name = N THEN KeyAddr
        ELSE IF name = T THEN TailAddr
        ELSE IF places = {} THEN Null
        ELSE At(CHOOSE p \in places : \A q \in places \ {p} : Before(q, p)).addr

(* Mutant: the cache is trusted although the tree changed.                 *)
CacheReadStale == cache

(* The cache that a lookup reads: rebuild_hash_keys enters the whole tree, *)
(* but only when no kid exists.                                            *)
CacheRead == IF invalid /\ ~kid THEN [name \in Name |-> Search(name)] ELSE cache

(* _search_and_cache *)
Found(name) == IF CacheRead[name] # Null THEN CacheRead[name] ELSE Search(name)
Lookup(names) ==
    /\ cache' = [name \in Name |-> IF name \in names THEN Found(name) ELSE CacheRead[name]]
    /\ invalid' = (invalid /\ kid)
    /\ touched' = {Found(name) : name \in names} \ {Null}

-----------------------------------------------------------------------------
(* The length of what the sections lie in: n and t are in the message only. *)
Enclosed(d) == IF d = Depth THEN 1 + Bytes(Elements) + 1 ELSE Bytes(Elements)

Sized(elems, from) ==
    [i \in DOMAIN elems |-> [elems[i] EXCEPT !.off = from + Bytes(SubSeq(elems, 1, i - 1))]]

(* The handle as created from a message in which n is v.                   *)
InitSections(v) ==
    LET body(s) == [i \in DOMAIN Body(s, v) |->
                      [name |-> Body(s, v)[i], addr |-> <<s, i>>, val |-> 0, off |-> 0]]
        start(s) == 1 + FoldLeft(LAMBDA n, r : n + Bytes(body(r)), 0, [r \in 1..(s - 1) |-> r])
    IN  [s \in Section |-> [branch |-> Branch(s, v),
                            loop   |-> v,
                            off    |-> start(s),
                            len    |-> Bytes(body(s)),
                            elems  |-> Sized(body(s), start(s))]]

Init ==
    /\ key \in {v \in 0..MaxKey : \A s \in Section : ~MissingFile(s, v)}
    /\ secs = InitSections(key)
    /\ tail = 1 + Bytes(Elements)
    /\ buflen = tail + 1
    /\ outer = [d \in 1..Depth |-> Enclosed(d)]
    /\ cache = [name \in Name |-> Search(name)]
    /\ invalid = FALSE
    /\ kid = FALSE
    /\ live = {KeyAddr, TailAddr} \cup {At(p).addr : p \in Places}
    /\ pc = "idle" /\ cur = 0 /\ tmp = <<>> /\ result = "success"
    /\ touched = {} /\ failures = {}

-----------------------------------------------------------------------------
(* The calls of the user *)

(* grib_get on any name. *)
Get(name) ==
    /\ pc = "idle"
    /\ Lookup({name})
    /\ UNCHANGED <<key, layout, kid, live, pc, cur, tmp, result, failures>>

(* grib_set of an element that nothing depends on.                         *)
SetValue(name, x) ==
    /\ pc = "idle"
    /\ Kind[name[1]] # "list" /\ Found(name) # Null
    /\ Lookup({name})
    /\ secs' = [s \in Section |-> [secs[s] EXCEPT !.elems = [i \in DOMAIN @ |->
                  IF @[i].addr = Found(name) THEN [@[i] EXCEPT !.val = x] ELSE @[i]]]]
    /\ UNCHANGED <<key, tail, buflen, outer, kid, live, pc, cur, tmp, result, failures>>

(* grib_set_long on n: the value is encoded, then the sections are told.   *)
SetKey(v) ==
    /\ pc = "idle"
    /\ Lookup({N})
    /\ key' = v
    /\ pc' = "notify" /\ cur' = 1
    /\ UNCHANGED <<layout, kid, live, tmp, result, failures>>

(* grib_set returns, with the error of the observer that failed.           *)
Fail(err) ==
    /\ pc' = "idle" /\ cur' = 0 /\ result' = err
    /\ failures' = failures \cup {err}

Return ==
    /\ pc = "notify" /\ cur > Len(Kind)
    /\ pc' = "idle" /\ cur' = 0 /\ result' = "success"
    /\ UNCHANGED <<key, layout, cache, invalid, kid, live, tmp, touched, failures>>

-----------------------------------------------------------------------------
(* notify_change of the section "cur" *)

(* reparse of a list asks for a rebuild when the number of elements is not *)
(* the one the accessor was created with.                                  *)
DoIt(s) == Kind[s] = "list" /\ key # secs[s].loop

(* Mutant: any two lists of actions are taken for the same.                *)
IgnoredAlways(s) == ~DoIt(s) /\ Branch(s, key) # "NULL" /\ secs[s].branch # "NULL"

(* An unchanged list of actions is not parsed again.                       *)
Ignored(s) == ~DoIt(s) /\ Branch(s, key) # "NULL" /\ Branch(s, key) = secs[s].branch

(* reparse evaluates its expression, or the name of its file, on h.        *)
Reparse(s) == pc = "notify" /\ cur = s /\ Lookup({N})

Ignore(s) ==
    /\ Reparse(s) /\ Ignored(s)
    /\ cur' = cur + 1
    /\ UNCHANGED <<key, layout, kid, live, pc, tmp, result, failures>>

(* The section remembers what it is about to contain and becomes the only  *)
(* one under construction.                                                 *)
StartRebuild(s) ==
    /\ Reparse(s) /\ ~Ignored(s)
    /\ secs' = [secs EXCEPT ![s].branch = Branch(s, key)]
    /\ IF kid
         THEN Fail("internal error") /\ UNCHANGED kid
         ELSE pc' = "create" /\ kid' = TRUE /\ UNCHANGED <<cur, result, failures>>
    /\ UNCHANGED <<key, tail, buflen, outer, live, tmp>>

(* A block for the elements of a section: an address is not used again     *)
(* while something still points to it, so that a dangling pointer can be   *)
(* told from a good one.                                                   *)
Free(b) == \A a \in live \cup {cache[name] : name \in Name} : a[1] # b
Fresh == CHOOSE b \in 1..MaxBlock : Free(b)

ValueOf(addr) ==
    LET places == {p \in Places : At(p).addr = addr}
    IN  IF places = {} THEN 0 ELSE At(CHOOSE p \in places : TRUE).val

(* Mutant: the loader copies nothing.                                      *)
CopiedNothing(s, name) == 0

(* grib_init_accessor_from_handle: the value found in h under that name.   *)
Copied(s, name) == IF Kind[s] = "list" THEN 0 ELSE ValueOf(Found(name))

(* What the definitions of a section refer to: n, and an element of every  *)
(* section before it.                                                      *)
Referred(s) == {N} \cup {<<r, "b">> : r \in 1..(s - 1)}

(* The accessors are created in the kid, where names that it does not have *)
(* are looked up in h; so are the names whose values are copied.           *)
Create(s) ==
    /\ pc = "create" /\ cur = s
    /\ ~MissingFile(s, key) /\ \E b \in 1..MaxBlock : Free(b)
    /\ LET body == Body(s, key)
           new == [i \in DOMAIN body |->
                     [name |-> body[i], addr |-> <<Fresh, i>>, off |-> 0,
                      val |-> Copied(s, body[i])]]
       IN  /\ Lookup(Referred(s) \cup ToSet(body))
           /\ tmp' = Sized(new, 0)
           /\ live' = live \cup {new[i].addr : i \in DOMAIN new}
    /\ pc' = "adjust"
    /\ UNCHANGED <<key, layout, kid, cur, result, failures>>

CreateError(s) == IF MissingFile(s, key) THEN "file not found" ELSE "not created"

(* Mutant: the kid is deleted but still pointed to.                        *)
CreateFailsKeepsKid(s) ==
    /\ pc = "create" /\ cur = s
    /\ MissingFile(s, key) \/ CreateCanFail
    /\ Fail(CreateError(s))
    /\ UNCHANGED <<key, layout, cache, invalid, kid, live, tmp, touched>>

(* A missing template, or any other error while the accessors are created: *)
(* the kid is deleted.                                                     *)
CreateFails(s) ==
    /\ pc = "create" /\ cur = s
    /\ MissingFile(s, key) \/ CreateCanFail
    /\ kid' = FALSE
    /\ Fail(CreateError(s))
    /\ UNCHANGED <<key, layout, cache, invalid, live, tmp, touched>>

(* The length of the new section is encoded in the kid.                    *)
AdjustKid ==
    /\ pc = "adjust"
    /\ pc' = "replace"
    /\ UNCHANGED <<key, layout, cache, invalid, kid, live, cur, tmp, result, touched, failures>>

(* It does not fit: the notification returns as it is.                     *)
AdjustKidFails ==
    /\ pc = "adjust" /\ LengthCanOverflow
    /\ Fail("encoding error")
    /\ UNCHANGED <<key, layout, cache, invalid, kid, live, tmp, touched>>

(* Mutant: the accessors inside a section that moves are left behind.      *)
ShiftOuterOnly(elems, d) == elems

(* Mutant: the offsets of the kid are moved the wrong way.                 *)
ShiftBack(elems, d) == [i \in DOMAIN elems |-> [elems[i] EXCEPT !.off = @ - d]]

Shift(elems, d) == [i \in DOMAIN elems |-> [elems[i] EXCEPT !.off = @ + d]]

(* grib_buffer_replace, grib_swap_sections and the deletion of the kid,    *)
(* which holds the old accessors now.                                      *)
Replace(s) ==
    /\ pc = "replace" /\ cur = s
    /\ LET increase == Bytes(tmp) - secs[s].len
           old == {secs[s].elems[i].addr : i \in DOMAIN secs[s].elems}
       IN  /\ buflen' = buflen + increase
           /\ tail' = tail + increase
           /\ secs' = [r \in Section |->
                 IF r < s THEN secs[r]
                 ELSE IF r = s THEN [secs[s] EXCEPT !.elems = Shift(tmp, secs[s].off)]
                 ELSE [secs[r] EXCEPT !.off = @ + increase, !.elems = Shift(@, increase)]]
           /\ live' = live \ old
    /\ tmp' = <<>>
    /\ kid' = FALSE
    /\ invalid' = TRUE
    /\ pc' = "settle"
    /\ touched' = {}
    /\ UNCHANGED <<key, outer, cache, cur, result, failures>>

(* Every offset is where the accessors before it end.                      *)
Contiguous ==
    /\ \A s \in Section :
         /\ secs[s].off = 1 + FoldLeft(LAMBDA n, r : n + Bytes(secs[r].elems), 0, [r \in 1..(s - 1) |-> r])
         /\ secs[s].elems = Sized(secs[s].elems, secs[s].off)
    /\ tail = 1 + Bytes(Elements)

(* grib_section_adjust_sizes on the message: from the innermost outwards,  *)
(* the lengths of the sections and of what they lie in are recomputed and  *)
(* encoded, unless an accessor is not where the previous one ends ("Offset *)
(* mismatch").  The length of the new section is already encoded.          *)
Measured == secs' = [s \in Section |-> [secs[s] EXCEPT !.len = Bytes(secs[s].elems)]]
Settle ==
    /\ pc = "settle"
    /\ IF Contiguous
         THEN /\ Measured /\ outer' = [d \in 1..Depth |-> Enclosed(d)]
              /\ pc' = "notify" /\ cur' = cur + 1 /\ UNCHANGED <<result, failures>>
         ELSE Fail("decoding error") /\ UNCHANGED <<secs, outer>>
    /\ UNCHANGED <<key, tail, buflen, cache, invalid, kid, live, tmp, touched>>

(* The length of what is around them does not fit: it and those further    *)
(* out stay as they were.  ("outer" tells this encoding error from the one *)
(* of the kid, which has other consequences.)                              *)
SettleFails(d) ==
    /\ pc = "settle" /\ LengthCanOverflow
    /\ Contiguous /\ outer[d] # Enclosed(d)
    /\ Measured
    /\ outer' = [c \in 1..Depth |-> IF c < d THEN Enclosed(c) ELSE outer[c]]
    /\ Fail("outer encoding error")
    /\ UNCHANGED <<key, tail, buflen, cache, invalid, kid, live, tmp, touched>>

Next ==
    \/ \E name \in Name : Get(name)
    \/ \E name \in Section \X {"a", "b"}, x \in {0, 1} : SetValue(name, x)
    \/ \E v \in 0..MaxKey : SetKey(v)
    \/ \E s \in Section : Ignore(s) \/ StartRebuild(s) \/ Create(s) \/ CreateFails(s) \/ Replace(s)
    \/ AdjustKid \/ AdjustKidFails
    \/ Settle \/ \E d \in 1..Depth : SettleFails(d)
    \/ Return

Spec == Init /\ [][Next]_vars

-----------------------------------------------------------------------------
(* Properties *)

TypeOK ==
    /\ key \in 0..MaxKey
    /\ \A s \in Section :
         /\ secs[s].branch \in {Branch(s, v) : v \in 0..MaxKey}
         /\ secs[s].loop \in 0..MaxKey
         /\ secs[s].off \in Nat /\ secs[s].len \in Nat
         /\ secs[s].elems \in Seq(Element)
    /\ tail \in Nat /\ buflen \in Nat /\ outer \in [1..Depth -> Nat]
    /\ cache \in [Name -> Address]
    /\ invalid \in BOOLEAN /\ kid \in BOOLEAN
    /\ live \in SUBSET Address /\ touched \in SUBSET Address
    /\ pc \in {"idle", "notify", "create", "adjust", "replace", "settle"}
    /\ cur \in 0..(Len(Kind) + 1)
    /\ tmp \in Seq(Element)

(* No lookup returns an accessor that was freed with a replaced section,   *)
(* not even the lookups made while the next section is being rebuilt, when *)
(* the existing kid forbids renewing the cache: reparse has always looked  *)
(* something up between the two; and a cache that is not marked invalid    *)
(* holds what a search of the tree would find.                             *)
LookupsReachTree ==
    /\ touched \subseteq live
    /\ ~invalid => \A name \in Name : cache[name] \in {Null, Search(name)}

HasBody(s) == [i \in DOMAIN secs[s].elems |-> secs[s].elems[i].name] = Body(s, key)

(* When grib_set of n succeeds, every if and template section has the      *)
(* elements that the definitions prescribe for the new value, also after a *)
(* value whose template does not exist and after a length outside the      *)
(* section that did not fit. (After any other failure a section remembers  *)
(* a content it does not have; a list set back to the number it was        *)
(* created with is not rebuilt, and is excepted.)                          *)
ContentFollowsKey ==
    pc = "idle" /\ result = "success" /\ failures \subseteq {"file not found", "outer encoding error"} =>
        \A s \in Section : Kind[s] # "list" => HasBody(s)

(* Between two calls of the user the offsets of all accessors, the lengths *)
(* by which a later rebuild replaces sections, and the buffer agree, after *)
(* whatever failure; and so do the lengths encoded around the sections, as *)
(* long as each of them fitted. (After one that did not, the message keeps *)
(* a wrong length, which only the next section that is rebuilt repairs: a  *)
(* set that rebuilds none succeeds and leaves it.)                         *)
LayoutConsistent ==
    pc = "idle" =>
        /\ Contiguous /\ buflen = tail + 1
        /\ \A s \in Section : secs[s].len = Bytes(secs[s].elems)
        /\ "outer encoding error" \notin failures => \A d \in 1..Depth : outer[d] = Enclosed(d)

(* Between two calls no kid is left, whatever failed, as long as every     *)
(* new length could be encoded: grib_handle_delete would refuse to delete  *)
(* the handle and every later rebuild would fail.                          *)
NoKidAtRest == pc = "idle" /\ "encoding error" \notin failures => ~kid

(* A rebuilt section starts with the values that the message has under the *)
(* names of its new elements.                                              *)
ValuesSurvive ==
    [][pc = "create" /\ pc' = "adjust" /\ Kind[cur] # "list" =>
        \A i \in DOMAIN tmp' : \A p \in Places :
            At(p).name = tmp'[i].name => tmp'[i].val = At(p).val]_vars
=============================================================================
