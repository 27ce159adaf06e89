------------------------ MODULE SectionRebuildProofs ------------------------
(***************************************************************************)
(* Proofs about rebuilds, for any sections and any number of values of the *)
(* key: of the temporary handle, of the cache of accessors, of what the    *)
(* sections contain, of the values that are copied, of where everything    *)
(* lies, of the types, and of the keys that an iterator returns.           *)
(***************************************************************************)
EXTENDS KeysIterator, SequenceLemmas, TLAPS

-----------------------------------------------------------------------------
(* The kid *)

(* The kid exists exactly while a section is under construction, as long   *)
(* as the length of every new section can be encoded.                      *)
KidInv ==
    /\ pc \in {"idle", "notify", "create", "adjust", "replace", "settle"}
    /\ kid \in BOOLEAN
    /\ "encoding error" \notin failures =>
          (kid <=> pc \in {"create", "adjust", "replace"})

LEMMA KidStep == KidInv /\ [Next]_vars => KidInv'
<1> SUFFICES ASSUME KidInv, [Next]_vars PROVE KidInv'
  OBVIOUS
<1>1. ASSUME NEW name \in Name, Get(name) PROVE KidInv'
  BY <1>1 DEF KidInv, Get
<1>2. ASSUME NEW name \in Section \X {"a", "b"}, NEW x \in {0, 1}, SetValue(name, x)
      PROVE  KidInv'
  BY <1>2 DEF KidInv, SetValue
<1>3. ASSUME NEW v \in 0..MaxKey, SetKey(v) PROVE KidInv'
  BY <1>3 DEF KidInv, SetKey
<1>4. ASSUME NEW s \in Section, Ignore(s) PROVE KidInv'
  BY <1>4 DEF KidInv, Ignore
<1>5. ASSUME NEW s \in Section, StartRebuild(s) PROVE KidInv'
  BY <1>5 DEF KidInv, StartRebuild, Reparse, Fail
<1>6. ASSUME NEW s \in Section, Create(s) PROVE KidInv'
  BY <1>6 DEF KidInv, Create
<1>7. ASSUME NEW s \in Section, CreateFails(s) PROVE KidInv'
  BY <1>7 DEF KidInv, CreateFails, Fail
<1>8. ASSUME NEW s \in Section, Replace(s) PROVE KidInv'
  BY <1>8 DEF KidInv, Replace
<1>9. CASE AdjustKid
  BY <1>9 DEF KidInv, AdjustKid
<1>10. CASE AdjustKidFails
  BY <1>10 DEF KidInv, AdjustKidFails, Fail
<1>11. CASE Settle
  BY <1>11 DEF KidInv, Settle, Fail
<1>14. ASSUME NEW d \in 1..Depth, SettleFails(d) PROVE KidInv'
  BY <1>14 DEF KidInv, SettleFails, Fail
<1>12. CASE Return
  BY <1>12 DEF KidInv, Return
<1>13. CASE UNCHANGED vars
  BY <1>13 DEF KidInv, vars
<1> QED
  BY <1>1, <1>2, <1>3, <1>4, <1>5, <1>6, <1>7, <1>8, <1>9, <1>10, <1>11, <1>12, <1>13, <1>14 DEF Next

(* Whatever a rebuild meets, except a length that cannot be encoded, it    *)
(* leaves no kid behind: the handle can be deleted and rebuilt again.      *)
THEOREM NoKidAtRestCorrect == Spec => []NoKidAtRest
<1>1. Init => KidInv
  BY DEF Init, KidInv
<1>2. KidInv /\ [Next]_vars => KidInv'
  BY KidStep
<1>3. KidInv => NoKidAtRest
  BY DEF KidInv, NoKidAtRest
<1> QED
  BY <1>1, <1>2, <1>3, PTL DEF Spec

-----------------------------------------------------------------------------
(* Lookups *)

SectionFields == {"branch", "loop", "off", "len", "elems"}
ElementFields == {"name", "addr", "val", "off"}

(* The sections are records and their elements sequences of records.       *)
Shape ==
    /\ key \in Nat
    /\ secs = [s \in Section |-> secs[s]]
    /\ \A s \in Section :
          /\ DOMAIN secs[s] = SectionFields
          /\ \E n \in Nat : DOMAIN secs[s].elems = 1..n
          /\ \A i \in DOMAIN secs[s].elems : DOMAIN secs[s].elems[i] = ElementFields

(* Each section has a block of memory, which no other uses.                *)
Blocks ==
    /\ {KeyAddr, TailAddr} \subseteq live
    /\ \A p \in Places : At(p).addr \in live /\ At(p).addr[1] # 0 /\ At(p).addr[2] = p[2]
    /\ \A p, q \in Places : p[1] # q[1] => At(p).addr[1] # At(q).addr[1]

(* So has the section that was created in the kid.                         *)
InKid ==
    pc \in {"adjust", "replace"} =>
        /\ \E n \in Nat : DOMAIN tmp = 1..n
        /\ \A i \in DOMAIN tmp :
              /\ DOMAIN tmp[i] = ElementFields
              /\ tmp[i].addr \in live /\ tmp[i].addr[1] # 0 /\ tmp[i].addr[2] = i
              /\ \A p \in Places : tmp[i].addr[1] # At(p).addr[1]
        /\ \A i, j \in DOMAIN tmp : tmp[i].addr[1] = tmp[j].addr[1]

(* A cache that is not marked holds what a search finds; and while a kid   *)
(* exists it is not marked.                                                *)
Fits == \A name \in Name : cache[name] \in {Null, Search(name)}
Cached ==
    /\ kid \in BOOLEAN /\ invalid \in BOOLEAN
    /\ ~invalid => Fits
    /\ kid => ~invalid
    /\ pc \in {"create", "adjust", "replace"} => kid
    /\ touched \subseteq live

LookInv == Shape /\ Blocks /\ InKid /\ Cached

(* Of the places of a name one is the last.                                *)
LEMMA LastPlace ==
  ASSUME Shape, NEW P \in SUBSET Places, P # {}
  PROVE  \E p \in P : \A q \in P \ {p} : Before(q, p)
<1>0. Section = 1..Len(Kind) /\ Len(Kind) \in Nat
  BY KindAssumption DEF KindAssumption, Section
<1>1. \A p \in Places : p = <<p[1], p[2]>> /\ p[1] \in Section /\ p[2] \in DOMAIN secs[p[1]].elems
  BY DEF Places
<1> DEFINE S == {Len(Kind) - p[1] : p \in P}
<1>2. PICK p0 \in P : \A q \in P : q[1] <= p0[1]
  <2>1. S \in SUBSET Nat /\ S # {}
    BY <1>0, <1>1
  <2>2. PICK n \in S : \A m \in S : n <= m
    BY <2>1, LeastNatural
  <2>3. PICK p \in P : n = Len(Kind) - p[1]
    BY <2>2
  <2>4. ASSUME NEW q \in P PROVE q[1] <= p[1]
    <3>1. n <= Len(Kind) - q[1]
      BY <2>2
    <3> QED
      BY <1>0, <1>1, <2>3, <3>1
  <2> QED
    BY <2>4
<1> DEFINE s == p0[1]
           Q == {q \in P : q[1] = s}
<1>3. PICK n \in Nat : DOMAIN secs[s].elems = 1..n
  BY <1>1 DEF Shape
<1> DEFINE U == {n - q[2] : q \in Q}
<1>4. PICK p1 \in Q : \A q \in Q : q[2] <= p1[2]
  <2>1. U \in SUBSET Nat /\ U # {}
    BY <1>1, <1>3
  <2>2. PICK k \in U : \A m \in U : k <= m
    BY <2>1, LeastNatural
  <2>3. PICK p \in Q : k = n - p[2]
    BY <2>2
  <2>4. ASSUME NEW q \in Q PROVE q[2] <= p[2]
    <3>1. k <= n - q[2]
      BY <2>2
    <3>2. q[2] \in 1..n /\ p[2] \in 1..n
      BY <1>1, <1>3
    <3> QED
      BY <2>3, <3>1, <3>2
  <2> QED
    BY <2>4
<1>5. ASSUME NEW q \in P \ {p1} PROVE Before(q, p1)
  <2>1. q = <<q[1], q[2]>> /\ p1 = <<p1[1], p1[2]>> /\ q[1] \in Section /\ p1[1] \in Section
    BY <1>1
  <2>2. CASE q[1] # s
    BY <1>0, <1>2, <2>1, <2>2 DEF Before
  <2>3. CASE q[1] = s
    <3>1. q[2] \in 1..n /\ p1[2] \in 1..n
      BY <1>1, <1>3, <2>3
    <3>2. q[2] # p1[2]
      BY <2>1, <2>3
    <3> QED
      BY <1>4, <2>3, <3>1, <3>2 DEF Before
  <2> QED
    BY <2>2, <2>3
<1> QED
  BY <1>5

PlacesOf(name) == {p \in Places : At(p).name = name}

(* What a search finds: nothing, or an accessor of that name in the tree.  *)
LEMMA SearchFinds ==
  ASSUME Shape, NEW name \in Name \ {N, T}
  PROVE  \/ PlacesOf(name) = {} /\ Search(name) = Null
         \/ \E p \in PlacesOf(name) : Search(name) = At(p).addr
<1>1. CASE PlacesOf(name) = {}
  BY <1>1 DEF Search, PlacesOf
<1>2. CASE PlacesOf(name) # {}
  <2> DEFINE p == CHOOSE p \in PlacesOf(name) : \A q \in PlacesOf(name) \ {p} : Before(q, p)
  <2>1. p \in PlacesOf(name)
    BY <1>2, LastPlace DEF PlacesOf
  <2>2. Search(name) = At(p).addr
    BY <1>2 DEF Search, PlacesOf
  <2> QED
    BY <2>1, <2>2
<1> QED
  BY <1>1, <1>2

LEMMA SearchLive == ASSUME Shape, Blocks, NEW name \in Name PROVE Search(name) \in live \cup {Null}
<1>1. CASE name \in {N, T}
  BY <1>1 DEF Search, Blocks, N, T
<1>2. CASE name \notin {N, T}
  BY <1>2, SearchFinds DEF Blocks, PlacesOf
<1> QED
  BY <1>1, <1>2

(* The tree has the same accessors as before.                              *)
SameTree ==
    \A s \in Section :
        /\ DOMAIN secs'[s].elems = DOMAIN secs[s].elems
        /\ \A i \in DOMAIN secs[s].elems :
              /\ secs'[s].elems[i].name = secs[s].elems[i].name
              /\ secs'[s].elems[i].addr = secs[s].elems[i].addr

LEMMA SamePlaces ==
  ASSUME SameTree
  PROVE  /\ Places' = Places
         /\ \A p \in Places : At(p)'.addr = At(p).addr /\ At(p)'.name = At(p).name
  BY DEF SameTree, Places, At

LEMMA SameSearch == ASSUME Shape, SameTree, NEW name \in Name PROVE Search(name)' = Search(name)
<1>1. CASE name \in {N, T}
  BY <1>1 DEF Search, N, T
<1>2. CASE name \notin {N, T}
  <2> DEFINE P == PlacesOf(name)
  <2>1. PlacesOf(name)' = PlacesOf(name)
    BY SamePlaces DEF PlacesOf
  <2>2. CASE P = {}
    BY <1>2, <2>1, <2>2 DEF Search, PlacesOf
  <2>3. CASE P # {}
    <3> DEFINE p == CHOOSE p \in P : \A q \in P \ {p} : Before(q, p)
    <3>1. p \in P
      BY <2>3, LastPlace DEF PlacesOf
    <3>2. Search(name) = At(p).addr
      BY <1>2, <2>3 DEF Search, PlacesOf
    <3>3. Search(name)' = (LET q == CHOOSE q \in PlacesOf(name)' : \A r \in PlacesOf(name)' \ {q} : Before(r, q)
                           IN secs'[q[1]].elems[q[2]].addr)
      BY <1>2, <2>1, <2>3 DEF Search, PlacesOf, At, Before
    <3>4. Search(name)' = secs'[p[1]].elems[p[2]].addr
      BY <2>1, <3>3
    <3>5. p \in Places
      BY <3>1 DEF PlacesOf
    <3> HIDE DEF p
    <3> QED
      BY <3>2, <3>4, <3>5, SamePlaces DEF At
  <2> QED
    BY <2>2, <2>3
<1> QED
  BY <1>1, <1>2

(* Whether the cache was marked or not, a lookup finds what a search does. *)
LEMMA LookupFinds ==
  ASSUME Cached, NEW name \in Name
  PROVE  CacheRead[name] \in {Null, Search(name)} /\ Found(name) = Search(name)
<1>1. CASE invalid
  BY <1>1 DEF Cached, CacheRead, Found
<1>2. CASE ~invalid
  BY <1>2 DEF Cached, Fits, CacheRead, Found
<1> QED
  BY <1>1, <1>2 DEF Cached

LEMMA LookupKeeps ==
  ASSUME LookInv, NEW names \in SUBSET Name, Lookup(names), SameTree, live \subseteq live',
         kid' \in BOOLEAN, kid => kid', pc' \in {"create", "adjust", "replace"} => kid'
  PROVE  Cached'
<1>1. \A name \in Name : Search(name)' = Search(name) /\ Found(name) = Search(name)
                         /\ CacheRead[name] \in {Null, Search(name)} /\ Search(name) \in live \cup {Null}
  BY SameSearch, LookupFinds, SearchLive DEF LookInv
<1>2. Fits'
  BY <1>1 DEF Lookup, Fits
<1>3. ~invalid' /\ touched' \subseteq live'
  BY <1>1 DEF Lookup, LookInv, Cached
<1>4. invalid' \in BOOLEAN
  BY DEF Lookup
<1> QED
  BY <1>2, <1>3, <1>4 DEF Cached

(* The elements stay the same accessors.                                   *)
KeepsShape ==
    /\ SameTree
    /\ secs' = [s \in Section |-> secs'[s]]
    /\ \A s \in Section :
          /\ DOMAIN secs'[s] = SectionFields
          /\ \A i \in DOMAIN secs[s].elems : DOMAIN secs'[s].elems[i] = ElementFields

LEMMA UnchangedKeepsShape == ASSUME Shape, UNCHANGED secs PROVE KeepsShape
  BY DEF Shape, KeepsShape, SameTree

(* So does changing anything of the sections but their elements.           *)
LEMMA SectionsKeepShape ==
  ASSUME Shape, secs' = [s \in Section |-> secs'[s]],
         \A s \in Section : DOMAIN secs'[s] = SectionFields /\ secs'[s].elems = secs[s].elems
  PROVE  KeepsShape
  BY DEF Shape, KeepsShape, SameTree

(* A step that leaves the tree and, while a section is in the kid, that.   *)
LEMMA TreeKeeps ==
  ASSUME Shape, Blocks, InKid, KeepsShape, live \subseteq live', key' \in Nat,
         pc' \in {"adjust", "replace"} => pc \in {"adjust", "replace"} /\ tmp' = tmp
  PROVE  Shape' /\ Blocks' /\ InKid'
<1>1. Shape'
  <2>1. ASSUME NEW s \in Section
        PROVE  /\ \E n \in Nat : DOMAIN secs'[s].elems = 1..n
               /\ \A i \in DOMAIN secs'[s].elems : DOMAIN secs'[s].elems[i] = ElementFields
    <3>1. DOMAIN secs'[s].elems = DOMAIN secs[s].elems
      BY DEF KeepsShape, SameTree
    <3> QED
      BY <3>1 DEF KeepsShape, Shape
  <2> QED
    BY <2>1 DEF Shape, KeepsShape
<1>2. Places' = Places /\ \A p \in Places : At(p)'.addr = At(p).addr
  BY SamePlaces DEF KeepsShape
<1>3. Blocks'
  BY <1>2 DEF Blocks
<1>4. InKid'
  BY <1>2 DEF InKid
<1> QED
  BY <1>1, <1>3, <1>4

LEMMA BodyDomain == ASSUME NEW s \in Section, NEW v \in Nat PROVE \E n \in Nat : DOMAIN Body(s, v) = 1..n
<1>1. CASE Kind[s] = "list"
  BY <1>1 DEF Body
<1>2. CASE Kind[s] # "list" /\ v # 0
  <2>1. DOMAIN Body(s, v) = 1..2
    BY <1>2 DEF Body
  <2> QED
    BY <2>1
<1>3. CASE Kind[s] # "list" /\ v = 0
  <2>1. DOMAIN Body(s, v) = 1..1
    BY <1>3 DEF Body
  <2> QED
    BY <2>1
<1> QED
  BY <1>1, <1>2, <1>3

LEMMA LookInit == ASSUME Init PROVE LookInv
<1>0. Section = 1..Len(Kind) /\ Len(Kind) \in Nat /\ MaxKey \in Nat
  BY KindAssumption DEF KindAssumption, Section
<1>1. key \in Nat
  BY <1>0 DEF Init
<1>2. \A s \in Section : \E n \in Nat : DOMAIN Body(s, key) = 1..n
  BY <1>1, BodyDomain
<1>3. ASSUME NEW s \in Section
      PROVE  /\ DOMAIN secs[s] = SectionFields
             /\ DOMAIN secs[s].elems = DOMAIN Body(s, key)
             /\ \A i \in DOMAIN secs[s].elems :
                   DOMAIN secs[s].elems[i] = ElementFields /\ secs[s].elems[i].addr = <<s, i>>
  BY DEF Init, InitSections, Sized, SectionFields, ElementFields
<1>4. secs = [s \in Section |-> secs[s]]
  BY DEF Init, InitSections
<1>5. Shape
  BY <1>1, <1>2, <1>3, <1>4 DEF Shape
<1>6. \A p \in Places : p[1] \in Section /\ At(p).addr = <<p[1], p[2]>>
  BY <1>3 DEF Places, At
<1>7. Blocks
  BY <1>0, <1>6 DEF Init, Blocks
<1>8. InKid /\ Cached
  BY DEF Init, InKid, Cached, Fits
<1> QED
  BY <1>5, <1>7, <1>8 DEF LookInv

(* What the sections are after a replacement.                              *)
LEMMA Replaced ==
  ASSUME LookInv, NEW s \in Section, Replace(s)
  PROVE  /\ secs' = [r \in Section |-> secs'[r]]
         /\ \A r \in Section : DOMAIN secs'[r] = SectionFields /\ secs'[r].branch = secs[r].branch
         /\ DOMAIN secs'[s].elems = DOMAIN tmp
         /\ \A i \in DOMAIN tmp :
               /\ DOMAIN secs'[s].elems[i] = ElementFields
               /\ secs'[s].elems[i].name = tmp[i].name /\ secs'[s].elems[i].addr = tmp[i].addr
         /\ \A r \in Section \ {s} :
               /\ DOMAIN secs'[r].elems = DOMAIN secs[r].elems
               /\ \A i \in DOMAIN secs[r].elems :
                     /\ DOMAIN secs'[r].elems[i] = ElementFields
                     /\ secs'[r].elems[i].name = secs[r].elems[i].name
                     /\ secs'[r].elems[i].addr = secs[r].elems[i].addr
<1> DEFINE increase == Bytes(tmp) - secs[s].len
<1>1. /\ pc = "replace"
      /\ secs' = [r \in Section |->
            IF r < s THEN secs[r]
            ELSE IF r = s THEN [secs[s] EXCEPT !.elems = Shift(tmp, secs[s].off)]
            ELSE [secs[r] EXCEPT !.off = @ + increase, !.elems = Shift(@, increase)]]
  BY DEF Replace
<1>2. \A i \in DOMAIN tmp : DOMAIN tmp[i] = ElementFields
  BY <1>1 DEF LookInv, InKid
<1> HIDE DEF increase
<1>3. \A r \in Section : DOMAIN secs'[r] = SectionFields /\ secs'[r].branch = secs[r].branch
  BY <1>1 DEF LookInv, Shape, SectionFields
<1>4. /\ DOMAIN secs'[s].elems = DOMAIN tmp
      /\ \A i \in DOMAIN tmp :
            /\ DOMAIN secs'[s].elems[i] = ElementFields
            /\ secs'[s].elems[i].name = tmp[i].name /\ secs'[s].elems[i].addr = tmp[i].addr
  <2>1. secs'[s].elems = Shift(tmp, secs[s].off)
    <3>1. ~(s < s)
      BY KindAssumption DEF KindAssumption, Section
    <3>2. secs'[s] = [secs[s] EXCEPT !.elems = Shift(tmp, secs[s].off)]
      BY <1>1, <3>1
    <3> QED
      BY <3>2 DEF LookInv, Shape, SectionFields
  <2> QED
    BY <1>2, <2>1 DEF Shift, ElementFields
<1>5. ASSUME NEW r \in Section \ {s}
      PROVE  /\ DOMAIN secs'[r].elems = DOMAIN secs[r].elems
             /\ \A i \in DOMAIN secs[r].elems :
                   /\ DOMAIN secs'[r].elems[i] = ElementFields
                   /\ secs'[r].elems[i].name = secs[r].elems[i].name
                   /\ secs'[r].elems[i].addr = secs[r].elems[i].addr
  <2>1. CASE r < s
    BY <1>1, <2>1 DEF LookInv, Shape
  <2>2. CASE ~(r < s)
    <3>1. secs'[r].elems = Shift(secs[r].elems, increase)
      BY <1>1, <2>2 DEF LookInv, Shape, SectionFields
    <3>2. \A i \in DOMAIN secs[r].elems : DOMAIN secs[r].elems[i] = ElementFields
      BY DEF LookInv, Shape
    <3> QED
      BY <3>1, <3>2 DEF Shift, ElementFields
  <2> QED
    BY <2>1, <2>2
<1> QED
  BY <1>1, <1>3, <1>4, <1>5

LEMMA ReplaceKeeps == ASSUME LookInv, NEW s \in Section, Replace(s) PROVE LookInv'
<1> DEFINE old == {secs[s].elems[i].addr : i \in DOMAIN secs[s].elems}
<1>1. /\ pc = "replace" /\ pc' = "settle" /\ kid' = FALSE /\ invalid' = TRUE /\ touched' = {}
      /\ live' = live \ old /\ key' = key
  BY DEF Replace
<1>2. /\ \E n \in Nat : DOMAIN tmp = 1..n
      /\ \A i \in DOMAIN tmp :
            /\ DOMAIN tmp[i] = ElementFields
            /\ tmp[i].addr \in live /\ tmp[i].addr[1] # 0 /\ tmp[i].addr[2] = i
            /\ \A p \in Places : tmp[i].addr[1] # At(p).addr[1]
  BY <1>1 DEF LookInv, InKid
<1>3. secs' = [r \in Section |-> secs'[r]] /\ \A r \in Section : DOMAIN secs'[r] = SectionFields
  BY Replaced
<1>4. /\ DOMAIN secs'[s].elems = DOMAIN tmp
      /\ \A i \in DOMAIN tmp : DOMAIN secs'[s].elems[i] = ElementFields /\ secs'[s].elems[i].addr = tmp[i].addr
  BY Replaced
<1>5. ASSUME NEW r \in Section, r # s
      PROVE  /\ DOMAIN secs'[r].elems = DOMAIN secs[r].elems
             /\ \A i \in DOMAIN secs[r].elems :
                   DOMAIN secs'[r].elems[i] = ElementFields /\ secs'[r].elems[i].addr = secs[r].elems[i].addr
  BY <1>5, Replaced
<1>6. Shape'
  <2>1. secs' = [r \in Section |-> secs'[r]]
    BY <1>3
  <2>2. ASSUME NEW r \in Section
        PROVE  /\ \E n \in Nat : DOMAIN secs'[r].elems = 1..n
               /\ \A i \in DOMAIN secs'[r].elems : DOMAIN secs'[r].elems[i] = ElementFields
    <3>1. CASE r = s
      BY <1>2, <1>4, <3>1
    <3>2. CASE r # s
      BY <1>5, <3>2 DEF LookInv, Shape
    <3> QED
      BY <3>1, <3>2
  <2> QED
    BY <1>1, <1>3, <2>1, <2>2 DEF LookInv, Shape
\* A place of the tree is one of the new section or was one before.
<1>7. ASSUME NEW p \in Places'
      PROVE  \/ p[1] = s /\ p[2] \in DOMAIN tmp /\ At(p)'.addr = tmp[p[2]].addr
             \/ p[1] # s /\ p \in Places /\ At(p)'.addr = At(p).addr
  <2>1. p[1] \in Section /\ p[2] \in DOMAIN secs'[p[1]].elems /\ p = <<p[1], p[2]>>
    BY DEF Places
  <2>2. CASE p[1] = s
    BY <1>4, <2>1, <2>2 DEF At
  <2>3. CASE p[1] # s
    <3>1. p \in Places
      BY <1>5, <2>1, <2>3 DEF Places
    <3> QED
      BY <1>5, <2>1, <2>3, <3>1 DEF At
  <2> QED
    BY <2>2, <2>3
<1>8. \A a \in old : \E p \in Places : p[1] = s /\ At(p).addr = a
  <2>1. ASSUME NEW i \in DOMAIN secs[s].elems
        PROVE  <<s, i>> \in Places /\ At(<<s, i>>).addr = secs[s].elems[i].addr
    BY DEF Places, At
  <2> QED
    BY <2>1
<1> HIDE DEF old
<1>9. Blocks'
  <2>1. {KeyAddr, TailAddr} \subseteq live'
    <3>1. \A a \in old : a[1] # 0
      BY <1>8 DEF LookInv, Blocks
    <3>2. KeyAddr[1] = 0 /\ TailAddr[1] = 0
      BY DEF KeyAddr, TailAddr
    <3> QED
      BY <1>1, <3>1, <3>2 DEF LookInv, Blocks
  <2>2. ASSUME NEW p \in Places'
        PROVE  At(p)'.addr \in live' /\ At(p)'.addr[1] # 0 /\ At(p)'.addr[2] = p[2]
    <3>1. CASE p[1] = s /\ p[2] \in DOMAIN tmp /\ At(p)'.addr = tmp[p[2]].addr
      BY <1>1, <1>2, <1>8, <3>1
    <3>2. CASE p[1] # s /\ p \in Places /\ At(p)'.addr = At(p).addr
      BY <1>1, <1>8, <3>2 DEF LookInv, Blocks
    <3> QED
      BY <1>7, <3>1, <3>2
  <2>3. ASSUME NEW p \in Places', NEW q \in Places', p[1] # q[1]
        PROVE  At(p)'.addr[1] # At(q)'.addr[1]
    BY <1>2, <1>7, <2>3 DEF LookInv, Blocks
  <2> QED
    BY <2>1, <2>2, <2>3 DEF Blocks
<1>10. InKid' /\ Cached'
  BY <1>1 DEF InKid, Cached, LookInv
<1> QED
  BY <1>6, <1>9, <1>10 DEF LookInv

LEMMA SetValueKeeps ==
  ASSUME LookInv, NEW name \in Section \X {"a", "b"}, NEW x \in {0, 1}, SetValue(name, x)
  PROVE  KeepsShape
<1> DEFINE changed(l) == [i \in DOMAIN l |-> IF l[i].addr = Found(name) THEN [l[i] EXCEPT !.val = x] ELSE l[i]]
<1>1. secs' = [s \in Section |-> [secs[s] EXCEPT !.elems = changed(@)]]
  BY DEF SetValue
<1>2. ASSUME NEW s \in Section
      PROVE  DOMAIN secs'[s] = SectionFields /\ secs'[s].elems = changed(secs[s].elems)
  <2> HIDE DEF changed
  <2> QED
    BY <1>1 DEF LookInv, Shape, SectionFields
<1>3. ASSUME NEW s \in Section, NEW i \in DOMAIN secs[s].elems
      PROVE  /\ DOMAIN secs'[s].elems[i] = ElementFields
             /\ secs'[s].elems[i].name = secs[s].elems[i].name
             /\ secs'[s].elems[i].addr = secs[s].elems[i].addr
  <2>1. DOMAIN secs[s].elems[i] = ElementFields
    BY DEF LookInv, Shape
  <2>2. secs'[s].elems[i] \in {secs[s].elems[i], [secs[s].elems[i] EXCEPT !.val = x]}
    BY <1>2
  <2> QED
    BY <2>1, <2>2 DEF ElementFields
<1>4. SameTree
  BY <1>2, <1>3 DEF SameTree
<1>5. secs' = [s \in Section |-> secs'[s]]
  <2> HIDE DEF changed
  <2> QED
    BY <1>1
<1> QED
  BY <1>2, <1>3, <1>4, <1>5 DEF KeepsShape

(* What the temporary handle has after the creation.                       *)
LEMMA Created ==
  ASSUME key \in Nat, NEW s \in Section, Create(s)
  PROVE  /\ DOMAIN tmp' = DOMAIN Body(s, key)
         /\ \A i \in DOMAIN Body(s, key) :
               /\ tmp'[i].name = Body(s, key)[i]
               /\ tmp'[i].addr = <<Fresh, i>>
               /\ tmp'[i].val = Copied(s, Body(s, key)[i])
               /\ DOMAIN tmp'[i] = ElementFields
<1> DEFINE body == Body(s, key)
           new == [i \in DOMAIN body |->
                     [name |-> body[i], addr |-> <<Fresh, i>>, off |-> 0, val |-> Copied(s, body[i])]]
<1>1. tmp' = Sized(new, 0)
  BY DEF Create
<1> HIDE DEF body
<1>2. /\ DOMAIN tmp' = DOMAIN body
      /\ \A i \in DOMAIN body :
            /\ tmp'[i].name = body[i] /\ tmp'[i].addr = <<Fresh, i>> /\ tmp'[i].val = Copied(s, body[i])
            /\ DOMAIN tmp'[i] = ElementFields
  BY <1>1 DEF Sized, ElementFields
<1> QED
  BY <1>2 DEF body

LEMMA LookStep == ASSUME LookInv, [Next]_vars PROVE LookInv'
<1>0. Section = 1..Len(Kind) /\ Len(Kind) \in Nat /\ MaxKey \in Nat /\ N \in Name
      /\ (Section \X {"a", "b"}) \subseteq Name
  BY KindAssumption DEF KindAssumption, Section, Name
<1>1. ASSUME NEW name \in Name, Get(name) PROVE LookInv'
  <2>1. KeepsShape /\ SameTree
    <3>1. UNCHANGED secs
      BY <1>1 DEF Get, layout
    <3> QED
      BY <3>1, UnchangedKeepsShape DEF LookInv, KeepsShape
  <2>2. Cached'
    BY <1>1, <2>1, LookupKeeps DEF Get, LookInv, Cached
  <2>3. Shape' /\ Blocks' /\ InKid'
    BY <1>1, <2>1, TreeKeeps DEF Get, layout, LookInv, Shape
  <2> QED
    BY <2>2, <2>3 DEF LookInv
<1>2. ASSUME NEW name \in Section \X {"a", "b"}, NEW x \in {0, 1}, SetValue(name, x)
      PROVE  LookInv'
  <2>1. KeepsShape /\ SameTree
    BY <1>2, SetValueKeeps DEF KeepsShape
  <2>2. Cached'
    BY <1>0, <1>2, <2>1, LookupKeeps DEF SetValue, LookInv, Cached
  <2>3. Shape' /\ Blocks' /\ InKid'
    BY <1>2, <2>1, TreeKeeps DEF SetValue, LookInv, Shape
  <2> QED
    BY <2>2, <2>3 DEF LookInv
<1>3. ASSUME NEW v \in 0..MaxKey, SetKey(v) PROVE LookInv'
  <2>1. KeepsShape /\ SameTree
    <3>1. UNCHANGED secs
      BY <1>3 DEF SetKey, layout
    <3> QED
      BY <3>1, UnchangedKeepsShape DEF LookInv, KeepsShape
  <2>2. Cached'
    BY <1>0, <1>3, <2>1, LookupKeeps DEF SetKey, LookInv, Cached
  <2>3. Shape' /\ Blocks' /\ InKid'
    BY <1>0, <1>3, <2>1, TreeKeeps DEF SetKey, layout, LookInv, Shape
  <2> QED
    BY <2>2, <2>3 DEF LookInv
<1>4. ASSUME NEW s \in Section, Ignore(s) PROVE LookInv'
  <2>1. KeepsShape /\ SameTree
    <3>1. UNCHANGED secs
      BY <1>4 DEF Ignore, layout
    <3> QED
      BY <3>1, UnchangedKeepsShape DEF LookInv, KeepsShape
  <2>2. Cached'
    BY <1>0, <1>4, <2>1, LookupKeeps DEF Ignore, Reparse, LookInv, Cached
  <2>3. Shape' /\ Blocks' /\ InKid'
    BY <1>4, <2>1, TreeKeeps DEF Ignore, layout, LookInv, Shape
  <2> QED
    BY <2>2, <2>3 DEF LookInv
<1>5. ASSUME NEW s \in Section, StartRebuild(s) PROVE LookInv'
  <2>1. KeepsShape /\ SameTree
    <3>1. secs' = [secs EXCEPT ![s].branch = Branch(s, key)]
      BY <1>5 DEF StartRebuild
    <3>2. secs' = [r \in Section |-> secs'[r]]
      BY <3>1 DEF LookInv, Shape
    <3>3. \A r \in Section : secs'[r].elems = secs[r].elems /\ DOMAIN secs'[r] = SectionFields
      BY <3>1 DEF LookInv, Shape, SectionFields
    <3> QED
      BY <3>2, <3>3, SectionsKeepShape DEF LookInv, KeepsShape
  <2>2. Cached'
    <3>1. Lookup({N}) /\ live' = live
      BY <1>5 DEF StartRebuild, Reparse
    <3>2. CASE kid
      <4>1. kid' = kid
        BY <1>5, <3>2 DEF StartRebuild
      <4> QED
        BY <1>0, <2>1, <3>1, <3>2, <4>1, LookupKeeps DEF LookInv, Cached
    <3>3. CASE ~kid
      <4>1. kid' = TRUE
        BY <1>5, <3>3 DEF StartRebuild
      <4> QED
        BY <1>0, <2>1, <3>1, <3>3, <4>1, LookupKeeps DEF LookInv, Cached
    <3> QED
      BY <3>2, <3>3
  <2>3. Shape' /\ Blocks' /\ InKid'
    BY <1>5, <2>1, TreeKeeps DEF StartRebuild, Reparse, Fail, LookInv, Shape
  <2> QED
    BY <2>2, <2>3 DEF LookInv
<1>6. ASSUME NEW s \in Section, Create(s) PROVE LookInv'
  <2> DEFINE body == Body(s, key)
             new == [i \in DOMAIN body |->
                       [name |-> body[i], addr |-> <<Fresh, i>>, off |-> 0, val |-> Copied(s, body[i])]]
  <2>1. KeepsShape /\ SameTree
    <3>1. UNCHANGED secs
      BY <1>6 DEF Create, layout
    <3> QED
      BY <3>1, UnchangedKeepsShape DEF LookInv, KeepsShape
  <2>2. Lookup(Referred(s) \cup ToSet(body)) /\ tmp' = Sized(new, 0) /\ Free(Fresh)
        /\ live' = live \cup {new[i].addr : i \in DOMAIN new} /\ pc' = "adjust" /\ pc = "create"
        /\ UNCHANGED <<key, secs, kid>>
    <3>1. \E b \in 1..MaxBlock : Free(b)
      BY <1>6 DEF Create
    <3>2. Free(Fresh)
      BY <3>1 DEF Fresh
    <3> QED
      BY <1>6, <3>2 DEF Create, layout
  <2>3. \E n \in Nat : DOMAIN body = 1..n
    BY BodyDomain DEF LookInv, Shape
  <2>4. Referred(s) \cup ToSet(body) \subseteq Name
    <3>1. \A r \in 1..(s - 1) : r \in Section
      BY <1>0
    <3>2. \A i \in DOMAIN body : body[i] \in Section \X {"a", "b"}
      BY DEF Body
    <3> QED
      BY <1>0, <3>1, <3>2 DEF Referred, ToSet
  <2> HIDE DEF body
  <2>5. Cached'
    BY <1>0, <2>1, <2>2, <2>4, LookupKeeps DEF LookInv, Cached
  <2>6. Shape'
    BY <2>2 DEF LookInv, Shape
  <2>7. Places' = Places /\ \A p \in Places : At(p)' = At(p)
    BY <2>2 DEF Places, At
  <2>8. Blocks'
    BY <2>2, <2>7 DEF LookInv, Blocks
  <2>9. /\ DOMAIN tmp' = DOMAIN body
        /\ \A i \in DOMAIN body :
              DOMAIN tmp'[i] = ElementFields /\ tmp'[i].addr = <<Fresh, i>> /\ tmp'[i].addr \in live'
    BY <2>2 DEF Sized, ElementFields
  <2>10. Fresh # 0 /\ \A p \in Places : Fresh # At(p).addr[1]
    BY <2>2 DEF Free, LookInv, Blocks, KeyAddr
  <2>11. InKid'
    BY <2>3, <2>7, <2>9, <2>10 DEF InKid
  <2> QED
    BY <2>5, <2>6, <2>8, <2>11 DEF LookInv
<1>7. ASSUME NEW s \in Section, CreateFails(s) PROVE LookInv'
  <2>1. KeepsShape /\ SameTree
    <3>1. UNCHANGED secs
      BY <1>7 DEF CreateFails, layout
    <3> QED
      BY <3>1, UnchangedKeepsShape DEF LookInv, KeepsShape
  <2>2. Fits => Fits'
    BY <1>7, <2>1, SameSearch DEF Fits, CreateFails, LookInv
  <2>3. Cached'
    BY <1>7, <2>2 DEF CreateFails, Fail, LookInv, Cached
  <2>4. Shape' /\ Blocks' /\ InKid'
    BY <1>7, <2>1, TreeKeeps DEF CreateFails, Fail, layout, LookInv, Shape
  <2> QED
    BY <2>3, <2>4 DEF LookInv
<1>8. ASSUME NEW s \in Section, Replace(s) PROVE LookInv'
  BY <1>8, ReplaceKeeps
<1>9. CASE AdjustKid
  <2>1. KeepsShape /\ SameTree
    <3>1. UNCHANGED secs
      BY <1>9 DEF AdjustKid, layout
    <3> QED
      BY <3>1, UnchangedKeepsShape DEF LookInv, KeepsShape
  <2>2. Fits => Fits'
    BY <1>9, <2>1, SameSearch DEF Fits, AdjustKid, LookInv
  <2>3. Cached'
    BY <1>9, <2>2 DEF AdjustKid, LookInv, Cached
  <2>4. Shape' /\ Blocks' /\ InKid'
    BY <1>9, <2>1, TreeKeeps DEF AdjustKid, layout, LookInv, Shape
  <2> QED
    BY <2>3, <2>4 DEF LookInv
<1>10. CASE AdjustKidFails
  <2>1. KeepsShape /\ SameTree
    <3>1. UNCHANGED secs
      BY <1>10 DEF AdjustKidFails, layout
    <3> QED
      BY <3>1, UnchangedKeepsShape DEF LookInv, KeepsShape
  <2>2. Fits => Fits'
    BY <1>10, <2>1, SameSearch DEF Fits, AdjustKidFails, LookInv
  <2>3. Cached'
    BY <1>10, <2>2 DEF AdjustKidFails, Fail, LookInv, Cached
  <2>4. Shape' /\ Blocks' /\ InKid'
    BY <1>10, <2>1, TreeKeeps DEF AdjustKidFails, Fail, layout, LookInv, Shape
  <2> QED
    BY <2>3, <2>4 DEF LookInv
<1>11. CASE Settle
  <2>1. KeepsShape /\ SameTree
    <3>1. CASE secs' = secs
      BY <3>1, UnchangedKeepsShape DEF LookInv, KeepsShape
    <3>2. CASE secs' = [r \in Section |-> [secs[r] EXCEPT !.len = Bytes(secs[r].elems)]]
      <4>1. \A r \in Section : secs'[r].elems = secs[r].elems /\ DOMAIN secs'[r] = SectionFields
        BY <3>2 DEF LookInv, Shape, SectionFields
      <4>2. secs' = [r \in Section |-> secs'[r]]
        BY <3>2
      <4> QED
        BY <4>1, <4>2, SectionsKeepShape DEF LookInv, KeepsShape
    <3> QED
      BY <1>11, <3>1, <3>2 DEF Settle, Measured
  <2>2. /\ pc = "settle" /\ pc' \in {"notify", "idle"}
        /\ UNCHANGED <<key, cache, invalid, kid, live, tmp, touched>>
    BY <1>11 DEF Settle, Fail
  <2>3. Fits => Fits'
    BY <2>1, <2>2, SameSearch DEF Fits, LookInv
  <2>4. Cached'
    BY <2>2, <2>3 DEF LookInv, Cached
  <2>5. Shape' /\ Blocks' /\ InKid'
    BY <2>1, <2>2, TreeKeeps DEF LookInv, Shape
  <2> QED
    BY <2>4, <2>5 DEF LookInv
<1>14. ASSUME NEW d \in 1..Depth, SettleFails(d) PROVE LookInv'
  <2>1. KeepsShape /\ SameTree
    <3>2. CASE secs' = [r \in Section |-> [secs[r] EXCEPT !.len = Bytes(secs[r].elems)]]
      <4>1. \A r \in Section : secs'[r].elems = secs[r].elems /\ DOMAIN secs'[r] = SectionFields
        BY <3>2 DEF LookInv, Shape, SectionFields
      <4>2. secs' = [r \in Section |-> secs'[r]]
        BY <3>2
      <4> QED
        BY <4>1, <4>2, SectionsKeepShape DEF LookInv, KeepsShape
    <3> QED
      BY <1>14, <3>2 DEF SettleFails, Measured
  <2>2. /\ pc = "settle" /\ pc' \in {"notify", "idle"}
        /\ UNCHANGED <<key, cache, invalid, kid, live, tmp, touched>>
    BY <1>14 DEF SettleFails, Fail
  <2>3. Fits => Fits'
    BY <2>1, <2>2, SameSearch DEF Fits, LookInv
  <2>4. Cached'
    BY <2>2, <2>3 DEF LookInv, Cached
  <2>5. Shape' /\ Blocks' /\ InKid'
    BY <2>1, <2>2, TreeKeeps DEF LookInv, Shape
  <2> QED
    BY <2>4, <2>5 DEF LookInv
<1>12. CASE Return
  <2>1. KeepsShape /\ SameTree
    <3>1. UNCHANGED secs
      BY <1>12 DEF Return, layout
    <3> QED
      BY <3>1, UnchangedKeepsShape DEF LookInv, KeepsShape
  <2>2. Fits => Fits'
    BY <1>12, <2>1, SameSearch DEF Fits, Return, LookInv
  <2>3. Cached'
    BY <1>12, <2>2 DEF Return, LookInv, Cached
  <2>4. Shape' /\ Blocks' /\ InKid'
    BY <1>12, <2>1, TreeKeeps DEF Return, layout, LookInv, Shape
  <2> QED
    BY <2>3, <2>4 DEF LookInv
<1>13. CASE UNCHANGED vars
  <2>1. KeepsShape /\ SameTree
    <3>1. UNCHANGED secs
      BY <1>13 DEF vars, layout
    <3> QED
      BY <3>1, UnchangedKeepsShape DEF LookInv, KeepsShape
  <2>2. Fits => Fits'
    BY <1>13, <2>1, SameSearch DEF Fits, vars, LookInv
  <2>3. Cached'
    BY <1>13, <2>2 DEF vars, LookInv, Cached
  <2>4. Shape' /\ Blocks' /\ InKid'
    BY <1>13, <2>1, TreeKeeps DEF vars, layout, LookInv, Shape
  <2> QED
    BY <2>3, <2>4 DEF LookInv
<1> QED
  BY <1>1, <1>2, <1>3, <1>4, <1>5, <1>6, <1>7, <1>8, <1>9, <1>10, <1>11, <1>12, <1>13, <1>14 DEF Next

(* No lookup returns an accessor that was freed, not even while the cache  *)
(* is marked and a kid forbids renewing it: it is renewed by the first     *)
(* lookup of the next rebuild, which comes before its kid.                 *)
THEOREM LookupsReachTreeCorrect == Spec => []LookupsReachTree
<1>1. Init => LookInv
  BY LookInit
<1>2. LookInv /\ [Next]_vars => LookInv'
  BY LookStep
<1>3. LookInv => LookupsReachTree
  BY DEF LookInv, Cached, Fits, LookupsReachTree
<1> QED
  BY <1>1, <1>2, <1>3, PTL DEF Spec

-----------------------------------------------------------------------------
(* Contents *)

Names(s) == [i \in DOMAIN secs[s].elems |-> secs[s].elems[i].name]

(* The elements of a section are called "a" or "b", each once but those of *)
(* a list.                                                                 *)
Named ==
    \A s \in Section :
        /\ \A i \in DOMAIN secs[s].elems : secs[s].elems[i].name \in {<<s, "a">>, <<s, "b">>}
        /\ Kind[s] # "list" => \A i, j \in DOMAIN secs[s].elems :
               secs[s].elems[i].name = secs[s].elems[j].name => i = j

(* A section under construction remembers what it is about to contain.     *)
Building ==
    /\ pc \in {"create", "adjust", "replace", "settle"} => cur \in Section
    /\ pc \in {"create", "adjust", "replace"} => secs[cur].branch = Branch(cur, key)
    /\ pc \in {"adjust", "replace"} =>
          /\ ~MissingFile(cur, key) /\ DOMAIN tmp = DOMAIN Body(cur, key)
          /\ \A i \in DOMAIN tmp : tmp[i].name = Body(cur, key)[i]

(* The others contain what they remember,                                  *)
Remembered ==
    \A s \in Section, v \in 0..MaxKey :
        /\ Kind[s] # "list" /\ ~(s = cur /\ pc \in {"create", "adjust", "replace"})
        /\ secs[s].branch = Branch(s, v) /\ Branch(s, v) # "NULL"
        => Names(s) = Body(s, v)

(* and the notified ones remember what the key asks for.                   *)
Notified(s) ==
    \/ pc = "idle" /\ result = "success"
    \/ pc # "idle" /\ s < cur
    \/ pc = "settle" /\ s = cur
Followed ==
    \A s \in Section :
        Kind[s] # "list" /\ Notified(s) => secs[s].branch = Branch(s, key) /\ Branch(s, key) # "NULL"

Content ==
    /\ key \in 0..MaxKey /\ cur \in Nat
    /\ Named /\ Building
    /\ failures \subseteq {"file not found", "outer encoding error"} => Remembered /\ Followed

ContentInv == LookInv /\ Content

LEMMA BranchBody ==
  ASSUME NEW s \in Section, Kind[s] # "list", NEW v \in 0..MaxKey, NEW w \in 0..MaxKey,
         Branch(s, v) = Branch(s, w), Branch(s, v) # "NULL"
  PROVE  Body(s, v) = Body(s, w)
  BY DEF Branch, Body

LEMMA BodyNamed ==
  ASSUME NEW s \in Section, NEW v \in Nat
  PROVE  /\ \A i \in DOMAIN Body(s, v) : Body(s, v)[i] \in {<<s, "a">>, <<s, "b">>}
         /\ Kind[s] # "list" => \A i, j \in DOMAIN Body(s, v) : Body(s, v)[i] = Body(s, v)[j] => i = j
<1>1. CASE Kind[s] = "list"
  BY <1>1 DEF Body
<1>2. CASE Kind[s] # "list" /\ v # 0
  BY <1>2 DEF Body
<1>3. CASE Kind[s] # "list" /\ v = 0
  BY <1>3 DEF Body
<1> QED
  BY <1>1, <1>2, <1>3

(* A step that leaves the elements their names.                            *)
LEMMA NamesKept ==
  ASSUME Named, SameTree
  PROVE  Named' /\ \A s \in Section : Names(s)' = Names(s)
  BY DEF Named, SameTree, Names

(* A step that leaves the sections and what is under construction.         *)
LEMMA ContentKept ==
  ASSUME Content, SameTree, UNCHANGED <<key, cur, pc, tmp, result, failures>>,
         \A s \in Section : secs'[s].branch = secs[s].branch
  PROVE  Content'
<1>1. Named' /\ \A s \in Section : Names(s)' = Names(s)
  BY NamesKept DEF Content
<1>2. Building'
  BY DEF Content, Building
<1>3. Remembered => Remembered'
  BY <1>1 DEF Remembered
<1>4. Followed => Followed'
  BY DEF Followed, Notified
<1> QED
  BY <1>1, <1>2, <1>3, <1>4 DEF Content

LEMMA ContentInit == ASSUME Init PROVE Content
<1>0. MaxKey \in Nat
  BY KindAssumption DEF KindAssumption
<1>1. key \in 0..MaxKey /\ \A s \in Section : ~MissingFile(s, key)
  BY DEF Init
<1>2. ASSUME NEW s \in Section
      PROVE  /\ secs[s].branch = Branch(s, key)
             /\ DOMAIN secs[s].elems = DOMAIN Body(s, key)
             /\ \A i \in DOMAIN Body(s, key) : secs[s].elems[i].name = Body(s, key)[i]
  BY DEF Init, InitSections, Sized
<1>3. Named
  BY <1>0, <1>1, <1>2, BodyNamed DEF Named
<1>4. Building
  BY DEF Init, Building
<1>5. ASSUME NEW s \in Section, NEW v \in 0..MaxKey, Kind[s] # "list", secs[s].branch = Branch(s, v),
             Branch(s, v) # "NULL"
      PROVE  Names(s) = Body(s, v)
  <2>1. Body(s, v) = Body(s, key)
    BY <1>1, <1>2, <1>5, BranchBody
  <2>2. Body(s, key) = [i \in DOMAIN Body(s, key) |-> Body(s, key)[i]]
    BY <1>5 DEF Body
  <2>3. Names(s) = Body(s, key)
    BY <1>2, <2>2, Zenon DEF Names
  <2> QED
    BY <2>1, <2>3
<1>6. Remembered
  BY <1>5 DEF Remembered
<1>7. Followed
  BY <1>1, <1>2 DEF Followed, Branch
<1> QED
  BY <1>1, <1>3, <1>4, <1>6, <1>7 DEF Init, Content

LEMMA ContentStep == ASSUME ContentInv, [Next]_vars PROVE Content'
<1>0. Section = 1..Len(Kind) /\ Len(Kind) \in Nat /\ MaxKey \in Nat
  BY KindAssumption DEF KindAssumption, Section
<1> USE DEF ContentInv
<1>a. key \in Nat /\ key \in 0..MaxKey /\ cur \in Nat
  <2>1. key \in 0..MaxKey /\ cur \in Nat
    BY DEF Content
  <2> QED
    BY <1>0, <2>1
<1>1. ASSUME NEW name \in Name, Get(name) PROVE Content'
  BY <1>1, ContentKept DEF Get, layout, SameTree
<1>2. ASSUME NEW name \in Section \X {"a", "b"}, NEW x \in {0, 1}, SetValue(name, x)
      PROVE  Content'
  <2>1. SameTree
    BY <1>2, SetValueKeeps DEF KeepsShape
  <2>2. \A s \in Section : secs'[s].branch = secs[s].branch
    BY <1>2 DEF SetValue, LookInv, Shape, SectionFields
  <2> QED
    BY <1>2, <2>1, <2>2, ContentKept DEF SetValue
<1>3. ASSUME NEW v \in 0..MaxKey, SetKey(v) PROVE Content'
  <2>1. /\ pc = "idle" /\ pc' = "notify" /\ cur' = 1 /\ key' = v
        /\ UNCHANGED <<secs, failures>>
    BY <1>3 DEF SetKey, layout
  <2>2. Named' /\ \A s \in Section : Names(s)' = Names(s)
    BY <2>1, NamesKept DEF Content, SameTree
  <2>3. Remembered => Remembered'
    BY <2>1, <2>2 DEF Remembered
  <2>4. Followed'
    BY <1>0, <2>1 DEF Followed, Notified
  <2>5. Building'
    BY <2>1 DEF Building
  <2> QED
    BY <2>1, <2>2, <2>3, <2>4, <2>5 DEF Content
<1>4. ASSUME NEW s \in Section, Ignore(s) PROVE Content'
  <2>1. /\ pc = "notify" /\ pc' = pc /\ cur = s /\ cur' = s + 1
        /\ Branch(s, key) # "NULL" /\ Branch(s, key) = secs[s].branch
        /\ UNCHANGED <<key, secs, failures>>
    BY <1>4 DEF Ignore, Reparse, Ignored, layout
  <2>2. Named' /\ \A r \in Section : Names(r)' = Names(r)
    BY <2>1, NamesKept DEF Content, SameTree
  <2>3. Remembered => Remembered'
    BY <2>1, <2>2 DEF Remembered
  <2>4. Followed => Followed'
    BY <1>0, <2>1 DEF Followed, Notified
  <2>5. Building'
    BY <2>1 DEF Building
  <2> QED
    <3>1. cur' \in Nat
      BY <1>a, <2>1
    <3> QED
      BY <2>1, <2>2, <2>3, <2>4, <2>5, <3>1 DEF Content
<1>5. ASSUME NEW s \in Section, StartRebuild(s) PROVE Content'
  <2>1. /\ pc = "notify" /\ cur = s /\ key' = key
        /\ secs' = [secs EXCEPT ![s].branch = Branch(s, key)]
    BY <1>5 DEF StartRebuild, Reparse
  <2>2. \A r \in Section : secs'[r].elems = secs[r].elems
    BY <2>1 DEF LookInv, Shape, SectionFields
  <2>3. Named' /\ \A r \in Section : Names(r)' = Names(r)
    BY <2>2, NamesKept DEF Content, SameTree
  <2>4. CASE kid
    <3>1. pc' = "idle" /\ cur' = 0 /\ "internal error" \in failures'
      BY <1>5, <2>4 DEF StartRebuild, Fail
    <3> QED
      BY <2>1, <2>3, <3>1 DEF Content, Building
  <2>5. CASE ~kid
    <3>1. pc' = "create" /\ cur' = cur /\ failures' = failures
      BY <1>5, <2>5 DEF StartRebuild
    <3>2. secs'[s].branch = Branch(s, key) /\ \A r \in Section \ {s} : secs'[r].branch = secs[r].branch
      BY <2>1 DEF LookInv, Shape, SectionFields
    <3>3. Building'
      BY <2>1, <3>1, <3>2 DEF Building, Branch, MissingFile
    <3>4. Remembered => Remembered'
      BY <2>1, <2>3, <3>1, <3>2 DEF Remembered
    <3>5. Followed => Followed'
      BY <1>0, <2>1, <3>1, <3>2 DEF Followed, Notified
    <3> QED
      BY <2>1, <2>3, <3>1, <3>3, <3>4, <3>5 DEF Content
  <2> QED
    BY <2>4, <2>5
<1>6. ASSUME NEW s \in Section, Create(s) PROVE Content'
  <2>1. /\ pc = "create" /\ pc' = "adjust" /\ cur = s /\ ~MissingFile(s, key)
        /\ UNCHANGED <<key, secs, cur, failures>>
    BY <1>6 DEF Create, layout
  <2>2. Named' /\ \A r \in Section : Names(r)' = Names(r)
    BY <2>1, NamesKept DEF Content, SameTree
  <2>3. Remembered => Remembered'
    BY <2>1, <2>2 DEF Remembered
  <2>4. Followed => Followed'
    BY <2>1 DEF Followed, Notified
  <2>5. Building'
    <3>1. /\ DOMAIN tmp' = DOMAIN Body(s, key)
          /\ \A i \in DOMAIN Body(s, key) : tmp'[i].name = Body(s, key)[i]
      BY <1>a, <1>6, Created
    <3>2. Body(cur, key)' = Body(cur, key) /\ Branch(cur, key)' = Branch(cur, key)
          /\ MissingFile(cur, key)' = MissingFile(cur, key)
      BY <2>1 DEF Body, Branch, MissingFile
    <3> QED
      BY <2>1, <3>1, <3>2 DEF Building, Content
  <2> QED
    BY <2>1, <2>2, <2>3, <2>4, <2>5 DEF Content
<1>7. ASSUME NEW s \in Section, CreateFails(s) PROVE Content'
  <2>1. /\ pc = "create" /\ pc' = "idle" /\ cur = s /\ cur' = 0
        /\ UNCHANGED <<key, secs>>
        /\ failures' = failures \cup {CreateError(s)} /\ result' = CreateError(s)
    BY <1>7 DEF CreateFails, Fail, layout
  <2>2. Named' /\ \A r \in Section : Names(r)' = Names(r)
    BY <2>1, NamesKept DEF Content, SameTree
  <2>3. CASE MissingFile(s, key)
    <3>1. Branch(s, key) = "NULL" /\ secs[s].branch = Branch(s, key)
      BY <2>1, <2>3 DEF Content, Building, Branch, MissingFile
    <3>2. Remembered => Remembered'
      BY <2>1, <2>2, <3>1 DEF Remembered
    <3>3. Followed'
      BY <2>1 DEF Followed, Notified, CreateError
    <3> QED
      BY <2>1, <2>2, <3>2, <3>3 DEF Content, Building
  <2>4. CASE ~MissingFile(s, key)
    BY <2>1, <2>2, <2>4 DEF Content, Building, CreateError
  <2> QED
    BY <2>3, <2>4
<1>8. ASSUME NEW s \in Section, Replace(s) PROVE Content'
  <2>1. /\ pc = "replace" /\ pc' = "settle" /\ cur = s
        /\ UNCHANGED <<key, cur, failures>>
    BY <1>8 DEF Replace
  <2>2. /\ secs[s].branch = Branch(s, key) /\ ~MissingFile(s, key)
        /\ DOMAIN tmp = DOMAIN Body(s, key) /\ \A i \in DOMAIN tmp : tmp[i].name = Body(s, key)[i]
    BY <2>1 DEF Content, Building
  <2>3. /\ DOMAIN secs'[s].elems = DOMAIN Body(s, key)
        /\ \A i \in DOMAIN Body(s, key) : secs'[s].elems[i].name = Body(s, key)[i]
    BY <1>8, <2>2, Replaced
  <2>4. ASSUME NEW r \in Section \ {s}
        PROVE  /\ DOMAIN secs'[r].elems = DOMAIN secs[r].elems
               /\ \A i \in DOMAIN secs[r].elems : secs'[r].elems[i].name = secs[r].elems[i].name
               /\ Names(r)' = Names(r)
    BY <1>8, Replaced DEF Names
  <2>5. \A r \in Section : secs'[r].branch = secs[r].branch
    BY <1>8, Replaced
  <2>6. Named'
    <3>1. ASSUME NEW r \in Section
          PROVE  /\ \A i \in DOMAIN secs'[r].elems : secs'[r].elems[i].name \in {<<r, "a">>, <<r, "b">>}
                 /\ Kind[r] # "list" => \A i, j \in DOMAIN secs'[r].elems :
                        secs'[r].elems[i].name = secs'[r].elems[j].name => i = j
      <4>1. CASE r = s
        BY <1>a, <2>3, <4>1, BodyNamed
      <4>2. CASE r # s
        BY <2>4, <4>2 DEF Content, Named
      <4> QED
        BY <4>1, <4>2
    <3> QED
      BY <3>1 DEF Named
  <2>7. ASSUME NEW v \in 0..MaxKey, Kind[s] # "list", Branch(s, key) = Branch(s, v), Branch(s, v) # "NULL"
        PROVE  Names(s)' = Body(s, v)
    <3>1. Body(s, v) = Body(s, key)
      BY <2>7, BranchBody DEF Content
    <3>2. Body(s, key) = [i \in DOMAIN Body(s, key) |-> Body(s, key)[i]]
      BY <2>7 DEF Body
    <3>3. Names(s)' = [i \in DOMAIN Body(s, key) |-> secs'[s].elems[i].name]
      BY <2>3 DEF Names
    <3> QED
      BY <2>3, <3>1, <3>2, <3>3, Zenon
  <2>8. Remembered => Remembered'
    <3>1. ASSUME Remembered, NEW r \in Section, NEW v \in 0..MaxKey, Kind[r] # "list",
                 secs'[r].branch = Branch(r, v), Branch(r, v) # "NULL"
          PROVE  Names(r)' = Body(r, v)
      <4>1. CASE r = s
        BY <2>2, <2>5, <2>7, <3>1, <4>1
      <4>2. CASE r # s
        BY <2>1, <2>4, <2>5, <3>1, <4>2 DEF Remembered
      <4> QED
        BY <4>1, <4>2
    <3> QED
      BY <3>1 DEF Remembered
  <2>9. Branch(s, key) # "NULL"
    BY <2>2 DEF Branch
  <2>10. Followed => Followed'
    BY <2>1, <2>2, <2>5, <2>9 DEF Followed, Notified
  <2>11. Building'
    BY <2>1 DEF Building
  <2> QED
    BY <2>1, <2>6, <2>8, <2>10, <2>11 DEF Content
<1>9. CASE AdjustKid
  <2>1. pc = "adjust" /\ pc' = "replace" /\ UNCHANGED <<key, secs, cur, tmp, failures>>
    BY <1>9 DEF AdjustKid, layout
  <2>2. Named' /\ \A r \in Section : Names(r)' = Names(r)
    BY <2>1, NamesKept DEF Content, SameTree
  <2>3. Remembered => Remembered'
    BY <2>1, <2>2 DEF Remembered
  <2>4. Followed => Followed'
    BY <2>1 DEF Followed, Notified
  <2>5. Building'
    BY <2>1 DEF Building, Content
  <2> QED
    BY <2>1, <2>2, <2>3, <2>4, <2>5 DEF Content
<1>10. CASE AdjustKidFails
  <2>1. /\ pc' = "idle" /\ cur' = 0 /\ "encoding error" \in failures'
        /\ UNCHANGED <<key, secs>>
    BY <1>10 DEF AdjustKidFails, Fail, layout
  <2>2. Named'
    BY <2>1, NamesKept DEF Content, SameTree
  <2> QED
    BY <2>1, <2>2 DEF Content, Building
<1>11. CASE Settle
  <2>1. pc = "settle" /\ key' = key
    BY <1>11 DEF Settle
  <2>2. CASE Contiguous
    <3>1. /\ secs' = [r \in Section |-> [secs[r] EXCEPT !.len = Bytes(secs[r].elems)]]
          /\ pc' = "notify" /\ cur' = cur + 1 /\ failures' = failures
      BY <1>11, <2>2 DEF Settle, Measured
    <3>2. \A r \in Section : secs'[r].elems = secs[r].elems /\ secs'[r].branch = secs[r].branch
      BY <3>1 DEF LookInv, Shape, SectionFields
    <3>3. Named' /\ \A r \in Section : Names(r)' = Names(r)
      BY <3>2, NamesKept DEF Content, SameTree
    <3>4. Remembered => Remembered'
      BY <2>1, <3>1, <3>2, <3>3 DEF Remembered
    <3>5. Followed => Followed'
      <4>1. ASSUME NEW r \in Section, r < cur + 1
            PROVE  r < cur \/ r = cur
        BY <1>0, <1>a, <4>1
      <4>2. ASSUME Followed, NEW r \in Section, Kind[r] # "list", r < cur + 1
            PROVE  secs[r].branch = Branch(r, key) /\ Branch(r, key) # "NULL"
        BY <2>1, <4>1, <4>2 DEF Followed, Notified
      <4>3. \A r \in Section : secs'[r].branch = secs[r].branch /\ Branch(r, key)' = Branch(r, key)
        BY <2>1, <3>2 DEF Branch, MissingFile
      <4> QED
        BY <2>1, <3>1, <4>2, <4>3 DEF Followed, Notified
    <3>6. Building'
      BY <3>1 DEF Building
    <3> QED
      <4>1. cur' \in Nat
        BY <1>a, <3>1
      <4> QED
        BY <2>1, <3>1, <3>3, <3>4, <3>5, <3>6, <4>1 DEF Content
  <2>3. CASE ~Contiguous
    <3>1. pc' = "idle" /\ cur' = 0 /\ "decoding error" \in failures' /\ secs' = secs
      BY <1>11, <2>3 DEF Settle, Fail
    <3>2. Named'
      BY <3>1, NamesKept DEF Content, SameTree
    <3> QED
      BY <2>1, <3>1, <3>2 DEF Content, Building
  <2> QED
    BY <2>2, <2>3
<1>14. ASSUME NEW d \in 1..Depth, SettleFails(d) PROVE Content'
  <2>1. /\ pc = "settle" /\ pc' = "idle" /\ cur' = 0 /\ result' = "outer encoding error"
        /\ key' = key /\ failures \subseteq failures'
        /\ secs' = [r \in Section |-> [secs[r] EXCEPT !.len = Bytes(secs[r].elems)]]
    BY <1>14 DEF SettleFails, Fail, Measured
  <2>2. \A r \in Section : secs'[r].elems = secs[r].elems /\ secs'[r].branch = secs[r].branch
    BY <2>1 DEF LookInv, Shape, SectionFields
  <2>3. Named' /\ \A r \in Section : Names(r)' = Names(r)
    BY <2>2, NamesKept DEF Content, SameTree
  <2>4. Remembered => Remembered'
    BY <2>1, <2>2, <2>3 DEF Remembered
  <2>5. Followed'
    BY <2>1 DEF Followed, Notified
  <2>6. Building'
    BY <2>1 DEF Building
  <2> QED
    BY <2>1, <2>3, <2>4, <2>5, <2>6 DEF Content
<1>12. CASE Return
  <2>1. /\ pc = "notify" /\ pc' = "idle" /\ cur > Len(Kind) /\ cur' = 0
        /\ UNCHANGED <<key, secs, failures>>
    BY <1>12 DEF Return, layout
  <2>2. Named' /\ \A r \in Section : Names(r)' = Names(r)
    BY <2>1, NamesKept DEF Content, SameTree
  <2>3. Remembered => Remembered'
    BY <2>1, <2>2 DEF Remembered
  <2>4. Followed => Followed'
    BY <1>0, <1>a, <2>1 DEF Followed, Notified
  <2>5. Building'
    BY <2>1 DEF Building
  <2> QED
    BY <2>1, <2>2, <2>3, <2>4, <2>5 DEF Content
<1>13. CASE UNCHANGED vars
  BY <1>13, ContentKept DEF vars, layout, SameTree
<1> QED
  BY <1>1, <1>2, <1>3, <1>4, <1>5, <1>6, <1>7, <1>8, <1>9, <1>10, <1>11, <1>12, <1>13, <1>14 DEF Next

LEMMA ContentInvariant == Spec => []ContentInv
<1>1. Init => ContentInv
  BY LookInit, ContentInit DEF ContentInv
<1>2. ContentInv /\ [Next]_vars => ContentInv'
  BY LookStep, ContentStep DEF ContentInv
<1> QED
  BY <1>1, <1>2, PTL DEF Spec

(* Up to the first failure other than a missing file or a length outside   *)
(* the section, a set of the key that succeeds leaves every section but    *)
(* the lists with what the key asks for.                                   *)
THEOREM ContentFollowsKeyCorrect == Spec => []ContentFollowsKey
<1>1. ContentInv => ContentFollowsKey
  <2>1. SUFFICES ASSUME ContentInv, pc = "idle", result = "success", failures \subseteq {"file not found", "outer encoding error"},
                        NEW s \in Section, Kind[s] # "list"
                 PROVE  HasBody(s)
    BY DEF ContentFollowsKey
  <2>2. secs[s].branch = Branch(s, key) /\ Branch(s, key) # "NULL"
    BY <2>1 DEF ContentInv, Content, Followed, Notified
  <2>3. Names(s) = Body(s, key)
    BY <2>1, <2>2 DEF ContentInv, Content, Remembered
  <2> QED
    BY <2>3 DEF Names, HasBody
<1> QED
  BY <1>1, ContentInvariant, PTL

-----------------------------------------------------------------------------
(* Values *)

(* An address is that of one accessor.                                     *)
LEMMA ValueThere == ASSUME Blocks, NEW p \in Places PROVE ValueOf(At(p).addr) = At(p).val
<1> DEFINE places == {q \in Places : At(q).addr = At(p).addr}
<1>1. ASSUME NEW q \in places PROVE q = p
  <2>1. q[1] = p[1]
    BY DEF Blocks
  <2>2. q[2] = p[2]
    BY DEF Blocks
  <2> QED
    BY <2>1, <2>2 DEF Places
<1>2. p \in places
  OBVIOUS
<1>3. (CHOOSE q \in places : TRUE) = p
  BY <1>1, <1>2
<1> QED
  BY <1>2, <1>3 DEF ValueOf

LEMMA ValuesCopied ==
  ASSUME ContentInv, NEW s \in Section, Kind[s] # "list", Create(s),
         NEW i \in DOMAIN tmp', NEW p \in Places, At(p).name = tmp'[i].name
  PROVE  tmp'[i].val = At(p).val
<1> DEFINE name == Body(s, key)[i]
<1>0. key \in Nat
  BY DEF ContentInv, LookInv, Shape
<1>1. i \in DOMAIN Body(s, key) /\ tmp'[i].name = name /\ tmp'[i].val = ValueOf(Found(name))
  BY <1>0, Created DEF Copied
<1>2. name \in {<<s, "a">>, <<s, "b">>}
  BY <1>0, <1>1, BodyNamed
<1>3. name \in Name \ {N, T}
  <2>1. s # 0
    BY KindAssumption DEF KindAssumption, Section
  <2> QED
    BY <1>2, <2>1 DEF Name, N, T
<1>4. ASSUME NEW q \in PlacesOf(name) PROVE q = p
  <2>1. /\ q \in Places /\ q[1] \in Section /\ q[2] \in DOMAIN secs[q[1]].elems /\ q = <<q[1], q[2]>>
        /\ p[1] \in Section /\ p[2] \in DOMAIN secs[p[1]].elems /\ p = <<p[1], p[2]>>
    BY DEF PlacesOf, Places
  <2>2. secs[q[1]].elems[q[2]].name = name /\ secs[p[1]].elems[p[2]].name = name
    BY <1>1 DEF PlacesOf, At
  <2> HIDE DEF name
  <2>3. q[1] = s /\ p[1] = s
    <3>1. \A r \in Section : \A j \in DOMAIN secs[r].elems :
              secs[r].elems[j].name \in {<<r, "a">>, <<r, "b">>}
      BY DEF ContentInv, Content, Named
    <3>2. name \in {<<q[1], "a">>, <<q[1], "b">>} /\ name \in {<<p[1], "a">>, <<p[1], "b">>}
      BY <2>1, <2>2, <3>1
    <3> QED
      BY <1>2, <3>2
  <2>4. q[2] = p[2]
    <3>1. \A j, k \in DOMAIN secs[s].elems : secs[s].elems[j].name = secs[s].elems[k].name => j = k
      BY DEF ContentInv, Content, Named
    <3> QED
      BY <2>1, <2>2, <2>3, <3>1
  <2> QED
    BY <2>1, <2>3, <2>4
<1>5. p \in PlacesOf(name)
  BY <1>1 DEF PlacesOf
<1> HIDE DEF name
<1>6. Search(name) = At(p).addr
  BY <1>3, <1>4, <1>5, SearchFinds DEF ContentInv, LookInv
<1>7. Found(name) = Search(name)
  BY <1>3, LookupFinds DEF ContentInv, LookInv
<1> QED
  BY <1>1, <1>6, <1>7, ValueThere DEF ContentInv, LookInv

(* A new section starts with the values that its names have in the message,*)
(* which are those of the section it replaces.                             *)
THEOREM ValuesSurviveCorrect == Spec => ValuesSurvive
<1> DEFINE Copying == pc = "create" /\ pc' = "adjust" /\ Kind[cur] # "list" =>
        \A i \in DOMAIN tmp' : \A p \in Places :
            At(p).name = tmp'[i].name => tmp'[i].val = At(p).val
<1>1. ContentInv /\ [Next]_vars => [Copying]_vars
  <2>1. SUFFICES ASSUME ContentInv, Next, pc = "create", pc' = "adjust", Kind[cur] # "list",
                        NEW i \in DOMAIN tmp', NEW p \in Places, At(p).name = tmp'[i].name
                 PROVE  tmp'[i].val = At(p).val
    OBVIOUS
  <2>2. PICK s \in Section : cur = s /\ Create(s)
    BY <2>1 DEF Next, Get, SetValue, SetKey, Ignore, Reparse, StartRebuild, Create, CreateFails, Replace,
                AdjustKid, AdjustKidFails, Settle, SettleFails, Return, Fail
  <2> QED
    BY <2>1, <2>2, ValuesCopied
<1> QED
  BY <1>1, ContentInvariant, PTL DEF Spec, ValuesSurvive

-----------------------------------------------------------------------------
(* Layout *)

(* A list of elements, and the bytes of each.                              *)
IsList(elems) ==
    /\ \E n \in Nat : DOMAIN elems = 1..n
    /\ elems = [i \in DOMAIN elems |-> elems[i]]
    /\ \A i \in DOMAIN elems :
          DOMAIN elems[i] = ElementFields /\ elems[i] = [x \in ElementFields |-> elems[i][x]]
Sizes(elems) == [i \in DOMAIN elems |-> SizeOf(elems[i].name)]

LEMMA ListTypes ==
  ASSUME NEW elems, IsList(elems)
  PROVE  /\ Len(elems) \in Nat /\ DOMAIN elems = 1..Len(elems)
         /\ elems \in Seq({elems[i] : i \in DOMAIN elems})
         /\ \A i \in 1..Len(elems) : Sizes(elems)[i] \in Nat /\ Sizes(elems)[i] = SizeOf(elems[i].name)
<1>1. PICK n \in Nat : DOMAIN elems = 1..n
  BY DEF IsList
<1>2. elems \in [1..n -> {elems[i] : i \in DOMAIN elems}]
  BY <1>1 DEF IsList
<1>3. Len(elems) = n /\ elems \in Seq({elems[i] : i \in DOMAIN elems})
  BY <1>2, SMTT(30)
<1> QED
  BY <1>1, <1>3 DEF Sizes, SizeOf

(* Bytes adds them.                                                        *)
LEMMA BytesSum ==
  ASSUME NEW elems, IsList(elems)
  PROVE  Bytes(elems) = SumTo(Sizes(elems), Len(elems)) /\ Bytes(elems) \in Nat
<1> DEFINE n == Len(elems)
           w == Sizes(elems)
           C == CHOOSE F : F = [s \in SUBSET (1..n) |->
                                  IF s = {} THEN 0 ELSE F[s \ {Max(s)}] + SizeOf(elems[Max(s)].name)]
<1>1. n \in Nat /\ DOMAIN elems = 1..n /\ \A i \in 1..n : w[i] \in Nat /\ w[i] = SizeOf(elems[i].name)
  BY ListTypes
<1>2. Bytes(elems) = C[1..n]
  <2> HIDE DEF n
  <2> QED
    BY <1>1 DEF Bytes, FoldLeft, MapThenFoldSet
<1> HIDE DEF n, w
<1>3. ASSUME NEW s \in SUBSET (1..n), s # {} PROVE SizeOf(elems[Max(s)].name) = w[Max(s)]
  <2>1. Max(s) \in 1..n
    BY <1>1, <1>3, MaxOf
  <2> QED
    BY <1>1, <2>1
<1>4. PICK F : Sums(w, n, F)
  BY <1>1, SumExists, SMTT(30)
<1>5. F = [s \in SUBSET (1..n) |-> IF s = {} THEN 0 ELSE F[s \ {Max(s)}] + SizeOf(elems[Max(s)].name)]
  BY <1>3, <1>4 DEF Sums
<1>6. C = [s \in SUBSET (1..n) |-> IF s = {} THEN 0 ELSE C[s \ {Max(s)}] + SizeOf(elems[Max(s)].name)]
  BY <1>5
<1> HIDE DEF C
<1>7. Sums(w, n, C)
  BY <1>3, <1>6 DEF Sums
<1>8. PICK H : Adds(w, n, H) /\ C[1..n] = H[n]
  BY <1>1, <1>7, SumsAdd
<1>9. Bytes(elems) = SumTo(w, n)
  BY <1>1, <1>2, <1>8, SumOf
<1>10. SumTo(w, n) \in Nat
  <2>1. n \in 0..n
    BY <1>1
  <2> QED
    BY <1>1, <2>1, SumGrows
<1> QED
  BY <1>9, <1>10 DEF n, w

(* Those before the i-th one are the first i - 1.                          *)
LEMMA BytesBefore ==
  ASSUME NEW elems, IsList(elems), NEW i \in DOMAIN elems
  PROVE  Bytes(SubSeq(elems, 1, i - 1)) = SumTo(Sizes(elems), i - 1) /\ SumTo(Sizes(elems), i - 1) \in Nat
<1> DEFINE n == Len(elems)
           S == {elems[k] : k \in DOMAIN elems}
           head == SubSeq(elems, 1, i - 1)
<1>1. n \in Nat /\ DOMAIN elems = 1..n /\ elems \in Seq(S)
      /\ \A k \in 1..n : Sizes(elems)[k] \in Nat /\ Sizes(elems)[k] = SizeOf(elems[k].name)
  BY ListTypes
<1>2. i \in 1..n /\ i - 1 \in Nat /\ i - 1 \in 0..n
  BY <1>1
<1> HIDE DEF S, n
<1>3. /\ Len(head) = i - 1 /\ head = [k \in 1..(i - 1) |-> head[k]] /\ DOMAIN head = 1..(i - 1)
      /\ \A k \in 1..(i - 1) : head[k] = elems[k]
  BY <1>1, <1>2
<1>4. IsList(head)
  <2>1. \A k \in 1..(i - 1) : k \in DOMAIN elems
    BY <1>1, <1>2
  <2>2. \A k \in DOMAIN head : DOMAIN head[k] = ElementFields /\ head[k] = [x \in ElementFields |-> head[k][x]]
    BY <1>3, <2>1 DEF IsList
  <2> QED
    BY <1>2, <1>3, <2>2 DEF IsList
<1> HIDE DEF head
<1>5. Bytes(head) = SumTo(Sizes(head), i - 1) /\ Bytes(head) \in Nat
  BY <1>3, <1>4, BytesSum
<1>6. \A k \in 1..(i - 1) : Sizes(head)[k] \in Nat /\ Sizes(head)[k] = SizeOf(head[k].name)
  BY <1>3, <1>4, ListTypes
<1>7. Agree(Sizes(head), Sizes(elems), i - 1)
  <2>1. \A k \in 1..(i - 1) : k \in 1..n
    BY <1>1, <1>2
  <2> QED
    BY <1>1, <1>3, <1>6, <2>1 DEF Agree
<1>8. SumTo(Sizes(head), i - 1) = SumTo(Sizes(elems), i - 1)
  BY <1>2, <1>6, <1>7, SumSame
<1> QED
  BY <1>5, <1>8 DEF head

(* Each element lies where those before it end.                            *)
Lies(elems, from) == \A i \in DOMAIN elems : elems[i].off = from + SumTo(Sizes(elems), i - 1)

(* The elements are the same but for where they lie and their values.      *)
Alike(e, f) == DOMAIN f = DOMAIN e /\ \A i \in DOMAIN e : f[i].name = e[i].name

LEMMA AlikeSizes ==
  ASSUME NEW e, NEW f, Alike(e, f)
  PROVE  Sizes(f) = Sizes(e)
  BY DEF Alike, Sizes

LEMMA AlikeBytes ==
  ASSUME NEW e, NEW f, IsList(e), IsList(f), Alike(e, f)
  PROVE  Bytes(f) = Bytes(e)
<1>1. Len(e) = Len(f)
  <2>1. DOMAIN e = 1..Len(e) /\ DOMAIN f = 1..Len(f) /\ Len(e) \in Nat /\ Len(f) \in Nat
    BY ListTypes
  <2> QED
    BY <2>1 DEF Alike
<1> QED
  BY <1>1, AlikeSizes, BytesSum

(* Sized puts the elements there, and nothing else does.                   *)
LEMMA SizedLies ==
  ASSUME NEW e, IsList(e), NEW from
  PROVE  /\ IsList(Sized(e, from)) /\ Alike(e, Sized(e, from)) /\ Lies(Sized(e, from), from)
         /\ Lies(e, from) <=> e = Sized(e, from)
<1> DEFINE f == Sized(e, from)
<1>1. \A i \in DOMAIN e : Bytes(SubSeq(e, 1, i - 1)) = SumTo(Sizes(e), i - 1)
  BY BytesBefore
<1>2. f = [i \in DOMAIN e |-> [e[i] EXCEPT !.off = from + SumTo(Sizes(e), i - 1)]]
  BY <1>1 DEF Sized
<1>3. DOMAIN f = DOMAIN e /\ f = [i \in DOMAIN f |-> f[i]]
  BY <1>2
<1>4. \A i \in DOMAIN e : /\ f[i] = [e[i] EXCEPT !.off = from + SumTo(Sizes(e), i - 1)]
                          /\ f[i].off = from + SumTo(Sizes(e), i - 1) /\ f[i].name = e[i].name
  BY <1>2 DEF ElementFields, IsList
<1>a. \A i \in DOMAIN e : DOMAIN f[i] = ElementFields /\ f[i] = [x \in ElementFields |-> f[i][x]]
  BY <1>4 DEF IsList
<1> HIDE DEF f
<1>5. IsList(f)
  BY <1>3, <1>a DEF IsList
<1>6. Alike(e, f)
  BY <1>3, <1>4 DEF Alike
<1>7. Lies(f, from)
  BY <1>3, <1>4, <1>6, AlikeSizes DEF Lies
<1>8. ASSUME Lies(e, from) PROVE e = f
  <2>1. ASSUME NEW i \in DOMAIN e PROVE f[i] = e[i]
    <3>1. f[i] = [e[i] EXCEPT !.off = e[i].off]
      BY <1>4, <1>8 DEF Lies
    <3>2. e[i] = [x \in ElementFields |-> e[i][x]]
      BY DEF IsList
    <3> QED
      BY <3>1, <3>2
  <2> QED
    BY <1>3, <2>1 DEF IsList
<1> QED
  BY <1>5, <1>6, <1>7, <1>8 DEF f

(* Shift moves them, so that they lie one behind the other as before.      *)
LEMMA ShiftLies ==
  ASSUME NEW e, IsList(e), NEW from \in Int, Lies(e, from),
         NEW d \in Int
  PROVE  IsList(Shift(e, d)) /\ Alike(e, Shift(e, d)) /\ Lies(Shift(e, d), from + d)
<1> DEFINE f == Shift(e, d)
<1>1. DOMAIN f = DOMAIN e /\ f = [i \in DOMAIN f |-> f[i]]
  BY DEF Shift
<1>2. \A i \in DOMAIN e : f[i].off = e[i].off + d /\ f[i].name = e[i].name
  BY DEF Shift, ElementFields, IsList
<1>a. \A i \in DOMAIN e : DOMAIN f[i] = ElementFields /\ f[i] = [x \in ElementFields |-> f[i][x]]
  BY DEF Shift, IsList
<1> HIDE DEF f
<1>3. IsList(f)
  BY <1>1, <1>a DEF IsList
<1>4. Alike(e, f)
  BY <1>1, <1>2 DEF Alike
<1>5. ASSUME NEW i \in DOMAIN f PROVE f[i].off = (from + d) + SumTo(Sizes(f), i - 1)
  <2>1. SumTo(Sizes(e), i - 1) \in Nat
    BY <1>1, BytesBefore
  <2>2. f[i].off = e[i].off + d /\ e[i].off = from + SumTo(Sizes(e), i - 1)
    BY <1>1, <1>2 DEF Lies
  <2> QED
    BY <1>4, <2>1, <2>2, AlikeSizes
<1> QED
  BY <1>3, <1>4, <1>5 DEF Lies, f

(* Elements one behind the other.                                          *)
LEMMA BytesBehind ==
  ASSUME NEW e, NEW f, IsList(e), IsList(f)
  PROVE  IsList(e \o f) /\ Bytes(e \o f) = Bytes(e) + Bytes(f)
<1> DEFINE S == {e[i] : i \in DOMAIN e} \cup {f[i] : i \in DOMAIN f}
           g == e \o f
<1>1. /\ Len(e) \in Nat /\ DOMAIN e = 1..Len(e) /\ e \in Seq(S)
      /\ Len(f) \in Nat /\ DOMAIN f = 1..Len(f) /\ f \in Seq(S)
  <2>1. e \in Seq({e[i] : i \in DOMAIN e}) /\ f \in Seq({f[i] : i \in DOMAIN f})
    BY ListTypes
  <2> QED
    BY <2>1, ListTypes
<1> HIDE DEF S
<1>2. /\ Len(g) = Len(e) + Len(f) /\ DOMAIN g = 1..(Len(e) + Len(f)) /\ g = [i \in DOMAIN g |-> g[i]]
      /\ \A i \in 1..Len(e) : g[i] = e[i]
      /\ \A i \in 1..Len(f) : g[Len(e) + i] = f[i]
  <2>1. Len(g) = Len(e) + Len(f) /\ DOMAIN g = 1..(Len(e) + Len(f)) /\ g = [i \in DOMAIN g |-> g[i]]
    <3>1. g \in Seq(S) /\ Len(g) = Len(e) + Len(f)
      BY <1>1
    <3> HIDE DEF g
    <3>2. Len(e) + Len(f) \in Nat /\ g \in [1..(Len(e) + Len(f)) -> S]
      BY <1>1, <3>1
    <3> QED
      BY <3>1, <3>2
  <2>2. \A i \in 1..Len(e) : g[i] = e[i]
    BY <1>1
  <2>3. ASSUME NEW i \in 1..Len(f) PROVE g[Len(e) + i] = f[i]
    BY <1>1
  <2> HIDE DEF g
  <2> QED
    BY <2>1, <2>2, <2>3
<1> HIDE DEF g
<1>3. IsList(g)
  <2>1. ASSUME NEW i \in DOMAIN g
        PROVE  DOMAIN g[i] = ElementFields /\ g[i] = [x \in ElementFields |-> g[i][x]]
    <3>1. CASE i <= Len(e)
      <4>1. i \in DOMAIN e /\ g[i] = e[i]
        BY <1>1, <1>2, <3>1
      <4> QED
        BY <4>1 DEF IsList
    <3>2. CASE i > Len(e)
      <4>1. i - Len(e) \in 1..Len(f) /\ Len(e) + (i - Len(e)) = i
        BY <1>1, <1>2, <3>2
      <4>2. i - Len(e) \in DOMAIN f /\ g[i] = f[i - Len(e)]
        BY <1>1, <1>2, <4>1
      <4> QED
        BY <4>2 DEF IsList
    <3> QED
      BY <1>1, <1>2, <3>1, <3>2
  <2>2. Len(e) + Len(f) \in Nat
    BY <1>1
  <2> QED
    BY <1>2, <2>1, <2>2 DEF IsList
<1>4. \A i \in 1..Len(e) : Sizes(e)[i] \in Int /\ Sizes(e)[i] = SizeOf(e[i].name)
  <2>1. \A i \in 1..Len(e) : Sizes(e)[i] \in Nat /\ Sizes(e)[i] = SizeOf(e[i].name)
    BY ListTypes
  <2> QED
    BY <2>1
<1>5. \A i \in 1..Len(f) : Sizes(f)[i] \in Int /\ Sizes(f)[i] = SizeOf(f[i].name)
  <2>1. \A i \in 1..Len(f) : Sizes(f)[i] \in Nat /\ Sizes(f)[i] = SizeOf(f[i].name)
    BY ListTypes
  <2> QED
    BY <2>1
<1>6. \A i \in 1..Len(g) : Sizes(g)[i] = SizeOf(g[i].name)
  BY <1>3, ListTypes
<1>7. \A i \in 1..Len(e) : Sizes(g)[i] = Sizes(e)[i]
  BY <1>1, <1>2, <1>4, <1>6
<1>8. \A i \in 1..Len(f) : Sizes(g)[Len(e) + i] = Sizes(f)[i]
  BY <1>1, <1>2, <1>5, <1>6
<1>9. SumTo(Sizes(g), Len(e) + Len(f)) = SumTo(Sizes(e), Len(e)) + SumTo(Sizes(f), Len(f))
  <2> DEFINE n == Len(e)
             m == Len(f)
             w == Sizes(e)
             v == Sizes(f)
             u == Sizes(g)
  <2>1. n \in Nat /\ m \in Nat
    BY <1>1
  <2>2. /\ \A k \in 1..n : w[k] \in Int
        /\ \A k \in 1..m : v[k] \in Int
        /\ \A k \in 1..n : u[k] = w[k]
        /\ \A k \in 1..m : u[n + k] = v[k]
    BY <1>4, <1>5, <1>7, <1>8
  <2> HIDE DEF n, m, w, v, u
  <2>3. SumTo(u, n + m) = SumTo(w, n) + SumTo(v, m)
    BY <2>1, <2>2, SumBehind
  <2> QED
    BY <2>3 DEF n, m, w, v, u
<1>10. Bytes(g) = SumTo(Sizes(g), Len(g))
  BY <1>3, BytesSum
<1>11. Bytes(e) = SumTo(Sizes(e), Len(e)) /\ Bytes(f) = SumTo(Sizes(f), Len(f))
  BY BytesSum
<1> QED
  BY <1>2, <1>3, <1>9, <1>10, <1>11 DEF g

(* The sections contain lists of elements; their lengths.                  *)
Listed == \A s \in Section : IsList(secs[s].elems)
Lengths == [s \in Section |-> Bytes(secs[s].elems)]

LEMMA LengthTypes ==
  ASSUME Listed
  PROVE  /\ Len(Kind) \in Nat /\ Section = 1..Len(Kind)
         /\ \A s \in 1..Len(Kind) : Lengths[s] \in Nat /\ Lengths[s] = Bytes(secs[s].elems)
  BY KindAssumption, BytesSum DEF KindAssumption, Section, Listed, Lengths

(* A sum that is written as a fold.                                        *)
LEMMA FoldedSum ==
  ASSUME NEW n \in Nat, NEW w, \A k \in 1..n : w[k] \in Int, NEW C, Sums(w, n, C)
  PROVE  C[1..n] = SumTo(w, n)
<1>1. PICK H : Adds(w, n, H) /\ C[1..n] = H[n]
  BY SumsAdd
<1> QED
  BY <1>1, SumOf

(* A section starts where the sections before it end.                      *)
LEMMA Starts ==
  ASSUME Listed, NEW s \in Section
  PROVE  FoldLeft(LAMBDA n, r : n + Bytes(secs[r].elems), 0, [r \in 1..(s - 1) |-> r]) = SumTo(Lengths, s - 1)
<1> DEFINE m == s - 1
           w == Lengths
           id == [r \in 1..m |-> r]
           C == CHOOSE F : F = [t \in SUBSET (1..m) |->
                                  IF t = {} THEN 0 ELSE F[t \ {Max(t)}] + Bytes(secs[id[Max(t)]].elems)]
<1>1. m \in Nat /\ \A k \in 1..m : w[k] \in Nat /\ w[k] = Bytes(secs[k].elems)
  <2>1. \A k \in 1..m : k \in 1..Len(Kind)
    BY LengthTypes
  <2> QED
    BY <2>1, LengthTypes
<1>2. DOMAIN id = 1..m
  OBVIOUS
<1>3. FoldLeft(LAMBDA n, r : n + Bytes(secs[r].elems), 0, id) = C[1..m]
  <2> HIDE DEF id, m
  <2> QED
    BY <1>2 DEF FoldLeft, MapThenFoldSet
<1>4. \A k \in 1..m : id[k] = k
  OBVIOUS
<1> HIDE DEF m, w, id
<1>5. ASSUME NEW t \in SUBSET (1..m), t # {} PROVE Bytes(secs[id[Max(t)]].elems) = w[Max(t)]
  <2>1. Max(t) \in 1..m
    BY <1>1, <1>5, MaxOf
  <2> QED
    BY <1>1, <1>4, <2>1
<1>6. PICK F : Sums(w, m, F)
  BY <1>1, SumExists
<1>7. F = [t \in SUBSET (1..m) |-> IF t = {} THEN 0 ELSE F[t \ {Max(t)}] + Bytes(secs[id[Max(t)]].elems)]
  BY <1>5, <1>6 DEF Sums
<1>8. C = [t \in SUBSET (1..m) |-> IF t = {} THEN 0 ELSE C[t \ {Max(t)}] + Bytes(secs[id[Max(t)]].elems)]
  BY <1>7
<1> HIDE DEF C
<1>9. Sums(w, m, C)
  BY <1>5, <1>8 DEF Sums
<1>10. C[1..m] = SumTo(w, m)
  BY <1>1, <1>9, FoldedSum
<1> QED
  BY <1>3, <1>10 DEF m, w, id

(* H[k] has the elements of the first k sections.                          *)
Joins(H) == H[0] = <<>> /\ \A k \in 1..Len(Kind) : H[k] = H[k - 1] \o secs[k].elems

LEMMA ElementsJoined ==
  ASSUME Listed, DOMAIN secs = Section
  PROVE  \E H : Joins(H) /\ Elements = H[Len(Kind)]
<1> DEFINE n == Len(Kind)
           X == UNION {{secs[s].elems[i] : i \in DOMAIN secs[s].elems} : s \in 1..n}
           V == Seq(X)
           step == [p \in V \X (1..n) |-> p[1] \o secs[p[2]].elems]
           C == CHOOSE F : F = [t \in SUBSET (1..n) |->
                                  IF t = {} THEN <<>> ELSE F[t \ {Max(t)}] \o secs[Max(t)].elems]
<1>1. /\ n \in Nat /\ DOMAIN secs = 1..n
      /\ \A s \in 1..n : Lengths[s] \in Nat /\ Lengths[s] = Bytes(secs[s].elems)
  BY LengthTypes
<1>2. Elements = C[1..n]
  <2> HIDE DEF n
  <2> QED
    BY <1>1 DEF Elements, FoldLeft, MapThenFoldSet
<1>3. ASSUME NEW s \in 1..n PROVE IsList(secs[s].elems) /\ secs[s].elems \in V
  <2>1. IsList(secs[s].elems)
    BY <1>1, LengthTypes DEF Listed
  <2>2. secs[s].elems \in Seq({secs[s].elems[i] : i \in DOMAIN secs[s].elems})
    BY <2>1, ListTypes
  <2>3. {secs[s].elems[i] : i \in DOMAIN secs[s].elems} \subseteq X
    OBVIOUS
  <2> HIDE DEF X
  <2> QED
    BY <2>1, <2>2, <2>3
<1> HIDE DEF n, X
<1>4. step \in [V \X (1..n) -> V] /\ <<>> \in V
  BY <1>3
<1> HIDE DEF V
<1>5. PICK F \in [SUBSET (1..n) -> V] : Folds(step, <<>>, n, F)
  <2> HIDE DEF step
  <2> QED
    BY <1>1, <1>4, FoldExists
<1>6. F = [t \in SUBSET (1..n) |-> IF t = {} THEN <<>> ELSE F[t \ {Max(t)}] \o secs[Max(t)].elems]
  <2>1. ASSUME NEW t \in SUBSET (1..n)
        PROVE  F[t] = IF t = {} THEN <<>> ELSE F[t \ {Max(t)}] \o secs[Max(t)].elems
    <3>1. F[t] = IF t = {} THEN <<>> ELSE step[<<F[t \ {Max(t)}], Max(t)>>]
      BY <1>5 DEF Folds
    <3>2. CASE t # {}
      <4>1. Max(t) \in 1..n /\ F[t \ {Max(t)}] \in V
        BY <1>1, <3>2, MaxOf
      <4>2. step[<<F[t \ {Max(t)}], Max(t)>>] = F[t \ {Max(t)}] \o secs[Max(t)].elems
        BY <4>1
      <4> QED
        BY <3>1, <3>2, <4>2
    <3> QED
      BY <3>1, <3>2
  <2> QED
    BY <2>1
<1>7. C = [t \in SUBSET (1..n) |-> IF t = {} THEN <<>> ELSE C[t \ {Max(t)}] \o secs[Max(t)].elems]
  BY <1>6
<1> HIDE DEF C
<1> DEFINE H == [k \in 0..n |-> C[1..k]]
<1>8. 1..0 = {} /\ 1..0 \in SUBSET (1..n)
  OBVIOUS
<1>9. H[0] = <<>>
  <2>1. C[1..0] = <<>>
    BY <1>7, <1>8
  <2>2. 0 \in 0..n
    BY <1>1
  <2> QED
    BY <2>1, <2>2
<1>10. ASSUME NEW k \in 1..n PROVE H[k] = H[k - 1] \o secs[k].elems
  <2>1. 1..k \in SUBSET (1..n) /\ 1..k # {} /\ Max(1..k) = k /\ (1..k) \ {Max(1..k)} = 1..(k - 1)
    BY <1>1, HeadOf
  <2>2. C[1..k] = C[(1..k) \ {Max(1..k)}] \o secs[Max(1..k)].elems
    BY <1>7, <2>1
  <2>3. C[1..k] = C[1..(k - 1)] \o secs[k].elems
    BY <2>1, <2>2
  <2>4. k \in 0..n /\ k - 1 \in 0..n
    BY <1>1
  <2> QED
    BY <2>3, <2>4
<1>11. H[n] = C[1..n]
  BY <1>1
<1> HIDE DEF H
<1>12. Joins(H)
  BY <1>9, <1>10 DEF Joins, n
<1> QED
  BY <1>2, <1>11, <1>12 DEF n

(* The elements of all sections have the bytes of all sections.            *)
LEMMA ElementsBytes ==
  ASSUME Listed, DOMAIN secs = Section
  PROVE  Bytes(Elements) = SumTo(Lengths, Len(Kind))
<1> DEFINE n == Len(Kind)
<1>1. /\ n \in Nat /\ DOMAIN secs = 1..n
      /\ \A s \in 1..n : Lengths[s] \in Nat /\ Lengths[s] = Bytes(secs[s].elems)
  BY LengthTypes
<1>2. PICK C : Joins(C) /\ Elements = C[n]
  BY ElementsJoined
<1>3. ASSUME NEW s \in 1..n PROVE IsList(secs[s].elems)
  BY <1>1, LengthTypes DEF Listed
<1>7. C[0] = <<>> /\ \A k \in 1..n : C[k] = C[k - 1] \o secs[k].elems
  BY <1>2 DEF Joins
<1> HIDE DEF n
<1> DEFINE right == {k \in Nat : IsList(C[k]) /\ Bytes(C[k]) = SumTo(Lengths, k)}
<1>8. /\ SumTo(Lengths, 0) = 0
      /\ \A k \in 1..n : SumTo(Lengths, k) = SumTo(Lengths, k - 1) + Lengths[k]
  <2>1. \A k \in 1..n : Lengths[k] \in Int
    BY <1>1
  <2> QED
    BY <1>1, <2>1, SumSteps
<1>9. 0 \in right
  <2>2. C[0] = <<>>
    BY <1>7
  <2>3. IsList(<<>>)
    <3>1. DOMAIN <<>> = 1..0 /\ 0 \in Nat /\ <<>> = [i \in 1..0 |-> <<>>[i]]
      OBVIOUS
    <3> QED
      BY <3>1 DEF IsList
  <2>4. Bytes(<<>>) = SumTo(Sizes(<<>>), 0)
    <3>1. Len(<<>>) = 0
      OBVIOUS
    <3> QED
      BY <2>3, <3>1, BytesSum
  <2>5. SumTo(Sizes(<<>>), 0) = 0
    <3>1. 0 \in Nat /\ \A k \in 1..0 : Sizes(<<>>)[k] \in Int
      OBVIOUS
    <3> QED
      BY <3>1, SumSteps
  <2> QED
    BY <1>8, <2>2, <2>3, <2>4, <2>5
<1>10. ASSUME NEW k \in 0..(n - 1), k \in right PROVE k + 1 \in right
  <2>1. k + 1 \in 1..n /\ (k + 1) - 1 = k /\ k + 1 \in Nat
    BY <1>1
  <2>4. C[k + 1] = C[k] \o secs[k + 1].elems
    BY <1>7, <2>1
  <2>5. IsList(C[k]) /\ Bytes(C[k]) = SumTo(Lengths, k) /\ IsList(secs[k + 1].elems)
    BY <1>3, <1>10, <2>1
  <2>6. /\ IsList(C[k + 1])
        /\ Bytes(C[k + 1]) = SumTo(Lengths, k) + Bytes(secs[k + 1].elems)
    BY <2>4, <2>5, BytesBehind
  <2> QED
    BY <1>1, <1>8, <2>1, <2>6
<1> HIDE DEF right
<1>11. \A k \in 0..n : k \in right
  BY <1>1, <1>9, <1>10, Induction
<1>12. n \in 0..n
  BY <1>1
<1> QED
  BY <1>2, <1>11, <1>12 DEF right, n

(* Section s and its elements lie where the sections before it end, and so *)
(* does the last key.                                                      *)
LaidOut ==
    /\ \A s \in Section :
          secs[s].off = 1 + SumTo(Lengths, s - 1) /\ Lies(secs[s].elems, secs[s].off)
    /\ tail = 1 + SumTo(Lengths, Len(Kind))

(* The lengths of what the sections lie in, as the layout has them.        *)
Around == \A d \in 1..Depth : outer[d] = IF d = Depth THEN buflen ELSE tail - 1

(* The lengths of the sections and of what they lie in are encoded again   *)
(* by the last step of a rebuild, unless one of the latter does not fit; a *)
(* new section lies at the start of the kid.                               *)
Laid ==
    /\ Listed /\ LaidOut
    /\ buflen = tail + 1
    /\ pc # "settle" => \A s \in Section : secs[s].len = Lengths[s]
    /\ pc # "settle" /\ "outer encoding error" \notin failures => Around
    /\ pc \in {"adjust", "replace"} => IsList(tmp) /\ Lies(tmp, 0)

LEMMA LaidContiguous ==
  ASSUME Shape, Listed, LaidOut
  PROVE  Contiguous
<1>1. \A s \in Section : secs[s].elems = Sized(secs[s].elems, secs[s].off)
  BY SizedLies DEF Listed, LaidOut
<1>2. \A s \in Section :
         secs[s].off = 1 + FoldLeft(LAMBDA n, r : n + Bytes(secs[r].elems), 0, [r \in 1..(s - 1) |-> r])
  <2> SUFFICES ASSUME NEW s \in Section
               PROVE  secs[s].off = 1 + FoldLeft(LAMBDA n, r : n + Bytes(secs[r].elems), 0, [r \in 1..(s - 1) |-> r])
    OBVIOUS
  <2>1. FoldLeft(LAMBDA n, r : n + Bytes(secs[r].elems), 0, [r \in 1..(s - 1) |-> r]) = SumTo(Lengths, s - 1)
    BY Starts
  <2> QED
    BY <2>1 DEF LaidOut
<1>3. tail = 1 + Bytes(Elements)
  <2>1. DOMAIN secs = Section
    BY DEF Shape
  <2> QED
    BY <2>1, ElementsBytes DEF LaidOut
<1> QED
  BY <1>1, <1>2, <1>3 DEF Contiguous

(* What the layout and the elements say of a length around the sections.   *)
LEMMA EnclosedLength ==
  ASSUME LookInv, Laid
  PROVE  /\ Bytes(Elements) \in Nat /\ tail = 1 + Bytes(Elements) /\ buflen = tail + 1
         /\ \A d \in 1..Depth : /\ Enclosed(d) = IF d = Depth THEN buflen ELSE tail - 1
                               /\ Enclosed(d) \in Nat
<1>1. tail = 1 + Bytes(Elements) /\ buflen = tail + 1
  BY LaidContiguous DEF LookInv, Laid, Contiguous
<1>2. Bytes(Elements) \in Nat
  <2>1. DOMAIN secs = Section
    BY DEF LookInv, Shape
  <2>2. Bytes(Elements) = SumTo(Lengths, Len(Kind))
    BY <2>1, ElementsBytes DEF Laid
  <2>3. SumTo(Lengths, Len(Kind)) \in Nat
    <3>1. Len(Kind) \in Nat /\ \A s \in 1..Len(Kind) : Lengths[s] \in Nat
      BY LengthTypes DEF Laid
    <3>2. Len(Kind) \in 0..Len(Kind)
      BY <3>1
    <3> QED
      BY <3>1, <3>2, SumGrows
  <2> QED
    BY <2>2, <2>3
<1> QED
  BY <1>1, <1>2 DEF Enclosed

LEMMA LaidMeans == LookInv /\ Laid => LayoutConsistent
<1> SUFFICES ASSUME LookInv, Laid PROVE LayoutConsistent
  OBVIOUS
<1>1. Contiguous /\ buflen = tail + 1
  BY LaidContiguous DEF LookInv, Laid
<1>2. pc = "idle" => \A s \in Section : secs[s].len = Bytes(secs[s].elems)
  BY DEF Laid, Lengths
<1>3. pc = "idle" /\ "outer encoding error" \notin failures => \A d \in 1..Depth : outer[d] = Enclosed(d)
  BY EnclosedLength DEF Laid, Around
<1> QED
  BY <1>1, <1>2, <1>3 DEF LayoutConsistent

(* A section whose elements keep their names and places.                   *)
StaysPut(s) ==
    /\ IsList(secs'[s].elems) /\ Alike(secs[s].elems, secs'[s].elems)
    /\ Lies(secs'[s].elems, secs[s].off)
    /\ secs'[s].off = secs[s].off

(* The layout only depends on them.                                        *)
LEMMA LayoutStays ==
  ASSUME Listed, LaidOut, \A s \in Section : StaysPut(s), UNCHANGED tail
  PROVE  Listed' /\ LaidOut' /\ Lengths' = Lengths
<1>1. ASSUME NEW s \in Section PROVE Bytes(secs'[s].elems) = Bytes(secs[s].elems)
  BY AlikeBytes DEF StaysPut, Listed
<1>2. Lengths' = Lengths
  BY <1>1 DEF Lengths
<1>3. Listed'
  BY DEF Listed, StaysPut
<1>4. LaidOut'
  <2>1. \A s \in Section : secs'[s].off = secs[s].off /\ Lies(secs'[s].elems, secs'[s].off)
    BY DEF StaysPut
  <2>2. SumTo(Lengths, Len(Kind))' = SumTo(Lengths, Len(Kind))
        /\ \A s \in Section : SumTo(Lengths, s - 1)' = SumTo(Lengths, s - 1)
    BY <1>2
  <2> QED
    BY <2>1, <2>2 DEF LaidOut
<1> QED
  BY <1>2, <1>3, <1>4

LEMMA AllStayPut ==
  ASSUME Listed, LaidOut, \A s \in Section : secs'[s].elems = secs[s].elems /\ secs'[s].off = secs[s].off
  PROVE  \A s \in Section : StaysPut(s)
  BY DEF Listed, LaidOut, StaysPut, Alike

LEMMA LaidKept ==
  ASSUME Laid, \A s \in Section : StaysPut(s) /\ secs'[s].len = secs[s].len, UNCHANGED <<tail, buflen, outer>>,
         pc # "settle" \/ pc' = "settle", failures \subseteq failures',
         pc' \in {"adjust", "replace"} => pc \in {"adjust", "replace"} /\ tmp' = tmp
  PROVE  Laid'
<1>1. Listed' /\ LaidOut' /\ Lengths' = Lengths
  BY LayoutStays DEF Laid
<1>2. Around => Around'
  BY DEF Around
<1> QED
  BY <1>1, <1>2 DEF Laid

(* The elements a section is created with.                                 *)
New0(s, v) ==
    [i \in DOMAIN Body(s, v) |-> [name |-> Body(s, v)[i], addr |-> <<s, i>>, val |-> 0, off |-> 0]]

LEMMA NewList == ASSUME NEW s \in Section, NEW v \in Nat PROVE IsList(New0(s, v))
<1> DEFINE new == New0(s, v)
<1>1. DOMAIN new = DOMAIN Body(s, v) /\ new = [i \in DOMAIN new |-> new[i]]
  BY DEF New0
<1>2. \A i \in DOMAIN new : DOMAIN new[i] = ElementFields /\ new[i] = [x \in ElementFields |-> new[i][x]]
  BY DEF New0, ElementFields
<1> HIDE DEF new
<1> QED
  BY <1>1, <1>2, BodyDomain DEF IsList, new

LEMMA InitStarts ==
  ASSUME NEW s \in Section, NEW v \in Nat
  PROVE  FoldLeft(LAMBDA n, r : n + Bytes(New0(r, v)), 0, [r \in 1..(s - 1) |-> r])
         = SumTo([r \in Section |-> Bytes(New0(r, v))], s - 1)
<1> DEFINE m == s - 1
           w == [r \in Section |-> Bytes(New0(r, v))]
           id == [r \in 1..m |-> r]
           C == CHOOSE F : F = [t \in SUBSET (1..m) |->
                                  IF t = {} THEN 0 ELSE F[t \ {Max(t)}] + Bytes(New0(id[Max(t)], v))]
<1>1. m \in Nat /\ \A k \in 1..m : w[k] \in Nat /\ w[k] = Bytes(New0(k, v))
  <2>1. Section = 1..Len(Kind) /\ Len(Kind) \in Nat
    BY KindAssumption DEF KindAssumption, Section
  <2>2. \A k \in 1..m : k \in Section
    BY <2>1
  <2> QED
    BY <2>1, <2>2, NewList, BytesSum
<1>2. DOMAIN id = 1..m
  OBVIOUS
<1>3. FoldLeft(LAMBDA n, r : n + Bytes(New0(r, v)), 0, id) = C[1..m]
  <2> HIDE DEF id, m
  <2> QED
    BY <1>2 DEF FoldLeft, MapThenFoldSet
<1>4. \A k \in 1..m : id[k] = k
  OBVIOUS
<1> HIDE DEF m, w, id
<1>5. ASSUME NEW t \in SUBSET (1..m), t # {} PROVE Bytes(New0(id[Max(t)], v)) = w[Max(t)]
  <2>1. Max(t) \in 1..m
    BY <1>1, <1>5, MaxOf
  <2> QED
    BY <1>1, <1>4, <2>1
<1>6. PICK F : Sums(w, m, F)
  BY <1>1, SumExists
<1>7. F = [t \in SUBSET (1..m) |-> IF t = {} THEN 0 ELSE F[t \ {Max(t)}] + Bytes(New0(id[Max(t)], v))]
  BY <1>5, <1>6 DEF Sums
<1>8. C = [t \in SUBSET (1..m) |-> IF t = {} THEN 0 ELSE C[t \ {Max(t)}] + Bytes(New0(id[Max(t)], v))]
  BY <1>7
<1> HIDE DEF C
<1>9. Sums(w, m, C)
  BY <1>5, <1>8 DEF Sums
<1>10. C[1..m] = SumTo(w, m)
  BY <1>1, <1>9, FoldedSum
<1> QED
  BY <1>3, <1>10 DEF m, w, id

LEMMA LaidInit == ASSUME Init PROVE Laid
<1>0. key \in Nat
  BY LookInit DEF LookInv, Shape
<1>1. ASSUME NEW s \in Section
      PROVE  /\ secs[s].off = 1 + FoldLeft(LAMBDA n, r : n + Bytes(New0(r, key)), 0, [r \in 1..(s - 1) |-> r])
             /\ secs[s].len = Bytes(New0(s, key))
             /\ secs[s].elems = Sized(New0(s, key), secs[s].off)
  BY DEF Init, InitSections, New0
<1>2. ASSUME NEW s \in Section
      PROVE  /\ IsList(New0(s, key)) /\ IsList(secs[s].elems)
             /\ Lies(secs[s].elems, secs[s].off) /\ Bytes(secs[s].elems) = Bytes(New0(s, key))
  <2> DEFINE e == New0(s, key)
             f == secs[s].elems
             from == secs[s].off
  <2>1. IsList(e) /\ f = Sized(e, from)
    BY <1>0, <1>1, NewList
  <2> HIDE DEF e, f, from
  <2>2. IsList(f) /\ Alike(e, f) /\ Lies(f, from)
    BY <2>1, SizedLies
  <2>3. Bytes(f) = Bytes(e)
    BY <2>1, <2>2, AlikeBytes
  <2> QED
    BY <2>1, <2>2, <2>3 DEF e, f, from
<1>3. Listed
  BY <1>2 DEF Listed
<1>4. Lengths = [r \in Section |-> Bytes(New0(r, key))]
  BY <1>2 DEF Lengths
<1>5. \A s \in Section : secs[s].off = 1 + SumTo(Lengths, s - 1)
  BY <1>0, <1>1, <1>4, InitStarts
<1>6. tail = 1 + SumTo(Lengths, Len(Kind))
  <2>1. DOMAIN secs = Section
    BY LookInit DEF LookInv, Shape
  <2> QED
    BY <1>3, <2>1, ElementsBytes DEF Init
<1>7. LaidOut
  BY <1>2, <1>5, <1>6 DEF LaidOut
<1>8. \A s \in Section : secs[s].len = Lengths[s]
  BY <1>1, <1>2 DEF Lengths
<1>9. Around
  <2>1. DOMAIN secs = Section
    BY LookInit DEF LookInv, Shape
  <2>2. Len(Kind) \in Nat /\ \A s \in 1..Len(Kind) : Lengths[s] \in Nat
    BY <1>3, LengthTypes
  <2>3. Len(Kind) \in 0..Len(Kind)
    BY <2>2
  <2>4. Bytes(Elements) \in Nat
    BY <1>3, <2>1, <2>2, <2>3, ElementsBytes, SumGrows
  <2>5. \A d \in 1..Depth : outer[d] = IF d = Depth THEN 1 + Bytes(Elements) + 1 ELSE Bytes(Elements)
    BY DEF Init, Enclosed
  <2>6. tail = 1 + Bytes(Elements) /\ buflen = tail + 1
    BY DEF Init
  <2> QED
    BY <2>4, <2>5, <2>6 DEF Around
<1> QED
  BY <1>3, <1>7, <1>8, <1>9 DEF Init, Laid

(* A value that is set leaves everything where it is.                      *)
LEMMA ValueStays ==
  ASSUME LookInv, Laid, NEW name \in Section \X {"a", "b"}, NEW x \in {0, 1}, SetValue(name, x)
  PROVE  \A s \in Section : StaysPut(s) /\ secs'[s].len = secs[s].len
<1> SUFFICES ASSUME NEW s \in Section PROVE StaysPut(s) /\ secs'[s].len = secs[s].len
  OBVIOUS
<1> DEFINE e == secs[s].elems
           f == secs'[s].elems
<1>1. secs' = [r \in Section |-> [secs[r] EXCEPT !.elems = [i \in DOMAIN @ |->
                  IF @[i].addr = Found(name) THEN [@[i] EXCEPT !.val = x] ELSE @[i]]]]
  BY DEF SetValue
<1>2. secs'[s] = [secs[s] EXCEPT !.elems = [i \in DOMAIN @ |->
                  IF @[i].addr = Found(name) THEN [@[i] EXCEPT !.val = x] ELSE @[i]]]
  BY <1>1
<1>3. DOMAIN secs[s] = SectionFields
  BY DEF LookInv, Shape
<1>4. secs'[s].off = secs[s].off /\ secs'[s].len = secs[s].len
  BY <1>2, <1>3 DEF SectionFields
<1>5. f = [i \in DOMAIN e |-> IF e[i].addr = Found(name) THEN [e[i] EXCEPT !.val = x] ELSE e[i]]
  BY <1>2, <1>3 DEF SectionFields
<1>6. IsList(e) /\ Lies(e, secs[s].off)
  BY DEF Laid, Listed, LaidOut
<1> HIDE DEF e, f
<1>7. DOMAIN f = DOMAIN e /\ f = [i \in DOMAIN f |-> f[i]]
  BY <1>5
<1>8. \A i \in DOMAIN e : DOMAIN e[i] = ElementFields /\ e[i] = [y \in ElementFields |-> e[i][y]]
  BY <1>6 DEF IsList
<1>9. ASSUME NEW i \in DOMAIN e
      PROVE  /\ DOMAIN f[i] = ElementFields /\ f[i] = [y \in ElementFields |-> f[i][y]]
             /\ f[i].off = e[i].off /\ f[i].name = e[i].name
  <2>1. CASE e[i].addr = Found(name)
    <3>1. f[i] = [e[i] EXCEPT !.val = x]
      BY <1>5, <2>1
    <3> QED
      BY <1>8, <3>1 DEF ElementFields
  <2>2. CASE e[i].addr # Found(name)
    <3>1. f[i] = e[i]
      BY <1>5, <2>2
    <3> QED
      BY <1>8, <3>1
  <2> QED
    BY <2>1, <2>2
<1>10. IsList(f)
  BY <1>6, <1>7, <1>9 DEF IsList
<1>11. Alike(e, f)
  BY <1>7, <1>9 DEF Alike
<1>12. Lies(f, secs[s].off)
  BY <1>6, <1>7, <1>9, <1>11, AlikeSizes DEF Lies
<1> QED
  BY <1>4, <1>10, <1>11, <1>12 DEF StaysPut, e, f

(* The new section lies at the start of the kid.                           *)
LEMMA CreatedLies ==
  ASSUME LookInv, NEW s \in Section, Create(s)
  PROVE  IsList(tmp') /\ Lies(tmp', 0)
<1> DEFINE body == Body(s, key)
           new == [i \in DOMAIN body |->
                     [name |-> body[i], addr |-> <<Fresh, i>>, off |-> 0, val |-> Copied(s, body[i])]]
<1>1. tmp' = Sized(new, 0)
  BY DEF Create
<1>2. \E n \in Nat : DOMAIN body = 1..n
  BY BodyDomain DEF LookInv, Shape
<1> HIDE DEF body
<1>3. DOMAIN new = DOMAIN body /\ new = [i \in DOMAIN new |-> new[i]]
  OBVIOUS
<1>4. \A i \in DOMAIN new : DOMAIN new[i] = ElementFields /\ new[i] = [y \in ElementFields |-> new[i][y]]
  BY DEF ElementFields
<1> HIDE DEF new
<1>5. IsList(new)
  BY <1>2, <1>3, <1>4 DEF IsList
<1> QED
  BY <1>1, <1>5, SizedLies

(* What a replacement does to the layout: the sections behind the new one  *)
(* move by as much as it is longer than the old one.                       *)
LEMMA ReplacedLies ==
  ASSUME LookInv, Laid, NEW s \in Section, Replace(s)
  PROVE  Listed' /\ LaidOut' /\ buflen' = tail' + 1
<1> DEFINE increase == Bytes(tmp) - secs[s].len
<1>1. /\ pc = "replace" /\ buflen' = buflen + increase /\ tail' = tail + increase
      /\ secs' = [r \in Section |->
            IF r < s THEN secs[r]
            ELSE IF r = s THEN [secs[s] EXCEPT !.elems = Shift(tmp, secs[s].off)]
            ELSE [secs[r] EXCEPT !.off = @ + increase, !.elems = Shift(@, increase)]]
  BY DEF Replace
<1>a. buflen' = buflen + increase /\ tail' = tail + increase
  BY <1>1
<1>2. Listed /\ LaidOut /\ buflen = tail + 1 /\ secs[s].len = Lengths[s] /\ IsList(tmp) /\ Lies(tmp, 0)
  BY <1>1 DEF Laid
<1>3. /\ Len(Kind) \in Nat /\ Section = 1..Len(Kind)
      /\ \A r \in 1..Len(Kind) : Lengths[r] \in Nat /\ Lengths[r] = Bytes(secs[r].elems)
  BY <1>2, LengthTypes
<1>4. \A r \in Section : DOMAIN secs[r] = SectionFields
  BY DEF LookInv, Shape
<1>5. Bytes(tmp) \in Nat /\ increase \in Int /\ increase = Bytes(tmp) - Lengths[s]
  BY <1>2, <1>3, BytesSum
<1>6. \A r \in 0..Len(Kind) : SumTo(Lengths, r) \in Nat
  BY <1>3, SumGrows
<1>7. \A r \in Section : secs[r].off = 1 + SumTo(Lengths, r - 1) /\ secs[r].off \in Nat
  <2>1. \A r \in Section : r - 1 \in 0..Len(Kind)
    BY <1>3
  <2> QED
    BY <1>2, <1>6, <2>1 DEF LaidOut
<1> HIDE DEF increase
(* The new section,                                                        *)
<1>8. /\ secs'[s].off = secs[s].off /\ IsList(secs'[s].elems)
      /\ Bytes(secs'[s].elems) = Bytes(tmp) /\ Lies(secs'[s].elems, secs[s].off)
  <2> DEFINE f == Shift(tmp, secs[s].off)
  <2>1. ~(s < s)
    BY <1>3
  <2>2. secs'[s] = [secs[s] EXCEPT !.elems = f]
    BY <1>1, <2>1
  <2>3. secs'[s].off = secs[s].off /\ secs'[s].elems = f
    BY <1>4, <2>2 DEF SectionFields
  <2>4. IsList(f) /\ Alike(tmp, f) /\ Lies(f, 0 + secs[s].off)
    <3>1. 0 \in Int /\ secs[s].off \in Int
      BY <1>7
    <3> QED
      BY <1>2, <3>1, ShiftLies
  <2>5. Bytes(f) = Bytes(tmp)
    BY <1>2, <2>4, AlikeBytes
  <2>6. 0 + secs[s].off = secs[s].off
    BY <1>7
  <2> HIDE DEF f
  <2> QED
    BY <2>3, <2>4, <2>5, <2>6
(* those before it                                                         *)
<1>9. ASSUME NEW r \in Section, r < s
      PROVE  /\ secs'[r].off = secs[r].off /\ IsList(secs'[r].elems)
             /\ Bytes(secs'[r].elems) = Bytes(secs[r].elems) /\ Lies(secs'[r].elems, secs[r].off)
  <2>1. secs'[r] = secs[r]
    BY <1>1, <1>9
  <2> QED
    BY <1>2, <2>1 DEF Listed, LaidOut
(* and those behind it.                                                    *)
<1>10. ASSUME NEW r \in Section, r > s
       PROVE  /\ secs'[r].off = secs[r].off + increase /\ IsList(secs'[r].elems)
              /\ Bytes(secs'[r].elems) = Bytes(secs[r].elems) /\ Lies(secs'[r].elems, secs[r].off + increase)
  <2> DEFINE f == Shift(secs[r].elems, increase)
  <2>1. ~(r < s) /\ r # s
    BY <1>3, <1>10
  <2>2. secs'[r] = [secs[r] EXCEPT !.off = @ + increase, !.elems = Shift(@, increase)]
    BY <1>1, <2>1
  <2>3. secs'[r].off = secs[r].off + increase /\ secs'[r].elems = f
    BY <1>4, <2>2 DEF SectionFields
  <2>4. IsList(secs[r].elems) /\ Lies(secs[r].elems, secs[r].off) /\ secs[r].off \in Int
    BY <1>2, <1>7 DEF Listed, LaidOut
  <2>5. IsList(f) /\ Alike(secs[r].elems, f) /\ Lies(f, secs[r].off + increase)
    BY <1>5, <2>4, ShiftLies
  <2>6. Bytes(f) = Bytes(secs[r].elems)
    BY <2>4, <2>5, AlikeBytes
  <2> HIDE DEF f
  <2> QED
    BY <2>3, <2>5, <2>6
<1>11. Listed'
  <2>1. ASSUME NEW r \in Section PROVE IsList(secs'[r].elems)
    BY <1>3, <1>8, <1>9, <1>10
  <2> QED
    BY <2>1 DEF Listed
<1> DEFINE n == Len(Kind)
           w == Lengths
           v == Lengths'
<1>12. /\ \A r \in 1..n : w[r] \in Int
       /\ v[s] = w[s] + increase /\ \A r \in (1..n) \ {s} : v[r] = w[r]
  <2>1. v[s] = Bytes(tmp)
    BY <1>8 DEF Lengths
  <2>2. w[s] \in Nat /\ \A r \in 1..n : w[r] \in Int
    BY <1>3
  <2>3. ASSUME NEW r \in (1..n) \ {s} PROVE v[r] = w[r]
    <3>1. r \in Section /\ (r < s \/ r > s)
      BY <1>3
    <3> QED
      BY <1>9, <1>10, <3>1 DEF Lengths
  <2> QED
    BY <1>5, <2>1, <2>2, <2>3
<1>13. \A m \in 0..n : SumTo(v, m) = IF m < s THEN SumTo(w, m) ELSE SumTo(w, m) + increase
  <2>1. n \in Nat /\ s \in 1..n
    BY <1>3
  <2>2. \A r \in 1..n : v[r] \in Int
    BY <1>5, <1>12
  <2>3. v[s] - w[s] = increase
    BY <1>5, <1>12, <2>1
  <2> HIDE DEF n, w, v
  <2> QED
    BY <1>12, <2>1, <2>2, <2>3, SumChange
<1>14. tail' = 1 + SumTo(v, n)
  <2>1. n \in 0..n /\ ~(n < s)
    BY <1>3
  <2>2. SumTo(v, n) = SumTo(w, n) + increase /\ SumTo(w, n) \in Nat
    BY <1>6, <1>13, <2>1
  <2>3. tail = 1 + SumTo(w, n)
    BY <1>2 DEF LaidOut
  <2> HIDE DEF n, w, v
  <2> QED
    BY <1>5, <1>a, <2>2, <2>3
<1>15. ASSUME NEW r \in Section
       PROVE  secs'[r].off = 1 + SumTo(v, r - 1) /\ Lies(secs'[r].elems, secs'[r].off)
  <2>1. r - 1 \in 0..n /\ SumTo(w, r - 1) \in Nat /\ secs[r].off = 1 + SumTo(w, r - 1)
    BY <1>3, <1>6, <1>7
  <2>2. CASE r = s
    <3>1. r - 1 < s
      BY <1>3, <2>2
    <3>2. SumTo(v, r - 1) = SumTo(w, r - 1)
      BY <1>13, <2>1, <3>1
    <3> QED
      BY <1>8, <2>1, <2>2, <3>2
  <2>3. CASE r < s
    <3>1. r - 1 < s
      BY <1>3, <2>3
    <3>2. SumTo(v, r - 1) = SumTo(w, r - 1)
      BY <1>13, <2>1, <3>1
    <3> QED
      BY <1>9, <2>1, <2>3, <3>2
  <2>4. CASE r > s
    <3>1. ~(r - 1 < s)
      BY <1>3, <2>4
    <3>2. SumTo(v, r - 1) = SumTo(w, r - 1) + increase
      BY <1>13, <2>1, <3>1
    <3>3. secs'[r].off = secs[r].off + increase /\ Lies(secs'[r].elems, secs[r].off + increase)
      BY <1>10, <2>4
    <3>4. secs[r].off + increase = 1 + (SumTo(w, r - 1) + increase)
      BY <1>5, <2>1
    <3> QED
      BY <3>2, <3>3, <3>4
  <2> QED
    BY <1>3, <2>2, <2>3, <2>4
<1>16. LaidOut'
  BY <1>14, <1>15 DEF LaidOut
<1>17. buflen' = tail' + 1
  <2>1. Len(Kind) \in 0..Len(Kind)
    BY <1>3
  <2>2. tail \in Nat
    BY <1>2, <1>6, <2>1 DEF LaidOut
  <2> QED
    BY <1>2, <1>5, <1>a, <2>2
<1> QED
  BY <1>11, <1>16, <1>17

LEMMA LaidStep == LookInv /\ Laid /\ [Next]_vars => Laid'
<1> SUFFICES ASSUME LookInv, Laid, [Next]_vars PROVE Laid'
  OBVIOUS
<1>a. Listed /\ LaidOut
  BY DEF Laid
<1>b. ASSUME UNCHANGED layout
      PROVE  /\ UNCHANGED <<tail, buflen, outer>>
             /\ \A s \in Section : StaysPut(s) /\ secs'[s].len = secs[s].len
  <2>1. secs' = secs /\ UNCHANGED <<tail, buflen, outer>>
    BY <1>b DEF layout
  <2>2. \A s \in Section : StaysPut(s)
    BY <1>a, <2>1, AllStayPut
  <2> QED
    BY <2>1, <2>2
<1>1. ASSUME NEW name \in Name, Get(name) PROVE Laid'
  <2>1. UNCHANGED layout /\ UNCHANGED <<pc, tmp, failures>>
    BY <1>1 DEF Get
  <2> QED
    BY <1>b, <2>1, LaidKept
<1>2. ASSUME NEW name \in Section \X {"a", "b"}, NEW x \in {0, 1}, SetValue(name, x) PROVE Laid'
  <2>1. UNCHANGED <<tail, buflen, outer>> /\ UNCHANGED <<pc, tmp, failures>>
    BY <1>2 DEF SetValue
  <2>2. \A s \in Section : StaysPut(s) /\ secs'[s].len = secs[s].len
    BY <1>2, ValueStays
  <2> QED
    BY <2>1, <2>2, LaidKept
<1>3. ASSUME NEW v \in 0..MaxKey, SetKey(v) PROVE Laid'
  <2>1. UNCHANGED layout /\ pc = "idle" /\ pc' = "notify" /\ failures' = failures
    BY <1>3 DEF SetKey
  <2> QED
    BY <1>b, <2>1, LaidKept
<1>4. ASSUME NEW s \in Section, Ignore(s) PROVE Laid'
  <2>1. UNCHANGED layout /\ UNCHANGED <<pc, tmp, failures>>
    BY <1>4 DEF Ignore
  <2> QED
    BY <1>b, <2>1, LaidKept
<1>5. ASSUME NEW s \in Section, StartRebuild(s) PROVE Laid'
  <2>1. /\ pc = "notify" /\ pc' \in {"idle", "create"} /\ failures \subseteq failures' /\ UNCHANGED <<tail, buflen, outer>>
        /\ secs' = [secs EXCEPT ![s].branch = Branch(s, key)]
    BY <1>5 DEF StartRebuild, Reparse, Fail
  <2>2. \A r \in Section : /\ secs'[r].elems = secs[r].elems /\ secs'[r].off = secs[r].off
                           /\ secs'[r].len = secs[r].len
    BY <2>1 DEF LookInv, Shape, SectionFields
  <2>3. \A r \in Section : StaysPut(r)
    BY <1>a, <2>2, AllStayPut
  <2> QED
    BY <2>1, <2>2, <2>3, LaidKept
<1>6. ASSUME NEW s \in Section, Create(s) PROVE Laid'
  <2>1. UNCHANGED layout /\ pc = "create" /\ pc' = "adjust" /\ failures' = failures
    BY <1>6 DEF Create
  <2>2. Listed' /\ LaidOut' /\ Lengths' = Lengths
    BY <1>a, <1>b, <2>1, LayoutStays
  <2>3. IsList(tmp') /\ Lies(tmp', 0)
    BY <1>6, CreatedLies
  <2>4. Around => Around'
    BY <2>1 DEF Around, layout
  <2> QED
    BY <2>1, <2>2, <2>3, <2>4 DEF Laid, layout
<1>7. ASSUME NEW s \in Section, CreateFails(s) PROVE Laid'
  <2>1. UNCHANGED layout /\ pc = "create" /\ pc' = "idle" /\ failures \subseteq failures'
    BY <1>7 DEF CreateFails, Fail
  <2> QED
    BY <1>b, <2>1, LaidKept
<1>8. ASSUME NEW s \in Section, Replace(s) PROVE Laid'
  <2>1. pc' = "settle"
    BY <1>8 DEF Replace
  <2> QED
    BY <1>8, <2>1, ReplacedLies DEF Laid
<1>9. CASE AdjustKid
  <2>1. UNCHANGED layout /\ pc = "adjust" /\ pc' = "replace" /\ UNCHANGED <<tmp, failures>>
    BY <1>9 DEF AdjustKid
  <2> QED
    BY <1>b, <2>1, LaidKept
<1>10. CASE AdjustKidFails
  <2>1. UNCHANGED layout /\ pc = "adjust" /\ pc' = "idle" /\ failures \subseteq failures'
    BY <1>10 DEF AdjustKidFails, Fail
  <2> QED
    BY <1>b, <2>1, LaidKept
<1>m. ASSUME Measured, UNCHANGED <<tail, buflen>>
      PROVE  /\ Listed' /\ LaidOut' /\ buflen' = tail' + 1
             /\ \A r \in Section : secs'[r].len = Lengths'[r]
  <2>1. \A r \in Section : /\ secs'[r].elems = secs[r].elems /\ secs'[r].off = secs[r].off
                           /\ secs'[r].len = Bytes(secs[r].elems)
    BY <1>m DEF Measured, LookInv, Shape, SectionFields
  <2>2. \A r \in Section : StaysPut(r)
    BY <1>a, <2>1, AllStayPut
  <2>3. Listed' /\ LaidOut' /\ Lengths' = Lengths
    BY <1>a, <1>m, <2>2, LayoutStays
  <2>4. \A r \in Section : secs'[r].len = Lengths'[r]
    BY <2>1, <2>3 DEF Lengths
  <2> QED
    BY <1>m, <2>3, <2>4 DEF Laid
<1>11. CASE Settle
  <2>1. Contiguous
    BY <1>a, LaidContiguous DEF LookInv
  <2>2. /\ Measured /\ outer' = [d \in 1..Depth |-> Enclosed(d)]
        /\ pc' = "notify" /\ UNCHANGED <<tail, buflen>>
    BY <1>11, <2>1 DEF Settle
  <2>3. Around'
    BY <2>2, EnclosedLength DEF Around
  <2> QED
    BY <1>m, <2>2, <2>3 DEF Laid
<1>14. ASSUME NEW d \in 1..Depth, SettleFails(d) PROVE Laid'
  <2>1. /\ Measured /\ pc' = "idle" /\ UNCHANGED <<tail, buflen>>
        /\ "outer encoding error" \in failures'
    BY <1>14 DEF SettleFails, Fail
  <2> QED
    BY <1>m, <2>1 DEF Laid
<1>12. CASE Return
  <2>1. UNCHANGED layout /\ pc = "notify" /\ pc' = "idle" /\ failures' = failures
    BY <1>12 DEF Return
  <2> QED
    BY <1>b, <2>1, LaidKept
<1>13. CASE UNCHANGED vars
  <2>1. UNCHANGED layout /\ UNCHANGED <<pc, tmp, failures>>
    BY <1>13 DEF vars
  <2> QED
    BY <1>b, <2>1, LaidKept
<1> QED
  BY <1>1, <1>2, <1>3, <1>4, <1>5, <1>6, <1>7, <1>8, <1>9, <1>10, <1>11, <1>12, <1>13, <1>14 DEF Next

(* Between two calls of the user the offsets of all accessors, the lengths *)
(* of the sections and the buffer agree, whatever was rebuilt and whatever *)
(* failed: the check of the offsets at the end of a rebuild never finds a  *)
(* mismatch.  The lengths encoded around the sections agree with them      *)
(* until one of them does not fit.                                         *)
THEOREM LayoutCorrect == Spec => []LayoutConsistent
<1>1. Init => LookInv /\ Laid
  BY LookInit, LaidInit
<1>2. LookInv /\ Laid /\ [Next]_vars => LookInv' /\ Laid'
  BY LookStep, LaidStep
<1>3. LookInv /\ Laid => LayoutConsistent
  BY LaidMeans
<1> QED
  BY <1>1, <1>2, <1>3, PTL DEF Spec

-----------------------------------------------------------------------------
(* Types *)

TypedElement(e) == e.name \in Name /\ e.addr \in Address /\ e.val \in {0, 1}

TypedSection(s) ==
    /\ secs[s].branch \in {Branch(s, v) : v \in 0..MaxKey}
    /\ secs[s].loop \in 0..MaxKey /\ secs[s].len \in Nat
    /\ \A i \in DOMAIN secs[s].elems : TypedElement(secs[s].elems[i])

Typed ==
    /\ \A s \in Section : TypedSection(s)
    /\ outer \in [1..Depth -> Nat] /\ cur \in 0..(Len(Kind) + 1)
    /\ cache \in [Name -> Address] /\ live \subseteq Address /\ touched \subseteq Address
    /\ tmp \in Seq(Element)

(* What the types of the elements and the layout make of a section.        *)
LEMMA ElementList ==
  ASSUME NEW e, IsList(e), \A i \in DOMAIN e : TypedElement(e[i]), NEW from \in Nat, Lies(e, from)
  PROVE  e \in Seq(Element)
<1>1. ASSUME NEW i \in DOMAIN e PROVE e[i] \in Element
  <2>1. DOMAIN e[i] = ElementFields /\ e[i] = [x \in ElementFields |-> e[i][x]]
    BY DEF IsList
  <2>2. SumTo(Sizes(e), i - 1) \in Nat
    BY BytesBefore
  <2>3. e[i].off \in Nat
    BY <2>2 DEF Lies
  <2>4. e[i].name \in Name /\ e[i].addr \in Address /\ e[i].val \in {0, 1}
    BY DEF TypedElement
  <2>5. e[i] = [name |-> e[i].name, addr |-> e[i].addr, val |-> e[i].val, off |-> e[i].off]
    BY <2>1 DEF ElementFields
  <2> QED
    BY <2>3, <2>4, <2>5 DEF Element
<1>2. PICK n \in Nat : DOMAIN e = 1..n
  BY DEF IsList
<1>3. e = [i \in DOMAIN e |-> e[i]]
  BY DEF IsList
<1>4. e \in [1..n -> Element]
  BY <1>1, <1>2, <1>3
<1> QED
  BY <1>2, <1>4

LEMMA LaidPlaces ==
  ASSUME Laid
  PROVE  /\ tail \in Nat /\ buflen \in Nat
         /\ \A s \in Section : secs[s].off \in Nat /\ Lengths[s] \in Nat
<1>1. /\ Len(Kind) \in Nat /\ Section = 1..Len(Kind)
      /\ \A s \in 1..Len(Kind) : Lengths[s] \in Nat
  BY LengthTypes DEF Laid
<1>2. \A k \in 0..Len(Kind) : SumTo(Lengths, k) \in Nat
  BY <1>1, SumGrows
<1>3. Len(Kind) \in 0..Len(Kind) /\ \A s \in Section : s - 1 \in 0..Len(Kind)
  BY <1>1
<1>4. tail = 1 + SumTo(Lengths, Len(Kind)) /\ \A s \in Section : secs[s].off = 1 + SumTo(Lengths, s - 1)
  BY DEF Laid, LaidOut
<1>5. tail \in Nat /\ \A s \in Section : secs[s].off \in Nat
  BY <1>2, <1>3, <1>4
<1>6. buflen \in Nat
  <2>1. buflen = tail + 1
    BY DEF Laid
  <2> QED
    BY <1>5, <2>1
<1> QED
  BY <1>1, <1>5, <1>6

RebuildInv == ContentInv /\ Laid /\ KidInv /\ Typed

LEMMA TypedMeans == RebuildInv => TypeOK
<1> SUFFICES ASSUME RebuildInv PROVE TypeOK
  OBVIOUS
<1>1. ASSUME NEW s \in Section
      PROVE  /\ secs[s].branch \in {Branch(s, v) : v \in 0..MaxKey}
             /\ secs[s].loop \in 0..MaxKey
             /\ secs[s].off \in Nat /\ secs[s].len \in Nat
             /\ secs[s].elems \in Seq(Element)
  <2>1. secs[s].off \in Nat
    BY LaidPlaces DEF RebuildInv
  <2>2. IsList(secs[s].elems) /\ Lies(secs[s].elems, secs[s].off)
    BY DEF RebuildInv, Laid, Listed, LaidOut
  <2>3. TypedSection(s)
    BY DEF RebuildInv, Typed
  <2> QED
    BY <2>1, <2>2, <2>3, ElementList DEF TypedSection
<1>2. tail \in Nat /\ buflen \in Nat
  BY LaidPlaces DEF RebuildInv
<1> QED
  BY <1>1, <1>2 DEF RebuildInv, ContentInv, Content, LookInv, Cached, KidInv, Typed, TypeOK

(* What a lookup finds is an address.                                      *)
LEMMA LookupTyped ==
  ASSUME RebuildInv, NEW names \in SUBSET Name
  PROVE  /\ \A name \in Name : Found(name) \in Address /\ CacheRead[name] \in Address
         /\ Lookup(names) => cache' \in [Name -> Address] /\ touched' \subseteq Address
<1>1. Null \in Address
  BY KindAssumption DEF KindAssumption, Null, Address, MaxBlock
<1>2. ASSUME NEW name \in Name PROVE Found(name) \in Address /\ CacheRead[name] \in Address
  <2>1. Search(name) \in Address
    BY <1>1, SearchLive DEF RebuildInv, ContentInv, LookInv, Typed
  <2>2. CacheRead[name] \in {Null, Search(name)} /\ Found(name) = Search(name)
    BY LookupFinds DEF RebuildInv, ContentInv, LookInv
  <2> QED
    BY <1>1, <2>1, <2>2
<1>3. ASSUME Lookup(names) PROVE cache' \in [Name -> Address] /\ touched' \subseteq Address
  <2>1. cache' = [name \in Name |-> IF name \in names THEN Found(name) ELSE CacheRead[name]]
        /\ touched' = {Found(name) : name \in names} \ {Null}
    BY <1>3 DEF Lookup
  <2> QED
    BY <1>2, <2>1
<1> QED
  BY <1>2, <1>3

(* A section that keeps what it is but for its elements' offsets.          *)
LEMMA SectionTyped ==
  ASSUME NEW s \in Section, TypedSection(s), secs'[s].branch = secs[s].branch, secs'[s].loop = secs[s].loop,
         secs'[s].len = secs[s].len, DOMAIN secs'[s].elems = DOMAIN secs[s].elems,
         \A i \in DOMAIN secs[s].elems :
            /\ secs'[s].elems[i].name = secs[s].elems[i].name /\ secs'[s].elems[i].addr = secs[s].elems[i].addr
            /\ secs'[s].elems[i].val \in {secs[s].elems[i].val, 0, 1}
  PROVE  TypedSection(s)'
  BY DEF TypedSection, TypedElement, Branch, MissingFile

(* A step that leaves the sections and only looks something up.            *)
LEMMA TypedKept ==
  ASSUME RebuildInv, UNCHANGED <<secs, outer, tmp>>, live' \subseteq Address, cur' \in 0..(Len(Kind) + 1),
         \/ UNCHANGED <<cache, touched>>
         \/ \E names \in SUBSET Name : Lookup(names)
  PROVE  Typed'
<1>1. cache' \in [Name -> Address] /\ touched' \subseteq Address
  BY LookupTyped DEF RebuildInv, Typed
<1>2. ASSUME NEW s \in Section PROVE TypedSection(s)'
  BY DEF RebuildInv, Typed, TypedSection, TypedElement, Branch, MissingFile
<1> QED
  BY <1>1, <1>2 DEF RebuildInv, Typed

LEMMA TypedInit == ASSUME Init PROVE Typed
<1>0. /\ Section = 1..Len(Kind) /\ Len(Kind) \in Nat /\ MaxKey \in Nat /\ key \in 0..MaxKey /\ key \in Nat
      /\ MaxBlock \in Nat /\ Len(Kind) <= MaxBlock
  BY KindAssumption DEF KindAssumption, Section, MaxBlock, Init
<1>1. ASSUME NEW s \in Section
      PROVE  /\ secs[s].branch = Branch(s, key) /\ secs[s].loop = key
             /\ DOMAIN secs[s].elems = DOMAIN Body(s, key)
             /\ \A i \in DOMAIN Body(s, key) :
                   /\ secs[s].elems[i].name = Body(s, key)[i]
                   /\ secs[s].elems[i].addr = <<s, i>> /\ secs[s].elems[i].val = 0
  BY DEF Init, InitSections, Sized
<1>2. ASSUME NEW s \in Section, NEW i \in DOMAIN Body(s, key) PROVE <<s, i>> \in Address
  <2>1. PICK n \in Nat : DOMAIN Body(s, key) = 1..n
    BY <1>0, BodyDomain
  <2>2. i \in Nat /\ s \in 0..MaxBlock
    BY <1>0, <2>1
  <2> QED
    BY <2>2 DEF Address
<1>3. ASSUME NEW s \in Section PROVE TypedSection(s)
  <2>1. ASSUME NEW i \in DOMAIN secs[s].elems PROVE TypedElement(secs[s].elems[i])
    <3>1. i \in DOMAIN Body(s, key) /\ Body(s, key)[i] \in Name
      BY <1>0, <1>1, BodyNamed DEF Name
    <3>2. /\ secs[s].elems[i].name = Body(s, key)[i]
          /\ secs[s].elems[i].addr = <<s, i>> /\ secs[s].elems[i].val = 0
      BY <1>1, <3>1
    <3> QED
      BY <1>2, <3>1, <3>2 DEF TypedElement
  <2>2. secs[s].len \in Nat
    BY LaidInit, LaidPlaces DEF Init, Laid
  <2> QED
    BY <1>0, <1>1, <2>1, <2>2 DEF TypedSection
<1>4. Null \in Address /\ KeyAddr \in Address /\ TailAddr \in Address
  BY <1>0 DEF Null, KeyAddr, TailAddr, Address
<1>5. live \subseteq Address
  <2>1. \A p \in Places : At(p).addr \in Address
    BY <1>1, <1>2 DEF Places, At
  <2> QED
    BY <1>4, <2>1 DEF Init
<1>6. cache \in [Name -> Address]
  <2>1. \A name \in Name : Search(name) \in Address
    BY <1>4, <1>5, LookInit, SearchLive DEF LookInv
  <2> QED
    BY <2>1 DEF Init
<1>7. outer \in [1..Depth -> Nat]
  BY LookInit, LaidInit, EnclosedLength DEF Init
<1>8. tmp \in Seq(Element) /\ cur \in 0..(Len(Kind) + 1) /\ touched \subseteq Address
  BY <1>0 DEF Init
<1> QED
  BY <1>3, <1>5, <1>6, <1>7, <1>8 DEF Typed

LEMMA TypedStep == RebuildInv /\ [Next]_vars => Typed'
<1> SUFFICES ASSUME RebuildInv, [Next]_vars PROVE Typed'
  OBVIOUS
<1>0. /\ Section = 1..Len(Kind) /\ Len(Kind) \in Nat /\ MaxKey \in Nat /\ key \in 0..MaxKey /\ key \in Nat
      /\ cur \in 0..(Len(Kind) + 1)
  <2>1. Section = 1..Len(Kind) /\ Len(Kind) \in Nat /\ MaxKey \in Nat
    BY KindAssumption DEF KindAssumption, Section
  <2>2. key \in 0..MaxKey /\ cur \in 0..(Len(Kind) + 1)
    BY DEF RebuildInv, ContentInv, Content, Typed
  <2> QED
    BY <2>1, <2>2
<1>a. Shape
  BY DEF RebuildInv, ContentInv, LookInv
<1>b. live \subseteq Address /\ \A s \in Section : TypedSection(s)
  BY DEF RebuildInv, Typed
<1>c. {N} \subseteq Name /\ 0 \in 0..(Len(Kind) + 1) /\ 1 \in 0..(Len(Kind) + 1)
  BY <1>0 DEF Name
<1>1. ASSUME NEW name \in Name, Get(name) PROVE Typed'
  <2>1. Lookup({name}) /\ {name} \in SUBSET Name /\ UNCHANGED <<secs, outer, tmp, live, cur>>
    BY <1>1 DEF Get, layout
  <2> QED
    BY <1>0, <1>b, <2>1, TypedKept
<1>2. ASSUME NEW name \in Section \X {"a", "b"}, NEW x \in {0, 1}, SetValue(name, x) PROVE Typed'
  <2>1. Lookup({name}) /\ UNCHANGED <<outer, tmp, live, cur>>
    BY <1>2 DEF SetValue
  <2>2. cache' \in [Name -> Address] /\ touched' \subseteq Address
    <3>1. {name} \in SUBSET Name
      BY DEF Name
    <3> QED
      BY <2>1, <3>1, LookupTyped
  <2>3. ASSUME NEW s \in Section PROVE TypedSection(s)'
    <3>1. secs'[s] = [secs[s] EXCEPT !.elems = [i \in DOMAIN @ |->
                  IF @[i].addr = Found(name) THEN [@[i] EXCEPT !.val = x] ELSE @[i]]]
      BY <1>2 DEF SetValue
    <3>2. DOMAIN secs[s] = SectionFields
          /\ \A i \in DOMAIN secs[s].elems : DOMAIN secs[s].elems[i] = ElementFields
      BY <1>a DEF Shape
    <3>3. /\ secs'[s].branch = secs[s].branch /\ secs'[s].loop = secs[s].loop /\ secs'[s].len = secs[s].len
          /\ secs'[s].elems = [i \in DOMAIN secs[s].elems |->
                IF secs[s].elems[i].addr = Found(name) THEN [secs[s].elems[i] EXCEPT !.val = x]
                ELSE secs[s].elems[i]]
      BY <3>1, <3>2 DEF SectionFields
    <3>4. ASSUME NEW i \in DOMAIN secs[s].elems
          PROVE  /\ secs'[s].elems[i].name = secs[s].elems[i].name
                 /\ secs'[s].elems[i].addr = secs[s].elems[i].addr
                 /\ secs'[s].elems[i].val \in {secs[s].elems[i].val, 0, 1}
      <4> DEFINE e == secs[s].elems[i]
                 f == secs'[s].elems[i]
      <4>1. f = IF e.addr = Found(name) THEN [e EXCEPT !.val = x] ELSE e
        BY <3>3
      <4>2. DOMAIN e = ElementFields
        BY <3>2
      <4> HIDE DEF e, f
      <4>3. f.name = e.name /\ f.addr = e.addr /\ f.val \in {e.val, 0, 1}
        BY <4>1, <4>2 DEF ElementFields
      <4> QED
        BY <4>3 DEF e, f
    <3>5. DOMAIN secs'[s].elems = DOMAIN secs[s].elems
      BY <3>3
    <3> QED
      BY <1>b, <3>3, <3>4, <3>5, SectionTyped
  <2> QED
    BY <1>0, <1>b, <2>1, <2>2, <2>3 DEF RebuildInv, Typed
<1>3. ASSUME NEW v \in 0..MaxKey, SetKey(v) PROVE Typed'
  <2>1. Lookup({N}) /\ UNCHANGED <<secs, outer, tmp, live>> /\ cur' = 1
    BY <1>3 DEF SetKey, layout
  <2> QED
    BY <1>b, <1>c, <2>1, TypedKept
<1>4. ASSUME NEW s \in Section, Ignore(s) PROVE Typed'
  <2>1. Lookup({N}) /\ UNCHANGED <<secs, outer, tmp, live>> /\ cur' = s + 1
    BY <1>4 DEF Ignore, Reparse, layout
  <2>2. cur' \in 0..(Len(Kind) + 1)
    BY <1>0, <2>1
  <2> QED
    BY <1>b, <1>c, <2>1, <2>2, TypedKept
<1>5. ASSUME NEW s \in Section, StartRebuild(s) PROVE Typed'
  <2>1. /\ Lookup({N}) /\ UNCHANGED <<outer, tmp, live>> /\ cur' \in {cur, 0}
        /\ secs' = [secs EXCEPT ![s].branch = Branch(s, key)]
    BY <1>5 DEF StartRebuild, Reparse, Fail
  <2>2. cache' \in [Name -> Address] /\ touched' \subseteq Address
    BY <1>c, <2>1, LookupTyped
  <2>3. ASSUME NEW r \in Section PROVE TypedSection(r)'
    <3>1. /\ secs'[r].branch = (IF r = s THEN Branch(s, key) ELSE secs[r].branch)
          /\ secs'[r].loop = secs[r].loop /\ secs'[r].len = secs[r].len /\ secs'[r].elems = secs[r].elems
      BY <1>a, <2>1 DEF Shape, SectionFields
    <3> QED
      BY <1>0, <1>b, <3>1 DEF TypedSection, TypedElement
  <2>4. cur' \in 0..(Len(Kind) + 1)
    BY <1>0, <1>c, <2>1
  <2> QED
    BY <1>b, <2>1, <2>2, <2>3, <2>4 DEF RebuildInv, Typed
<1>6. ASSUME NEW s \in Section, Create(s) PROVE Typed'
  <2> DEFINE body == Body(s, key)
             names == Referred(s) \cup ToSet(body)
  <2>1. /\ Lookup(names) /\ UNCHANGED <<secs, outer, cur>> /\ \E b \in 1..MaxBlock : Free(b)
        /\ live' = live \cup {<<Fresh, i>> : i \in DOMAIN body}
    BY <1>6 DEF Create, layout
  <2>2. PICK n \in Nat : DOMAIN body = 1..n
    BY <1>0, BodyDomain
  <2>3. \A i \in DOMAIN body : body[i] \in Name
    BY <1>0, BodyNamed DEF Name
  <2>4. names \in SUBSET Name
    <3>1. \A r \in 1..(s - 1) : r \in Section
      BY <1>0
    <3>2. Referred(s) \subseteq Name
      BY <3>1 DEF Referred, Name
    <3>3. ToSet(body) \subseteq Name
      BY <2>3 DEF ToSet
    <3> QED
      BY <3>2, <3>3
  <2>5. Fresh \in 0..MaxBlock
    <3>1. Fresh \in 1..MaxBlock
      BY <2>1 DEF Fresh
    <3> QED
      BY <3>1
  <2>6. \A i \in DOMAIN body : <<Fresh, i>> \in Address
    <3>1. \A i \in DOMAIN body : i \in Nat
      BY <2>2
    <3> QED
      BY <2>5, <3>1 DEF Address
  <2>7. \A name \in Name : Copied(s, name) \in {0, 1}
    <3>1. ASSUME NEW p \in Places PROVE At(p).val \in {0, 1}
      BY <1>b DEF Places, At, TypedSection, TypedElement
    <3>2. ASSUME NEW a PROVE ValueOf(a) \in {0, 1}
      <4> DEFINE places == {p \in Places : At(p).addr = a}
      <4>1. CASE places = {}
        BY <4>1 DEF ValueOf
      <4>2. CASE places # {}
        <5> DEFINE p == CHOOSE p \in places : TRUE
        <5>1. p \in places
          BY <4>2
        <5>2. ValueOf(a) = At(p).val
          BY <4>2 DEF ValueOf
        <5> HIDE DEF p
        <5> QED
          BY <3>1, <5>1, <5>2
      <4> QED
        BY <4>1, <4>2
    <3> QED
      BY <3>2 DEF Copied
  <2>8. /\ DOMAIN tmp' = DOMAIN body
        /\ \A i \in DOMAIN body : /\ tmp'[i].name = body[i] /\ tmp'[i].addr = <<Fresh, i>>
                                  /\ tmp'[i].val = Copied(s, body[i])
    BY <1>0, <1>6, Created
  <2> HIDE DEF body
  <2>9. tmp' \in Seq(Element)
    <3>1. IsList(tmp') /\ Lies(tmp', 0)
      BY <1>6, CreatedLies DEF RebuildInv, ContentInv
    <3>2. \A i \in DOMAIN tmp' : TypedElement(tmp'[i])
      BY <2>3, <2>6, <2>7, <2>8 DEF TypedElement
    <3> DEFINE new == tmp'
    <3> HIDE DEF new
    <3>3. 0 \in Nat
      OBVIOUS
    <3>4. IsList(new) /\ Lies(new, 0) /\ \A i \in DOMAIN new : TypedElement(new[i])
      BY <3>1, <3>2 DEF new
    <3>5. new \in Seq(Element)
      BY <3>3, <3>4, ElementList
    <3> QED
      BY <3>5 DEF new
  <2>10. live' \subseteq Address
    BY <1>b, <2>1, <2>6
  <2>11. cache' \in [Name -> Address] /\ touched' \subseteq Address
    BY <2>1, <2>4, LookupTyped
  <2>12. ASSUME NEW r \in Section PROVE TypedSection(r)'
    BY <1>b, <2>1 DEF TypedSection, TypedElement, Branch, MissingFile
  <2> QED
    BY <1>0, <2>1, <2>9, <2>10, <2>11, <2>12 DEF RebuildInv, Typed
<1>7. ASSUME NEW s \in Section, CreateFails(s) PROVE Typed'
  <2>1. UNCHANGED <<secs, outer, tmp, live, cache, touched>> /\ cur' = 0
    BY <1>7 DEF CreateFails, Fail, layout
  <2> QED
    BY <1>b, <1>c, <2>1, TypedKept
<1>8. ASSUME NEW s \in Section, Replace(s) PROVE Typed'
  <2>1. /\ pc = "replace" /\ tmp' = <<>> /\ touched' = {} /\ live' \subseteq live
        /\ UNCHANGED <<outer, cache, cur>>
    BY <1>8 DEF Replace
  <2>2. /\ \A r \in Section : secs'[r].branch = secs[r].branch
        /\ DOMAIN secs'[s].elems = DOMAIN tmp
        /\ \A i \in DOMAIN tmp : secs'[s].elems[i].name = tmp[i].name /\ secs'[s].elems[i].addr = tmp[i].addr
        /\ \A r \in Section \ {s} :
              /\ DOMAIN secs'[r].elems = DOMAIN secs[r].elems
              /\ \A i \in DOMAIN secs[r].elems :
                    /\ secs'[r].elems[i].name = secs[r].elems[i].name
                    /\ secs'[r].elems[i].addr = secs[r].elems[i].addr
    BY <1>8, Replaced DEF RebuildInv, ContentInv
  <2>3. /\ \A r \in Section : secs'[r].loop = secs[r].loop /\ secs'[r].len = secs[r].len
        /\ \A i \in DOMAIN tmp : secs'[s].elems[i].val = tmp[i].val
        /\ \A r \in Section \ {s} : \A i \in DOMAIN secs[r].elems : secs'[r].elems[i].val = secs[r].elems[i].val
    <3> DEFINE increase == Bytes(tmp) - secs[s].len
    <3>1. secs' = [r \in Section |->
            IF r < s THEN secs[r]
            ELSE IF r = s THEN [secs[s] EXCEPT !.elems = Shift(tmp, secs[s].off)]
            ELSE [secs[r] EXCEPT !.off = @ + increase, !.elems = Shift(@, increase)]]
      BY <1>8 DEF Replace
    <3> HIDE DEF increase
    <3>2. /\ \A r \in Section : DOMAIN secs[r] = SectionFields
          /\ \A r \in Section : \A i \in DOMAIN secs[r].elems : DOMAIN secs[r].elems[i] = ElementFields
          /\ \A i \in DOMAIN tmp : DOMAIN tmp[i] = ElementFields
      BY <1>a, <2>1 DEF Shape, RebuildInv, ContentInv, LookInv, InKid
    <3>3. \A r \in Section : secs'[r].loop = secs[r].loop /\ secs'[r].len = secs[r].len
      BY <3>1, <3>2 DEF SectionFields
    <3>4. \A i \in DOMAIN tmp : secs'[s].elems[i].val = tmp[i].val
      <4>1. ~(s < s)
        BY <1>0
      <4>2. secs'[s] = [secs[s] EXCEPT !.elems = Shift(tmp, secs[s].off)]
        BY <3>1, <4>1
      <4>3. secs'[s].elems = Shift(tmp, secs[s].off)
        BY <3>2, <4>2 DEF SectionFields
      <4> QED
        BY <3>2, <4>3 DEF Shift, ElementFields
    <3>5. ASSUME NEW r \in Section \ {s}, NEW i \in DOMAIN secs[r].elems
          PROVE  secs'[r].elems[i].val = secs[r].elems[i].val
      <4>1. CASE r < s
        BY <3>1, <4>1
      <4>2. CASE ~(r < s)
        <5>1. secs'[r] = [secs[r] EXCEPT !.off = @ + increase, !.elems = Shift(@, increase)]
          BY <3>1, <4>2
        <5>2. secs'[r].elems = Shift(secs[r].elems, increase)
          BY <3>2, <5>1 DEF SectionFields
        <5> QED
          BY <3>2, <5>2 DEF Shift, ElementFields
      <4> QED
        BY <4>1, <4>2
    <3> QED
      BY <3>3, <3>4, <3>5
  <2>4. ASSUME NEW r \in Section PROVE TypedSection(r)'
    <3>1. CASE r # s
      BY <1>b, <2>2, <2>3, <3>1, SectionTyped
    <3>2. CASE r = s
      <4>1. tmp \in Seq(Element)
        BY DEF RebuildInv, Typed
      <4>2. \A i \in DOMAIN tmp : TypedElement(tmp[i])
        <5>1. \A i \in DOMAIN tmp : tmp[i] \in Element
          BY <4>1
        <5>2. ASSUME NEW e \in Element PROVE TypedElement(e)
          BY DEF Element, TypedElement
        <5> QED
          BY <5>1, <5>2
      <4>3. \A i \in DOMAIN secs'[s].elems : TypedElement(secs'[s].elems[i])
        BY <2>2, <2>3, <4>2 DEF TypedElement
      <4>4. /\ secs'[s].branch \in {Branch(s, v) : v \in 0..MaxKey}
            /\ secs'[s].loop \in 0..MaxKey /\ secs'[s].len \in Nat
        BY <1>b, <2>2, <2>3 DEF TypedSection
      <4> QED
        BY <3>2, <4>3, <4>4 DEF TypedSection, TypedElement, Branch, MissingFile
    <3> QED
      BY <3>1, <3>2
  <2>5. <<>> \in Seq(Element)
    OBVIOUS
  <2> QED
    BY <1>0, <1>b, <2>1, <2>4, <2>5 DEF RebuildInv, Typed
<1>9. CASE AdjustKid
  <2>1. UNCHANGED <<secs, outer, tmp, live, cache, touched, cur>>
    BY <1>9 DEF AdjustKid, layout
  <2> QED
    BY <1>0, <1>b, <2>1, TypedKept
<1>10. CASE AdjustKidFails
  <2>1. UNCHANGED <<secs, outer, tmp, live, cache, touched>> /\ cur' = 0
    BY <1>10 DEF AdjustKidFails, Fail, layout
  <2> QED
    BY <1>b, <1>c, <2>1, TypedKept
<1>m. ASSUME Measured, UNCHANGED <<key>>, NEW r \in Section PROVE TypedSection(r)'
  <2>1. /\ secs'[r].branch = secs[r].branch /\ secs'[r].loop = secs[r].loop
        /\ secs'[r].elems = secs[r].elems /\ secs'[r].len = Bytes(secs[r].elems)
    BY <1>a, <1>m DEF Measured, Shape, SectionFields
  <2>2. secs'[r].len \in Nat
    BY <2>1, BytesSum DEF RebuildInv, Laid, Listed
  <2> QED
    BY <1>b, <2>1, <2>2 DEF TypedSection, TypedElement, Branch, MissingFile
<1>e. \A d \in 1..Depth : Enclosed(d) \in Nat
  BY EnclosedLength DEF RebuildInv, ContentInv
<1>11. CASE Settle
  <2>1. Contiguous
    BY LaidContiguous DEF RebuildInv, ContentInv, LookInv, Laid
  <2>2. /\ Measured /\ outer' = [d \in 1..Depth |-> Enclosed(d)]
        /\ cur' = cur + 1 /\ UNCHANGED <<key, tmp, live, cache, touched>> /\ pc = "settle"
    BY <1>11, <2>1 DEF Settle
  <2>3. \A r \in Section : TypedSection(r)'
    BY <1>m, <2>2
  <2>4. outer' \in [1..Depth -> Nat]
    BY <1>e, <2>2
  <2>5. cur' \in 0..(Len(Kind) + 1)
    <3>1. cur \in Section
      BY <2>2 DEF RebuildInv, ContentInv, Content, Building
    <3> QED
      BY <1>0, <2>2, <3>1
  <2> QED
    BY <2>2, <2>3, <2>4, <2>5 DEF RebuildInv, Typed
<1>14. ASSUME NEW d \in 1..Depth, SettleFails(d) PROVE Typed'
  <2>1. /\ Measured /\ outer' = [c \in 1..Depth |-> IF c < d THEN Enclosed(c) ELSE outer[c]]
        /\ cur' = 0 /\ UNCHANGED <<key, tmp, live, cache, touched>>
    BY <1>14 DEF SettleFails, Fail
  <2>2. \A r \in Section : TypedSection(r)'
    BY <1>m, <2>1
  <2>3. outer' \in [1..Depth -> Nat]
    BY <1>e, <2>1 DEF RebuildInv, Typed
  <2>4. cur' \in 0..(Len(Kind) + 1)
    BY <1>c, <2>1
  <2> QED
    BY <2>1, <2>2, <2>3, <2>4 DEF RebuildInv, Typed
<1>12. CASE Return
  <2>1. UNCHANGED <<secs, outer, tmp, live, cache, touched>> /\ cur' = 0
    BY <1>12 DEF Return, layout
  <2> QED
    BY <1>b, <1>c, <2>1, TypedKept
<1>13. CASE UNCHANGED vars
  <2>1. UNCHANGED <<secs, outer, tmp, live, cache, touched, cur>>
    BY <1>13 DEF vars, layout
  <2> QED
    BY <1>0, <1>b, <2>1, TypedKept
<1> QED
  BY <1>1, <1>2, <1>3, <1>4, <1>5, <1>6, <1>7, <1>8, <1>9, <1>10, <1>11, <1>12, <1>13, <1>14 DEF Next

LEMMA RebuildInvariant == Spec => []RebuildInv
<1>1. Init => RebuildInv
  <2>1. Init => KidInv
    BY DEF Init, KidInv
  <2> QED
    BY <2>1, LookInit, ContentInit, LaidInit, TypedInit DEF RebuildInv, ContentInv
<1>2. RebuildInv /\ [Next]_vars => RebuildInv'
  BY LookStep, ContentStep, LaidStep, KidStep, TypedStep DEF RebuildInv, ContentInv
<1> QED
  BY <1>1, <1>2, PTL DEF Spec

(* Every variable keeps its type: the elements that a section is given are *)
(* accessors of the handle, whatever the lookups return is an address.     *)
THEOREM TypeCorrect == Spec => []TypeOK
<1>1. RebuildInv => TypeOK
  BY TypedMeans
<1> QED
  BY <1>1, RebuildInvariant, PTL

-----------------------------------------------------------------------------
(* Iterators *)

(* A program that iterates over the keys does to the handle only what one  *)
(* that gets and sets keys may do: what is proved of the handle holds      *)
(* beside an iterator.                                                     *)
THEOREM IteratorsLeaveTheHandle == IterSpec => Spec
<1>1. IterInit => Init
  BY DEF IterInit
<1>2. [IterNext]_allVars => [Next]_vars
  BY DEF IterNext, allVars, New, Rewind, Delete, Step, Begins, HandleStep
<1> QED
  BY <1>1, <1>2, PTL DEF IterSpec, Spec

-----------------------------------------------------------------------------
(* The order of the keys *)

(* The keys of the tree, and which of two accessors comes first.           *)
KeyOf(p) == [name |-> At(p).name, addr |-> At(p).addr]
TreeKeys == {KeyOf(p) : p \in Places} \cup {[name |-> N, addr |-> KeyAddr], [name |-> T, addr |-> TailAddr]}
Standing == {k.addr : k \in TreeKeys}
Earlier(a, b) ==
    \/ a = KeyAddr /\ b # KeyAddr
    \/ b = TailAddr /\ a # TailAddr
    \/ \E p, q \in Places : Before(p, q) /\ At(p).addr = a /\ At(q).addr = b

(* e has the elements of the first k sections in the order of the tree.    *)
InFirst(k, p) == p \in Places /\ p[1] <= k
Spread(e, k) ==
    /\ IsList(e)
    /\ \A i \in DOMAIN e : \E p \in Places : InFirst(k, p) /\ e[i] = At(p)
    /\ \A p \in Places : InFirst(k, p) => \E i \in DOMAIN e : e[i] = At(p)
    /\ \A i, j \in DOMAIN e : i < j =>
          \E p, q \in Places : InFirst(k, p) /\ InFirst(k, q) /\ Before(p, q) /\ e[i] = At(p) /\ e[j] = At(q)

LEMMA ListBehind ==
  ASSUME NEW e, NEW f, IsList(e), IsList(f)
  PROVE  /\ IsList(e \o f)
         /\ DOMAIN e = 1..Len(e) /\ DOMAIN f = 1..Len(f) /\ Len(e) \in Nat /\ Len(f) \in Nat
         /\ DOMAIN (e \o f) = 1..(Len(e) + Len(f))
         /\ \A i \in DOMAIN e : (e \o f)[i] = e[i]
         /\ \A i \in DOMAIN f : (e \o f)[Len(e) + i] = f[i]
<1> DEFINE S == {e[i] : i \in DOMAIN e} \cup {f[i] : i \in DOMAIN f}
<1>1. /\ Len(e) \in Nat /\ DOMAIN e = 1..Len(e) /\ e \in Seq(S)
      /\ Len(f) \in Nat /\ DOMAIN f = 1..Len(f) /\ f \in Seq(S)
  <2>1. e \in Seq({e[i] : i \in DOMAIN e}) /\ f \in Seq({f[i] : i \in DOMAIN f})
    BY ListTypes
  <2> QED
    BY <2>1, ListTypes
<1> HIDE DEF S
<1>2. DOMAIN (e \o f) = 1..(Len(e) + Len(f))
  BY <1>1
<1>3. \A i \in DOMAIN e : (e \o f)[i] = e[i]
  BY <1>1
<1>4. ASSUME NEW i \in DOMAIN f PROVE (e \o f)[Len(e) + i] = f[i]
  BY <1>1
<1> QED
  BY <1>1, <1>2, <1>3, <1>4, BytesBehind

(* One section more.                                                       *)
LEMMA SpreadOn ==
  ASSUME Shape, Listed, NEW k \in Nat, k + 1 \in Section, NEW e, Spread(e, k)
  PROVE  Spread(e \o secs[k + 1].elems, k + 1)
<1> DEFINE f == secs[k + 1].elems
           g == e \o f
<1>1. IsList(e) /\ IsList(f)
  BY DEF Spread, Listed
<1>2. /\ IsList(g)
      /\ DOMAIN e = 1..Len(e) /\ DOMAIN f = 1..Len(f) /\ Len(e) \in Nat /\ Len(f) \in Nat
      /\ DOMAIN g = 1..(Len(e) + Len(f))
      /\ \A i \in DOMAIN e : g[i] = e[i]
      /\ \A i \in DOMAIN f : g[Len(e) + i] = f[i]
  <2> HIDE DEF f
  <2> QED
    BY <1>1, ListBehind
<1>3. \A p \in Places : p = <<p[1], p[2]>> /\ p[1] \in Nat /\ p[2] \in DOMAIN secs[p[1]].elems
  BY KindAssumption DEF KindAssumption, Section, Places
<1>4. \A i \in DOMAIN f : /\ <<k + 1, i>> \in Places /\ InFirst(k + 1, <<k + 1, i>>)
                          /\ At(<<k + 1, i>>) = f[i]
  BY DEF Places, At, InFirst
<1>5. \A p \in Places : InFirst(k + 1, p) <=> InFirst(k, p) \/ p[1] = k + 1
  BY <1>3 DEF InFirst
<1> HIDE DEF f, g
<1>6. ASSUME NEW i \in DOMAIN g
      PROVE  \/ i \in DOMAIN e /\ g[i] = e[i]
             \/ i - Len(e) \in DOMAIN f /\ i > Len(e) /\ g[i] = f[i - Len(e)]
  <2>1. CASE i \in DOMAIN e
    BY <1>2, <2>1
  <2>2. CASE i \notin DOMAIN e
    <3>1. i - Len(e) \in DOMAIN f /\ i > Len(e) /\ Len(e) + (i - Len(e)) = i
      BY <1>2, <2>2
    <3> QED
      BY <1>2, <3>1
  <2> QED
    BY <2>1, <2>2
<1>7. ASSUME NEW i \in DOMAIN g PROVE \E p \in Places : InFirst(k + 1, p) /\ g[i] = At(p)
  <2>1. CASE i \in DOMAIN e /\ g[i] = e[i]
    <3>1. PICK p \in Places : InFirst(k, p) /\ e[i] = At(p)
      BY <2>1 DEF Spread
    <3> QED
      BY <1>5, <2>1, <3>1
  <2>2. CASE i - Len(e) \in DOMAIN f /\ g[i] = f[i - Len(e)]
    BY <1>4, <2>2
  <2> QED
    BY <1>6, <2>1, <2>2
<1>8. ASSUME NEW p \in Places, InFirst(k + 1, p) PROVE \E i \in DOMAIN g : g[i] = At(p)
  <2>1. CASE InFirst(k, p)
    <3>1. PICK i \in DOMAIN e : e[i] = At(p)
      BY <2>1 DEF Spread
    <3>2. i \in DOMAIN g
      BY <1>2
    <3> QED
      BY <1>2, <3>1, <3>2
  <2>2. CASE p[1] = k + 1
    <3>1. p[2] \in DOMAIN f /\ At(p) = f[p[2]]
      BY <1>3, <2>2 DEF f, At
    <3>2. Len(e) + p[2] \in DOMAIN g
      BY <1>2, <3>1
    <3> QED
      BY <1>2, <3>1, <3>2
  <2> QED
    BY <1>5, <1>8, <2>1, <2>2
<1>9. ASSUME NEW i \in DOMAIN g, NEW j \in DOMAIN g, i < j
      PROVE  \E p, q \in Places : /\ InFirst(k + 1, p) /\ InFirst(k + 1, q) /\ Before(p, q)
                                  /\ g[i] = At(p) /\ g[j] = At(q)
  <2>1. CASE j \in DOMAIN e
    <3>1. i \in DOMAIN e /\ g[i] = e[i] /\ g[j] = e[j]
      BY <1>2, <1>9, <2>1
    <3>2. PICK p, q \in Places :
             InFirst(k, p) /\ InFirst(k, q) /\ Before(p, q) /\ e[i] = At(p) /\ e[j] = At(q)
      BY <1>9, <2>1, <3>1 DEF Spread
    <3> QED
      BY <1>5, <3>1, <3>2
  <2>2. CASE j \notin DOMAIN e /\ i \in DOMAIN e
    <3>1. j - Len(e) \in DOMAIN f /\ g[j] = f[j - Len(e)] /\ g[i] = e[i]
      BY <1>2, <1>6, <2>2
    <3>2. PICK p \in Places : InFirst(k, p) /\ e[i] = At(p)
      BY <2>2 DEF Spread
    <3> DEFINE q == <<k + 1, j - Len(e)>>
    <3>3. q \in Places /\ InFirst(k + 1, q) /\ At(q) = f[j - Len(e)] /\ q[1] = k + 1
      BY <1>4, <3>1
    <3>4. Before(p, q)
      BY <1>3, <3>2, <3>3 DEF InFirst, Before
    <3> HIDE DEF q
    <3> QED
      BY <1>5, <3>1, <3>2, <3>3, <3>4
  <2>3. CASE i \notin DOMAIN e
    <3>1. j \notin DOMAIN e
      BY <1>2, <1>9, <2>3
    <3>2. /\ i - Len(e) \in DOMAIN f /\ g[i] = f[i - Len(e)]
          /\ j - Len(e) \in DOMAIN f /\ g[j] = f[j - Len(e)]
      BY <1>6, <2>3, <3>1
    <3> DEFINE p == <<k + 1, i - Len(e)>>
               q == <<k + 1, j - Len(e)>>
    <3>3. /\ p \in Places /\ InFirst(k + 1, p) /\ At(p) = f[i - Len(e)]
          /\ q \in Places /\ InFirst(k + 1, q) /\ At(q) = f[j - Len(e)]
      BY <1>4, <3>2
    <3>4. i - Len(e) < j - Len(e)
      BY <1>2, <1>9
    <3>5. Before(p, q)
      BY <3>4 DEF Before
    <3> HIDE DEF p, q
    <3> QED
      BY <3>2, <3>3, <3>5
  <2> QED
    BY <2>1, <2>2, <2>3
<1> QED
  BY <1>2, <1>7, <1>8, <1>9, ZenonT(40) DEF Spread, g, f

LEMMA ElementsSpread == ASSUME Shape, Listed PROVE Spread(Elements, Len(Kind))
<1>1. Len(Kind) \in Nat /\ Section = 1..Len(Kind)
  BY LengthTypes
<1>2. DOMAIN secs = Section
  BY DEF Shape
<1>3. PICK H : Joins(H) /\ Elements = H[Len(Kind)]
  BY <1>2, ElementsJoined
<1> DEFINE right == {k \in Nat : Spread(H[k], k)}
<1>4. 0 \in right
  <2>1. H[0] = <<>>
    BY <1>3 DEF Joins
  <2>2. IsList(<<>>) /\ DOMAIN <<>> = {}
    <3>1. DOMAIN <<>> = 1..0 /\ 0 \in Nat /\ <<>> = [i \in 1..0 |-> <<>>[i]]
      OBVIOUS
    <3> QED
      BY <3>1 DEF IsList
  <2>3. \A p \in Places : ~InFirst(0, p)
    BY <1>1 DEF InFirst, Places
  <2>4. Spread(<<>>, 0)
    BY <2>2, <2>3 DEF Spread
  <2> QED
    BY <2>1, <2>4
<1>5. ASSUME NEW k \in 0..(Len(Kind) - 1), k \in right PROVE k + 1 \in right
  <2>1. k \in Nat /\ k + 1 \in Section /\ (k + 1) - 1 = k /\ k + 1 \in Nat
    BY <1>1
  <2>2. H[k + 1] = H[(k + 1) - 1] \o secs[k + 1].elems
    BY <1>1, <1>3, <2>1 DEF Joins
  <2>3. Spread(H[k] \o secs[k + 1].elems, k + 1)
    BY <1>5, <2>1, SpreadOn
  <2> QED
    BY <2>1, <2>2, <2>3
<1> HIDE DEF right
<1>6. \A k \in 0..Len(Kind) : k \in right
  BY <1>1, <1>4, <1>5, Induction
<1> QED
  BY <1>1, <1>3, <1>6 DEF right

(* Accessors of different places are different.                            *)
LEMMA PlacesDiffer ==
  ASSUME Shape, Blocks
  PROVE  /\ \A p \in Places : At(p).addr \notin {KeyAddr, TailAddr}
         /\ \A p, q \in Places : At(p).addr = At(q).addr => p = q
         /\ \A p, q \in Places : Before(p, q) => p # q /\ ~Before(q, p)
         /\ \A p, q \in Places : p # q => Before(p, q) \/ Before(q, p)
         /\ KeyAddr # TailAddr
<1>1. KeyAddr[1] = 0 /\ TailAddr[1] = 0 /\ KeyAddr # TailAddr
  BY DEF KeyAddr, TailAddr
<1>2. \A p \in Places : p = <<p[1], p[2]>> /\ p[1] \in Nat /\ p[2] \in Nat
  BY KindAssumption DEF KindAssumption, Section, Places, Shape
<1>3. \A p, q \in Places : At(p).addr = At(q).addr => p = q
  <2>1. ASSUME NEW p \in Places, NEW q \in Places, At(p).addr = At(q).addr PROVE p = q
    <3>1. p[1] = q[1]
      BY <2>1 DEF Blocks
    <3>2. p[2] = q[2]
      BY <2>1 DEF Blocks
    <3> QED
      BY <1>2, <3>1, <3>2
  <2> QED
    BY <2>1
<1>4. \A p, q \in Places : Before(p, q) => p # q /\ ~Before(q, p)
  BY <1>2 DEF Before
<1>5. ASSUME NEW p \in Places, NEW q \in Places, p # q PROVE Before(p, q) \/ Before(q, p)
  BY <1>2, <1>5 DEF Before
<1> QED
  BY <1>1, <1>3, <1>4, <1>5 DEF Blocks

(* The keys are those of the tree, each is at one place, and the order of  *)
(* the places is that of the tree.                                         *)
KeysOrdered ==
    /\ \E n \in Nat : DOMAIN Keys = 1..n
    /\ ToSet(Keys) = TreeKeys
    /\ \A i \in DOMAIN Keys : PlaceOf(Keys[i].addr) = i
    /\ \A a, b \in Standing : PlaceOf(a) < PlaceOf(b) <=> Earlier(a, b)

LEMMA KeysAre ==
  ASSUME Shape, Listed
  PROVE  /\ Len(Elements) \in Nat /\ DOMAIN Elements = 1..Len(Elements)
         /\ DOMAIN Keys = 1..(Len(Elements) + 2) /\ Len(Keys) = Len(Elements) + 2
         /\ Keys[1] = [name |-> N, addr |-> KeyAddr]
         /\ \A i \in DOMAIN Elements : Keys[i + 1] = [name |-> Elements[i].name, addr |-> Elements[i].addr]
         /\ Keys[Len(Elements) + 2] = [name |-> T, addr |-> TailAddr]
<1> DEFINE e == Elements
           head == <<[name |-> N, addr |-> KeyAddr]>>
           middle == [i \in DOMAIN e |-> [name |-> e[i].name, addr |-> e[i].addr]]
           last == <<[name |-> T, addr |-> TailAddr]>>
           S == {head[1], last[1]} \cup {middle[i] : i \in DOMAIN e}
<1>1. IsList(e)
  BY ElementsSpread DEF Spread
<1>2. Len(e) \in Nat /\ DOMAIN e = 1..Len(e)
  <2> HIDE DEF e
  <2> QED
    BY <1>1, ListTypes
<1> HIDE DEF e
<1>3. middle \in Seq(S) /\ Len(middle) = Len(e) /\ \A i \in DOMAIN e : middle[i] = [name |-> e[i].name, addr |-> e[i].addr]
  <2>1. middle \in [1..Len(e) -> S]
    BY <1>2
  <2> HIDE DEF S
  <2>2. middle \in Seq(S)
    BY <1>2, <2>1
  <2> HIDE DEF middle
  <2>3. Len(middle) = Len(e)
    BY <1>2, <2>1
  <2> QED
    BY <2>2, <2>3 DEF middle
<1>4. head \in Seq(S) /\ Len(head) = 1 /\ head[1] = [name |-> N, addr |-> KeyAddr]
  OBVIOUS
<1>5. last \in Seq(S) /\ Len(last) = 1 /\ last[1] = [name |-> T, addr |-> TailAddr]
  OBVIOUS
<1>6. Keys = head \o middle \o last
  BY DEF Keys, e
<1> HIDE DEF head, middle, last, S
<1> DEFINE front == head \o middle
<1>7. /\ front \in Seq(S) /\ Len(front) = Len(e) + 1
      /\ front[1] = head[1] /\ \A i \in 1..Len(e) : front[i + 1] = middle[i]
  <2>1. /\ front \in Seq(S) /\ Len(front) = Len(head) + Len(middle)
        /\ \A i \in 1..Len(head) : front[i] = head[i]
        /\ \A i \in 1..Len(middle) : front[Len(head) + i] = middle[i]
    BY <1>3, <1>4, Concatenated
  <2> HIDE DEF front
  <2>2. 1 \in 1..Len(head) /\ \A i \in 1..Len(e) : 1 + i = i + 1
    BY <1>2, <1>4
  <2> QED
    BY <1>2, <1>3, <1>4, <2>1, <2>2
<1> HIDE DEF front
<1>9. Keys = front \o last
  BY <1>6 DEF front
<1>10. /\ Len(Keys) = Len(front) + Len(last) /\ DOMAIN Keys = 1..(Len(front) + Len(last))
       /\ \A i \in 1..Len(front) : Keys[i] = front[i]
       /\ \A i \in 1..Len(last) : Keys[Len(front) + i] = last[i]
  BY <1>5, <1>7, <1>9, Concatenated, SMTT(30)
<1>11. Keys[1] = front[1] /\ \A i \in 1..Len(e) : Keys[i + 1] = front[i + 1]
  <2>1. 1 \in 1..(Len(e) + 1) /\ \A i \in 1..Len(e) : i + 1 \in 1..(Len(e) + 1)
    BY <1>2
  <2> QED
    BY <1>7, <1>10, <2>1
<1>12. /\ Len(Keys) = Len(e) + 2 /\ DOMAIN Keys = 1..(Len(e) + 2)
       /\ Keys[Len(e) + 2] = last[1]
  <2>1. 1 \in 1..Len(last) /\ Len(front) + Len(last) = Len(e) + 2 /\ Len(front) + 1 = Len(e) + 2
    BY <1>2, <1>5, <1>7
  <2> QED
    BY <1>10, <2>1
<1> QED
  BY <1>2, <1>3, <1>4, <1>5, <1>7, <1>11, <1>12 DEF e

LEMMA KeysInOrder == Shape /\ Blocks /\ Listed => KeysOrdered
<1> SUFFICES ASSUME Shape, Blocks, Listed PROVE KeysOrdered
  OBVIOUS
<1> DEFINE m == Len(Elements)
           n == m + 2
<1>1. /\ m \in Nat /\ DOMAIN Elements = 1..m /\ n \in Nat
      /\ DOMAIN Keys = 1..n /\ Len(Keys) = n
      /\ Keys[1] = [name |-> N, addr |-> KeyAddr]
      /\ \A i \in 1..m : Keys[i + 1] = [name |-> Elements[i].name, addr |-> Elements[i].addr]
      /\ Keys[n] = [name |-> T, addr |-> TailAddr]
  BY KeysAre
<1>2. Spread(Elements, Len(Kind)) /\ \A p \in Places : InFirst(Len(Kind), p)
  BY ElementsSpread, LengthTypes DEF InFirst, Places
<1> HIDE DEF m, n
<1>3. /\ \A p \in Places : At(p).addr \notin {KeyAddr, TailAddr}
      /\ \A p, q \in Places : At(p).addr = At(q).addr => p = q
      /\ \A p, q \in Places : Before(p, q) => p # q /\ ~Before(q, p)
      /\ \A p, q \in Places : p # q => Before(p, q) \/ Before(q, p)
      /\ KeyAddr # TailAddr
  BY PlacesDiffer
<1>4. ASSUME NEW i \in DOMAIN Keys
      PROVE  \/ i = 1 \/ i = n
             \/ i - 1 \in 1..m /\ Keys[i] = [name |-> Elements[i - 1].name, addr |-> Elements[i - 1].addr]
  <2>1. CASE i # 1 /\ i # n
    <3>1. i - 1 \in 1..m /\ (i - 1) + 1 = i
      BY <1>1, <2>1 DEF n
    <3> QED
      BY <1>1, <3>1
  <2> QED
    BY <2>1
<1>5. ToSet(Keys) = TreeKeys
  <2>1. ASSUME NEW i \in DOMAIN Keys PROVE Keys[i] \in TreeKeys
    <3>1. CASE i \in {1, n}
      BY <1>1, <3>1 DEF TreeKeys
    <3>2. CASE i - 1 \in 1..m /\ Keys[i] = [name |-> Elements[i - 1].name, addr |-> Elements[i - 1].addr]
      <4>1. PICK p \in Places : Elements[i - 1] = At(p)
        BY <1>1, <1>2, <3>2 DEF Spread
      <4> QED
        BY <3>2, <4>1 DEF TreeKeys, KeyOf
    <3> QED
      BY <1>4, <3>1, <3>2
  <2>2. ASSUME NEW p \in Places PROVE \E i \in DOMAIN Keys : Keys[i] = KeyOf(p)
    <3>1. PICK i \in 1..m : Elements[i] = At(p)
      BY <1>1, <1>2 DEF Spread
    <3>2. i + 1 \in DOMAIN Keys
      BY <1>1 DEF n
    <3> QED
      BY <1>1, <3>1, <3>2 DEF KeyOf
  <2>3. 1 \in DOMAIN Keys /\ n \in DOMAIN Keys
    BY <1>1 DEF n
  <2> QED
    BY <1>1, <2>1, <2>2, <2>3 DEF ToSet, TreeKeys
<1>6. ASSUME NEW i \in DOMAIN Keys, NEW j \in DOMAIN Keys, i < j
      PROVE  Earlier(Keys[i].addr, Keys[j].addr) /\ Keys[i].addr # Keys[j].addr
  <2>1. j # 1 /\ i # n /\ i \in Nat /\ j \in Nat
    BY <1>1, <1>6
  <2>2. \A k \in DOMAIN Keys : k # 1 => Keys[k].addr # KeyAddr
    <3>1. ASSUME NEW k \in DOMAIN Keys, k # 1, k # n PROVE Keys[k].addr # KeyAddr
      <4>1. k - 1 \in 1..m /\ Keys[k] = [name |-> Elements[k - 1].name, addr |-> Elements[k - 1].addr]
        BY <1>4, <3>1
      <4>2. PICK p \in Places : Elements[k - 1] = At(p)
        BY <1>1, <1>2, <4>1 DEF Spread
      <4> QED
        BY <1>3, <4>1, <4>2
    <3> QED
      BY <1>1, <1>3, <3>1
  <2>3. \A k \in DOMAIN Keys : k # n => Keys[k].addr # TailAddr
    <3>1. ASSUME NEW k \in DOMAIN Keys, k # 1, k # n PROVE Keys[k].addr # TailAddr
      <4>1. k - 1 \in 1..m /\ Keys[k] = [name |-> Elements[k - 1].name, addr |-> Elements[k - 1].addr]
        BY <1>4, <3>1
      <4>2. PICK p \in Places : Elements[k - 1] = At(p)
        BY <1>1, <1>2, <4>1 DEF Spread
      <4> QED
        BY <1>3, <4>1, <4>2
    <3> QED
      BY <1>1, <1>3, <3>1
  <2>4. CASE i = 1
    BY <1>1, <2>1, <2>2, <2>4 DEF Earlier
  <2>5. CASE j = n
    BY <1>1, <2>1, <2>3, <2>5 DEF Earlier
  <2>6. CASE i # 1 /\ j # n
    <3>1. /\ i - 1 \in 1..m /\ Keys[i] = [name |-> Elements[i - 1].name, addr |-> Elements[i - 1].addr]
          /\ j - 1 \in 1..m /\ Keys[j] = [name |-> Elements[j - 1].name, addr |-> Elements[j - 1].addr]
      BY <1>4, <2>1, <2>6
    <3>2. i - 1 < j - 1
      BY <1>6, <2>1
    <3>3. PICK p, q \in Places : Before(p, q) /\ Elements[i - 1] = At(p) /\ Elements[j - 1] = At(q)
      BY <1>1, <1>2, <3>1, <3>2 DEF Spread
    <3>4. Keys[i].addr = At(p).addr /\ Keys[j].addr = At(q).addr
      BY <3>1, <3>3
    <3> QED
      BY <1>3, <3>3, <3>4 DEF Earlier
  <2> QED
    BY <2>4, <2>5, <2>6
<1>7. ASSUME NEW i \in DOMAIN Keys PROVE PlaceOf(Keys[i].addr) = i
  <2> DEFINE I == {j \in 1..Len(Keys) : Keys[j].addr = Keys[i].addr}
  <2>1. I = {i}
    <3>1. ASSUME NEW j \in I PROVE j = i
      <4>1. j \in DOMAIN Keys /\ i \in Nat /\ j \in Nat /\ Keys[j].addr = Keys[i].addr
        BY <1>1
      <4> QED
        BY <1>6, <4>1
    <3> QED
      BY <1>1, <3>1
  <2>2. PlaceOf(Keys[i].addr) = IF I # {} THEN Min(I) ELSE 0
    BY DEF PlaceOf, SelectInSeq
  <2> HIDE DEF I
  <2>3. I \in SUBSET Nat /\ I # {}
    BY <1>1, <2>1
  <2>4. Min(I) \in I
    BY <2>3, MinOf
  <2> QED
    BY <2>1, <2>2, <2>3, <2>4
<1>8. \A a \in Standing : \E i \in DOMAIN Keys : Keys[i].addr = a
  BY <1>5 DEF Standing, ToSet
<1>9. \A a, b \in Standing : Earlier(a, b) => a # b /\ ~Earlier(b, a)
  <2>1. ASSUME NEW a \in Standing, NEW b \in Standing, Earlier(a, b) PROVE a # b /\ ~Earlier(b, a)
    <3>1. \A p, q \in Places : Before(p, q) => At(p).addr # At(q).addr
      BY <1>3
    <3>2. CASE a = KeyAddr /\ b # KeyAddr
      BY <1>3, <3>2 DEF Earlier
    <3>3. CASE b = TailAddr /\ a # TailAddr
      BY <1>3, <3>3 DEF Earlier
    <3>4. CASE \E p, q \in Places : Before(p, q) /\ At(p).addr = a /\ At(q).addr = b
      BY <1>3, <3>1, <3>4 DEF Earlier
    <3> QED
      BY <2>1, <3>2, <3>3, <3>4 DEF Earlier
  <2> QED
    BY <2>1
<1>10. ASSUME NEW a \in Standing, NEW b \in Standing PROVE PlaceOf(a) < PlaceOf(b) <=> Earlier(a, b)
  <2>1. PICK i \in DOMAIN Keys : Keys[i].addr = a
    BY <1>8
  <2>2. PICK j \in DOMAIN Keys : Keys[j].addr = b
    BY <1>8
  <2>3. PlaceOf(a) = i /\ PlaceOf(b) = j /\ i \in Nat /\ j \in Nat
    BY <1>1, <1>7, <2>1, <2>2
  <2>4. CASE i < j
    BY <1>6, <2>1, <2>2, <2>3, <2>4
  <2>5. CASE j < i
    BY <1>6, <1>9, <2>1, <2>2, <2>3, <2>5
  <2>6. CASE i = j
    BY <1>9, <2>1, <2>2, <2>3, <2>6
  <2> QED
    BY <2>3, <2>4, <2>5, <2>6
<1> QED
  BY <1>1, <1>5, <1>7, <1>10 DEF KeysOrdered

LEMMA KeysInOrderNext == (Shape /\ Blocks /\ Listed)' => KeysOrdered'
  BY KeysInOrder, PTL

-----------------------------------------------------------------------------
(* What a step of the handle leaves of the keys *)

(* An accessor that is not freed stays in the tree, and in the same order. *)
Survivors ==
    /\ \A k \in TreeKeys : k.addr \in live' => k \in TreeKeys'
    /\ \A a, b \in Standing : a \in live' /\ b \in live' /\ Earlier(a, b) => Earlier(a, b)'

LEMMA SurviveSame ==
  ASSUME \A p \in Places : /\ At(p).addr \in live' => /\ p \in Places'
                                                      /\ At(p)'.addr = At(p).addr /\ At(p)'.name = At(p).name
  PROVE  Survivors
<1>1. ASSUME NEW k \in TreeKeys, k.addr \in live' PROVE k \in TreeKeys'
  <2>1. CASE \E p \in Places : k = KeyOf(p)
    <3>1. PICK p \in Places : k = KeyOf(p)
      BY <2>1
    <3>2. At(p).addr \in live'
      BY <1>1, <3>1 DEF KeyOf
    <3>3. p \in Places' /\ KeyOf(p)' = KeyOf(p)
      BY <3>2 DEF KeyOf
    <3> QED
      BY <3>1, <3>3 DEF TreeKeys
  <2> QED
    BY <2>1 DEF TreeKeys, KeyAddr, TailAddr, N, T
<1>2. ASSUME NEW a \in Standing, NEW b \in Standing, a \in live', b \in live', Earlier(a, b)
      PROVE  Earlier(a, b)'
  <2>1. CASE \E p, q \in Places : Before(p, q) /\ At(p).addr = a /\ At(q).addr = b
    <3>1. PICK p, q \in Places : Before(p, q) /\ At(p).addr = a /\ At(q).addr = b
      BY <2>1
    <3>2. p \in Places' /\ q \in Places' /\ At(p)'.addr = a /\ At(q)'.addr = b
      BY <1>2, <3>1
    <3> QED
      BY <3>1, <3>2 DEF Earlier, Before
  <2> QED
    BY <1>2, <2>1 DEF Earlier, KeyAddr, TailAddr
<1> QED
  BY <1>1, <1>2 DEF Survivors

LEMMA TreeSurvives == ASSUME SameTree PROVE Survivors
  BY SamePlaces, SurviveSame

LEMMA ReplaceSurvives == ASSUME LookInv, NEW s \in Section, Replace(s) PROVE Survivors
<1> DEFINE old == {secs[s].elems[i].addr : i \in DOMAIN secs[s].elems}
<1>1. live' = live \ old
  BY DEF Replace
<1>2. ASSUME NEW p \in Places, At(p).addr \in live'
      PROVE  p \in Places' /\ At(p)'.addr = At(p).addr /\ At(p)'.name = At(p).name
  <2>1. p[1] \in Section /\ p[2] \in DOMAIN secs[p[1]].elems /\ p = <<p[1], p[2]>>
    BY DEF Places
  <2>2. p[1] # s
    BY <1>1, <1>2, <2>1 DEF At
  <2>3. /\ DOMAIN secs'[p[1]].elems = DOMAIN secs[p[1]].elems
        /\ secs'[p[1]].elems[p[2]].name = secs[p[1]].elems[p[2]].name
        /\ secs'[p[1]].elems[p[2]].addr = secs[p[1]].elems[p[2]].addr
    BY <2>1, <2>2, Replaced
  <2> QED
    BY <2>1, <2>3 DEF Places, At
<1> QED
  BY <1>2, SurviveSame

LEMMA StepSurvives == ASSUME LookInv, [Next]_vars PROVE Survivors
<1>a. UNCHANGED secs => Survivors
  BY TreeSurvives DEF SameTree
<1>1. ASSUME NEW name \in Name, Get(name) PROVE Survivors
  BY <1>a, <1>1 DEF Get, layout
<1>2. ASSUME NEW name \in Section \X {"a", "b"}, NEW x \in {0, 1}, SetValue(name, x) PROVE Survivors
  BY <1>2, SetValueKeeps, TreeSurvives DEF KeepsShape
<1>3. ASSUME NEW v \in 0..MaxKey, SetKey(v) PROVE Survivors
  BY <1>a, <1>3 DEF SetKey, layout
<1>4. ASSUME NEW s \in Section, Ignore(s) PROVE Survivors
  BY <1>a, <1>4 DEF Ignore, layout
<1>5. ASSUME NEW s \in Section, StartRebuild(s) PROVE Survivors
  <2>1. secs' = [secs EXCEPT ![s].branch = Branch(s, key)]
    BY <1>5 DEF StartRebuild
  <2>2. \A r \in Section : secs'[r].elems = secs[r].elems
    BY <2>1 DEF LookInv, Shape, SectionFields
  <2> QED
    BY <2>2, TreeSurvives DEF SameTree
<1>6. ASSUME NEW s \in Section, Create(s) PROVE Survivors
  BY <1>a, <1>6 DEF Create, layout
<1>7. ASSUME NEW s \in Section, CreateFails(s) PROVE Survivors
  BY <1>a, <1>7 DEF CreateFails, layout
<1>8. ASSUME NEW s \in Section, Replace(s) PROVE Survivors
  BY <1>8, ReplaceSurvives
<1>9. CASE AdjustKid \/ AdjustKidFails \/ Return \/ UNCHANGED vars
  BY <1>a, <1>9 DEF AdjustKid, AdjustKidFails, Return, vars, layout
<1>10. CASE Settle \/ \E d \in 1..Depth : SettleFails(d)
  <2>1. UNCHANGED secs \/ Measured
    BY <1>10 DEF Settle, SettleFails
  <2>2. \A r \in Section : secs'[r].elems = secs[r].elems
    BY <2>1 DEF Measured, LookInv, Shape, SectionFields
  <2> QED
    BY <2>2, TreeSurvives DEF SameTree
<1> QED
  BY <1>1, <1>2, <1>3, <1>4, <1>5, <1>6, <1>7, <1>8, <1>9, <1>10 DEF Next

-----------------------------------------------------------------------------
(* What an iteration returned *)

IterFields == {"at", "current", "unwanted", "duplicates", "seen", "rewound"}

(* The accessors up to the one that the iterator is at.                    *)
Passed(a) ==
    \/ iter.at = "end"
    \/ iter.at = "key" /\ (a = iter.current \/ Earlier(a, iter.current))

Recorded ==
    /\ \E n \in Nat : returned = [i \in 1..n |-> returned[i]]
    /\ DOMAIN iter = IterFields /\ kept \subseteq Standing
    /\ iter.at \in {"none", "never", "start"} => returned = <<>>
    /\ iter.at = "key" => iter.current \in Standing
    /\ \A i \in DOMAIN returned :
          /\ returned[i] = [name |-> returned[i].name, addr |-> returned[i].addr]
          /\ returned[i].addr # Null => returned[i] \in TreeKeys
          /\ ~iter.duplicates => returned[i].name \in iter.seen

InTurn ==
    \A i, j \in DOMAIN returned : i < j /\ returned[i].addr # Null /\ returned[j].addr # Null =>
        Earlier(returned[i].addr, returned[j].addr) /\ (iter.duplicates \/ returned[i].name # returned[j].name)

Behind ==
    iter.at = "key" => \A i \in DOMAIN returned : returned[i].addr # Null => Passed(returned[i].addr)

Complete ==
    \A k \in TreeKeys : k.addr \in kept /\ k.name \notin iter.unwanted /\ Passed(k.addr) =>
        k \in ToSet(returned) \/ (~iter.duplicates /\ k.name \in iter.seen)

Iterated == Recorded /\ InTurn /\ Behind /\ Complete

LEMMA NothingReturned ==
  ASSUME returned = <<>>, DOMAIN iter = IterFields, kept \subseteq Standing, iter.at \in {"none", "never", "start"}
  PROVE  Iterated
<1>1. DOMAIN returned = {} /\ returned = [i \in 1..0 |-> returned[i]] /\ 0 \in Nat
  OBVIOUS
<1>2. Recorded
  BY <1>1 DEF Recorded
<1> QED
  BY <1>1, <1>2 DEF Iterated, InTurn, Behind, Complete, Passed

LEMMA NothingReturnedNext ==
  (returned = <<>> /\ DOMAIN iter = IterFields /\ kept \subseteq Standing /\ iter.at \in {"none", "never", "start"})'
  => Iterated'
<1>1. returned = <<>> /\ DOMAIN iter = IterFields /\ kept \subseteq Standing /\ iter.at \in {"none", "never", "start"}
      => Iterated
  BY NothingReturned
<1> QED
  BY <1>1, PTL

(* The keys as accessors.                                                  *)
LEMMA StandingKeys ==
  ASSUME KeysOrdered, Blocks
  PROVE  /\ Accessors = Standing /\ Null \notin Standing
         /\ \A k \in TreeKeys : k.addr \in Standing /\ PlaceOf(k.addr) \in DOMAIN Keys /\ Keys[PlaceOf(k.addr)] = k
         /\ \A i \in DOMAIN Keys : Keys[i] \in TreeKeys /\ PlaceOf(Keys[i].addr) = i
         /\ \A a, b \in Standing : a = b \/ Earlier(a, b) \/ Earlier(b, a)
         /\ \A a, b \in Standing : Earlier(a, b) => a # b /\ ~Earlier(b, a)
<1>1. Accessors = Standing
  BY DEF KeysOrdered, Accessors, Standing
<1>2. Null \notin Standing
  <2>1. Null # KeyAddr /\ Null # TailAddr /\ Null[1] = 0
    BY DEF Null, KeyAddr, TailAddr
  <2>2. \A p \in Places : At(p).addr # Null
    BY <2>1 DEF Blocks
  <2> QED
    BY <2>1, <2>2 DEF Standing, TreeKeys, KeyOf
<1>3. \A i \in DOMAIN Keys : Keys[i] \in TreeKeys /\ PlaceOf(Keys[i].addr) = i
  BY DEF KeysOrdered, ToSet
<1>4. ASSUME NEW k \in TreeKeys
      PROVE  k.addr \in Standing /\ PlaceOf(k.addr) \in DOMAIN Keys /\ Keys[PlaceOf(k.addr)] = k
  <2>1. PICK i \in DOMAIN Keys : Keys[i] = k
    BY DEF KeysOrdered, ToSet
  <2> QED
    BY <1>3, <2>1 DEF Standing
<1>5. \A a \in Standing : PlaceOf(a) \in Nat /\ PlaceOf(a) \in DOMAIN Keys /\ Keys[PlaceOf(a)].addr = a
  BY <1>4 DEF Standing, KeysOrdered
<1>6. \A a, b \in Standing : a = b \/ Earlier(a, b) \/ Earlier(b, a)
  <2>1. ASSUME NEW a \in Standing, NEW b \in Standing, a # b PROVE Earlier(a, b) \/ Earlier(b, a)
    <3>1. PlaceOf(a) # PlaceOf(b) /\ PlaceOf(a) \in Nat /\ PlaceOf(b) \in Nat
      BY <1>5, <2>1
    <3>2. PlaceOf(a) < PlaceOf(b) \/ PlaceOf(b) < PlaceOf(a)
      BY <3>1
    <3> QED
      BY <3>2 DEF KeysOrdered
  <2> QED
    BY <2>1
<1>7. \A a, b \in Standing : Earlier(a, b) => a # b /\ ~Earlier(b, a)
  <2>1. ASSUME NEW a \in Standing, NEW b \in Standing, Earlier(a, b) PROVE a # b /\ ~Earlier(b, a)
    <3>1. PlaceOf(a) < PlaceOf(b) /\ PlaceOf(a) \in Nat /\ PlaceOf(b) \in Nat
      BY <1>5, <2>1 DEF KeysOrdered
    <3>2. ~(PlaceOf(b) < PlaceOf(a)) /\ PlaceOf(a) # PlaceOf(b)
      BY <3>1
    <3> QED
      BY <3>2 DEF KeysOrdered
  <2> QED
    BY <2>1
<1> QED
  BY <1>1, <1>2, <1>3, <1>4, <1>6, <1>7

KeysApart ==
    /\ \A k \in TreeKeys : k.addr \in Standing
    /\ \A a, b \in Standing : Earlier(a, b) => a # b /\ ~Earlier(b, a)
    /\ \A j, k \in TreeKeys : j.addr = k.addr => j = k

LEMMA StandingKeysNext == (KeysOrdered /\ Blocks)' => KeysApart'
<1>1. KeysOrdered /\ Blocks => KeysApart
  BY StandingKeys DEF KeysApart
<1> QED
  BY <1>1, PTL

LEMMA StepKeeps == ASSUME KeysOrdered, Blocks, Iterated, Step PROVE Iterated'
<1> DEFINE from == IF iter.at = "start" THEN 0 ELSE PlaceOf(iter.current)
           m == Min(Ahead)
           k == Keys[m]
<1>1. /\ Accessors = Standing /\ Null \notin Standing
      /\ \A c \in TreeKeys : c.addr \in Standing /\ PlaceOf(c.addr) \in DOMAIN Keys /\ Keys[PlaceOf(c.addr)] = c
      /\ \A i \in DOMAIN Keys : Keys[i] \in TreeKeys /\ PlaceOf(Keys[i].addr) = i
      /\ \A a, b \in Standing : a = b \/ Earlier(a, b) \/ Earlier(b, a)
      /\ \A a, b \in Standing : Earlier(a, b) => a # b /\ ~Earlier(b, a)
  BY StandingKeys
<1>2. PICK n \in Nat : DOMAIN Keys = 1..n
  BY DEF KeysOrdered
<1>3. \A a, b \in Standing : PlaceOf(a) < PlaceOf(b) <=> Earlier(a, b)
  BY DEF KeysOrdered
<1>4. UNCHANGED <<secs, live, kept>> /\ iter.at \in {"start", "key"}
  BY DEF Step, vars, layout
<1>5. /\ Standing' = Standing /\ TreeKeys' = TreeKeys
      /\ \A a, b : Earlier(a, b)' <=> Earlier(a, b)
  BY <1>4 DEF Standing, TreeKeys, KeyOf, Places, At, Earlier
<1>6. PICK l \in Nat : returned = [i \in 1..l |-> returned[i]]
  BY DEF Iterated, Recorded
<1>7. /\ DOMAIN iter = IterFields /\ kept \subseteq Standing /\ (iter.at = "key" => iter.current \in Standing)
      /\ iter.at = "start" => returned = <<>>
      /\ \A i \in DOMAIN returned :
            /\ returned[i] = [name |-> returned[i].name, addr |-> returned[i].addr]
            /\ returned[i].addr # Null => returned[i] \in TreeKeys
            /\ ~iter.duplicates => returned[i].name \in iter.seen
  BY DEF Iterated, Recorded
<1>8. from \in Nat /\ \A a \in Standing : PlaceOf(a) \in Nat
  BY <1>1, <1>2, <1>4, <1>7 DEF Standing
\* What the iterator passed is what is not ahead of it.
<1>9. \A a \in Standing : Passed(a) <=> PlaceOf(a) <= from
  <2>1. CASE iter.at = "start"
    <3>1. \A a \in Standing : PlaceOf(a) \in 1..n
      BY <1>1, <1>2 DEF Standing
    <3> QED
      BY <1>2, <2>1, <3>1 DEF Passed
  <2>2. CASE iter.at = "key"
    <3>1. from = PlaceOf(iter.current) /\ iter.current \in Standing
      BY <1>7, <2>2
    <3>2. ASSUME NEW a \in Standing PROVE Passed(a) <=> PlaceOf(a) <= from
      <4>1. CASE a = iter.current
        BY <1>8, <2>2, <3>1, <4>1 DEF Passed
      <4>2. CASE Earlier(a, iter.current)
        BY <1>3, <1>8, <2>2, <3>1, <4>2 DEF Passed
      <4>3. CASE Earlier(iter.current, a)
        BY <1>1, <1>3, <1>8, <2>2, <3>1, <4>3 DEF Passed
      <4> QED
        BY <1>1, <3>1, <4>1, <4>2, <4>3
    <3> QED
      BY <3>2
  <2> QED
    BY <1>4, <2>1, <2>2
<1>10. Ahead = {i \in DOMAIN Keys : i > from /\ ~Skip(Keys[i])}
  BY DEF Ahead
<1> HIDE DEF from
\* A key that is not ahead was dealt with.
<1>11. ASSUME NEW c \in TreeKeys, c.addr \in kept, c.name \notin iter.unwanted, PlaceOf(c.addr) \notin Ahead
       PROVE  c \in ToSet(returned) \/ (~iter.duplicates /\ c.name \in iter.seen)
  <2>1. CASE Passed(c.addr)
    BY <1>11, <2>1 DEF Iterated, Complete
  <2>2. CASE ~Passed(c.addr)
    <3>1. PlaceOf(c.addr) > from /\ PlaceOf(c.addr) \in DOMAIN Keys /\ Keys[PlaceOf(c.addr)] = c
      BY <1>1, <1>8, <1>9, <2>2
    <3>2. Skip(c)
      BY <1>10, <1>11, <3>1
    <3> QED
      BY <1>11, <3>2 DEF Skip
  <2> QED
    BY <2>1, <2>2
<1>12. CASE Ahead = {}
  <2>1. iter' = [iter EXCEPT !.at = "end", !.current = Null] /\ returned' = returned
    BY <1>12 DEF Step
  <2>2. /\ DOMAIN iter' = IterFields /\ iter'.at = "end" /\ iter'.unwanted = iter.unwanted
        /\ iter'.duplicates = iter.duplicates /\ iter'.seen = iter.seen
    BY <1>7, <2>1 DEF IterFields
  <2>3. Recorded'
    BY <1>4, <1>5, <1>6, <1>7, <2>1, <2>2 DEF Recorded
  <2>4. InTurn'
    BY <1>5, <2>1, <2>2 DEF Iterated, InTurn
  <2>5. Behind'
    BY <2>2 DEF Behind
  <2>6. Complete'
    BY <1>4, <1>5, <1>11, <1>12, <2>1, <2>2 DEF Complete, ToSet
  <2> QED
    BY <2>3, <2>4, <2>5, <2>6 DEF Iterated
<1>13. CASE Ahead # {}
  <2>1. /\ iter' = [iter EXCEPT !.at = "key", !.current = k.addr,
                                !.seen = IF iter.duplicates THEN iter.seen ELSE iter.seen \cup {k.name}]
        /\ returned' = Append(returned, k)
    BY <1>13 DEF Step
  <2>2. m \in Ahead /\ \A i \in Ahead : m <= i
    <3>1. Ahead \in SUBSET Nat
      BY <1>2, <1>10
    <3> QED
      BY <1>13, <3>1, MinOf
  <2> HIDE DEF m
  <2>3. m \in DOMAIN Keys /\ m > from /\ ~Skip(k) /\ k \in TreeKeys /\ PlaceOf(k.addr) = m /\ k.addr \in Standing
    BY <1>1, <1>10, <2>2
  <2> HIDE DEF k
  <2>4. /\ DOMAIN iter' = IterFields /\ iter'.at = "key" /\ iter'.unwanted = iter.unwanted
        /\ iter'.duplicates = iter.duplicates /\ iter'.current = k.addr
        /\ iter'.seen = IF iter.duplicates THEN iter.seen ELSE iter.seen \cup {k.name}
    BY <1>7, <2>1 DEF IterFields
  <2>5. /\ DOMAIN returned' = 1..(l + 1) /\ returned' = [i \in 1..(l + 1) |-> returned'[i]]
        /\ \A i \in 1..l : returned'[i] = returned[i]
        /\ returned'[l + 1] = k /\ DOMAIN returned = 1..l
    BY <1>6, <2>1, Another
  \* What was returned before lies before the new key and has another name.
  <2>6. ASSUME NEW i \in 1..l, returned[i].addr # Null
        PROVE  Earlier(returned[i].addr, k.addr) /\ (iter.duplicates \/ returned[i].name # k.name)
    <3>1. returned[i] \in TreeKeys /\ returned[i].addr \in Standing
      BY <1>1, <1>7, <2>5, <2>6
    <3>2. iter.at = "key"
      <4>1. returned = <<>> => 1..l = {}
        BY <2>5
      <4> QED
        BY <1>4, <1>7, <4>1
    <3>3. PlaceOf(returned[i].addr) <= from
      BY <1>9, <2>5, <2>6, <3>1, <3>2 DEF Iterated, Behind
    <3>4. PlaceOf(returned[i].addr) < PlaceOf(k.addr)
      BY <1>8, <2>3, <3>1, <3>3
    <3>5. iter.duplicates \/ returned[i].name # k.name
      BY <1>7, <2>3, <2>5 DEF Skip
    <3> QED
      BY <1>3, <2>3, <3>1, <3>4, <3>5
  <2>7. Recorded'
    <3>1. \E n0 \in Nat : returned' = [i \in 1..n0 |-> returned'[i]]
      BY <2>5
    <3>2. ASSUME NEW i \in DOMAIN returned'
          PROVE  /\ returned'[i] = [name |-> returned'[i].name, addr |-> returned'[i].addr]
                 /\ returned'[i].addr # Null => returned'[i] \in TreeKeys'
                 /\ ~iter'.duplicates => returned'[i].name \in iter'.seen
      <4>1. CASE i \in 1..l
        BY <1>5, <1>7, <2>4, <2>5, <4>1
      <4>2. CASE i = l + 1
        <5>1. k = [name |-> k.name, addr |-> k.addr]
          BY <2>3 DEF TreeKeys, KeyOf
        <5> QED
          BY <1>5, <2>3, <2>4, <2>5, <4>2, <5>1
      <4> QED
        BY <2>5, <4>1, <4>2
    <3> QED
      BY <1>4, <1>5, <1>7, <2>3, <2>4, <3>1, <3>2 DEF Recorded
  <2>8. InTurn'
    <3>1. ASSUME NEW i \in DOMAIN returned', NEW j \in DOMAIN returned', i < j,
                 returned'[i].addr # Null, returned'[j].addr # Null
          PROVE  /\ Earlier(returned'[i].addr, returned'[j].addr)
                 /\ iter.duplicates \/ returned'[i].name # returned'[j].name
      <4>1. CASE j \in 1..l
        <5>1. i \in 1..l
          BY <2>5, <3>1, <4>1
        <5> QED
          BY <2>5, <3>1, <4>1, <5>1 DEF Iterated, InTurn
      <4>2. CASE j = l + 1
        <5>1. i \in 1..l
          BY <2>5, <3>1, <4>2
        <5> QED
          BY <2>5, <2>6, <3>1, <4>2, <5>1
      <4> QED
        BY <2>5, <4>1, <4>2
    <3> QED
      BY <1>5, <2>4, <3>1 DEF InTurn
  <2>9. Behind'
    <3>1. ASSUME NEW i \in DOMAIN returned', returned'[i].addr # Null
          PROVE  returned'[i].addr = k.addr \/ Earlier(returned'[i].addr, k.addr)
      <4>1. CASE i \in 1..l
        BY <2>5, <2>6, <3>1, <4>1
      <4>2. CASE i = l + 1
        BY <2>5, <4>2
      <4> QED
        BY <2>5, <4>1, <4>2
    <3> QED
      BY <1>5, <2>4, <3>1 DEF Behind, Passed
  <2>10. Complete'
    <3>1. ASSUME NEW c \in TreeKeys, c.addr \in kept, c.name \notin iter.unwanted,
                 c.addr = k.addr \/ Earlier(c.addr, k.addr)
          PROVE  c \in ToSet(returned') \/ (~iter'.duplicates /\ c.name \in iter'.seen)
      <4>1. CASE c.addr = k.addr
        <5>1. c = k
          BY <1>1, <2>3, <4>1
        <5>2. l + 1 \in DOMAIN returned'
          BY <2>5
        <5> QED
          BY <2>5, <5>1, <5>2 DEF ToSet
      <4>2. CASE Earlier(c.addr, k.addr)
        <5>1. PlaceOf(c.addr) < m /\ PlaceOf(c.addr) \in Nat /\ m \in Nat
          BY <1>1, <1>2, <1>3, <1>8, <2>3, <4>2
        <5>2. PlaceOf(c.addr) \notin Ahead
          BY <2>2, <5>1
        <5>3. c \in ToSet(returned) \/ (~iter.duplicates /\ c.name \in iter.seen)
          BY <1>11, <3>1, <5>2
        <5>4. c \in ToSet(returned) => c \in ToSet(returned')
          BY <2>5 DEF ToSet
        <5> QED
          BY <2>4, <5>3, <5>4
      <4> QED
        BY <3>1, <4>1, <4>2
    <3> QED
      BY <1>4, <1>5, <2>4, <3>1 DEF Complete, Passed
  <2> QED
    BY <2>7, <2>8, <2>9, <2>10 DEF Iterated
<1> QED
  BY <1>12, <1>13

LEMMA HandleStepKeeps ==
  ASSUME KeysOrdered, Blocks, KeysApart', Survivors, Iterated, HandleStep
  PROVE  Iterated'
<1>1. /\ Null \notin Standing
      /\ \A c \in TreeKeys : c.addr \in Standing
      /\ \A a, b \in Standing : a = b \/ Earlier(a, b) \/ Earlier(b, a)
  BY StandingKeys
<1>2. /\ kept' = kept \cap live'
      /\ iter' = IF iter.at = "key" /\ iter.current \notin live'
                 THEN [iter EXCEPT !.at = "lost", !.current = Null] ELSE iter
      /\ returned' = [i \in DOMAIN returned |->
            [returned[i] EXCEPT !.addr = IF returned[i].addr \in live' THEN returned[i].addr ELSE Null]]
  BY DEF HandleStep
<1>3. PICK l \in Nat : returned = [i \in 1..l |-> returned[i]]
  BY DEF Iterated, Recorded
<1>4. /\ DOMAIN iter = IterFields /\ kept \subseteq Standing /\ (iter.at = "key" => iter.current \in Standing)
      /\ iter.at \in {"none", "never", "start"} => returned = <<>>
      /\ \A i \in DOMAIN returned :
            /\ returned[i] = [name |-> returned[i].name, addr |-> returned[i].addr]
            /\ returned[i].addr # Null => returned[i] \in TreeKeys
            /\ ~iter.duplicates => returned[i].name \in iter.seen
  BY DEF Iterated, Recorded
\* What was returned is as it was, or freed.
<1>5. /\ DOMAIN returned' = DOMAIN returned
      /\ \A i \in DOMAIN returned :
            /\ returned'[i] = [name |-> returned'[i].name, addr |-> returned'[i].addr] /\ returned'[i].name = returned[i].name
            /\ returned[i].addr \in live' => returned'[i] = returned[i]
            /\ returned[i].addr \notin live' => returned'[i].addr = Null
  <2>1. DOMAIN returned' = DOMAIN returned
    BY <1>2
  <2>2. ASSUME NEW i \in DOMAIN returned, returned[i].addr \notin live'
        PROVE  /\ returned'[i] = [name |-> returned'[i].name, addr |-> returned'[i].addr] /\ returned'[i].name = returned[i].name
               /\ returned'[i].addr = Null
    BY <1>2, <1>4, <2>2
  <2>3. ASSUME NEW i \in DOMAIN returned, returned[i].addr \in live'
        PROVE  returned'[i] = returned[i]
    <3>1. returned'[i] = [returned[i] EXCEPT !.addr = returned[i].addr]
      BY <1>2, <2>3
    <3>2. returned[i] = [name |-> returned[i].name, addr |-> returned[i].addr]
      BY <1>4
    <3> QED
      BY <3>1, <3>2
  <2> QED
    BY <1>4, <2>1, <2>2, <2>3
<1>6. /\ DOMAIN iter' = IterFields /\ iter'.unwanted = iter.unwanted
      /\ iter'.duplicates = iter.duplicates /\ iter'.seen = iter.seen
      /\ \/ iter'.at = "lost"
         \/ iter'.at = iter.at /\ iter'.current = iter.current /\ (iter.at = "key" => iter.current \in live')
  BY <1>2, <1>4 DEF IterFields
<1>7. /\ \A c \in TreeKeys : c.addr \in live' => c \in TreeKeys'
      /\ \A a, b \in Standing : a \in live' /\ b \in live' /\ Earlier(a, b) => Earlier(a, b)'
  BY DEF Survivors
<1>8. /\ \A c \in TreeKeys' : c.addr \in Standing'
      /\ \A a, b \in Standing' : Earlier(a, b)' => a # b /\ ~Earlier(b, a)'
      /\ \A j, c \in TreeKeys' : j.addr = c.addr => j = c
  BY DEF KeysApart
<1>9. \A a \in Standing : a \in live' => a \in Standing'
  BY <1>7, <1>8 DEF Standing
<1>10. ASSUME NEW i \in DOMAIN returned, returned'[i].addr # Null
       PROVE  returned[i].addr \in live' /\ returned'[i] = returned[i] /\ returned[i] \in TreeKeys /\ returned[i].addr \in Standing
  BY <1>1, <1>4, <1>5, <1>10
<1>11. Recorded'
  <2>1. returned' = [i \in 1..l |-> returned'[i]]
    BY <1>2, <1>3
  <2>2. kept' \subseteq Standing'
    BY <1>2, <1>4, <1>9
  <2>3. iter'.at \in {"none", "never", "start"} => returned' = <<>>
    <3>1. returned = <<>> => DOMAIN returned = {}
      OBVIOUS
    <3> QED
      BY <1>2, <1>4, <1>6, <3>1
  <2>4. iter'.at = "key" => iter'.current \in Standing'
    BY <1>4, <1>6, <1>9
  <2>5. ASSUME NEW i \in DOMAIN returned'
        PROVE  /\ returned'[i] = [name |-> returned'[i].name, addr |-> returned'[i].addr]
               /\ returned'[i].addr # Null => returned'[i] \in TreeKeys'
               /\ ~iter'.duplicates => returned'[i].name \in iter'.seen
    <3>1. returned'[i] = [name |-> returned'[i].name, addr |-> returned'[i].addr] /\ (~iter'.duplicates => returned'[i].name \in iter'.seen)
      BY <1>4, <1>5, <1>6
    <3>2. returned'[i].addr # Null => returned'[i] \in TreeKeys'
      BY <1>5, <1>7, <1>10
    <3> QED
      BY <3>1, <3>2
  <2> QED
    BY <1>6, <2>1, <2>2, <2>3, <2>4, <2>5 DEF Recorded
<1>12. InTurn'
  <2>1. ASSUME NEW i \in DOMAIN returned', NEW j \in DOMAIN returned', i < j,
               NEW a, a = returned'[i].addr, a # Null, NEW b, b = returned'[j].addr, b # Null
        PROVE  Earlier(a, b)' /\ (iter.duplicates \/ returned'[i].name # returned'[j].name)
    <3>1. /\ a \in live' /\ returned'[i] = returned[i] /\ a = returned[i].addr /\ a \in Standing
          /\ b \in live' /\ returned'[j] = returned[j] /\ b = returned[j].addr /\ b \in Standing
          /\ i \in DOMAIN returned /\ j \in DOMAIN returned
      BY <1>5, <1>10, <2>1
    <3>2. Earlier(a, b) /\ (iter.duplicates \/ returned[i].name # returned[j].name)
      BY <2>1, <3>1 DEF Iterated, InTurn
    <3> QED
      BY <1>7, <3>1, <3>2
  <2> QED
    BY <1>6, <2>1 DEF InTurn, Earlier
<1>h. PICK here : here = iter.current
  OBVIOUS
<1>13. Behind'
  <2>1. ASSUME iter'.at = "key", NEW i \in DOMAIN returned', NEW a, a = returned'[i].addr, a # Null
        PROVE  iter'.current = here /\ (a = here \/ Earlier(a, here)')
    <3>1. a \in live' /\ returned'[i] = returned[i] /\ a = returned[i].addr /\ a \in Standing /\ i \in DOMAIN returned
      BY <1>5, <1>10, <2>1
    <3>2. iter.at = "key" /\ iter'.current = here /\ here \in live' /\ here \in Standing
      BY <1>4, <1>6, <1>h, <2>1
    <3>3. a = here \/ Earlier(a, here)
      BY <1>h, <2>1, <3>1, <3>2 DEF Iterated, Behind, Passed
    <3> QED
      BY <1>7, <3>1, <3>2, <3>3
  <2> QED
    BY <2>1 DEF Behind, Passed, Earlier
<1>14. Complete'
  <2>1. ASSUME NEW c \in TreeKeys', c.addr \in kept', c.name \notin iter'.unwanted, Passed(c.addr)'
        PROVE  c \in ToSet(returned') \/ (~iter'.duplicates /\ c.name \in iter'.seen)
    <3>1. c.addr \in kept /\ c.addr \in live' /\ c.addr \in Standing /\ c.name \notin iter.unwanted
      BY <1>2, <1>4, <1>6, <2>1
    <3>2. c \in TreeKeys
      <4>1. PICK j \in TreeKeys : j.addr = c.addr
        BY <3>1 DEF Standing
      <4> QED
        BY <1>7, <1>8, <2>1, <3>1, <4>1
    <3>3. Passed(c.addr)
      <4>1. CASE iter'.at = "end"
        BY <1>6, <4>1 DEF Passed
      <4>2. CASE iter'.at = "key"
        <5>1. iter.at = "key" /\ iter'.current = here /\ here \in live' /\ here \in Standing
          BY <1>4, <1>6, <1>h, <4>2
        <5>2. CASE c.addr = here
          BY <1>h, <5>1, <5>2 DEF Passed
        <5>3. CASE c.addr # here
          <6>1. Earlier(c.addr, here)'
            BY <2>1, <4>2, <5>1, <5>3 DEF Passed, Earlier
          <6>2. c.addr \in Standing' /\ here \in Standing'
            BY <1>9, <3>1, <5>1
          <6>3. ~Earlier(here, c.addr)'
            BY <1>8, <6>1, <6>2
          <6>4. ~Earlier(here, c.addr)
            BY <1>7, <3>1, <5>1, <6>3
          <6> QED
            BY <1>1, <1>h, <3>1, <5>1, <5>3, <6>4 DEF Passed
        <5> QED
          BY <5>2, <5>3
      <4> QED
        BY <2>1, <4>1, <4>2 DEF Passed
    <3>4. c \in ToSet(returned) \/ (~iter.duplicates /\ c.name \in iter.seen)
      BY <3>1, <3>2, <3>3 DEF Iterated, Complete
    <3>5. c \in ToSet(returned) => c \in ToSet(returned')
      BY <1>5, <3>1 DEF ToSet
    <3> QED
      BY <1>6, <3>4, <3>5
  <2> QED
    BY <2>1 DEF Complete
<1> QED
  BY <1>11, <1>12, <1>13, <1>14 DEF Iterated

IterationInv == RebuildInv /\ Iterated

LEMMA IteratedMeans == IterationInv => KeysReturnedOnce
<1> SUFFICES ASSUME IterationInv PROVE KeysReturnedOnce
  OBVIOUS
<1>1. Shape /\ Blocks /\ Listed /\ Iterated
  BY DEF IterationInv, RebuildInv, ContentInv, LookInv, Laid
<1>2. KeysOrdered
  BY <1>1, KeysInOrder
<1>3. /\ \A c \in TreeKeys : c.addr \in Standing
      /\ \A i \in DOMAIN Keys : Keys[i] \in TreeKeys
  BY <1>1, <1>2, StandingKeys
<1>4. ASSUME NEW i \in DOMAIN returned, NEW j \in DOMAIN returned, i < j, Null \notin {returned[i].addr, returned[j].addr}
      PROVE  /\ PlaceOf(returned[i].addr) < PlaceOf(returned[j].addr)
             /\ iter.duplicates \/ returned[i].name # returned[j].name
  <2>1. returned[i].addr \in Standing /\ returned[j].addr \in Standing
    BY <1>1, <1>3, <1>4 DEF Iterated, Recorded
  <2> QED
    BY <1>1, <1>2, <1>4, <2>1 DEF Iterated, InTurn, KeysOrdered
<1>5. ASSUME iter.at = "end", NEW i \in DOMAIN Keys, Keys[i].addr \in kept, Keys[i].name \notin iter.unwanted
      PROVE  Keys[i] \in ToSet(returned) \/ (~iter.duplicates /\ Keys[i].name \in iter.seen)
  BY <1>1, <1>3, <1>5 DEF Iterated, Complete, Passed
<1> QED
  BY <1>4, <1>5 DEF KeysReturnedOnce

(* A program that goes through the keys is returned each that exists all   *)
(* the time, in the order of the tree and none twice, although it replaces *)
(* sections on the way.                                                    *)
THEOREM KeysReturnedOnceCorrect == IterSpec => []KeysReturnedOnce
<1>1. IterInit => Iterated
  <2> SUFFICES ASSUME IterInit PROVE Iterated
    OBVIOUS
  <2>1. returned = <<>> /\ kept = {} /\ iter \in {NoIterator, Never}
    BY DEF IterInit
  <2>2. DOMAIN iter = IterFields /\ iter.at \in {"none", "never"}
    BY <2>1 DEF NoIterator, Never, IterFields
  <2> QED
    BY <2>1, <2>2, NothingReturned
<1>2. RebuildInv /\ RebuildInv' /\ [Next]_vars /\ Iterated /\ [IterNext]_allVars => Iterated'
  <2> SUFFICES ASSUME RebuildInv, RebuildInv', [Next]_vars, Iterated, [IterNext]_allVars PROVE Iterated'
    OBVIOUS
  <2>1. LookInv /\ Shape /\ Blocks /\ Listed /\ (Shape /\ Blocks /\ Listed)'
    BY DEF RebuildInv, ContentInv, LookInv, Laid
  <2>2. KeysOrdered /\ KeysOrdered'
    BY <2>1, KeysInOrder, KeysInOrderNext
  <2>3. KeysApart'
    BY <2>1, <2>2, StandingKeysNext
  <2>4. ASSUME Begins, DOMAIN iter' = IterFields, iter'.at \in {"none", "never", "start"} PROVE Iterated'
    <3>1. returned' = <<>> /\ kept' = Accessors /\ UNCHANGED secs
      BY <2>4 DEF Begins, vars, layout
    <3>2. Accessors = Standing
      BY <2>1, <2>2, StandingKeys
    <3>3. Standing' = Standing
      BY <3>1 DEF Standing, TreeKeys, KeyOf, Places, At
    <3> QED
      BY <2>4, <3>1, <3>2, <3>3, NothingReturnedNext
  <2>5. DOMAIN iter = IterFields
    BY DEF Iterated, Recorded
  <2>6. ASSUME NEW unwanted \in Unwanted, NEW duplicates \in BOOLEAN, New(unwanted, duplicates) PROVE Iterated'
    <3>1. iter' = [NoIterator EXCEPT !.at = "start", !.unwanted = unwanted, !.duplicates = duplicates] /\ Begins
      BY <2>6 DEF New
    <3>2. DOMAIN iter' = IterFields /\ iter'.at = "start"
      BY <3>1 DEF NoIterator, IterFields
    <3> QED
      BY <2>4, <3>1, <3>2
  <2>7. CASE Rewind
    <3>1. iter' = [iter EXCEPT !.at = "start", !.current = Null, !.rewound = TRUE] /\ Begins
      BY <2>7 DEF Rewind, Rewound
    <3>2. DOMAIN iter' = IterFields /\ iter'.at = "start"
      BY <2>5, <3>1 DEF IterFields
    <3> QED
      BY <2>4, <3>1, <3>2
  <2>8. CASE Delete
    <3>1. iter' = NoIterator /\ kept' = {} /\ returned' = <<>>
      BY <2>8 DEF Delete
    <3>2. DOMAIN iter' = IterFields /\ iter'.at = "none"
      BY <3>1 DEF NoIterator, IterFields
    <3> QED
      BY <3>1, <3>2, NothingReturnedNext
  <2>9. CASE Step
    BY <2>1, <2>2, <2>9, StepKeeps
  <2>10. CASE HandleStep
    <3>1. Survivors
      BY <2>1, StepSurvives
    <3> QED
      BY <2>1, <2>2, <2>3, <2>10, <3>1, HandleStepKeeps
  <2>11. CASE UNCHANGED allVars
    <3>1. UNCHANGED <<secs, iter, kept, returned>>
      BY <2>11 DEF allVars, vars, layout, iteration
    <3>2. /\ Standing' = Standing /\ TreeKeys' = TreeKeys
          /\ \A a, b : Earlier(a, b)' <=> Earlier(a, b)
      BY <3>1 DEF Standing, TreeKeys, KeyOf, Places, At, Earlier
    <3>3. Recorded' /\ InTurn'
      BY <3>1, <3>2 DEF Iterated, Recorded, InTurn
    <3>4. Behind' /\ Complete'
      BY <3>1, <3>2 DEF Iterated, Behind, Complete, Passed
    <3> QED
      BY <3>3, <3>4 DEF Iterated
  <2> QED
    BY <2>6, <2>7, <2>8, <2>9, <2>10, <2>11 DEF IterNext
<1>3. [IterNext]_allVars => [Next]_vars
  BY DEF IterNext, allVars, New, Rewind, Delete, Step, Begins, HandleStep
<1>4. IterSpec => []RebuildInv
  BY IteratorsLeaveTheHandle, RebuildInvariant
<1>5. IterationInv => KeysReturnedOnce
  BY IteratedMeans
<1>6. RebuildInv /\ Iterated => IterationInv
  BY DEF IterationInv
<1> QED
  BY <1>1, <1>2, <1>3, <1>4, <1>5, <1>6, PTL DEF IterSpec
=============================================================================
