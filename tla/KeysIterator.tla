---------------------------- MODULE KeysIterator ----------------------------
(***************************************************************************)
(* grib_keys_iterator.cc: a program that goes through the keys of a handle *)
(* and, between two of them, gets and sets keys of the same handle.  The   *)
(* iterator points to an accessor, and a set may replace sections.         *)
(***************************************************************************)
EXTENDS SectionRebuild

CONSTANT Unwanted \* the sets of names that flags or a namespace may filter out

VARIABLES
    iter,     \* the iterator: where it is and what it points to
    kept,     \* history: the accessors that exist since the iteration began
    returned  \* history: those returned since, without address if freed

iteration == <<iter, kept, returned>>
allVars == <<vars, iteration>>

(* The keys in the order of the tree: next_accessor goes into sections and *)
(* out of them; section accessors are passed over.                         *)
Keys == <<[name |-> N, addr |-> KeyAddr]>> \o
        [i \in DOMAIN Elements |-> [name |-> Elements[i].name, addr |-> Elements[i].addr]] \o
        <<[name |-> T, addr |-> TailAddr]>>
PlaceOf(addr) == SelectInSeq(Keys, LAMBDA k : k.addr = addr)
Accessors == {k.addr : k \in ToSet(Keys)}

NoIterator == [at |-> "none", current |-> Null, unwanted |-> {}, duplicates |-> TRUE,
               seen |-> {}, rewound |-> FALSE]

(* Bounds: a program iterates or gets and sets elements, which an iterator *)
(* does not notice, as it uses neither the cache nor the values; and one   *)
(* that iterates ends when a length could not be encoded: no section is    *)
(* replaced after that of a kid, and the others it does not use.           *)
Never == [NoIterator EXCEPT !.at = "never"]

IterInit == Init /\ iter \in {NoIterator, Never} /\ kept = {} /\ returned = <<>>

Begins ==
    /\ kept' = Accessors /\ returned' = <<>>
    /\ UNCHANGED vars

(* grib_keys_iterator_new: with which keys left out, and whether a name    *)
(* may be returned again (GRIB_KEYS_ITERATOR_SKIP_DUPLICATES).             *)
New(unwanted, duplicates) ==
    /\ pc = "idle" /\ iter.at = "none"
    /\ iter' = [NoIterator EXCEPT !.at = "start", !.unwanted = unwanted, !.duplicates = duplicates]
    /\ Begins

Rewound == [iter EXCEPT !.at = "start", !.current = Null, !.rewound = TRUE]

(* grib_keys_iterator_rewind: what was seen is not forgotten.              *)
Rewind ==
    /\ pc = "idle" /\ iter.at \notin {"never", "none", "start"}
    /\ iter' = Rewound
    /\ Begins

(* grib_keys_iterator_delete *)
Delete ==
    /\ pc = "idle" /\ iter.at \notin {"never", "none"}
    /\ iter' = NoIterator /\ kept' = {} /\ returned' = <<>>
    /\ UNCHANGED vars

Skip(k) == k.name \in iter.unwanted \/ (~iter.duplicates /\ k.name \in iter.seen)

(* Mutant: the walk does not leave the accessor it is at.                  *)
AheadAgain ==
    LET from == IF iter.at = "start" THEN 0 ELSE PlaceOf(iter.current) - 1
    IN  {i \in DOMAIN Keys : i > from /\ ~Skip(Keys[i])}

(* The keys ahead that are not skipped.                                    *)
Ahead ==
    LET from == IF iter.at = "start" THEN 0 ELSE PlaceOf(iter.current)
    IN  {i \in DOMAIN Keys : i > from /\ ~Skip(Keys[i])}

(* grib_keys_iterator_next: there is another key or not.                   *)
Step ==
    /\ pc = "idle" /\ iter.at \in {"start", "key"}
    /\ \/ /\ Ahead = {}
          /\ iter' = [iter EXCEPT !.at = "end", !.current = Null]
          /\ UNCHANGED returned
       \/ /\ Ahead # {}
          /\ LET k == Keys[Min(Ahead)]
             IN  /\ iter' = [iter EXCEPT !.at = "key", !.current = k.addr,
                                         !.seen = IF iter.duplicates THEN @ ELSE @ \cup {k.name}]
                 /\ returned' = Append(returned, k)
    /\ UNCHANGED <<vars, kept>>

WithinBounds == ~(pc = "idle" /\ pc' = "idle") /\ failures' \cap {"encoding error", "outer encoding error"} = {}

(* A step of the handle.  An iterator whose accessor is freed points to    *)
(* nothing ("lost"): it may be rewound, but not stepped.                   *)
HandleStep ==
    /\ Next /\ (iter = Never \/ WithinBounds)
    /\ iter' = IF iter.at = "key" /\ iter.current \notin live'
               THEN [iter EXCEPT !.at = "lost", !.current = Null] ELSE iter
    /\ kept' = kept \cap live'
    /\ returned' = [i \in DOMAIN returned |->
          [returned[i] EXCEPT !.addr = IF returned[i].addr \in live' THEN returned[i].addr ELSE Null]]

IterNext ==
    \/ \E unwanted \in Unwanted, duplicates \in BOOLEAN : New(unwanted, duplicates)
    \/ Rewind \/ Delete \/ Step
    \/ HandleStep

IterSpec == IterInit /\ [][IterNext]_allVars

-----------------------------------------------------------------------------
(* Properties *)

(* An iteration that comes to its end has returned each accessor that      *)
(* existed all the time and that the filter lets through, in the order of  *)
(* the tree and none twice, although sections before and behind it were    *)
(* replaced; the names once, if duplicates are skipped. (An iterator that  *)
(* skips duplicates and is rewound does not return a name again; one that  *)
(* points into a replaced section is lost.)                                *)
KeysReturnedOnce ==
    /\ \A i, j \in DOMAIN returned : i < j /\ Null \notin {returned[i].addr, returned[j].addr} =>
          /\ PlaceOf(returned[i].addr) < PlaceOf(returned[j].addr)
          /\ iter.duplicates \/ returned[i].name # returned[j].name
    /\ iter.at = "end" /\ (iter.duplicates \/ ~iter.rewound) =>
          \A i \in DOMAIN Keys :
              Keys[i].addr \in kept /\ Keys[i].name \notin iter.unwanted =>
                  \/ Keys[i] \in ToSet(returned)
                  \/ ~iter.duplicates /\ Keys[i].name \in iter.seen
=============================================================================
