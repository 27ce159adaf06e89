----------------------------- MODULE Dependency -----------------------------
(***************************************************************************)
(* The dependency list of a handle (grib_dependency.cc).  An accessor      *)
(* (observer) is told when another accessor (observed) changes.  The list  *)
(* is a singly linked list of the handle; entries are appended and never   *)
(* unlinked: destroying an accessor only clears the pointers to it.        *)
(*                                                                         *)
(* grib_dependency_notify_change marks the entries of the changed key in   *)
(* the entries' own "run" field and then calls the marked observers.  An   *)
(* observer may be a "when" block that sets other keys, a lookup that      *)
(* forwards the change or a section that is rebuilt: inside the callback   *)
(* accessors are created and destroyed, dependencies are added, and        *)
(* notify_change is entered again on the same list.  The stack of passes   *)
(* that are under way is therefore part of the state.                      *)
(***************************************************************************)
EXTENDS Naturals, Sequences, FiniteSets

CONSTANTS Accessor,   \* the addresses an accessor may live at
          Null,       \* the NULL pointer
          MaxDeps,    \* bound: entries of the list
          MaxDepth    \* bound: nested passes

ASSUME NullAssumption == Null \notin Accessor
ASSUME BoundsAssumption == MaxDeps \in Nat /\ MaxDepth \in Nat

VARIABLES live,    \* accessors that exist
          deps,    \* h->dependencies
          stack    \* the passes under way, the innermost last

vars == <<live, deps, stack>>

Entry == [observed : Accessor \cup {Null},
          observer : Accessor \cup {Null},
          run      : BOOLEAN]

(***************************************************************************)
(* A pass: the accessor it is about, the entry its sweep has reached,      *)
(* whether it is inside that entry's callback, and three history fields    *)
(* used only by properties: the entries it marked, the entries it called,  *)
(* and whether another pass ran inside it.                                 *)
(***************************************************************************)
Pass == [observed : Accessor,
         pos      : Nat,
         calling  : BOOLEAN,
         marked   : SUBSET Nat,
         called   : SUBSET Nat,
         nested   : BOOLEAN]

TypeOK ==
    /\ live \subseteq Accessor
    /\ deps \in Seq(Entry)
    /\ stack \in Seq(Pass)

Top == stack[Len(stack)]

(* Code that is not the sweep itself runs only when no pass is under way   *)
(* or inside the callback of the innermost one.                            *)
InCallerCode == stack # <<>> => Top.calling

Init ==
    /\ live = {}
    /\ deps = <<>>
    /\ stack = <<>>

-----------------------------------------------------------------------------
(* Accessors come and go when sections are created, rebuilt and deleted.   *)

Create(a) ==
    /\ InCallerCode
    /\ a \notin live
    /\ live' = live \cup {a}
    /\ UNCHANGED <<deps, stack>>

RemoveObserved(s, a) ==
    [i \in DOMAIN s |-> IF s[i].observed = a THEN [s[i] EXCEPT !.observed = Null] ELSE s[i]]

(* Mutant: the entries are unlinked.                                       *)
RemoveObserverUnlinks(s, a) == SelectSeq(s, LAMBDA e : e.observer # a)

RemoveObserver(s, a) ==
    [i \in DOMAIN s |-> IF s[i].observer = a THEN [s[i] EXCEPT !.observer = Null] ELSE s[i]]

(* grib_accessor_gen_t::destroy: both clean-ups, then the delete.          *)
Destroy(a) ==
    /\ InCallerCode
    /\ a \in live
    /\ live' = live \ {a}
    /\ deps' = RemoveObserver(RemoveObserved(deps, a), a)
    /\ UNCHANGED stack

(* Mutant: only the head of the list is compared.                          *)
InListHead(o, k) == deps # <<>> /\ deps[1].observer = o /\ deps[1].observed = k

InList(o, k) == \E i \in DOMAIN deps : deps[i].observer = o /\ deps[i].observed = k

(* Mutant: the new entry is not cleared.                                   *)
AddUncleared(o, k) ==
    /\ InCallerCode
    /\ o \in live /\ k \in live
    /\ ~InList(o, k)
    /\ Len(deps) < MaxDeps
    /\ deps' = Append(deps, [observed |-> k, observer |-> o, run |-> Null])
    /\ UNCHANGED <<live, stack>>

(* grib_dependency_add: a pair already in the list is not added again.     *)
Add(o, k) ==
    /\ InCallerCode
    /\ o \in live /\ k \in live
    /\ ~InList(o, k)
    /\ Len(deps) < MaxDeps
    /\ deps' = Append(deps, [observed |-> k, observer |-> o, run |-> FALSE])
    /\ UNCHANGED <<live, stack>>

-----------------------------------------------------------------------------
(* grib_dependency_notify_change *)

ToRun(e, k) == e.observed = k /\ e.observer # Null

Mark(s, k) == [i \in DOMAIN s |-> [s[i] EXCEPT !.run = ToRun(s[i], k)]]

(* The first pass over the list; it calls nobody and is one step.          *)
Notify(k) ==
    /\ InCallerCode
    /\ k \in live
    /\ Len(stack) < MaxDepth
    /\ deps' = Mark(deps, k)
    /\ stack' = Append([i \in DOMAIN stack |-> [stack[i] EXCEPT !.nested = TRUE]],
                       [observed |-> k, pos |-> 0, calling |-> FALSE,
                        marked |-> {i \in DOMAIN deps : ToRun(deps[i], k)},
                        called |-> {}, nested |-> FALSE])
    /\ UNCHANGED live

(* Mutant: an entry whose observed accessor is gone is skipped.            *)
CallableObserved(i) == deps[i].run /\ deps[i].observer # Null /\ deps[i].observed # Null

Callable(i) == deps[i].run /\ deps[i].observer # Null

(* The sweep walks on to the next entry whose observer it calls.           *)
Call ==
    /\ stack # <<>> /\ ~Top.calling
    /\ \E i \in DOMAIN deps :
         /\ i > Top.pos /\ Callable(i)
         /\ \A j \in DOMAIN deps : Top.pos < j /\ j < i => ~Callable(j)
         /\ stack' = [stack EXCEPT ![Len(stack)] =
                        [Top EXCEPT !.pos = i, !.calling = TRUE, !.called = @ \cup {i}]]
    /\ UNCHANGED <<live, deps>>

(* The observer's notify_change returns GRIB_SUCCESS.                      *)
ObserverReturns ==
    /\ stack # <<>> /\ Top.calling
    /\ stack' = [stack EXCEPT ![Len(stack)].calling = FALSE]
    /\ UNCHANGED <<live, deps>>

Pop == SubSeq(stack, 1, Len(stack) - 1)

(* The observer's notify_change fails: the pass returns at once.           *)
ObserverFails ==
    /\ stack # <<>> /\ Top.calling
    /\ stack' = Pop
    /\ UNCHANGED <<live, deps>>

SweepEnded == \A i \in DOMAIN deps : i > Top.pos => ~Callable(i)

(* The sweep runs off the end of the list: the pass returns GRIB_SUCCESS.  *)
NotifyReturns ==
    /\ stack # <<>> /\ ~Top.calling
    /\ SweepEnded
    /\ stack' = Pop
    /\ UNCHANGED <<live, deps>>

Next ==
    \/ \E a \in Accessor : Create(a) \/ Destroy(a) \/ Notify(a)
    \/ \E o, k \in Accessor : Add(o, k)
    \/ Call
    \/ ObserverReturns
    \/ ObserverFails
    \/ NotifyReturns

Spec == Init /\ [][Next]_vars

-----------------------------------------------------------------------------
(* Properties *)

(* No entry of the list refers to an accessor that was destroyed, so no    *)
(* sweep calls into freed memory, whatever the callbacks created and       *)
(* destroyed while it was under way.                                       *)
NoDanglingEntry ==
    \A i \in DOMAIN deps : {deps[i].observed, deps[i].observer} \subseteq live \cup {Null}

(* A pair is in the list at most once, also when sections are rebuilt and  *)
(* their accessors register again: one pass never tells an observer twice. *)
NoDuplicatePair ==
    \A i, j \in DOMAIN deps :
        /\ deps[i].observed # Null /\ deps[i].observer # Null
        /\ deps[i].observed = deps[j].observed
        /\ deps[i].observer = deps[j].observer
        => i = j

(* A pass inside which no other pass ran calls only observers that its own *)
(* mark chose: neither an entry added while it was under way nor an entry  *)
(* that an earlier, failed, pass left marked.                              *)
CallsOnlyMarked ==
    \A n \in DOMAIN stack : ~stack[n].nested => stack[n].called \subseteq stack[n].marked

(* When such a pass returns GRIB_SUCCESS every observer that it marked and *)
(* that still exists was told, although callbacks added and destroyed      *)
(* accessors behind and ahead of the sweep.                                *)
EveryObserverTold ==
    stack # <<>> /\ ~Top.calling /\ ~Top.nested /\ SweepEnded
        => \A i \in Top.marked : deps[i].observer # Null => i \in Top.called

(* A pass tells the observers that it marked: those, and all of those.     *)
PassTellsMarked == CallsOnlyMarked /\ EveryObserverTold

(* No entry dangles and none is doubled: what every sweep goes through.    *)
ListSound == NoDanglingEntry /\ NoDuplicatePair

(* The list is append-only: an entry is never unlinked, moved or given     *)
(* another accessor, it only loses the ones that are destroyed.  This is   *)
(* what lets a sweep hold a pointer into the list across a callback.       *)
EntriesOnlyDecay ==
    [][/\ Len(deps') >= Len(deps)
       /\ \A i \in DOMAIN deps :
            /\ deps'[i].observed \in {deps[i].observed, Null}
            /\ deps'[i].observer \in {deps[i].observer, Null}]_vars

=============================================================================
