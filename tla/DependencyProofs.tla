-------------------------- MODULE DependencyProofs --------------------------
(***************************************************************************)
(* Proofs about the dependency list, for every set of accessors and every  *)
(* bound.                                                                  *)
(***************************************************************************)
EXTENDS Dependency, TLAPS

-----------------------------------------------------------------------------
(* What the two clean-ups of a destroyed accessor and the mark do to an    *)
(* entry of the list.                                                      *)

LEMMA EntryUpdate ==
    ASSUME NEW e \in Entry, NEW r \in BOOLEAN
    PROVE  /\ [e EXCEPT !.observed = Null] \in Entry
           /\ [e EXCEPT !.observer = Null] \in Entry
           /\ [e EXCEPT !.run = r] \in Entry
BY DEF Entry

LEMMA RemoveObservedEntry ==
    ASSUME NEW s \in Seq(Entry), NEW a \in Accessor
    PROVE  /\ RemoveObserved(s, a) \in Seq(Entry)
           /\ Len(RemoveObserved(s, a)) = Len(s)
           /\ \A i \in DOMAIN s :
                /\ RemoveObserved(s, a)[i].observer = s[i].observer
                /\ RemoveObserved(s, a)[i].run = s[i].run
                /\ RemoveObserved(s, a)[i].observed
                     = IF s[i].observed = a THEN Null ELSE s[i].observed
<1>1. Len(s) \in Nat /\ DOMAIN s = 1..Len(s)
  OBVIOUS
<1>2. ASSUME NEW i \in DOMAIN s
      PROVE  s[i] \in Entry /\ RemoveObserved(s, a)[i] \in Entry
  <2>1. s[i] \in Entry
    BY <1>1
  <2> QED
    BY <2>1, EntryUpdate DEF RemoveObserved
<1>3. RemoveObserved(s, a) \in Seq(Entry) /\ Len(RemoveObserved(s, a)) = Len(s)
  BY <1>1, <1>2 DEF RemoveObserved
<1> QED
  BY <1>2, <1>3 DEF RemoveObserved, Entry

LEMMA RemoveObserverEntry ==
    ASSUME NEW s \in Seq(Entry), NEW a \in Accessor
    PROVE  /\ RemoveObserver(s, a) \in Seq(Entry)
           /\ Len(RemoveObserver(s, a)) = Len(s)
           /\ \A i \in DOMAIN s :
                /\ RemoveObserver(s, a)[i].observed = s[i].observed
                /\ RemoveObserver(s, a)[i].run = s[i].run
                /\ RemoveObserver(s, a)[i].observer
                     = IF s[i].observer = a THEN Null ELSE s[i].observer
<1>1. Len(s) \in Nat /\ DOMAIN s = 1..Len(s)
  OBVIOUS
<1>2. ASSUME NEW i \in DOMAIN s
      PROVE  s[i] \in Entry /\ RemoveObserver(s, a)[i] \in Entry
  <2>1. s[i] \in Entry
    BY <1>1
  <2> QED
    BY <2>1, EntryUpdate DEF RemoveObserver
<1>3. RemoveObserver(s, a) \in Seq(Entry) /\ Len(RemoveObserver(s, a)) = Len(s)
  BY <1>1, <1>2 DEF RemoveObserver
<1> QED
  BY <1>2, <1>3 DEF RemoveObserver, Entry

LEMMA MarkEntry ==
    ASSUME NEW s \in Seq(Entry), NEW k \in Accessor
    PROVE  /\ Mark(s, k) \in Seq(Entry)
           /\ Len(Mark(s, k)) = Len(s)
           /\ \A i \in DOMAIN s :
                /\ Mark(s, k)[i].observed = s[i].observed
                /\ Mark(s, k)[i].observer = s[i].observer
                /\ Mark(s, k)[i].run = ToRun(s[i], k)
<1>1. Len(s) \in Nat /\ DOMAIN s = 1..Len(s)
  OBVIOUS
<1>2. ASSUME NEW i \in DOMAIN s
      PROVE  s[i] \in Entry /\ Mark(s, k)[i] \in Entry
  <2>1. s[i] \in Entry
    BY <1>1
  <2> QED
    BY <2>1, EntryUpdate DEF Mark, ToRun
<1>3. Mark(s, k) \in Seq(Entry) /\ Len(Mark(s, k)) = Len(s)
  BY <1>1, <1>2 DEF Mark
<1> QED
  BY <1>2, <1>3 DEF Mark, Entry, ToRun
-----------------------------------------------------------------------------
(* Type correctness *)

LEMMA PassUpdate ==
    ASSUME NEW p \in Pass, NEW i \in Nat
    PROVE  /\ [p EXCEPT !.nested = TRUE] \in Pass
           /\ [p EXCEPT !.nested = TRUE].nested
           /\ [p EXCEPT !.calling = FALSE] \in Pass
           /\ [p EXCEPT !.pos = i, !.calling = TRUE, !.called = @ \cup {i}] \in Pass
BY DEF Pass

LEMMA TypeStep == TypeOK /\ [Next]_vars => TypeOK'
<1> SUFFICES ASSUME TypeOK, [Next]_vars PROVE TypeOK'
  OBVIOUS
<1>0. stack # <<>> => Len(stack) \in DOMAIN stack /\ Top \in Pass
  BY DEF TypeOK, Top
<1>1. ASSUME NEW a \in Accessor, Create(a) PROVE TypeOK'
  BY <1>1 DEF TypeOK, Create
<1>2. ASSUME NEW a \in Accessor, Destroy(a) PROVE TypeOK'
  BY <1>2, RemoveObservedEntry, RemoveObserverEntry DEF TypeOK, Destroy
<1>3. ASSUME NEW o \in Accessor, NEW k \in Accessor, Add(o, k) PROVE TypeOK'
  <2>1. [observed |-> k, observer |-> o, run |-> FALSE] \in Entry
    BY DEF Entry
  <2> QED
    BY <1>3, <2>1 DEF TypeOK, Add
<1>4. ASSUME NEW k \in Accessor, Notify(k) PROVE TypeOK'
  <2> DEFINE outer == [i \in DOMAIN stack |-> [stack[i] EXCEPT !.nested = TRUE]]
             new == [observed |-> k, pos |-> 0, calling |-> FALSE,
                     marked |-> {i \in DOMAIN deps : ToRun(deps[i], k)},
                     called |-> {}, nested |-> FALSE]
  <2>1. DOMAIN stack = 1..Len(stack) /\ Len(stack) \in Nat
        /\ DOMAIN deps = 1..Len(deps) /\ Len(deps) \in Nat
    BY DEF TypeOK
  <2>2. ASSUME NEW i \in DOMAIN stack PROVE [stack[i] EXCEPT !.nested = TRUE] \in Pass
    <3>1. stack[i] \in Pass
      BY <2>1 DEF TypeOK
    <3> QED
      BY <3>1, PassUpdate
  <2>3. outer \in Seq(Pass)
    BY <2>1, <2>2
  <2>4. new \in Pass
    BY <2>1 DEF Pass
  <2>5. stack' = Append(outer, new)
    BY <1>4 DEF Notify
  <2>6. stack' \in Seq(Pass)
    BY <2>3, <2>4, <2>5
  <2> QED
    BY <1>4, <2>6, MarkEntry DEF TypeOK, Notify
<1>5. CASE Call
  <2>1. PICK i \in DOMAIN deps :
          stack' = [stack EXCEPT ![Len(stack)] =
                      [Top EXCEPT !.pos = i, !.calling = TRUE, !.called = @ \cup {i}]]
    BY <1>5 DEF Call
  <2>2. i \in Nat
    BY DEF TypeOK
  <2>3. [Top EXCEPT !.pos = i, !.calling = TRUE, !.called = @ \cup {i}] \in Pass
    BY <1>0, <1>5, <2>2, PassUpdate DEF Call
  <2> QED
    BY <1>5, <2>1, <2>3 DEF TypeOK, Call
<1>6. CASE ObserverReturns
  <2>1. [Top EXCEPT !.calling = FALSE] \in Pass
    BY <1>0, <1>6, PassUpdate DEF ObserverReturns
  <2> QED
    BY <1>6, <2>1 DEF TypeOK, ObserverReturns, Top
<1>7. CASE ObserverFails
  BY <1>7 DEF TypeOK, ObserverFails, Pop
<1>8. CASE NotifyReturns
  BY <1>8 DEF TypeOK, NotifyReturns, Pop
<1>9. CASE UNCHANGED vars
  BY <1>9 DEF TypeOK, vars
<1> QED
  BY <1>1, <1>2, <1>3, <1>4, <1>5, <1>6, <1>7, <1>8, <1>9 DEF Next

(* Every reachable state of the dependency list has its type.              *)
THEOREM TypeCorrect == Spec => []TypeOK
<1>1. Init => TypeOK
  BY DEF Init, TypeOK
<1> QED
  BY <1>1, TypeStep, PTL DEF Spec
-----------------------------------------------------------------------------
(* The list refers to existing accessors, each pair once *)

LEMMA DanglingStep == TypeOK /\ NoDanglingEntry /\ [Next]_vars => NoDanglingEntry'
<1> SUFFICES ASSUME TypeOK, NoDanglingEntry, [Next]_vars PROVE NoDanglingEntry'
  OBVIOUS
<1>0. DOMAIN deps = 1..Len(deps) /\ Len(deps) \in Nat
  BY DEF TypeOK
<1>1. ASSUME NEW a \in Accessor, Create(a) PROVE NoDanglingEntry'
  BY <1>1 DEF NoDanglingEntry, Create
<1>2. ASSUME NEW a \in Accessor, Destroy(a) PROVE NoDanglingEntry'
  <2> DEFINE mid == RemoveObserved(deps, a)
  <2>1. mid \in Seq(Entry) /\ Len(mid) = Len(deps)
    BY RemoveObservedEntry DEF TypeOK
  <2>2. deps' = RemoveObserver(mid, a) /\ Len(deps') = Len(deps) /\ deps' \in Seq(Entry)
    BY <1>2, <2>1, RemoveObserverEntry DEF Destroy
  <2> SUFFICES ASSUME NEW i \in DOMAIN deps
               PROVE  {deps'[i].observed, deps'[i].observer} \subseteq live' \cup {Null}
    BY <2>2, <1>0 DEF NoDanglingEntry
  <2>a. /\ mid[i].observer = deps[i].observer
        /\ mid[i].observed = IF deps[i].observed = a THEN Null ELSE deps[i].observed
    BY RemoveObservedEntry DEF TypeOK
  <2>b. i \in DOMAIN mid
    BY <1>0, <2>1
  <2>c. /\ deps'[i].observed = mid[i].observed
        /\ deps'[i].observer = IF mid[i].observer = a THEN Null ELSE mid[i].observer
    BY <2>1, <2>2, <2>b, RemoveObserverEntry
  <2>3. deps'[i].observed = IF deps[i].observed = a THEN Null ELSE deps[i].observed
    BY <2>a, <2>c
  <2>4. deps'[i].observer = IF deps[i].observer = a THEN Null ELSE deps[i].observer
    BY <2>a, <2>c
  <2>5. live' = live \ {a}
    BY <1>2 DEF Destroy
  <2> QED
    BY <2>3, <2>4, <2>5 DEF NoDanglingEntry
<1>3. ASSUME NEW o \in Accessor, NEW k \in Accessor, Add(o, k) PROVE NoDanglingEntry'
  <2> DEFINE new == [observed |-> k, observer |-> o, run |-> FALSE]
  <2>1. deps' = Append(deps, new) /\ live' = live /\ o \in live /\ k \in live
    BY <1>3 DEF Add
  <2>2. \A i \in DOMAIN deps' : (i \in DOMAIN deps /\ deps'[i] = deps[i]) \/ deps'[i] = new
    BY <2>1, <1>0 DEF TypeOK
  <2> QED
    BY <2>1, <2>2 DEF NoDanglingEntry
<1>4. ASSUME NEW k \in Accessor, Notify(k) PROVE NoDanglingEntry'
  <2>1. deps' = Mark(deps, k) /\ live' = live
    BY <1>4 DEF Notify
  <2>2. DOMAIN deps' = DOMAIN deps
    BY <2>1 DEF Mark
  <2>3. \A i \in DOMAIN deps : /\ deps'[i].observed = deps[i].observed
                               /\ deps'[i].observer = deps[i].observer
    BY <2>1, MarkEntry DEF TypeOK
  <2> QED
    BY <2>1, <2>2, <2>3 DEF NoDanglingEntry
<1>5. CASE Call \/ ObserverReturns \/ ObserverFails \/ NotifyReturns \/ UNCHANGED vars
  BY <1>5 DEF NoDanglingEntry, Call, ObserverReturns, ObserverFails, NotifyReturns, vars
<1> QED
  BY <1>1, <1>2, <1>3, <1>4, <1>5 DEF Next

LEMMA DuplicateStep == TypeOK /\ NoDuplicatePair /\ [Next]_vars => NoDuplicatePair'
<1> SUFFICES ASSUME TypeOK, NoDuplicatePair, [Next]_vars PROVE NoDuplicatePair'
  OBVIOUS
<1>0. DOMAIN deps = 1..Len(deps) /\ Len(deps) \in Nat
  BY DEF TypeOK
<1>1. ASSUME NEW a \in Accessor, Create(a) PROVE NoDuplicatePair'
  BY <1>1 DEF NoDuplicatePair, Create
<1>2. ASSUME NEW a \in Accessor, Destroy(a) PROVE NoDuplicatePair'
  <2> DEFINE mid == RemoveObserved(deps, a)
  <2>1. mid \in Seq(Entry) /\ Len(mid) = Len(deps)
    BY RemoveObservedEntry DEF TypeOK
  <2>2. deps' = RemoveObserver(mid, a) /\ Len(deps') = Len(deps) /\ deps' \in Seq(Entry)
    BY <1>2, <2>1, RemoveObserverEntry DEF Destroy
  <2>3. ASSUME NEW i \in DOMAIN deps
        PROVE  /\ deps'[i].observed # Null => deps'[i].observed = deps[i].observed
               /\ deps'[i].observer # Null => deps'[i].observer = deps[i].observer
    BY <1>0, <2>1, <2>2, RemoveObservedEntry, RemoveObserverEntry, SMTT(30) DEF TypeOK
  <2>4. DOMAIN deps' = DOMAIN deps
    BY <1>0, <2>2
  <2> QED
    BY <2>3, <2>4 DEF NoDuplicatePair
<1>3. ASSUME NEW o \in Accessor, NEW k \in Accessor, Add(o, k) PROVE NoDuplicatePair'
  <2> DEFINE new == [observed |-> k, observer |-> o, run |-> FALSE]
  <2>1. deps' = Append(deps, new) /\ ~InList(o, k)
    BY <1>3 DEF Add
  <2>2. DOMAIN deps' = 1..(Len(deps) + 1) /\ deps'[Len(deps) + 1] = new
    BY <2>1, <1>0 DEF TypeOK
  <2>3. \A i \in DOMAIN deps : deps'[i] = deps[i]
    BY <2>1, <1>0 DEF TypeOK
  <2>4. \A i \in DOMAIN deps : ~(deps[i].observer = o /\ deps[i].observed = k)
    BY <2>1 DEF InList
  <2>5. \A i \in DOMAIN deps' : i \in DOMAIN deps \/ i = Len(deps) + 1
    BY <1>0, <2>2
  <2> QED
    BY <2>2, <2>3, <2>4, <2>5 DEF NoDuplicatePair
<1>4. ASSUME NEW k \in Accessor, Notify(k) PROVE NoDuplicatePair'
  <2>1. deps' = Mark(deps, k)
    BY <1>4 DEF Notify
  <2>2. DOMAIN deps' = DOMAIN deps
    BY <2>1 DEF Mark
  <2> QED
    BY <2>1, <2>2, MarkEntry DEF NoDuplicatePair, TypeOK
<1>5. CASE Call \/ ObserverReturns \/ ObserverFails \/ NotifyReturns \/ UNCHANGED vars
  BY <1>5 DEF NoDuplicatePair, Call, ObserverReturns, ObserverFails, NotifyReturns, vars
<1> QED
  BY <1>1, <1>2, <1>3, <1>4, <1>5 DEF Next

(* The list never refers to a destroyed accessor: no sweep calls into      *)
(* freed memory (grib_accessor_gen_t::destroy clears both pointers).       *)
THEOREM NoDanglingCorrect == Spec => []NoDanglingEntry
<1>1. Init => TypeOK /\ NoDanglingEntry
  BY DEF Init, TypeOK, NoDanglingEntry
<1> QED
  BY <1>1, TypeStep, DanglingStep, PTL DEF Spec

(* A pair of accessors is in the list at most once, also when rebuilt      *)
(* sections register their accessors again (grib_dependency_add).          *)
THEOREM NoDuplicateCorrect == Spec => []NoDuplicatePair
<1>1. Init => TypeOK /\ NoDuplicatePair
  BY DEF Init, TypeOK, NoDuplicatePair
<1> QED
  BY <1>1, TypeStep, DuplicateStep, PTL DEF Spec

(* What every sweep goes through: no entry dangles and none is doubled.    *)
THEOREM ListSoundCorrect == Spec => []ListSound
BY NoDanglingCorrect, NoDuplicateCorrect, PTL DEF ListSound
-----------------------------------------------------------------------------
(***************************************************************************)
(* What a pass that no other pass interrupted tells.  The history fields   *)
(* are tied to the run flags: only the innermost pass can be without a     *)
(* nested one, its marks are exactly the flags of the list, and what lies  *)
(* behind its sweep was told or is gone.                                   *)
(***************************************************************************)

OuterAreNested == \A n \in DOMAIN stack : n # Len(stack) => stack[n].nested

SweepInv ==
    stack # <<>> /\ ~Top.nested =>
        /\ \A i \in DOMAIN deps : deps[i].run => i \in Top.marked
        /\ \A i \in Top.marked : i \in DOMAIN deps /\ deps[i].run
        /\ Top.called \subseteq Top.marked
        /\ \A i \in Top.marked : i <= Top.pos /\ deps[i].observer # Null => i \in Top.called

PassInv == TypeOK /\ OuterAreNested /\ SweepInv

(* The list may change while the passes stay as they are, as long as its   *)
(* entries keep their flags, new ones are not marked and no observer       *)
(* reappears: what callbacks do to it.                                     *)
LEMMA CallbackKeepsSweep ==
    ASSUME PassInv, stack' = stack, DOMAIN deps \subseteq DOMAIN deps',
           \A i \in DOMAIN deps :
                /\ deps'[i].run = deps[i].run
                /\ deps[i].observer = Null => deps'[i].observer = Null,
           \A i \in DOMAIN deps' : i \notin DOMAIN deps => ~deps'[i].run
    PROVE  OuterAreNested' /\ SweepInv'
<1>1. OuterAreNested'
  BY DEF PassInv, OuterAreNested
<1>2. ASSUME stack # <<>>, ~Top.nested
      PROVE  /\ \A i \in DOMAIN deps' : deps'[i].run => i \in Top.marked
             /\ \A i \in Top.marked : i \in DOMAIN deps' /\ deps'[i].run
             /\ Top.called \subseteq Top.marked
             /\ \A i \in Top.marked : i <= Top.pos /\ deps'[i].observer # Null => i \in Top.called
  BY <1>2 DEF PassInv, SweepInv
<1>3. Top' = Top
  BY DEF Top
<1> QED
  BY <1>1, <1>2, <1>3 DEF SweepInv

LEMMA PassStep == PassInv /\ [Next]_vars => PassInv'
<1> SUFFICES ASSUME PassInv, [Next]_vars PROVE OuterAreNested' /\ SweepInv'
  BY TypeStep DEF PassInv
<1>0. /\ DOMAIN deps = 1..Len(deps) /\ Len(deps) \in Nat
      /\ DOMAIN stack = 1..Len(stack) /\ Len(stack) \in Nat
      /\ deps \in Seq(Entry) /\ stack \in Seq(Pass)
      /\ stack # <<>> => Len(stack) \in DOMAIN stack /\ Top \in Pass
  BY DEF PassInv, TypeOK, Top
<1>1. ASSUME NEW a \in Accessor, Create(a) PROVE OuterAreNested' /\ SweepInv'
  BY <1>1, CallbackKeepsSweep DEF Create
<1>2. ASSUME NEW a \in Accessor, Destroy(a) PROVE OuterAreNested' /\ SweepInv'
  <2> DEFINE mid == RemoveObserved(deps, a)
  <2>1. mid \in Seq(Entry) /\ DOMAIN mid = DOMAIN deps
    BY <1>0, RemoveObservedEntry
  <2>2. deps' = RemoveObserver(mid, a) /\ stack' = stack
    BY <1>2 DEF Destroy
  <2>3. DOMAIN deps' = DOMAIN deps
    BY <2>1, <2>2 DEF RemoveObserver
  <2>4. ASSUME NEW i \in DOMAIN deps
        PROVE  /\ deps'[i].run = deps[i].run
               /\ deps[i].observer = Null => deps'[i].observer = Null
    <3>1. mid[i].run = deps[i].run /\ mid[i].observer = deps[i].observer
      BY <1>0, RemoveObservedEntry
    <3>2. /\ deps'[i].run = mid[i].run
          /\ deps'[i].observer = IF mid[i].observer = a THEN Null ELSE mid[i].observer
      BY <2>1, <2>2, RemoveObserverEntry
    <3> QED
      BY <3>1, <3>2
  <2> HIDE DEF mid
  <2> QED
    BY <2>2, <2>3, <2>4, CallbackKeepsSweep
<1>3. ASSUME NEW o \in Accessor, NEW k \in Accessor, Add(o, k)
      PROVE  OuterAreNested' /\ SweepInv'
  <2> DEFINE new == [observed |-> k, observer |-> o, run |-> FALSE]
  <2>1. deps' = Append(deps, new) /\ stack' = stack
    BY <1>3 DEF Add
  <2>2. DOMAIN deps' = 1..(Len(deps) + 1) /\ ~deps'[Len(deps) + 1].run
    BY <2>1, <1>0
  <2>3. \A i \in DOMAIN deps : i \in DOMAIN deps' /\ deps'[i] = deps[i]
    BY <2>1, <2>2, <1>0
  <2>4. \A i \in DOMAIN deps' : i \notin DOMAIN deps => ~deps'[i].run
    BY <1>0, <2>2
  <2> HIDE DEF new
  <2> QED
    BY <2>1, <2>3, <2>4, CallbackKeepsSweep
<1>4. ASSUME NEW k \in Accessor, Notify(k) PROVE OuterAreNested' /\ SweepInv'
  <2> DEFINE outer == [i \in DOMAIN stack |-> [stack[i] EXCEPT !.nested = TRUE]]
             new == [observed |-> k, pos |-> 0, calling |-> FALSE,
                     marked |-> {i \in DOMAIN deps : ToRun(deps[i], k)},
                     called |-> {}, nested |-> FALSE]
  <2>1. stack' = Append(outer, new) /\ deps' = Mark(deps, k)
    BY <1>4 DEF Notify
  <2>2. \A n \in DOMAIN stack : outer[n].nested
    <3>1. ASSUME NEW n \in DOMAIN stack PROVE [stack[n] EXCEPT !.nested = TRUE].nested
      <4>1. stack[n] \in Pass
        BY <1>0
      <4> QED
        BY <4>1, PassUpdate
    <3> QED
      BY <3>1
  <2>3. outer \in Seq(Pass)
    <3>1. ASSUME NEW i \in DOMAIN stack PROVE [stack[i] EXCEPT !.nested = TRUE] \in Pass
      <4>1. stack[i] \in Pass
        BY <1>0
      <4> QED
        BY <4>1, PassUpdate
    <3> QED
      BY <1>0, <3>1
  <2>4. Len(outer) = Len(stack)
    BY <1>0, <2>3
  <2> HIDE DEF outer
  <2>5. /\ Len(stack') = Len(stack) + 1 /\ stack' # <<>>
        /\ DOMAIN stack' = 1..(Len(stack) + 1)
        /\ \A n \in DOMAIN stack : stack'[n] = outer[n]
        /\ Top' = new
    BY <1>0, <2>1, <2>3, <2>4 DEF Top
  <2>6. OuterAreNested'
    BY <1>0, <2>2, <2>5 DEF OuterAreNested
  <2>7. DOMAIN deps' = DOMAIN deps /\ \A i \in DOMAIN deps : deps'[i].run = ToRun(deps[i], k)
    BY <2>1, <1>0, MarkEntry DEF Mark
  <2>8. new.marked = {i \in DOMAIN deps : ToRun(deps[i], k)} /\ new.called = {} /\ new.pos = 0
    OBVIOUS
  <2>9. \A i \in DOMAIN deps : ~(i <= 0)
    BY <1>0
  <2> HIDE DEF new
  <2> QED
    BY <2>5, <2>6, <2>7, <2>8, <2>9 DEF SweepInv
<1>5. CASE Call
  <2>1. PICK i \in DOMAIN deps :
          /\ i > Top.pos /\ Callable(i)
          /\ \A j \in DOMAIN deps : Top.pos < j /\ j < i => ~Callable(j)
          /\ stack' = [stack EXCEPT ![Len(stack)] =
                      [Top EXCEPT !.pos = i, !.calling = TRUE, !.called = @ \cup {i}]]
    BY <1>5 DEF Call
  <2>2. deps' = deps /\ stack # <<>>
    BY <1>5 DEF Call
  <2>3. /\ Len(stack') = Len(stack) /\ DOMAIN stack' = DOMAIN stack
        /\ \A n \in DOMAIN stack : n # Len(stack) => stack'[n] = stack[n]
        /\ Top' = [Top EXCEPT !.pos = i, !.calling = TRUE, !.called = @ \cup {i}]
    BY <1>0, <2>1, <2>2 DEF Top
  <2>4. /\ Top'.nested = Top.nested /\ Top'.marked = Top.marked
        /\ Top'.called = Top.called \cup {i} /\ Top'.pos = i
    BY <1>0, <2>2, <2>3 DEF Pass
  <2>5. OuterAreNested'
    BY <2>3 DEF PassInv, OuterAreNested
  <2>6. ASSUME ~Top.nested
        PROVE  /\ i \in Top.marked
               /\ \A j \in Top.marked :
                    j <= i /\ deps[j].observer # Null => j \in Top.called \cup {i}
    <3>1. i \in Top.marked
      BY <2>1, <2>2, <2>6 DEF PassInv, SweepInv, Callable
    <3>2. ASSUME NEW j \in Top.marked, j <= i, deps[j].observer # Null
          PROVE  j \in Top.called \cup {i}
      <4>1. j \in DOMAIN deps /\ deps[j].run
        BY <2>2, <2>6 DEF PassInv, SweepInv
      <4>2. j \in Nat /\ i \in Nat /\ Top.pos \in Nat
        BY <1>0, <2>2, <4>1 DEF Pass
      <4>3. CASE j <= Top.pos
        BY <2>2, <2>6, <3>2, <4>3 DEF PassInv, SweepInv
      <4>4. CASE Top.pos < j /\ j < i
        BY <2>1, <3>2, <4>1, <4>4 DEF Callable
      <4> QED
        BY <3>2, <4>2, <4>3, <4>4
    <3> QED
      BY <3>1, <3>2
  <2> QED
    BY <2>2, <2>4, <2>5, <2>6 DEF PassInv, SweepInv
<1>6. CASE ObserverReturns
  <2>1. /\ Len(stack') = Len(stack) /\ DOMAIN stack' = DOMAIN stack /\ deps' = deps
        /\ \A n \in DOMAIN stack : n # Len(stack) => stack'[n] = stack[n]
        /\ Top' = [Top EXCEPT !.calling = FALSE] /\ stack # <<>>
    BY <1>0, <1>6 DEF Top, ObserverReturns
  <2>2. /\ Top'.nested = Top.nested /\ Top'.marked = Top.marked
        /\ Top'.called = Top.called /\ Top'.pos = Top.pos
    BY <1>0, <2>1 DEF Pass
  <2>3. OuterAreNested'
    BY <2>1 DEF PassInv, OuterAreNested
  <2> QED
    BY <2>1, <2>2, <2>3 DEF PassInv, SweepInv
<1>7. CASE stack' = Pop /\ stack # <<>>
  <2>1. /\ stack' \in Seq(Pass) /\ Len(stack') = Len(stack) - 1
        /\ DOMAIN stack' = 1..(Len(stack) - 1)
        /\ \A n \in 1..(Len(stack) - 1) : stack'[n] = stack[n]
    BY <1>0, <1>7 DEF Pop
  <2>2. \A n \in DOMAIN stack' : stack'[n].nested
    BY <1>0, <2>1, SMTT(30) DEF PassInv, OuterAreNested
  <2>3. stack' # <<>> => Len(stack') \in DOMAIN stack'
    BY <2>1
  <2> QED
    BY <2>2, <2>3 DEF OuterAreNested, SweepInv, Top
<1>8. CASE UNCHANGED vars
  BY <1>8 DEF vars, PassInv, OuterAreNested, SweepInv, Top
<1>9. ObserverFails \/ NotifyReturns => stack' = Pop /\ stack # <<>>
  BY DEF ObserverFails, NotifyReturns
<1> QED
  BY <1>1, <1>2, <1>3, <1>4, <1>5, <1>6, <1>7, <1>8, <1>9 DEF Next

LEMMA PassCorrect == Spec => []PassInv
<1>1. Init => PassInv
  BY DEF Init, PassInv, TypeOK, OuterAreNested, SweepInv
<1> QED
  BY <1>1, PassStep, PTL DEF Spec

(* A pass that no other pass interrupts calls only observers its own mark  *)
(* chose: the guarantee the comment on the two passes gives.               *)
THEOREM CallsOnlyMarkedCorrect == Spec => []CallsOnlyMarked
<1>1. PassInv => CallsOnlyMarked
  BY DEF PassInv, OuterAreNested, SweepInv, CallsOnlyMarked, Top
<1> QED
  BY <1>1, PassCorrect, PTL

(* When such a pass ends, every observer it marked and that still exists   *)
(* was told.                                                               *)
THEOREM EveryObserverToldCorrect == Spec => []EveryObserverTold
<1>1. PassInv => EveryObserverTold
  <2> SUFFICES ASSUME PassInv, stack # <<>>, ~Top.nested, SweepEnded,
                      NEW i \in Top.marked, deps[i].observer # Null
               PROVE  i \in Top.called
    BY DEF EveryObserverTold
  <2>1. i \in DOMAIN deps /\ deps[i].run
    BY DEF PassInv, SweepInv
  <2>2. ~(i > Top.pos)
    BY <2>1 DEF SweepEnded, Callable
  <2>a. DOMAIN deps = 1..Len(deps)
    BY DEF PassInv, TypeOK
  <2>b. Top \in Pass
    BY DEF PassInv, TypeOK, Top
  <2>3. i \in Nat /\ Top.pos \in Nat
    BY <2>1, <2>a, <2>b DEF Pass
  <2> QED
    BY <2>2, <2>3 DEF PassInv, SweepInv
<1> QED
  BY <1>1, PassCorrect, PTL

(* A pass without a nested one tells the observers it marked: those, and   *)
(* all of those that still exist.                                          *)
THEOREM PassTellsMarkedCorrect == Spec => []PassTellsMarked
BY CallsOnlyMarkedCorrect, EveryObserverToldCorrect, PTL DEF PassTellsMarked
-----------------------------------------------------------------------------
(* The list only grows *)

LEMMA DecayStep ==
    ASSUME TypeOK, [Next]_vars
    PROVE  /\ Len(deps') >= Len(deps)
           /\ \A i \in DOMAIN deps :
                /\ deps'[i].observed \in {deps[i].observed, Null}
                /\ deps'[i].observer \in {deps[i].observer, Null}
<1> DEFINE Decay == /\ Len(deps') >= Len(deps)
                    /\ \A i \in DOMAIN deps :
                         /\ deps'[i].observed \in {deps[i].observed, Null}
                         /\ deps'[i].observer \in {deps[i].observer, Null}
<1>0. DOMAIN deps = 1..Len(deps) /\ Len(deps) \in Nat /\ deps \in Seq(Entry)
  BY DEF TypeOK
<1>1. ASSUME deps' = deps PROVE Decay
  BY <1>0, <1>1
<1>2. ASSUME NEW a \in Accessor, Destroy(a) PROVE Decay
  <2> DEFINE mid == RemoveObserved(deps, a)
  <2>1. /\ mid \in Seq(Entry) /\ Len(mid) = Len(deps)
        /\ \A i \in DOMAIN deps :
             /\ mid[i].observer = deps[i].observer
             /\ mid[i].observed \in {deps[i].observed, Null}
    BY <1>0, RemoveObservedEntry
  <2>2. DOMAIN mid = DOMAIN deps
    BY <1>0, <2>1
  <2>3. /\ deps' = RemoveObserver(mid, a) /\ Len(deps') = Len(mid)
        /\ \A i \in DOMAIN mid :
             /\ deps'[i].observed = mid[i].observed
             /\ deps'[i].observer \in {mid[i].observer, Null}
    BY <1>2, <2>1, RemoveObserverEntry DEF Destroy
  <2>4. ASSUME NEW i \in DOMAIN deps
        PROVE  /\ deps'[i].observed \in {deps[i].observed, Null}
               /\ deps'[i].observer \in {deps[i].observer, Null}
    BY <2>1, <2>2, <2>3
  <2> HIDE DEF mid
  <2> QED
    BY <1>0, <2>1, <2>3, <2>4
<1>3. ASSUME NEW o \in Accessor, NEW k \in Accessor, Add(o, k) PROVE Decay
  <2> DEFINE new == [observed |-> k, observer |-> o, run |-> FALSE]
  <2>1. deps' = Append(deps, new)
    BY <1>3 DEF Add
  <2>2. Len(deps') = Len(deps) + 1 /\ \A i \in DOMAIN deps : deps'[i] = deps[i]
    BY <1>0, <2>1
  <2> QED
    BY <1>0, <2>2
<1>4. ASSUME NEW k \in Accessor, Notify(k) PROVE Decay
  <2>1. deps' = Mark(deps, k)
    BY <1>4 DEF Notify
  <2> QED
    BY <1>0, <2>1, MarkEntry
<1>5. CASE \/ \E a \in Accessor : Create(a)
           \/ Call \/ ObserverReturns \/ ObserverFails \/ NotifyReturns \/ UNCHANGED vars
  BY <1>1, <1>5 DEF Create, Call, ObserverReturns, ObserverFails, NotifyReturns, vars
<1> QED
  BY <1>2, <1>3, <1>4, <1>5 DEF Next

(* An entry never leaves its place in the list, and loses accessors only:  *)
(* a sweep may keep its pointer across any callback.                       *)
THEOREM EntriesOnlyDecayCorrect == Spec => EntriesOnlyDecay
<1>1. ASSUME TypeOK, [Next]_vars
      PROVE  [/\ Len(deps') >= Len(deps)
              /\ \A i \in DOMAIN deps :
                   /\ deps'[i].observed \in {deps[i].observed, Null}
                   /\ deps'[i].observer \in {deps[i].observer, Null}]_vars
  BY <1>1, DecayStep
<1> QED
  BY <1>1, TypeCorrect, PTL DEF Spec, EntriesOnlyDecay
=============================================================================
