------------------------ MODULE DefinitionFilesProofs ------------------------
(* Proofs about the search and the parsing of definition files, for any number
   of threads, any directories, files, includes and tables, and any bounds.

   The inductive invariant is built in four layers.  Types says at which step
   a thread holds which mutex, what it holds of the list of directories, and
   that a place remembered for a name is one of that name.  Roots, on top of
   it, says that whoever is not making the first handle has one, and that a
   handle needs a parsed file: so no file is parsed before boot.def.  Searches,
   on top of both, says that the list of directories, which is tested and
   walked without a mutex, is made by the thread of the first handle while all
   others are idle (MakerAlone), and is whole for everyone else.  Stored and
   Loads are about tables: which numbers they have, and what a thread that
   loads one has in its hands at each step, the parser's stack of includes
   with it (Parsing). *)
EXTENDS DefinitionFiles, TLAPS

-----------------------------------------------------------------------------
(* Where a thread is *)

Seeking == {"get", "test", "enter", "node", "value", "walk", "found"}
Pc == Seeking \cup {"idle", "parse", "have", "static", "create"}

\* What a thread searches and parses files for; a table has parts of two kinds.
Purpose(r) == IF r.for = "include" THEN r.back ELSE r.for
Actions == {"boot", "template"}
Parts == {"alternative", "master"}

Busy(r) == r.pc \notin {"idle", "create"}
InParser(r) == r.pc = "parse" \/ (r.pc \in Seeking /\ r.for = "include")

Fields == {"pc", "for", "name", "list", "node", "mine", "ans", "file", "todo", "ok", "key", "alt",
           "part", "back", "handle", "root", "calls"}

\* What the place in a call says of what the call is for.
Phase(r) ==
    /\ DOMAIN r = Fields
    /\ r.pc \in Pc
    /\ Busy(r) => Purpose(r) \in Actions \cup Parts
    /\ Busy(r) /\ r.for = "include" => r.pc \in Seeking
    /\ r.pc = "have" => Purpose(r) \in Actions
    /\ r.pc = "static" => Purpose(r) \in Parts
    /\ Busy(r) => (r.back = "boot" => Purpose(r) = "boot")
    /\ r.pc = "idle" => r.back = Null
    /\ IF Busy(r) /\ Purpose(r) \in Parts THEN r.key \in Keys ELSE r.key = Null

Phases == DOMAIN th = Thread /\ \A t \in Thread : Phase(th[t])

LEMMA ReturnedPhase == ASSUME NEW r PROVE Phase(Returned(r))
  BY NullAssumption DEF Phase, Returned, Idle, Busy, Purpose, Fields, Pc, Seeking, Parts

\* A step of one thread.
LEMMA OnePhase ==
  ASSUME Phases, NEW t \in Thread, Phase(th'[t]), DOMAIN th' = DOMAIN th,
         \A u \in Thread : u # t => th'[u] = th[u]
  PROVE  Phases'
<1>1. ASSUME NEW u \in Thread PROVE Phase(th'[u])
  BY DEF Phases
<1> QED
  BY <1>1 DEF Phases, Phase, Busy, Purpose

\* What the thread that goes on with an included file parses, and whether it parsed.
IncludedWith(t, todo, ok) ==
    /\ th[t].pc = "found" /\ th[t].ans # Null /\ th[t].for = "include"
    /\ th' = [th EXCEPT ![t].pc = "parse", ![t].todo = todo, ![t].ok = ok, ![t].for = th[t].back]
    /\ UNCHANGED <<path, lists, dirs, cache, parsed, lock, overwritten, aborted, context>>

LEMMA IncludedStep == ASSUME NEW t, Included(t) PROVE \E todo, ok : IncludedWith(t, todo, ok)
<1> WITNESS Includes[th[t].ans] \o Tail(th[t].todo), th[t].ok /\ th[t].ans \notin Broken
<1> QED
  BY DEF Included, IncludedWith

LEMMA PhasesStep == ASSUME Phases, [Next]_vars PROVE Phases'
<1> USE DEF Phase, Purpose, Busy, Fields, Seeking, Pc, Actions, Parts
<1>a. \A t \in Thread : Phase(th[t]) /\ DOMAIN th = Thread
  BY DEF Phases
<1>1. ASSUME NEW t \in Thread, Get(t) PROVE Phases'
  BY <1>a, OnePhase, <1>1 DEF Get
<1>2. ASSUME NEW t \in Thread, Test(t) PROVE Phases'
  BY <1>a, OnePhase, <1>2 DEF Test
<1>3. ASSUME NEW t \in Thread, Enter(t) PROVE Phases'
  BY <1>a, OnePhase, <1>3 DEF Enter
<1>4. ASSUME NEW t \in Thread, LinkNode(t) PROVE Phases'
  BY <1>a, OnePhase, <1>4 DEF LinkNode
<1>5. ASSUME NEW t \in Thread, SetNode(t) PROVE Phases'
  BY <1>a, OnePhase, <1>5 DEF SetNode
<1>6. ASSUME NEW t \in Thread, Walk(t) PROVE Phases'
  <2>1. PICK place : \/ th' = [th EXCEPT ![t].node = @ + 1]
                     \/ th' = [th EXCEPT ![t].pc = "found", ![t].ans = place]
    BY <1>6 DEF Walk
  <2>2. th[t].pc = "walk"
    BY <1>6 DEF Walk
  <2> QED
    BY <1>a, OnePhase, <2>1, <2>2 DEF Counted
<1>7. ASSUME NEW t \in Thread, NoTemplate(t) PROVE Phases'
  BY <1>a, OnePhase, <1>7, NullAssumption DEF NoTemplate, Returned, Idle
<1>8. ASSUME NEW t \in Thread, StartParse(t) PROVE Phases'
  BY <1>a, OnePhase, <1>8 DEF StartParse
<1>9. ASSUME NEW t \in Thread, Include(t) PROVE Phases'
  BY <1>a, OnePhase, <1>9 DEF Include, Searching
<1>10. ASSUME NEW t \in Thread, Included(t) PROVE Phases'
  <2>1. PICK todo, ok : IncludedWith(t, todo, ok)
    BY <1>10, IncludedStep
  <2> QED
    <3> DEFINE r == th[t]
               s == th'[t]
    <3>1. /\ Phase(r) /\ r.pc = "found" /\ r.for = "include"
          /\ DOMAIN s = DOMAIN r /\ s.pc = "parse" /\ s.for = r.back
          /\ s.back = r.back /\ s.key = r.key
          /\ DOMAIN th' = DOMAIN th /\ \A u \in Thread : u # t => th'[u] = th[u]
      <4>1. DOMAIN r = Fields /\ t \in DOMAIN th
        BY <1>a
      <4> QED
        BY <1>a, <2>1, <4>1 DEF IncludedWith
    <3>2. Busy(r) /\ Purpose(r) = r.back /\ r.back \in Actions \cup Parts
      BY <3>1
    <3>3. Busy(s) /\ s.for # "include" /\ Purpose(s) = r.back
      BY <3>1, <3>2
    <3> HIDE DEF r, s
    <3>4. Phase(s)
      BY <3>1, <3>2, <3>3
    <3> QED
      BY <3>1, <3>4, OnePhase DEF r, s
<1>11. ASSUME NEW t \in Thread, Keep(t) PROVE Phases'
  BY <1>a, OnePhase, <1>11 DEF Keep
<1>12. ASSUME NEW t \in Thread, Leave(t) PROVE Phases'
  BY <1>a, OnePhase, <1>12 DEF Leave
<1>13. ASSUME NEW t \in Thread, Booted(t) PROVE Phases'
  BY <1>a, OnePhase, <1>13 DEF Booted
<1>14. ASSUME NEW t \in Thread, Create(t) PROVE Phases'
  BY <1>a, OnePhase, <1>14, NullAssumption DEF Create, Returned, Idle
<1>15. ASSUME NEW t \in Thread, HaveTemplate(t) PROVE Phases'
  BY <1>a, OnePhase, <1>15, NullAssumption DEF HaveTemplate, Returned, Idle
<1>16. ASSUME NEW t \in Thread, NoAlternative(t) PROVE Phases'
  BY <1>a, OnePhase, <1>16 DEF NoAlternative, Sought, Searching
<1>17. ASSUME NEW t \in Thread, Take(t) PROVE Phases'
  <2>1. th[t].pc = "static"
    BY <1>17 DEF Take
  <2>2. ASSUME NEW part, th' = [th EXCEPT ![t] = [Searching(@, "master", @.key.master) EXCEPT !.part = part]]
        PROVE  Phases'
    BY <1>a, OnePhase, <2>1, <2>2 DEF Searching
  <2>3. CASE th' = [th EXCEPT ![t] = Returned(@)]
    BY <1>a, OnePhase, <2>3, ReturnedPhase
  <2> QED
    BY <1>17, <2>2, <2>3 DEF Take, Store
<1>18. ASSUME NEW t \in Thread, NoMaster(t) PROVE Phases'
  <2>1. th' = [th EXCEPT ![t] = Returned(@)]
    BY <1>18 DEF NoMaster, Store
  <2> QED
    BY <1>a, OnePhase, <2>1, ReturnedPhase
<1>19. ASSUME NEW t \in Thread, NewHandle(t) PROVE Phases'
  <2>1. th[t].pc = "idle"
    BY <1>19 DEF NewHandle, Begin, Counted
  <2>2. CASE th' = [th EXCEPT ![t] = Searching(Counted(@), "boot", Boot)]
    BY <1>a, OnePhase, <2>1, <2>2, NullAssumption DEF Searching, Counted
  <2>3. CASE th' = [th EXCEPT ![t] = [Counted(@) EXCEPT !.pc = "create"]]
    BY <1>a, OnePhase, <2>1, <2>3 DEF Counted
  <2> QED
    BY <1>19, <2>2, <2>3 DEF NewHandle
<1>20. ASSUME NEW t \in Thread, NEW name \in Templates, Template(t, name) PROVE Phases'
  BY <1>a, OnePhase, <1>20, NullAssumption DEF Template, Begin, Counted, Searching
<1>21. ASSUME NEW t \in Thread, NEW k \in Keys, Table(t, k) PROVE Phases'
  <2>1. th[t].pc = "idle"
    BY <1>21 DEF Table, Begin, Counted
  <2>2. CASE th' = [th EXCEPT ![t] = Counted(@)]
    BY <1>a, OnePhase, <2>1, <2>2 DEF Counted
  <2>3. CASE th' = [th EXCEPT ![t] = Sought([Counted(@) EXCEPT !.key = k], 1)]
    <3> DEFINE r == Sought([Counted(th[t]) EXCEPT !.key = k], 1)
    <3>1. Phase(r)
      BY <1>a, <2>1, NullAssumption DEF Sought, Searching, Counted
    <3>2. th' = [th EXCEPT ![t] = r]
      BY <2>3
    <3> HIDE DEF r
    <3> QED
      BY <1>a, OnePhase, <3>1, <3>2
  <2> QED
    BY <1>21, <2>2, <2>3 DEF Table
<1>22. ASSUME DeleteContext PROVE Phases'
  BY <1>a, <1>22, NullAssumption DEF Phases, DeleteContext, Idle
<1>23. CASE UNCHANGED th
  BY <1>23 DEF Phases
<1> QED
  BY <1>1, <1>2, <1>3, <1>4, <1>5, <1>6, <1>7, <1>8, <1>9, <1>10, <1>11, <1>12, <1>13, <1>14, <1>15,
     <1>16, <1>17, <1>18, <1>19, <1>20, <1>21, <1>22, <1>23 DEF Next, Step, Call, Missing, SetPath, vars

-----------------------------------------------------------------------------
(* Who holds which mutex *)

Lock(r, t) ==
    /\ lock["c"] = t <=> r.pc \in {"node", "value"}
    /\ lock["file"] = t <=> InParser(r)
    /\ lock["root"] = t <=> Busy(r) /\ Purpose(r) = "boot"
    /\ \A k \in Kind : lock[k] = t <=> r.key # Null /\ r.key.kind = k

Locks == DOMAIN lock = Mutex /\ \A t \in Thread : Lock(th[t], t)

\* A step of one thread that takes mutexes that are free or releases its own.
LEMMA OneLock ==
  ASSUME Locks, NEW t \in Thread, Lock(th[t], t)', DOMAIN lock' = DOMAIN lock,
         \A u \in Thread : u # t => th'[u] = th[u],
         \A x \in Mutex : lock'[x] = lock[x] \/ (lock[x] = Null /\ lock'[x] = t) \/ (lock[x] = t /\ lock'[x] = Null)
  PROVE  Locks'
<1>1. ASSUME NEW u \in Thread, u # t PROVE Lock(th[u], u)'
  <2>1. Lock(th[u], u) /\ th'[u] = th[u]
    BY <1>1 DEF Locks
  <2>2. \A x \in Mutex : lock'[x] = u <=> lock[x] = u
    BY <1>1, NullAssumption
  <2> QED
    BY <2>1, <2>2 DEF Lock, Mutex, Kind, InParser, Busy, Purpose
<1> QED
  BY <1>1 DEF Locks

\* The end of a call for a table.
LEMMA StoreLocks ==
  ASSUME Phases, Locks, NEW t \in Thread, NEW part, Store(t, part), Busy(th[t]), Purpose(th[t]) \in Parts,
         ~InParser(th[t]), th[t].pc \notin {"node", "value"}
  PROVE  Locks'
<1>1. Phase(th[t]) /\ Lock(th[t], t) /\ DOMAIN th = Thread /\ DOMAIN lock = Mutex
  BY DEF Phases, Locks
<1>2. th[t].key \in Keys /\ th[t].key # Null /\ th[t].key.kind \in Kind /\ lock[th[t].key.kind] = t
  BY <1>1, NullAssumption, KeysAssumption DEF Phase, Lock
<1>3. /\ th' = [th EXCEPT ![t] = Returned(th[t])] /\ lock' = [lock EXCEPT ![th[t].key.kind] = Null]
  BY DEF Store
<1>4. Returned(th[t]).pc = "idle" /\ Returned(th[t]).key = Null
  BY DEF Returned, Idle
<1>5. Lock(th[t], t)'
  BY <1>1, <1>2, <1>3, <1>4, NullAssumption DEF Lock, InParser, Busy, Purpose, Seeking, Mutex, Kind, Parts
<1> QED
  BY <1>1, <1>2, <1>3, <1>5, OneLock DEF Mutex

LEMMA LocksStep == ASSUME Phases, Locks, [Next]_vars PROVE Locks'
<1> USE DEF Lock, InParser, Purpose, Busy, Fields, Seeking, Pc, Actions, Parts, Kind, Mutex
<1>a. DOMAIN th = Thread /\ \A t \in Thread : Phase(th[t])
  BY DEF Phases
<1>b. DOMAIN lock = Mutex /\ \A t \in Thread : Lock(th[t], t)
  BY DEF Locks
<1>1. ASSUME NEW t \in Thread, Get(t) PROVE Locks'
  BY <1>a, <1>b, <1>1, OneLock, NullAssumption DEF Get, Phase
<1>2. ASSUME NEW t \in Thread, Test(t) PROVE Locks'
  BY <1>a, <1>b, <1>2, OneLock, NullAssumption DEF Test, Phase
<1>3. ASSUME NEW t \in Thread, Enter(t) PROVE Locks'
  BY <1>a, <1>b, <1>3, OneLock, NullAssumption DEF Enter, Phase, Free
<1>4. ASSUME NEW t \in Thread, LinkNode(t) PROVE Locks'
  BY <1>a, <1>b, <1>4, OneLock, NullAssumption DEF LinkNode, Phase
<1>5. ASSUME NEW t \in Thread, SetNode(t) PROVE Locks'
  BY <1>a, <1>b, <1>5, OneLock, NullAssumption DEF SetNode, Phase
<1>6. ASSUME NEW t \in Thread, Walk(t) PROVE Locks'
  <2>1. PICK place : \/ th' = [th EXCEPT ![t].node = @ + 1]
                     \/ th' = [th EXCEPT ![t].pc = "found", ![t].ans = place]
    BY <1>6 DEF Walk
  <2>2. th[t].pc = "walk" /\ lock' = lock
    BY <1>6 DEF Walk
  <2> QED
    BY <1>a, <1>b, <2>1, <2>2, OneLock DEF Phase, Counted
<1>7. ASSUME NEW t \in Thread, NoTemplate(t) PROVE Locks'
  BY <1>a, <1>b, <1>7, OneLock, NullAssumption DEF NoTemplate, Phase, Returned, Idle
<1>8. ASSUME NEW t \in Thread, StartParse(t) PROVE Locks'
  BY <1>a, <1>b, <1>8, OneLock, NullAssumption DEF StartParse, Phase, Free
<1>9. ASSUME NEW t \in Thread, Include(t) PROVE Locks'
  BY <1>a, <1>b, <1>9, OneLock, NullAssumption DEF Include, Phase, Searching
<1>10. ASSUME NEW t \in Thread, Included(t) PROVE Locks'
  <2>1. PICK todo, ok : IncludedWith(t, todo, ok)
    BY <1>10, IncludedStep
  <2> QED
    BY <1>a, <1>b, <2>1, OneLock, NullAssumption DEF IncludedWith, Phase
<1>11. ASSUME NEW t \in Thread, Keep(t) PROVE Locks'
  BY <1>a, <1>b, <1>11, OneLock, NullAssumption DEF Keep, Phase, Unlocked
<1>12. ASSUME NEW t \in Thread, Leave(t) PROVE Locks'
  BY <1>a, <1>b, <1>12, OneLock, NullAssumption DEF Leave, Phase, Unlocked
<1>13. ASSUME NEW t \in Thread, Booted(t) PROVE Locks'
  BY <1>a, <1>b, <1>13, OneLock, NullAssumption DEF Booted, Phase
<1>14. ASSUME NEW t \in Thread, Create(t) PROVE Locks'
  BY <1>a, <1>b, <1>14, OneLock, NullAssumption DEF Create, Phase, Returned, Idle
<1>15. ASSUME NEW t \in Thread, HaveTemplate(t) PROVE Locks'
  BY <1>a, <1>b, <1>15, OneLock, NullAssumption DEF HaveTemplate, Phase, Returned, Idle
<1>16. ASSUME NEW t \in Thread, NoAlternative(t) PROVE Locks'
  BY <1>a, <1>b, <1>16, OneLock, NullAssumption DEF NoAlternative, Phase, Sought, Searching
<1>17. ASSUME NEW t \in Thread, Take(t) PROVE Locks'
  <2>1. th[t].pc = "static"
    BY <1>17 DEF Take
  <2>2. ASSUME NEW part, UNCHANGED lock,
               th' = [th EXCEPT ![t] = [Searching(@, "master", @.key.master) EXCEPT !.part = part]]
        PROVE  Locks'
    BY <1>a, <1>b, <2>1, <2>2, OneLock DEF Phase, Counted, Searching
  <2>3. ASSUME NEW part, Store(t, part) PROVE Locks'
    BY <1>a, <1>b, <2>1, <2>3, StoreLocks DEF Phase
  <2> QED
    BY <1>17, <2>2, <2>3 DEF Take
<1>18. ASSUME NEW t \in Thread, NoMaster(t) PROVE Locks'
  <2>1. th[t].pc = "found" /\ th[t].for = "master"
    BY <1>18 DEF NoMaster
  <2> QED
    BY <1>a, <1>18, <2>1, StoreLocks DEF NoMaster, Phase
<1>19. ASSUME NEW t \in Thread, NewHandle(t) PROVE Locks'
  <2>1. th[t].pc = "idle" /\ lock["root"] = Null
    BY <1>19 DEF NewHandle, Begin, Counted, Free
  <2>2. CASE /\ th' = [th EXCEPT ![t] = Searching(Counted(@), "boot", Boot)]
             /\ lock' = [lock EXCEPT !["root"] = t]
    BY <1>a, <1>b, <2>1, <2>2, OneLock, NullAssumption DEF Phase, Searching, Counted
  <2>3. CASE /\ th' = [th EXCEPT ![t] = [Counted(@) EXCEPT !.pc = "create"]]
             /\ lock' = lock
    BY <1>a, <1>b, <2>1, <2>3, OneLock DEF Phase, Counted
  <2> QED
    BY <1>19, <2>2, <2>3 DEF NewHandle, RootKept
<1>20. ASSUME NEW t \in Thread, NEW name \in Templates, Template(t, name) PROVE Locks'
  BY <1>a, <1>b, <1>20, OneLock, NullAssumption DEF Template, Phase, Begin, Counted, Searching
<1>21. ASSUME NEW t \in Thread, NEW k \in Keys, Table(t, k) PROVE Locks'
  <2>1. th[t].pc = "idle" /\ k.kind \in Kind /\ lock[k.kind] = Null
    BY <1>21, KeysAssumption DEF Table, Begin, Counted, Free
  <2>2. CASE th' = [th EXCEPT ![t] = Counted(@)] /\ lock' = lock
    BY <1>a, <1>b, <2>1, <2>2, OneLock DEF Phase, Counted
  <2>3. CASE /\ th' = [th EXCEPT ![t] = Sought([Counted(@) EXCEPT !.key = k], 1)]
             /\ lock' = [lock EXCEPT ![k.kind] = t]
    <3> DEFINE r == Sought([Counted(th[t]) EXCEPT !.key = k], 1)
    <3>1. r.pc = "get" /\ r.for \in Parts /\ r.back = Null /\ r.key = k
      BY <1>a, <2>1 DEF Phase, Sought, Searching, Counted
    <3>2. th' = [th EXCEPT ![t] = r] /\ lock' = [lock EXCEPT ![k.kind] = t]
      BY <2>3
    <3> HIDE DEF r
    <3>3. Lock(th[t], t)'
      BY <1>a, <1>b, <2>1, <3>1, <3>2, NullAssumption DEF Phase
    <3> QED
      BY <1>a, <1>b, <2>1, <3>2, <3>3, OneLock
  <2> QED
    BY <1>21, <2>2, <2>3 DEF Table
<1>22. ASSUME DeleteContext PROVE Locks'
  BY <1>a, <1>b, <1>22, NullAssumption DEF Locks, Phase, DeleteContext, Idle
<1>23. CASE UNCHANGED <<th, lock>>
  BY <1>b, <1>23 DEF Locks
<1> QED
  BY <1>1, <1>2, <1>3, <1>4, <1>5, <1>6, <1>7, <1>8, <1>9, <1>10, <1>11, <1>12, <1>13, <1>14, <1>15,
     <1>16, <1>17, <1>18, <1>19, <1>20, <1>21, <1>22, <1>23 DEF Next, Step, Call, Missing, SetPath, vars

-----------------------------------------------------------------------------
(* Lists of directories and places of files *)

Path == Seq(Dir) \ {<<>>}
List == [of : Path, nodes : Seq(Dir \cup {Null})]
PlaceOf(n) == {Null} \cup {f \in DefFile : f[2] = n}

\* What a thread in a search may find at the list it makes or walks.
Sees(r) ==
    /\ r.pc = "enter" => r.mine \in Path
    /\ r.pc = "node" =>
          \/ r.list = Len(lists) + 1 /\ r.mine \in Path
          \/ r.list \in DOMAIN lists /\ Len(lists[r.list].nodes) < Len(lists[r.list].of)
    /\ r.pc = "value" =>
          r.list \in DOMAIN lists /\ Len(lists[r.list].nodes) \in 1..Len(lists[r.list].of)
    /\ r.pc = "walk" => r.list \in DOMAIN lists /\ r.node \in DOMAIN lists[r.list].nodes
    /\ r.pc = "found" => r.ans \in PlaceOf(r.name)

Places ==
    /\ path \in Path
    /\ lists \in Seq(List) /\ dirs \in 0..Len(lists)
    /\ dirs # 0 => lists[dirs].nodes # <<>>
    /\ \A n \in DOMAIN cache : cache[n] \in PlaceOf(n)
    /\ \A t \in Thread : Sees(th[t])

LEMMA PlacesStep == ASSUME Phases, Locks, Places, [Next]_vars PROVE Places'
<1> USE DEF Fields
<1>a. DOMAIN th = Thread /\ \A t \in Thread : DOMAIN th[t] = Fields
  BY DEF Phases, Phase
<1>b. path \in Path /\ lists \in Seq(List) /\ dirs \in 0..Len(lists) /\ (dirs # 0 => lists[dirs].nodes # <<>>)
      /\ (\A n \in DOMAIN cache : cache[n] \in PlaceOf(n)) /\ \A t \in Thread : Sees(th[t])
  BY DEF Places
<1>d. /\ DOMAIN lists = 1..Len(lists) /\ Len(lists) \in Nat
      /\ \A l \in DOMAIN lists :
            /\ DOMAIN lists[l] = {"of", "nodes"} /\ lists[l].of \in Seq(Dir) /\ lists[l].of # <<>>
            /\ lists[l].nodes \in Seq(Dir \cup {Null})
            /\ Len(lists[l].of) \in Nat /\ Len(lists[l].nodes) \in Nat
            /\ DOMAIN lists[l].nodes = 1..Len(lists[l].nodes)
  <2>1. \A l \in DOMAIN lists : lists[l] \in List /\ DOMAIN lists = 1..Len(lists) /\ Len(lists) \in Nat
    BY <1>b
  <2>2. ASSUME NEW l \in DOMAIN lists
        PROVE  DOMAIN lists[l] = {"of", "nodes"} /\ lists[l].of \in Path /\ lists[l].nodes \in Seq(Dir \cup {Null})
    BY <2>1, <2>2 DEF List
  <2> QED
    BY <1>b, <2>1, <2>2 DEF Path
\* A thread that makes no list finds what it found, or more of it.
<1>e. ASSUME NEW u \in Thread, th'[u] = th[u], th[u].pc \notin {"node", "value"},
             DOMAIN lists \subseteq DOMAIN lists',
             \A l \in DOMAIN lists : DOMAIN lists[l].nodes \subseteq DOMAIN lists'[l].nodes
      PROVE  Sees(th[u])'
  BY <1>b, <1>e DEF Sees
\* A step that makes no list.
<1>c. ASSUME NEW t \in Thread, UNCHANGED <<path, lists, dirs, cache>>, Sees(th'[t]),
             \A u \in Thread : u # t => th'[u] = th[u]
      PROVE  Places'
  BY <1>b, <1>c DEF Places, Sees
<1>1. ASSUME NEW t \in Thread, Get(t) PROVE Places'
  BY <1>a, <1>b, <1>c, <1>1 DEF Get, Sees, Known
<1>2. ASSUME NEW t \in Thread, Test(t) PROVE Places'
  <2>1. CASE dirs # 0
    <3>1. th'[t].pc = "walk" /\ th'[t].list = dirs /\ th'[t].node = 1
      BY <1>a, <1>2, <2>1 DEF Test
    <3>2. dirs \in DOMAIN lists /\ 1 \in DOMAIN lists[dirs].nodes
      BY <1>b, <1>d, <2>1
    <3> QED
      BY <1>a, <1>c, <1>2, <3>1, <3>2 DEF Test, Sees
  <2>2. CASE dirs = 0
    BY <1>a, <1>b, <1>c, <1>2, <2>2 DEF Test, Sees
  <2> QED
    BY <2>1, <2>2
<1>3. ASSUME NEW t \in Thread, Enter(t) PROVE Places'
  BY <1>a, <1>b, <1>c, <1>3 DEF Enter, Sees
<1>4. ASSUME NEW t \in Thread, LinkNode(t) PROVE Places'
  <2>1. th[t].pc = "node" /\ th'[t].pc = "value" /\ th'[t].list = th[t].list
        /\ (\A u \in Thread : u # t => th'[u] = th[u]) /\ UNCHANGED <<path, cache>>
    BY <1>a, <1>4 DEF LinkNode
  <2>2. ASSUME NEW u \in Thread, u # t PROVE th[u].pc \notin {"node", "value"}
    BY <2>1, <2>2 DEF Locks, Lock
  <2>3. CASE th[t].list = Len(lists) + 1 /\ th[t].mine \in Path
    <3>1. lists' = Append(lists, [of |-> th[t].mine, nodes |-> <<Null>>]) /\ dirs' = Len(lists) + 1
      BY <1>b, <1>4, <2>3 DEF LinkNode
    <3>2. [of |-> th[t].mine, nodes |-> <<Null>>] \in List /\ Len(th[t].mine) \in Nat \ {0}
      BY <2>3 DEF List, Path
    <3>3. /\ lists' \in Seq(List) /\ Len(lists') = Len(lists) + 1
          /\ lists'[Len(lists) + 1] = [of |-> th[t].mine, nodes |-> <<Null>>]
          /\ \A l \in DOMAIN lists : l \in DOMAIN lists' /\ lists'[l] = lists[l]
      BY <1>b, <3>1, <3>2
    <3>4. \A u \in Thread : Sees(th[u])'
      <4>1. ASSUME NEW u \in Thread, u # t PROVE Sees(th[u])'
        BY <1>d, <1>e, <2>1, <2>2, <3>3, <4>1
      <4>2. Sees(th[t])'
        BY <1>d, <2>1, <2>3, <3>2, <3>3 DEF Sees
      <4> QED
        BY <4>1, <4>2
    <3> QED
      BY <1>b, <2>1, <3>1, <3>3, <3>4 DEF Places
  <2>4. CASE th[t].list \in DOMAIN lists /\ Len(lists[th[t].list].nodes) < Len(lists[th[t].list].of)
    <3> DEFINE l == th[t].list
               new == Append(lists[l].nodes, Null)
    <3>1. lists' = [lists EXCEPT ![l].nodes = new] /\ dirs' = dirs
      BY <1>b, <1>4, <2>4 DEF LinkNode
    <3>2. /\ lists[l] \in List /\ new \in Seq(Dir \cup {Null}) /\ Len(new) = Len(lists[l].nodes) + 1
          /\ DOMAIN new = 1..Len(new) /\ Len(lists[l].nodes) \in Nat /\ Len(lists[l].of) \in Nat
      BY <1>b, <1>d, <2>4
    <3> HIDE DEF new
    <3>3. /\ lists' \in Seq(List) /\ Len(lists') = Len(lists) /\ DOMAIN lists' = DOMAIN lists
          /\ lists'[l].nodes = new /\ lists'[l].of = lists[l].of
          /\ \A m \in DOMAIN lists : m # l => lists'[m] = lists[m]
      <4> DEFINE x == [lists[l] EXCEPT !.nodes = new]
      <4>1. x \in List /\ x.nodes = new /\ x.of = lists[l].of
        BY <1>d, <3>2 DEF List
      <4>2. lists' = [lists EXCEPT ![l] = x]
        BY <3>1
      <4> HIDE DEF x
      <4> QED
        BY <1>b, <1>d, <2>4, <4>1, <4>2
    <3>4. \A u \in Thread : u # t => Sees(th[u])'
      BY <1>d, <1>e, <2>1, <2>2, <3>2, <3>3, SMTT(30)
    <3>5. Sees(th[t])'
      BY <1>b, <2>1, <2>4, <3>2, <3>3, SMTT(30) DEF Sees
    <3>6. dirs' # 0 => lists'[dirs'].nodes # <<>>
      BY <1>b, <3>1, <3>2, <3>3
    <3> QED
      BY <1>b, <2>1, <3>1, <3>3, <3>4, <3>5, <3>6 DEF Places
  <2> QED
    BY <1>b, <2>1, <2>3, <2>4 DEF Sees
<1>5. ASSUME NEW t \in Thread, SetNode(t) PROVE Places'
  <2> DEFINE l == th[t].list
             n == Len(lists[l].nodes)
  <2>1. th[t].pc = "value" /\ ((th'[t].pc = "node" /\ n < Len(lists[l].of)) \/ th'[t].pc = "test")
        /\ th'[t].list = l /\ (\A u \in Thread : u # t => th'[u] = th[u]) /\ UNCHANGED <<path, dirs, cache>>
        /\ lists' = [lists EXCEPT ![l].nodes[n] = lists[l].of[n]]
    BY <1>a, <1>5 DEF SetNode
  <2>2. ASSUME NEW u \in Thread, u # t PROVE th[u].pc \notin {"node", "value"}
    BY <2>1, <2>2 DEF Locks, Lock
  <2>3. l \in DOMAIN lists /\ n \in 1..Len(lists[l].of) /\ lists[l] \in List /\ lists[l].of[n] \in Dir
    BY <1>b, <1>d, <2>1 DEF Sees
  <2> DEFINE new == [lists[l].nodes EXCEPT ![n] = lists[l].of[n]]
  <2>4. new \in Seq(Dir \cup {Null}) /\ Len(new) = n /\ DOMAIN new = DOMAIN lists[l].nodes /\ new # <<>>
    BY <2>3 DEF List
  <2>5. /\ lists' \in Seq(List) /\ Len(lists') = Len(lists) /\ DOMAIN lists' = DOMAIN lists
        /\ lists'[l].nodes = new /\ lists'[l].of = lists[l].of
        /\ \A m \in DOMAIN lists : m # l => lists'[m] = lists[m]
    <3> HIDE DEF new
    <3>1. lists' = [lists EXCEPT ![l].nodes = new]
      BY <2>1 DEF new
    <3> QED
      <4> DEFINE x == [lists[l] EXCEPT !.nodes = new]
      <4>1. x \in List /\ x.nodes = new /\ x.of = lists[l].of
        BY <1>d, <2>3, <2>4 DEF List
      <4>2. lists' = [lists EXCEPT ![l] = x]
        BY <3>1
      <4> HIDE DEF x
      <4> QED
        BY <1>b, <1>d, <2>3, <4>1, <4>2
  <2> HIDE DEF new
  <2>6. \A u \in Thread : u # t => Sees(th[u])'
    BY <1>d, <1>e, <2>1, <2>2, <2>4, <2>5
  <2>7. Sees(th[t])'
    BY <1>b, <2>1, <2>3, <2>4, <2>5 DEF Sees
  <2>8. dirs' # 0 => lists'[dirs'].nodes # <<>>
    <3>1. dirs' = dirs /\ (dirs # 0 => dirs \in DOMAIN lists /\ lists[dirs].nodes # <<>>)
      BY <1>b, <2>1
    <3>2. CASE dirs = l
      BY <2>4, <2>5, <3>1, <3>2
    <3>3. CASE dirs # l
      BY <2>5, <3>1, <3>3
    <3> QED
      BY <3>2, <3>3
  <2> QED
    BY <1>b, <2>1, <2>5, <2>6, <2>7, <2>8 DEF Places
<1>6. ASSUME NEW t \in Thread, Walk(t) PROVE Places'
  <2> DEFINE nodes == lists[th[t].list].nodes
             d == nodes[th[t].node]
             name == th[t].name
             place == IF d # Null /\ name \in Holds[d] THEN <<d, name>> ELSE Null
  <2>1. nodes \in Seq(Dir \cup {Null}) /\ th[t].node \in DOMAIN nodes /\ d \in Dir \cup {Null}
    <3>1. th[t].pc = "walk"
      BY <1>6 DEF Walk
    <3>2. th[t].list \in DOMAIN lists /\ th[t].node \in DOMAIN nodes
      BY <1>b, <3>1 DEF Sees
    <3>3. nodes \in Seq(Dir \cup {Null})
      BY <1>d, <3>2
    <3> HIDE DEF nodes
    <3> QED
      BY <3>2, <3>3
  <2>2. place \in PlaceOf(name)
    BY <2>1 DEF PlaceOf, DefFile, Name
  <2>3. CASE th' = [th EXCEPT ![t].node = @ + 1] /\ th[t].node # Len(nodes) /\ UNCHANGED cache
    <3>1. th'[t].pc = "walk" /\ th'[t].list = th[t].list /\ th'[t].node \in DOMAIN nodes
      <4>1. th[t].pc = "walk" /\ DOMAIN th[t] = Fields /\ t \in DOMAIN th
        BY <1>a, <1>6 DEF Walk
      <4>2. th'[t].pc = th[t].pc /\ th'[t].list = th[t].list /\ th'[t].node = th[t].node + 1
        BY <2>3, <4>1
      <4>3. DOMAIN nodes = 1..Len(nodes) /\ Len(nodes) \in Nat
        BY <2>1
      <4>4. th[t].node + 1 \in DOMAIN nodes
        BY <2>1, <2>3, <4>3
      <4> QED
        BY <4>1, <4>2, <4>4
    <3> QED
      BY <1>a, <1>b, <1>c, <1>6, <2>3, <3>1 DEF Walk, Sees
  <2>4. CASE /\ th' = [th EXCEPT ![t].pc = "found", ![t].ans = place]
             /\ cache' = Remembered(name, place)
    <3> HIDE DEF place
    <3>1. th'[t].pc = "found" /\ th'[t].ans = place /\ th'[t].name = name
          /\ \A u \in Thread : u # t => th'[u] = th[u]
      BY <1>a, <2>4
    <3>2. UNCHANGED <<path, lists, dirs>>
      BY <1>6 DEF Walk
    <3>3. \A m \in DOMAIN cache' : cache'[m] \in PlaceOf(m)
      BY <1>b, <2>2, <2>4 DEF Remembered
    <3> QED
      BY <1>b, <2>2, <3>1, <3>2, <3>3 DEF Places, Sees
  <2> QED
    BY <1>6, <2>3, <2>4 DEF Walk
<1>7. ASSUME NEW t \in Thread, NoTemplate(t) PROVE Places'
  BY <1>a, <1>b, <1>c, <1>7 DEF NoTemplate, context, Sees, Returned, Idle
<1>8. ASSUME NEW t \in Thread, StartParse(t) PROVE Places'
  BY <1>a, <1>b, <1>c, <1>8 DEF StartParse, context, Sees
<1>9. ASSUME NEW t \in Thread, Include(t) PROVE Places'
  BY <1>a, <1>b, <1>c, <1>9 DEF Include, context, Sees, Searching
<1>10. ASSUME NEW t \in Thread, Included(t) PROVE Places'
  <2>1. PICK todo, ok : IncludedWith(t, todo, ok)
    BY <1>10, IncludedStep
  <2> QED
    <3>1. /\ UNCHANGED <<path, lists, dirs, cache>>
          /\ \A u \in Thread : u # t => th'[u] = th[u]
          /\ th'[t].pc = "parse"
      BY <1>a, <2>1 DEF IncludedWith, context
    <3> QED
      BY <1>c, <3>1 DEF Sees
<1>11. ASSUME NEW t \in Thread, Keep(t) PROVE Places'
  BY <1>a, <1>b, <1>c, <1>11 DEF Keep, context, Sees
<1>12. ASSUME NEW t \in Thread, Leave(t) PROVE Places'
  BY <1>a, <1>b, <1>c, <1>12 DEF Leave, context, Sees
<1>13. ASSUME NEW t \in Thread, Booted(t) PROVE Places'
  BY <1>a, <1>b, <1>c, <1>13 DEF Booted, context, Sees
<1>14. ASSUME NEW t \in Thread, Create(t) PROVE Places'
  BY <1>a, <1>b, <1>c, <1>14 DEF Create, context, Sees, Returned, Idle
<1>15. ASSUME NEW t \in Thread, HaveTemplate(t) PROVE Places'
  BY <1>a, <1>b, <1>c, <1>15 DEF HaveTemplate, context, Sees, Returned, Idle
<1>16. ASSUME NEW t \in Thread, NoAlternative(t) PROVE Places'
  BY <1>a, <1>b, <1>c, <1>16 DEF NoAlternative, context, Sees, Sought, Searching
<1>17. ASSUME NEW t \in Thread, Take(t) PROVE Places'
  <2>1. UNCHANGED <<path, lists, dirs, cache>> /\ \A u \in Thread : u # t => th'[u] = th[u]
    BY <1>a, <1>17 DEF Take, Store
  <2>2. th'[t].pc \in {"get", "idle"}
    BY <1>a, <1>17, ZenonT(40) DEF Take, Store, Searching, Returned, Idle
  <2> QED
    BY <1>c, <2>1, <2>2 DEF Sees
<1>18. ASSUME NEW t \in Thread, NoMaster(t) PROVE Places'
  <2>1. th' = [th EXCEPT ![t] = Returned(@)] /\ UNCHANGED <<path, lists, dirs, cache>>
    BY <1>18 DEF NoMaster, Store
  <2> QED
    BY <1>a, <1>c, <2>1 DEF Sees, Returned, Idle
<1>19. ASSUME NEW t \in Thread, NewHandle(t) PROVE Places'
  <2>1. th'[t].pc \in {"get", "create"} /\ \A u \in Thread : u # t => th'[u] = th[u]
    BY <1>a, <1>19 DEF NewHandle, Searching, Counted
  <2> QED
    BY <1>c, <1>19, <2>1 DEF NewHandle, Sees
<1>20. ASSUME NEW t \in Thread, NEW name \in Templates, Template(t, name) PROVE Places'
  BY <1>a, <1>c, <1>20 DEF Template, Searching, Counted, Sees
<1>21. ASSUME NEW t \in Thread, NEW k \in Keys, Table(t, k) PROVE Places'
  <2>1. UNCHANGED <<path, lists, dirs, cache>> /\ \A u \in Thread : u # t => th'[u] = th[u]
    BY <1>a, <1>21 DEF Table
  <2>2. th'[t].pc \in {"get", "idle"}
    <3>1. th[t].pc = "idle"
      BY <1>21 DEF Table, Begin
    <3>2. CASE th' = [th EXCEPT ![t] = Counted(@)]
      BY <1>a, <3>1, <3>2 DEF Counted
    <3>3. CASE th' = [th EXCEPT ![t] = Sought([Counted(@) EXCEPT !.key = k], 1)]
      BY <1>a, <3>3 DEF Counted, Sought, Searching
    <3> QED
      BY <1>21, <3>2, <3>3 DEF Table
  <2> QED
    BY <1>c, <2>1, <2>2 DEF Sees
<1>22. ASSUME NEW t \in Thread, NEW p \in Paths, SetPath(t, p) PROVE Places'
  BY <1>b, <1>22, PathAssumption DEF SetPath, Places, Path, Sees
<1>23. ASSUME DeleteContext PROVE Places'
  BY <1>23, PathAssumption DEF DeleteContext, Places, Path, Sees, Idle
<1>24. CASE UNCHANGED <<path, lists, dirs, cache, th>>
  BY <1>b, <1>24 DEF Places, Sees
<1> QED
  BY <1>1, <1>2, <1>3, <1>4, <1>5, <1>6, <1>7, <1>8, <1>9, <1>10, <1>11, <1>12, <1>13, <1>14, <1>15,
     <1>16, <1>17, <1>18, <1>19, <1>20, <1>21, <1>22, <1>23, <1>24 DEF Next, Step, Call, Missing, vars

-----------------------------------------------------------------------------
(* Numbers of tables *)

Numbers ==
    /\ DOMAIN ids \subseteq Keys
    /\ count \in [Kind -> Nat]
    /\ \A k \in DOMAIN ids : ids[k] \in 1..count[k.kind]
    /\ \A j, k \in DOMAIN ids : j.kind = k.kind /\ ids[j] = ids[k] => j = k

LEMMA NumbersStep == ASSUME Numbers, [Next]_vars PROVE Numbers'
<1>1. ASSUME NEW t \in Thread, NEW k \in Keys, Table(t, k) PROVE Numbers'
  <2>1. k.kind \in Kind /\ (\A j \in Keys : j.kind \in Kind) /\ count \in [Kind -> Nat]
    BY KeysAssumption DEF Numbers
  <2>2. CASE k \in DOMAIN ids
    <3>1. ids' = [x \in DOMAIN ids |-> ids[x]] /\ count' = count
      BY <1>1, <2>1, <2>2 DEF Table, NumberOf
    <3> QED
      BY <3>1 DEF Numbers
  <2>3. CASE k \notin DOMAIN ids
    <3>1. /\ ids' = [x \in DOMAIN ids \cup {k} |-> IF x = k THEN count[k.kind] + 1 ELSE ids[x]]
          /\ count' = [count EXCEPT ![k.kind] = @ + 1]
      BY <1>1, <2>3 DEF Table, NumberOf
    <3>2. count' \in [Kind -> Nat] /\ count'[k.kind] = count[k.kind] + 1
          /\ \A j \in Keys : count'[j.kind] >= count[j.kind]
      BY <2>1, <3>1
    <3> QED
      BY <2>1, <2>3, <3>1, <3>2 DEF Numbers
  <2> QED
    BY <2>2, <2>3
<1>2. CASE DeleteContext
  BY <1>2 DEF DeleteContext, CountAfter, Numbers, Kind
<1>3. CASE UNCHANGED <<ids, count>>
  BY <1>3 DEF Numbers
<1>4. ASSUME NEW t \in Thread, Step(t) PROVE UNCHANGED <<ids, count>>
  BY <1>4 DEF Step, Get, Test, Enter, LinkNode, SetNode, Walk, Missing, NoTemplate, StartParse, Include,
              Included, Keep, Leave, Booted, Create, HaveTemplate, NoAlternative, Take, NoMaster, context
<1>5. ASSUME NEW t \in Thread, NewHandle(t) \/ (\E name \in Templates : Template(t, name))
                               \/ (\E p \in Paths : SetPath(t, p))
      PROVE  UNCHANGED <<ids, count>>
  BY <1>5 DEF NewHandle, Template, SetPath, context
<1> QED
  BY <1>1, <1>2, <1>3, <1>4, <1>5 DEF Next, Call, vars

-----------------------------------------------------------------------------

(* The types together *)

Types == Phases /\ Locks /\ Places /\ Numbers

LEMMA TypesInit == Init => Types
<1> SUFFICES ASSUME Init PROVE Types
  OBVIOUS
<1>1. Phases
  BY NullAssumption DEF Init, Phases, Phase, Idle, Busy, Purpose, Fields, Pc, Seeking, Parts
<1>2. Locks
  BY NullAssumption DEF Init, Locks, Lock, Idle, Busy, InParser, Seeking, Mutex, Kind
<1>3. Places
  BY PathAssumption DEF Init, Places, Path, Sees, Idle
<1>4. Numbers
  BY DEF Init, Numbers
<1> QED
  BY <1>1, <1>2, <1>3, <1>4 DEF Types

LEMMA TypesStep == Types /\ [Next]_vars => Types'
  BY PhasesStep, LocksStep, PlacesStep, NumbersStep DEF Types

LEMMA TypesImply == Types => TypeOK
<1> SUFFICES ASSUME Types PROVE TypeOK
  OBVIOUS
<1>1. ASSUME NEW t \in Thread
      PROVE  /\ lock["c"] = t <=> th[t].pc \in {"node", "value"}
             /\ lock["file"] = t <=>
                   \/ th[t].pc = "parse"
                   \/ th[t].pc \notin {"parse", "idle", "have", "static", "create"} /\ th[t].for = "include"
             /\ \A k \in Kind : lock[k] = t <=> th[t].key # Null /\ th[t].key.kind = k
  BY DEF Types, Phases, Phase, Locks, Lock, InParser, Pc, Seeking
<1>2. ASSUME NEW t \in Thread
      PROVE  lock["root"] = t <=> th[t].pc \notin {"idle", "create"} /\ "boot" \in {th[t].for, th[t].back}
  BY DEF Types, Phases, Phase, Locks, Lock, Busy, Purpose
<1>3. \A n \in DOMAIN cache : cache[n] # Null => cache[n] \in DefFile /\ cache[n][2] = n
  BY DEF Types, Places, PlaceOf
<1> QED
  BY <1>1, <1>2, <1>3 DEF Types, TypeOK, Places, Numbers

(* Each mutex is held by one thread at most, exactly where the code holds it;
   names lead to files of that name, and no two tables share a number. *)
THEOREM TypeCorrect == Spec => []TypeOK
<1>1. Init => Types
  BY TypesInit
<1>2. Types /\ [Next]_vars => Types'
  BY TypesStep
<1>3. Types => TypeOK
  BY TypesImply
<1> QED
  BY <1>1, <1>2, <1>3, PTL DEF Spec

-----------------------------------------------------------------------------
(* The parsed files *)

\* What a thread knows of the parsed files: one that makes the first handle
\* has parsed none yet, any other has a handle; one that is parsing a file that
\* will be kept is parsing one that is not there.
Root(r) ==
    /\ r.handle \in BOOLEAN
    /\ r.handle => reader # Null /\ reader # <<>> /\ r.root = reader[1]
    /\ Busy(r) /\ Purpose(r) # "boot" => r.handle
    /\ r.pc = "create" => reader # Null
    /\ Busy(r) /\ Purpose(r) = "boot" =>
          /\ IF r.pc = "have" THEN reader # Null ELSE reader \in {Null, <<>>}
          /\ r.pc \in Seeking /\ r.for = "boot" => r.name = Boot
          /\ InParser(r) => r.file[2] = Boot
    /\ InParser(r) /\ Purpose(r) \in Actions => reader # Null /\ r.file \in DefFile \ ToSet(reader)

Roots ==
    /\ reader = Null \/ reader \in Seq(DefFile)
    /\ reader # Null =>
          /\ \A i, j \in DOMAIN reader : reader[i] = reader[j] => i = j
          /\ reader # <<>> => reader[1][2] = Boot
    /\ \A t \in Thread : Root(th[t])

LEMMA RootsStep == ASSUME Types, Roots, [Next]_vars PROVE Roots'
<1> USE DEF Fields, Busy, Purpose, InParser, Seeking, Pc, Actions, Parts
<1>a. DOMAIN th = Thread /\ \A t \in Thread : Phase(th[t])
  BY DEF Types, Phases
<1>b. \A t \in Thread : Root(th[t])
  BY DEF Roots
<1>c. ASSUME NEW t \in Thread, UNCHANGED reader, Root(th'[t]), \A u \in Thread : u # t => th'[u] = th[u]
      PROVE  Roots'
  BY <1>b, <1>c DEF Roots, Root
<1>1. ASSUME NEW t \in Thread, Get(t) PROVE Roots'
  BY <1>a, <1>b, <1>c, <1>1 DEF Get, Root, Phase, context
<1>2. ASSUME NEW t \in Thread, Test(t) PROVE Roots'
  BY <1>a, <1>b, <1>c, <1>2 DEF Test, Root, Phase, context
<1>3. ASSUME NEW t \in Thread, Enter(t) PROVE Roots'
  BY <1>a, <1>b, <1>c, <1>3 DEF Enter, Root, Phase, context
<1>4. ASSUME NEW t \in Thread, LinkNode(t) PROVE Roots'
  BY <1>a, <1>b, <1>c, <1>4 DEF LinkNode, Root, Phase, context
<1>5. ASSUME NEW t \in Thread, SetNode(t) PROVE Roots'
  BY <1>a, <1>b, <1>c, <1>5 DEF SetNode, Root, Phase, context
<1>6. ASSUME NEW t \in Thread, NoTemplate(t) PROVE Roots'
  BY <1>a, <1>b, <1>c, <1>6 DEF NoTemplate, Root, Phase, context, Returned, Idle
<1>7. ASSUME NEW t \in Thread, Include(t) PROVE Roots'
  BY <1>a, <1>b, <1>c, <1>7 DEF Include, Root, Phase, context, Searching
<1>8. ASSUME NEW t \in Thread, Included(t) PROVE Roots'
  <2>1. PICK todo, ok : IncludedWith(t, todo, ok)
    BY <1>8, IncludedStep
  <2> QED
    BY <1>a, <1>b, <1>c, <2>1 DEF IncludedWith, Root, Phase, context
<1>9. ASSUME NEW t \in Thread, Leave(t) PROVE Roots'
  BY <1>a, <1>b, <1>c, <1>9 DEF Leave, Root, Phase, context
<1>10. ASSUME NEW t \in Thread, Booted(t) PROVE Roots'
  BY <1>a, <1>b, <1>c, <1>10 DEF Booted, Root, Phase, context
<1>11. ASSUME NEW t \in Thread, HaveTemplate(t) PROVE Roots'
  BY <1>a, <1>b, <1>c, <1>11 DEF HaveTemplate, Root, Phase, context, Returned, Idle
<1>12. ASSUME NEW t \in Thread, NoAlternative(t) PROVE Roots'
  BY <1>a, <1>b, <1>c, <1>12 DEF NoAlternative, Root, Phase, context, Sought, Searching
<1>13. ASSUME NEW t \in Thread, Walk(t) PROVE Roots'
  <2>1. PICK place : \/ th' = [th EXCEPT ![t].node = @ + 1]
                     \/ th' = [th EXCEPT ![t].pc = "found", ![t].ans = place]
    BY <1>13 DEF Walk
  <2>2. th[t].pc = "walk" /\ UNCHANGED reader
    BY <1>13 DEF Walk, context
  <2> QED
    BY <1>a, <1>b, <1>c, <2>1, <2>2 DEF Root, Phase
<1>14. ASSUME NEW t \in Thread, StartParse(t) PROVE Roots'
  <2>1. /\ th[t].pc = "found" /\ th[t].for # "include" /\ th[t].ans \in DefFile /\ th[t].ans[2] = th[t].name
        /\ lock["file"] = Null
    BY <1>a, <1>14 DEF StartParse, Free, Types, Places, Sees, PlaceOf
  <2>2. \A u \in Thread : ~InParser(th[u]) /\ lock["file"] # u
    BY <2>1, NullAssumption DEF Types, Locks, Lock
  <2>3. \A u \in Thread : u # t => th'[u] = th[u]
    BY <1>a, <1>14 DEF StartParse
  <2>4. reader' = reader \/ (reader = Null /\ reader' = <<>> /\ th[t].for \in Actions)
    BY <1>14 DEF StartParse
  <2>5. reader = Null => th[t].for # "template"
    BY <1>a, <1>b, <2>1 DEF Root, Phase
  <2>6. \/ /\ th[t].for = "template" /\ IsParsed(th[t].ans)
           /\ th' = [th EXCEPT ![t].pc = "have", ![t].file = th[t].ans]
        \/ /\ th[t].for \in Actions => th[t].ans \notin ToSet(reader')
           /\ th' = [th EXCEPT ![t].pc = "parse", ![t].file = th[t].ans, ![t].todo = Includes[th[t].ans],
                               ![t].ok = th[t].ans \notin Broken]
    <3>1. th[t].for = "boot" => ~IsParsed(th[t].ans)
      BY <1>a, <1>b, <2>1 DEF Root, Phase, IsParsed, ToSet
    <3>2. ~IsParsed(th[t].ans) /\ th[t].for \in Actions => th[t].ans \notin ToSet(reader')
      BY <1>14, <2>4 DEF StartParse, IsParsed, ToSet
    <3> QED
      BY <1>14, <3>1, <3>2 DEF StartParse
  <2>7. Root(th[t])'
    <3>1. Root(th[t]) /\ Phase(th[t]) /\ Purpose(th[t]) = th[t].for
      BY <1>a, <1>b, <2>1
    <3>2. CASE /\ th[t].for = "template" /\ IsParsed(th[t].ans)
               /\ th' = [th EXCEPT ![t].pc = "have", ![t].file = th[t].ans]
      BY <1>a, <2>1, <2>4, <3>1, <3>2 DEF Root, Phase
    <3>3. CASE /\ th[t].for \in Actions => th[t].ans \notin ToSet(reader')
               /\ th' = [th EXCEPT ![t].pc = "parse", ![t].file = th[t].ans, ![t].todo = Includes[th[t].ans],
                                   ![t].ok = th[t].ans \notin Broken]
      <4>1. /\ th'[t].pc = "parse" /\ th'[t].for = th[t].for /\ th'[t].back = th[t].back
            /\ th'[t].file = th[t].ans /\ th'[t].handle = th[t].handle /\ th'[t].root = th[t].root
        BY <1>a, <3>3 DEF Phase
      <4>2. th[t].for \in Actions => reader' # Null
        <5>1. <<>> # Null
          <6>1. <<>> \in Seq(DefFile)
            OBVIOUS
          <6> QED
            BY <6>1, NullAssumption
        <5> QED
          BY <1>14, <5>1 DEF StartParse
      <4>3. th[t].handle => reader' = reader
        BY <2>4, <3>1 DEF Root
      <4>4. th[t].for = "boot" => th[t].name = Boot /\ reader' \in {Null, <<>>}
        BY <2>1, <2>4, <3>1 DEF Root
      <4> QED
        BY <2>1, <3>1, <3>3, <4>1, <4>2, <4>3, <4>4 DEF Root
    <3> QED
      BY <2>6, <3>2, <3>3
  <2>8. \A u \in Thread : u # t => Root(th[u])'
    BY <1>b, <2>2, <2>3, <2>4, NullAssumption DEF Root
  <2>9. CASE reader' = reader
    BY <2>7, <2>8, <2>9 DEF Roots
  <2>10. CASE reader' = <<>>
    BY <2>7, <2>8, <2>10 DEF Roots
  <2> QED
    BY <2>4, <2>9, <2>10
<1>15. ASSUME NEW t \in Thread, Keep(t) PROVE Roots'
  <2> DEFINE f == th[t].file
  <2>1. /\ th[t].pc = "parse" /\ th[t].for \in Actions
        /\ reader' = reader \/ reader' = Append(reader, f)
        /\ th'[t].pc = "have" /\ th'[t].for = th[t].for /\ th'[t].back = th[t].back
        /\ th'[t].handle = th[t].handle /\ th'[t].root = th[t].root
        /\ \A u \in Thread : u # t => th'[u] = th[u]
    BY <1>a, <1>15 DEF Keep, Phase
  <2>2. \A u \in Thread : u # t => ~InParser(th[u])
    BY <2>1 DEF Types, Locks, Lock
  <2>3. reader \in Seq(DefFile) /\ f \in DefFile /\ f \notin ToSet(reader)
    BY <1>b, <2>1 DEF Root, Roots
  <2>4. CASE reader' = reader
    BY <1>b, <2>1, <2>2, <2>3, <2>4, NullAssumption DEF Root, Roots
  <2>5. CASE reader' = Append(reader, f)
    <3>1. /\ reader' \in Seq(DefFile) /\ reader' # <<>> /\ reader' # Null /\ reader # Null
          /\ reader # <<>> => reader'[1] = reader[1]
          /\ reader = <<>> => reader'[1] = f
      BY <2>3, <2>5, NullAssumption
    <3>2. \A i, j \in DOMAIN reader' : reader'[i] = reader'[j] => i = j
      BY <2>3, <2>5, <3>1 DEF Roots, ToSet
    <3>3. reader'[1][2] = Boot
      BY <1>b, <2>1, <3>1 DEF Root, Roots
    <3>4. ASSUME NEW u \in Thread, u # t PROVE Busy(th[u]) /\ Purpose(th[u]) = "boot" => th[u].pc = "have"
      <4>1. CASE th[t].for = "boot"
        BY <2>1, <3>4, <4>1 DEF Types, Locks, Lock
      <4>2. CASE th[t].for = "template"
        <5>1. reader # Null /\ reader # <<>>
          BY <1>b, <2>1, <4>2 DEF Root
        <5> QED
          BY <1>b, <5>1 DEF Root
      <4> QED
        BY <2>1, <4>1, <4>2
    <3>5. \A u \in Thread : u # t => Root(th[u])'
      BY <1>b, <2>1, <2>2, <3>1, <3>4 DEF Root
    <3>6. Root(th[t])'
      BY <1>b, <2>1, <3>1 DEF Root
    <3> QED
      BY <3>1, <3>2, <3>3, <3>5, <3>6 DEF Roots
  <2> QED
    BY <2>1, <2>4, <2>5
<1>16. ASSUME NEW t \in Thread, Create(t) PROVE Roots'
  <2>1. th[t].pc = "create" /\ reader # Null /\ UNCHANGED reader
    BY <1>b, <1>16 DEF Create, Root, context
  <2> QED
    BY <1>a, <1>c, <1>16, <2>1 DEF Create, Returned, Idle, Root
<1>17. ASSUME NEW t \in Thread, Take(t) PROVE Roots'
  <2>1. th[t].pc = "static" /\ UNCHANGED reader
    BY <1>17 DEF Take
  <2>2. ASSUME NEW part, th' = [th EXCEPT ![t] = [Searching(@, "master", @.key.master) EXCEPT !.part = part]]
        PROVE  Roots'
    BY <1>a, <1>b, <1>c, <2>1, <2>2 DEF Root, Phase, Searching
  <2>3. CASE th' = [th EXCEPT ![t] = Returned(@)]
    BY <1>a, <1>b, <1>c, <2>1, <2>3 DEF Root, Returned, Idle
  <2> QED
    BY <1>17, <2>2, <2>3 DEF Take, Store
<1>18. ASSUME NEW t \in Thread, NoMaster(t) PROVE Roots'
  <2>1. th' = [th EXCEPT ![t] = Returned(@)] /\ UNCHANGED reader
    BY <1>18 DEF NoMaster, Store
  <2> QED
    BY <1>a, <1>b, <1>c, <2>1 DEF Root, Returned, Idle
<1>19. ASSUME NEW t \in Thread, NewHandle(t) PROVE Roots'
  <2>1. th[t].pc = "idle" /\ UNCHANGED reader
    BY <1>19 DEF NewHandle, Begin, context
  <2>2. CASE reader = Null /\ th' = [th EXCEPT ![t] = Searching(Counted(@), "boot", Boot)]
    BY <1>a, <1>b, <1>c, <2>1, <2>2 DEF Root, Phase, Searching, Counted
  <2>3. CASE reader # Null /\ th' = [th EXCEPT ![t] = [Counted(@) EXCEPT !.pc = "create"]]
    BY <1>a, <1>b, <1>c, <2>1, <2>3 DEF Root, Phase, Counted
  <2> QED
    BY <1>19, <2>2, <2>3 DEF NewHandle
<1>20. ASSUME NEW t \in Thread, NEW name \in Templates, Template(t, name) PROVE Roots'
  BY <1>a, <1>b, <1>c, <1>20 DEF Template, Begin, Searching, Counted, Root, Phase, context
<1>21. ASSUME NEW t \in Thread, NEW k \in Keys, Table(t, k) PROVE Roots'
  <2>1. th[t].pc = "idle" /\ th[t].handle /\ UNCHANGED reader
    BY <1>21 DEF Table, Begin
  <2>2. CASE th' = [th EXCEPT ![t] = Counted(@)]
    BY <1>a, <1>b, <1>c, <2>1, <2>2 DEF Counted, Root, Phase
  <2>3. CASE th' = [th EXCEPT ![t] = Sought([Counted(@) EXCEPT !.key = k], 1)]
    <3> DEFINE r == Sought([Counted(th[t]) EXCEPT !.key = k], 1)
    <3>1. r.pc = "get" /\ r.for \in Parts /\ r.handle = th[t].handle /\ r.root = th[t].root
      BY <1>a DEF Phase, Sought, Searching, Counted
    <3>2. th' = [th EXCEPT ![t] = r]
      BY <2>3
    <3> HIDE DEF r
    <3> QED
      BY <1>a, <1>b, <1>c, <2>1, <3>1, <3>2 DEF Root
  <2> QED
    BY <1>21, <2>2, <2>3 DEF Table
<1>22. CASE DeleteContext
  BY <1>22 DEF DeleteContext, Roots, Root, Idle
<1>23. CASE UNCHANGED <<reader, th>>
  BY <1>b, <1>23 DEF Roots, Root
<1> QED
  BY <1>1, <1>2, <1>3, <1>4, <1>5, <1>6, <1>7, <1>8, <1>9, <1>10, <1>11, <1>12, <1>13, <1>14, <1>15,
     <1>16, <1>17, <1>18, <1>19, <1>20, <1>21, <1>22, <1>23
     DEF Next, Step, Call, Missing, SetPath, context, vars

LEMMA RootsInit == Init => Roots
<1> SUFFICES ASSUME Init PROVE Roots
  OBVIOUS
<1>1. \A t \in Thread : Root(th[t])
  BY DEF Init, Root, Idle, Busy, InParser, Seeking
<1> QED
  BY <1>1 DEF Init, Roots

(* No file of actions is parsed twice, however many threads ask for it at the
   same time; the first is the boot file, and every handle starts from it. *)
THEOREM OneRootCorrect == Spec => []OneRoot
<1>1. Init => Types /\ Roots
  BY TypesInit, RootsInit
<1>2. Types /\ Roots /\ [Next]_vars => Types' /\ Roots'
  BY TypesStep, RootsStep
<1>3. Roots => OneRoot
  BY DEF Roots, Root, OneRoot
<1> QED
  BY <1>1, <1>2, <1>3, PTL DEF Spec

-----------------------------------------------------------------------------
(* The one list of directories *)

Making == {"enter", "node", "value"}
GivenPath == {EnvPath} \cup Paths

\* The list is there, with all its directories.
Complete ==
    /\ Len(lists) = 1 /\ dirs = 1
    /\ lists[1].of \in GivenPath /\ lists[1].nodes = lists[1].of

\* A part of it is there.
Partly ==
    /\ Len(lists) = 1 /\ dirs = 1
    /\ lists[1].of \in GivenPath

NoList == lists = <<>> /\ dirs = 0

\* The first handle of a context, before it parses.
First(r) == r.for = "boot" /\ r.pc \in {"get", "test"} \cup Making

Search(r) ==
    /\ Busy(r) /\ ~First(r) => Complete
    /\ r.pc = "enter" => NoList /\ r.mine \in GivenPath
    /\ r.pc = "node" =>
          /\ r.list = 1
          /\ \/ NoList /\ r.mine \in GivenPath
             \/ Partly /\ \A j \in DOMAIN lists[1].nodes : lists[1].nodes[j] = lists[1].of[j]
    /\ r.pc = "value" =>
          /\ r.list = 1 /\ Partly
          /\ \A j \in DOMAIN lists[1].nodes :
                lists[1].nodes[j] = IF j = Len(lists[1].nodes) THEN Null ELSE lists[1].of[j]
    /\ r.pc = "walk" => r.list = 1 /\ \A j \in 1..(r.node - 1) : r.name \notin Holds[lists[1].of[j]]
    /\ r.pc = "found" => r.ans = Place(lists[1].of, r.name)

Searches ==
    /\ path \in GivenPath
    /\ NoList \/ Partly
    /\ ~NoList /\ ~Complete => \E t \in Thread : th[t].pc \in {"node", "value"}
    /\ reader # Null \/ DOMAIN cache # {} => Complete
    /\ \A n \in DOMAIN cache : cache[n] = Place(lists[1].of, n)
    /\ aborted # Null => Complete /\ Place(lists[1].of, aborted) = Null
    /\ \A t \in Thread : Search(th[t])

\* A walk that found a name, or came to the end.
LEMMA FirstPlace ==
  ASSUME NEW p \in Seq(Dir), NEW n, NEW i \in DOMAIN p, \A j \in 1..(i - 1) : n \notin Holds[p[j]]
  PROVE  /\ n \in Holds[p[i]] => Place(p, n) = <<p[i], n>>
         /\ n \notin Holds[p[i]] /\ i = Len(p) => Place(p, n) = Null
<1> DEFINE where == {j \in DOMAIN p : n \in Holds[p[j]]}
<1>1. DOMAIN p = 1..Len(p) /\ Len(p) \in Nat /\ i \in 1..Len(p)
  OBVIOUS
<1>2. \A j \in where : j \in Int /\ ~(j < i)
  BY <1>1
<1>3. ASSUME n \in Holds[p[i]] PROVE Place(p, n) = <<p[i], n>>
  <2>1. i \in where /\ \A j \in where : i <= j
    BY <1>1, <1>2, <1>3
  <2>2. \A k \in where : (\A j \in where : k <= j) => k = i
    BY <1>1, <2>1
  <2>3. (CHOOSE k \in where : \A j \in where : k <= j) = i
    BY <2>1, <2>2
  <2> QED
    BY <2>1, <2>3 DEF Place
<1>4. ASSUME n \notin Holds[p[i]], i = Len(p) PROVE Place(p, n) = Null
  <2>1. where = {}
    BY <1>1, <1>2, <1>4
  <2> QED
    BY <2>1 DEF Place
<1> QED
  BY <1>3, <1>4

\* The thread that makes the list is alone: all others need a handle, and the
\* first handle is not there before the list.
LEMMA MakerAlone ==
  ASSUME Types, Roots, Searches, NEW t \in Thread, th[t].pc \in Making
  PROVE  /\ th[t].for = "boot" /\ Purpose(th[t]) = "boot" /\ ~Complete /\ reader = Null /\ DOMAIN cache = {}
         /\ \A u \in Thread : u # t => th[u].pc = "idle"
<1>1. Busy(th[t]) /\ Search(th[t]) /\ Sees(th[t]) /\ Phase(th[t])
  BY DEF Searches, Types, Phases, Places, Busy, Making
<1>2. ~Complete
  <2>1. CASE th[t].pc = "enter"
    BY <1>1, <2>1 DEF Search, NoList, Complete
  <2>2. CASE th[t].pc = "node"
    BY <1>1, <2>2 DEF Search, Sees, NoList, Complete, Partly
  <2>3. CASE th[t].pc = "value"
    <3>1. Len(lists[1].nodes) \in 1..Len(lists[1].of) /\ lists[1].nodes[Len(lists[1].nodes)] = Null
      <4>1. lists[1] \in List /\ Len(lists[1].nodes) \in 1..Len(lists[1].of)
        BY <1>1, <2>3 DEF Search, Sees, Partly, Types, Places
      <4>2. Len(lists[1].nodes) \in DOMAIN lists[1].nodes
        BY <4>1 DEF List
      <4> QED
        BY <1>1, <2>3, <4>1, <4>2 DEF Search
    <3>2. ASSUME Complete PROVE FALSE
      <4>1. lists[1].of \in Seq(Dir)
        BY <3>2, PathAssumption DEF Complete, GivenPath
      <4>2. Len(lists[1].of) \in 1..Len(lists[1].of) /\ lists[1].of[Len(lists[1].of)] = Null
        BY <3>1, <3>2 DEF Complete
      <4> QED
        BY <4>1, <4>2, NullAssumption
    <3> QED
      BY <3>2
  <2> QED
    BY <2>1, <2>2, <2>3 DEF Making
<1>3. th[t].for = "boot" /\ Purpose(th[t]) = "boot" /\ lock["root"] = t
  BY <1>1, <1>2 DEF Search, First, Purpose, Types, Locks, Lock
<1>4. reader = Null /\ DOMAIN cache = {}
  BY <1>2 DEF Searches
<1>5. ASSUME NEW u \in Thread, u # t PROVE th[u].pc = "idle"
  <2>1. Purpose(th[u]) = "boot" => ~Busy(th[u])
    BY <1>3, <1>5 DEF Types, Locks, Lock
  <2>2. ~Busy(th[u])
    BY <1>2, <2>1 DEF Searches, Search, First, Purpose
  <2> QED
    BY <1>4, <2>2 DEF Roots, Root, Busy
<1> QED
  BY <1>2, <1>3, <1>4, <1>5

LEMMA SearchesStep == ASSUME Types, Roots, Searches, [Next]_vars PROVE Searches'
<1> USE DEF Fields, Busy, Purpose, Seeking, Pc, Actions, Parts
<1>a. DOMAIN th = Thread /\ \A t \in Thread : Phase(th[t])
  BY DEF Types, Phases
<1>b. \A t \in Thread : Search(th[t])
  BY DEF Searches
\* A step that changes neither the list nor what is remembered.
<1>c. ASSUME NEW t \in Thread, UNCHANGED <<path, lists, dirs, cache, aborted>>, Search(th'[t]),
             th[t].pc \notin {"node", "value"}, reader' # Null => reader # Null \/ Complete,
             \A u \in Thread : u # t => th'[u] = th[u]
      PROVE  Searches'
  <2>1. (Complete' <=> Complete) /\ (NoList' <=> NoList) /\ (Partly' <=> Partly)
    BY <1>c DEF Complete, NoList, Partly
  <2>2. \A u \in Thread : Search(th[u])'
    BY <1>b, <1>c, <2>1 DEF Search, First
  <2> QED
    BY <1>c, <2>1, <2>2 DEF Searches
<1>1. ASSUME NEW t \in Thread, Get(t) PROVE Searches'
  BY <1>a, <1>b, <1>c, <1>1 DEF Searches, Get, Search, First, Making, Phase, context, Known
<1>2. ASSUME NEW t \in Thread, NoTemplate(t) PROVE Searches'
  BY <1>a, <1>b, <1>c, <1>2 DEF NoTemplate, Search, First, Making, Phase, context, Returned, Idle
<1>3. ASSUME NEW t \in Thread, Include(t) PROVE Searches'
  BY <1>a, <1>b, <1>c, <1>3 DEF Include, Search, First, Making, Phase, context, Searching
<1>4. ASSUME NEW t \in Thread, Included(t) PROVE Searches'
  <2>1. PICK todo, ok : IncludedWith(t, todo, ok)
    BY <1>4, IncludedStep
  <2> QED
    BY <1>a, <1>b, <1>c, <2>1 DEF IncludedWith, Search, First, Making, Phase, context
<1>5. ASSUME NEW t \in Thread, Leave(t) PROVE Searches'
  BY <1>a, <1>b, <1>c, <1>5 DEF Leave, Search, First, Making, Phase, context
<1>6. ASSUME NEW t \in Thread, Booted(t) PROVE Searches'
  BY <1>a, <1>b, <1>c, <1>6 DEF Booted, Search, First, Making, Phase, context
<1>7. ASSUME NEW t \in Thread, HaveTemplate(t) PROVE Searches'
  BY <1>a, <1>b, <1>c, <1>7 DEF HaveTemplate, Search, First, Making, Phase, context, Returned, Idle
<1>8. ASSUME NEW t \in Thread, NoAlternative(t) PROVE Searches'
  BY <1>a, <1>b, <1>c, <1>8 DEF NoAlternative, Search, First, Making, Phase, context, Sought, Searching
<1>9. ASSUME NEW t \in Thread, Keep(t) PROVE Searches'
  BY <1>a, <1>b, <1>c, <1>9 DEF Keep, Search, First, Making, Phase
<1>10. ASSUME NEW t \in Thread, Create(t) PROVE Searches'
  BY <1>a, <1>b, <1>c, <1>10 DEF Create, Search, First, Making, Phase, context, Returned, Idle
<1>11. ASSUME NEW t \in Thread, StartParse(t) PROVE Searches'
  BY <1>a, <1>b, <1>c, <1>11 DEF StartParse, Search, First, Making, Phase
<1>12. ASSUME NEW t \in Thread, Test(t) PROVE Searches'
  <2>1. th[t].pc = "test" /\ UNCHANGED <<path, lists, dirs, cache, aborted, reader>>
        /\ \A u \in Thread : u # t => th'[u] = th[u]
    BY <1>a, <1>12 DEF Test, context
  <2>2. NoList \/ Complete
    <3> SUFFICES ASSUME ~NoList, ~Complete PROVE FALSE
      OBVIOUS
    <3>1. PICK u \in Thread : th[u].pc \in {"node", "value"}
      BY DEF Searches
    <3> QED
      BY <2>1, <3>1, MakerAlone DEF Making
  <2>3. CASE dirs # 0
    <3>1. th'[t].pc = "walk" /\ th'[t].list = dirs /\ th'[t].node = 1
      BY <1>a, <1>12, <2>3 DEF Test, Phase
    <3>2. Complete
      BY <2>2, <2>3 DEF NoList
    <3>3. Search(th'[t])
      BY <3>1, <3>2 DEF Search, Complete
    <3> QED
      BY <1>c, <2>1, <3>3
  <2>4. CASE dirs = 0
    <3>1. th'[t] = [th[t] EXCEPT !.pc = "enter", !.mine = path]
      BY <1>a, <1>12, <2>4 DEF Test
    <3>2. NoList /\ path \in GivenPath /\ ~Complete
      BY <2>2, <2>4 DEF Complete, Searches
    <3>3. Search(th'[t])
      BY <1>a, <1>b, <2>1, <3>1, <3>2 DEF Search, First, Making, Phase
    <3> QED
      BY <1>c, <2>1, <3>3
  <2> QED
    BY <2>3, <2>4
<1>13. ASSUME NEW t \in Thread, Enter(t) PROVE Searches'
  <2>1. th[t].pc = "enter" /\ NoList /\ th[t].mine \in GivenPath /\ th[t].for = "boot"
    BY <1>b, <1>13, MakerAlone DEF Enter, Search, Making
  <2>2. th'[t].pc = "node" /\ th'[t].list = 1 /\ th'[t].mine = th[t].mine /\ th'[t].for = "boot"
    BY <1>a, <1>13, <2>1 DEF Enter, Phase, NoList
  <2>3. Search(th'[t])
    BY <2>1, <2>2 DEF Search, First, Making
  <2> QED
    BY <1>a, <1>c, <1>13, <2>1, <2>3 DEF Enter, context
<1>14. ASSUME NEW t \in Thread, LinkNode(t) PROVE Searches'
  <2> DEFINE new == lists'[1].nodes
  <2>1. /\ th[t].pc = "node" /\ th'[t].pc = "value" /\ th'[t].list = th[t].list /\ th'[t].for = th[t].for
        /\ \A u \in Thread : u # t => th'[u] = th[u]
        /\ UNCHANGED <<path, cache, aborted, reader>>
    BY <1>a, <1>14 DEF LinkNode, Phase, context
  <2>2. th[t].for = "boot" /\ reader = Null /\ DOMAIN cache = {} /\ th[t].list = 1
        /\ \A u \in Thread : u # t => th[u].pc = "idle"
    BY <1>b, <2>1, MakerAlone DEF Making, Search
  <2>3. Partly' /\ \A j \in DOMAIN new : new[j] = IF j = Len(new) THEN Null ELSE lists'[1].of[j]
    <3>1. CASE NoList /\ th[t].mine \in GivenPath
      <4>1. lists' = <<[of |-> th[t].mine, nodes |-> <<Null>>]>> /\ dirs' = 1
        BY <1>14, <2>2, <3>1 DEF LinkNode, NoList
      <4>2. Len(lists') = 1 /\ lists'[1].of = th[t].mine /\ new = <<Null>>
        BY <4>1
      <4> HIDE DEF new
      <4>3. DOMAIN new = 1..1 /\ Len(new) = 1 /\ new[1] = Null
        BY <4>2
      <4> QED
        BY <3>1, <4>1, <4>2, <4>3 DEF Partly
    <3>2. CASE Partly /\ \A j \in DOMAIN lists[1].nodes : lists[1].nodes[j] = lists[1].of[j]
      <4>1. lists' = [lists EXCEPT ![1].nodes = Append(lists[1].nodes, Null)] /\ dirs' = dirs
        BY <1>14, <2>2, <3>2 DEF LinkNode, Partly
      <4>2. lists[1] \in List /\ DOMAIN lists = 1..1 /\ lists \in Seq(List)
        <5>1. lists \in Seq(List) /\ Len(lists) = 1
          BY <3>2 DEF Partly, Types, Places
        <5> QED
          BY <5>1
      <4>3. lists[1].nodes \in Seq(Dir \cup {Null}) /\ DOMAIN lists[1] = {"of", "nodes"}
        BY <4>2 DEF List
      <4>4. new = Append(lists[1].nodes, Null) /\ lists'[1].of = lists[1].of /\ Len(lists') = 1
        BY <4>1, <4>2, <4>3
      <4> QED
        BY <3>2, <4>1, <4>3, <4>4 DEF Partly
    <3> QED
      BY <1>b, <2>1, <3>1, <3>2 DEF Search
  <2>4. Search(th[t])'
    BY <2>1, <2>2, <2>3 DEF Search, First, Making
  <2>5. \A u \in Thread : u # t => Search(th[u])'
    BY <2>1, <2>2 DEF Search, First
  <2>6. aborted # Null => FALSE
    BY <2>1, MakerAlone DEF Searches, Making
  <2> QED
    BY <2>1, <2>2, <2>3, <2>4, <2>5, <2>6 DEF Searches
<1>15. ASSUME NEW t \in Thread, SetNode(t) PROVE Searches'
  <2> DEFINE old == lists[1].nodes
             new == lists'[1].nodes
             n == Len(old)
  <2>1. /\ th[t].pc = "value" /\ th'[t].list = th[t].list /\ th'[t].for = th[t].for
        /\ \A u \in Thread : u # t => th'[u] = th[u]
        /\ UNCHANGED <<path, cache, aborted, reader, dirs>>
    BY <1>a, <1>15 DEF SetNode, Phase, context
  <2>2. /\ th[t].for = "boot" /\ reader = Null /\ DOMAIN cache = {} /\ th[t].list = 1
        /\ \A u \in Thread : u # t => th[u].pc = "idle"
        /\ Partly /\ \A j \in DOMAIN old : old[j] = IF j = n THEN Null ELSE lists[1].of[j]
    BY <1>b, <2>1, MakerAlone DEF Making, Search
  <2>3. lists[1] \in List /\ DOMAIN lists = 1..1 /\ lists \in Seq(List) /\ n \in 1..Len(lists[1].of)
    <3>1. lists \in Seq(List) /\ Len(lists) = 1
      BY <2>2 DEF Partly, Types, Places
    <3>2. n \in 1..Len(lists[1].of)
      BY <2>1, <2>2 DEF Types, Places, Sees
    <3> QED
      BY <3>1, <3>2
  <2>4. /\ old \in Seq(Dir \cup {Null}) /\ lists[1].of \in Seq(Dir) /\ DOMAIN lists[1] = {"of", "nodes"}
        /\ DOMAIN old = 1..n
    BY <2>3 DEF List, Path
  <2>5. lists' = [lists EXCEPT ![1].nodes = [old EXCEPT ![n] = lists[1].of[n]]]
    BY <1>15, <2>2 DEF SetNode
  <2> DEFINE set == [old EXCEPT ![n] = lists[1].of[n]]
  <2>6. set \in Seq(Dir \cup {Null}) /\ DOMAIN set = 1..n /\ \A j \in 1..n : set[j] = lists[1].of[j]
    BY <2>2, <2>3, <2>4
  <2>7. new = set /\ lists'[1].of = lists[1].of /\ Len(lists') = 1 /\ Partly'
    <3> HIDE DEF set
    <3>1. lists' = [lists EXCEPT ![1].nodes = set]
      BY <2>5 DEF set
    <3> QED
      BY <2>1, <2>2, <2>3, <2>4, <3>1 DEF Partly
  <2> HIDE DEF set
  <2>8. CASE n < Len(lists[1].of)
    <3>1. th'[t].pc = "node"
      BY <1>a, <1>15, <2>2, <2>8 DEF SetNode, Phase
    <3>2. Search(th[t])'
      BY <2>1, <2>2, <2>6, <2>7, <3>1 DEF Search, First, Making
    <3> QED
      BY <2>1, <2>2, <2>7, <3>1, <3>2, MakerAlone DEF Searches, Search, First, Making
  <2>9. CASE n = Len(lists[1].of)
    <3>1. th'[t].pc = "test"
      BY <1>a, <1>15, <2>2, <2>9 DEF SetNode, Phase
    <3>2. Search(th[t])'
      BY <2>1, <2>2, <3>1 DEF Search, First, Making
    <3>3. Complete'
      <4>1. set = lists[1].of
        BY <2>4, <2>6, <2>9
      <4> QED
        BY <2>7, <4>1 DEF Complete, Partly
    <3> QED
      BY <2>1, <2>2, <2>7, <3>2, <3>3, MakerAlone DEF Searches, Search, First, Making
  <2> QED
    BY <2>3, <2>4, <2>8, <2>9
<1>16. ASSUME NEW t \in Thread, Walk(t) PROVE Searches'
  <2> DEFINE p == lists[1].of
             name == th[t].name
             i == th[t].node
  <2>1. th[t].pc = "walk" /\ UNCHANGED <<path, lists, dirs, aborted, reader>> /\ aborted = aborted
    BY <1>16 DEF Walk, context
  <2>2. Complete /\ th[t].list = 1 /\ \A j \in 1..(i - 1) : name \notin Holds[p[j]]
    BY <1>b, <2>1 DEF Search, First, Making
  <2>3. p \in Seq(Dir) /\ i \in DOMAIN p /\ p[i] \in Dir /\ lists[th[t].list].nodes = p
    <3>1. i \in DOMAIN lists[1].nodes
      BY <2>1, <2>2 DEF Types, Places, Sees
    <3> QED
      BY <2>2, <3>1, PathAssumption DEF Complete, GivenPath
  <2>4. p[i] # Null
    BY <2>3, NullAssumption
  <2> DEFINE place == IF name \in Holds[p[i]] THEN <<p[i], name>> ELSE Null
  <2>5. CASE name \notin Holds[p[i]] /\ i # Len(p) /\ th' = [th EXCEPT ![t].node = @ + 1] /\ UNCHANGED cache
    <3>1. /\ th'[t].pc = "walk" /\ th'[t].list = 1 /\ th'[t].node = i + 1 /\ th'[t].name = name
          /\ \A u \in Thread : u # t => th'[u] = th[u]
      BY <1>a, <2>1, <2>2, <2>5 DEF Phase
    <3>2. i \in Nat /\ \A j \in 1..(i + 1 - 1) : j \in 1..(i - 1) \/ j = i
      BY <2>3
    <3>3. Search(th'[t])
      BY <2>2, <2>5, <3>1, <3>2 DEF Search
    <3> QED
      BY <1>c, <2>1, <2>5, <3>1, <3>3
  <2>6. CASE /\ name \in Holds[p[i]] \/ i = Len(p)
             /\ th' = [th EXCEPT ![t].pc = "found", ![t].ans = place]
             /\ cache' = Remembered(name, place)
    <3>1. place = Place(p, name)
      BY <2>2, <2>3, <2>6, FirstPlace
    <3> HIDE DEF place
    <3>2. /\ th'[t].pc = "found" /\ th'[t].ans = place /\ th'[t].name = name
          /\ \A u \in Thread : u # t => th'[u] = th[u]
      BY <1>a, <2>6 DEF Phase
    <3>3. \A n \in DOMAIN cache' : cache'[n] = Place(p, n)
      BY <2>6, <3>1 DEF Remembered, Searches
    <3>4. Complete' /\ (NoList' <=> NoList) /\ (Partly' <=> Partly)
      BY <2>1, <2>2 DEF Complete, NoList, Partly
    <3>5. Search(th[t])'
      BY <2>1, <3>1, <3>2, <3>4 DEF Search
    <3>6. \A u \in Thread : u # t => Search(th[u])'
      BY <1>b, <2>1, <2>2, <3>2, <3>4 DEF Search, First
    <3> QED
      BY <2>1, <2>2, <3>3, <3>4, <3>5, <3>6 DEF Searches
  <2> QED
    BY <1>16, <2>2, <2>3, <2>4, <2>5, <2>6 DEF Walk
<1>17. ASSUME NEW t \in Thread, Take(t) PROVE Searches'
  <2>1. th[t].pc = "static" /\ UNCHANGED <<path, lists, dirs, cache, aborted, reader>>
        /\ \A u \in Thread : u # t => th'[u] = th[u]
    BY <1>a, <1>17 DEF Take, Store
  <2>2. th'[t].pc \in {"get", "idle"}
    <3>1. ASSUME NEW part, th' = [th EXCEPT ![t] = [Searching(@, "master", @.key.master) EXCEPT !.part = part]]
          PROVE  th'[t].pc = "get"
      BY <1>a, <3>1 DEF Searching, Phase
    <3>2. CASE th' = [th EXCEPT ![t] = Returned(@)]
      BY <1>a, <3>2 DEF Returned, Idle
    <3> QED
      BY <1>17, <3>1, <3>2 DEF Take, Store
  <2>3. Complete
    BY <1>b, <2>1 DEF Search, First, Making
  <2> QED
    BY <1>c, <2>1, <2>2, <2>3 DEF Search
<1>18. ASSUME NEW t \in Thread, NoMaster(t) PROVE Searches'
  <2>1. th' = [th EXCEPT ![t] = Returned(@)] /\ UNCHANGED <<path, lists, dirs, cache, aborted, reader>>
        /\ th[t].pc = "found"
    BY <1>18 DEF NoMaster, Store
  <2> QED
    BY <1>a, <1>c, <2>1 DEF Search, Returned, Idle
<1>19. ASSUME NEW t \in Thread, NewHandle(t) PROVE Searches'
  <2>1. th[t].pc = "idle" /\ UNCHANGED <<path, lists, dirs, cache, aborted, reader>>
        /\ \A u \in Thread : u # t => th'[u] = th[u]
    BY <1>a, <1>19 DEF NewHandle, Begin, context
  <2>2. \/ th'[t].pc = "get" /\ th'[t].for = "boot"
        \/ th'[t].pc = "create"
    <3>1. CASE th' = [th EXCEPT ![t] = Searching(Counted(@), "boot", Boot)]
      BY <1>a, <3>1 DEF Searching, Counted, Phase
    <3>2. CASE th' = [th EXCEPT ![t] = [Counted(@) EXCEPT !.pc = "create"]]
      BY <1>a, <3>2 DEF Counted, Phase
    <3> QED
      BY <1>19, <3>1, <3>2 DEF NewHandle
  <2> QED
    BY <1>c, <2>1, <2>2 DEF Search, First, Making
<1>20. ASSUME NEW t \in Thread, NEW name \in Templates, Template(t, name) PROVE Searches'
  <2>1. th[t].pc = "idle" /\ th'[t].pc = "get" /\ UNCHANGED <<path, lists, dirs, cache, aborted, reader>>
        /\ \A u \in Thread : u # t => th'[u] = th[u]
    BY <1>a, <1>20 DEF Template, Begin, Searching, Counted, Phase, context
  <2>2. Complete
    BY <1>20 DEF Template, Roots, Root, Searches
  <2> QED
    BY <1>c, <2>1, <2>2 DEF Search
<1>21. ASSUME NEW t \in Thread, NEW k \in Keys, Table(t, k) PROVE Searches'
  <2>1. th[t].pc = "idle" /\ UNCHANGED <<path, lists, dirs, cache, aborted, reader>>
        /\ \A u \in Thread : u # t => th'[u] = th[u]
    BY <1>a, <1>21 DEF Table, Begin
  <2>2. th'[t].pc \in {"get", "idle"}
    <3>1. CASE th' = [th EXCEPT ![t] = Counted(@)]
      BY <1>a, <2>1, <3>1 DEF Counted, Phase
    <3>2. CASE th' = [th EXCEPT ![t] = Sought([Counted(@) EXCEPT !.key = k], 1)]
      BY <1>a, <3>2 DEF Counted, Sought, Searching, Phase
    <3> QED
      BY <1>21, <3>1, <3>2 DEF Table
  <2>3. Complete
    BY <1>21 DEF Table, Roots, Root, Searches
  <2> QED
    BY <1>c, <2>1, <2>2, <2>3 DEF Search
<1>22. ASSUME NEW t \in Thread, NEW p \in Paths, SetPath(t, p) PROVE Searches'
  <2>1. (Complete' <=> Complete) /\ (NoList' <=> NoList) /\ (Partly' <=> Partly) /\ path' \in GivenPath
        /\ UNCHANGED <<lists, dirs, cache, aborted, reader, th>>
    BY <1>22 DEF SetPath, context, Complete, NoList, Partly, GivenPath
  <2>2. \A u \in Thread : Search(th[u])'
    BY <1>b, <2>1 DEF Search, First
  <2> QED
    BY <2>1, <2>2 DEF Searches
<1>23. ASSUME NEW t \in Thread, Missing(t) PROVE Searches'
  <2>1. th[t].pc = "found" /\ th[t].ans = Null /\ aborted' = th[t].name
        /\ UNCHANGED <<path, lists, dirs, cache, reader, th>>
    BY <1>23 DEF Missing, context
  <2>2. Complete /\ Place(lists[1].of, th[t].name) = Null
    BY <1>b, <2>1 DEF Search, First, Making
  <2>3. (Complete' <=> Complete) /\ (NoList' <=> NoList) /\ (Partly' <=> Partly)
    BY <2>1 DEF Complete, NoList, Partly
  <2>4. \A u \in Thread : Search(th[u])'
    BY <1>b, <2>1, <2>3 DEF Search, First
  <2> QED
    BY <2>1, <2>2, <2>3, <2>4 DEF Searches
<1>24. CASE aborted = Null /\ DeleteContext
  <2>1. /\ path' = EnvPath /\ lists' = <<>> /\ dirs' = 0 /\ cache' = <<>> /\ reader' = Null /\ aborted' = Null
        /\ \A u \in Thread : th'[u].pc = "idle"
    BY <1>24 DEF DeleteContext, Idle
  <2>2. NoList' /\ \A u \in Thread : Search(th[u])'
    BY <2>1 DEF NoList, Search
  <2> QED
    BY <2>1, <2>2 DEF Searches, GivenPath
<1>25. CASE UNCHANGED vars
  <2>1. (Complete' <=> Complete) /\ (NoList' <=> NoList) /\ (Partly' <=> Partly)
    BY <1>25 DEF Complete, NoList, Partly, vars
  <2>2. \A u \in Thread : Search(th[u])'
    BY <1>b, <1>25, <2>1 DEF Search, First, vars
  <2> QED
    BY <1>25, <2>1, <2>2 DEF Searches, vars
<1> QED
  BY <1>1, <1>2, <1>3, <1>4, <1>5, <1>6, <1>7, <1>8, <1>9, <1>10, <1>11, <1>12, <1>13, <1>14, <1>15,
     <1>16, <1>17, <1>18, <1>19, <1>20, <1>21, <1>22, <1>23, <1>24, <1>25 DEF Next, Step, Call

LEMMA SearchesInit == Init => Roots /\ Searches
<1> SUFFICES ASSUME Init PROVE Roots /\ Searches
  OBVIOUS
<1>1. Roots
  BY RootsInit
<1>2. \A t \in Thread : Search(th[t])
  BY DEF Init, Search, Idle, Busy
<1> QED
  BY <1>1, <1>2 DEF Init, Searches, NoList, GivenPath

(* All names are answered from one path, each with its first file there, for
   any threads, directories and files, although the list is tested and walked
   without the mutex; and the process ends for no file that is there. *)
THEOREM FilesFoundCorrect == Spec => []FilesFound
<1>1. Init => Types /\ Roots /\ Searches
  BY TypesInit, SearchesInit
<1>2. Types /\ Roots /\ Searches /\ [Next]_vars => Types' /\ Roots' /\ Searches'
  BY TypesStep, RootsStep, SearchesStep
<1>3. Searches => FilesFound
  <2> SUFFICES ASSUME Searches PROVE FilesFound
    OBVIOUS
  <2>1. CASE Complete
    BY <2>1 DEF Searches, Complete, GivenPath, FilesFound
  <2>2. CASE ~Complete
    BY <2>2 DEF Searches, GivenPath, FilesFound
  <2> QED
    BY <2>1, <2>2
<1> QED
  BY <1>1, <1>2, <1>3, PTL DEF Spec

-----------------------------------------------------------------------------
(* The tables *)

\* Tables have numbers that were given, freed ones are behind, and who loads a
\* table has its number.
Stored ==
    /\ DOMAIN tables = Kind /\ \A kind \in Kind : DOMAIN tables[kind] \subseteq 1..count[kind]
    /\ freed \subseteq 1..count["concept"]
    /\ \A k \in DOMAIN ids : k.kind = "concept" => ids[k] \notin freed
    /\ \A t \in Thread : th[t].key # Null => th[t].key \in DOMAIN ids

LEMMA StoredStep == ASSUME Types, Stored, [Next]_vars PROVE Stored'
<1>a. DOMAIN th = Thread /\ \A t \in Thread : Phase(th[t])
  BY DEF Types, Phases
<1>b. Numbers /\ DOMAIN ids \subseteq Keys /\ \A k \in Keys : k.kind \in Kind
  BY KeysAssumption DEF Types, Numbers
\* A step of a thread that keeps or drops the table it loads.
<1>c. ASSUME NEW t \in Thread, UNCHANGED <<ids, count, tables, freed>>,
             th'[t].key \in {th[t].key, Null}, \A u \in Thread : u # t => th'[u] = th[u]
      PROVE  Stored'
  BY <1>c DEF Stored
<1>d. ASSUME NEW t \in Thread, NEW part, Store(t, part), th[t].key # Null, UNCHANGED <<ids, count, freed>>
      PROVE  Stored'
  <2>1. th[t].key \in DOMAIN ids /\ th[t].key.kind \in Kind /\ ids[th[t].key] \in 1..count[th[t].key.kind]
    BY <1>b, <1>d DEF Stored, Numbers
  <2>2. DOMAIN tables' = Kind /\ \A kind \in Kind : DOMAIN tables'[kind] \subseteq 1..count[kind]
    <3>1. CASE tables' = tables
      BY <3>1 DEF Stored
    <3> DEFINE kind == th[t].key.kind
               new == [i \in DOMAIN tables[kind] \cup {ids[th[t].key]} |->
                          IF i = ids[th[t].key] THEN part ELSE tables[kind][i]]
    <3>2. CASE tables' = [tables EXCEPT ![kind] = new]
      <4>1. DOMAIN new = DOMAIN tables[kind] \cup {ids[th[t].key]}
        OBVIOUS
      <4> HIDE DEF new
      <4> QED
        BY <2>1, <3>2, <4>1 DEF Stored
    <3> QED
      BY <1>d, <3>1, <3>2 DEF Store
  <2>3. \A u \in Thread : th'[u].key \in {th[u].key, Null}
    BY <1>a, <1>d DEF Store, Returned, Idle
  <2> QED
    BY <1>d, <2>2, <2>3 DEF Stored
<1>1. ASSUME NEW t \in Thread, NEW k \in Keys, Table(t, k) PROVE Stored'
  <2>1. k.kind \in Kind /\ count \in [Kind -> Nat] /\ count["concept"] \in Nat /\ UNCHANGED <<tables, freed>>
        /\ \A u \in Thread : u # t => th'[u] = th[u]
    BY <1>a, <1>b, <1>1 DEF Numbers, Table, Kind
  <2>2. ids' = [x \in DOMAIN ids \cup {k} |-> IF x = k THEN NumberOf(k) ELSE ids[x]]
        /\ count' = [count EXCEPT ![k.kind] = IF k \in DOMAIN ids THEN @ ELSE @ + 1]
    BY <1>1 DEF Table
  <2>3. \A kind \in Kind : count[kind] \in Nat /\ count'[kind] \in Nat /\ count'[kind] >= count[kind]
    BY <2>1, <2>2
  <2>4. th'[t].key \in {k, Null}
    <3>1. CASE th' = [th EXCEPT ![t] = Counted(@)]
      BY <1>a, <1>1, <3>1, NullAssumption DEF Counted, Table, Begin, Phase, Busy, Fields
    <3>2. CASE th' = [th EXCEPT ![t] = Sought([Counted(@) EXCEPT !.key = k], 1)]
      BY <1>a, <3>2 DEF Counted, Sought, Searching, Phase, Fields
    <3> QED
      BY <1>1, <3>1, <3>2 DEF Table
  <2>5. k.kind = "concept" => NumberOf(k) \notin freed
    <3>1. CASE k \in DOMAIN ids
      BY <3>1 DEF NumberOf, Stored
    <3>2. CASE k \notin DOMAIN ids
      <4>1. NumberOf(k) = count[k.kind] + 1
        BY <3>2 DEF NumberOf
      <4> QED
        BY <2>1, <4>1 DEF Stored
    <3> QED
      BY <3>1, <3>2
  <2>6. /\ DOMAIN tables' = Kind /\ \A kind \in Kind : DOMAIN tables'[kind] \subseteq 1..count'[kind]
        /\ freed' \subseteq 1..count'["concept"]
    BY <2>1, <2>3 DEF Stored, Kind
  <2>7. DOMAIN ids' = DOMAIN ids \cup {k} /\ \A x \in DOMAIN ids' : ids'[x] = IF x = k THEN NumberOf(k) ELSE ids[x]
    BY <2>2
  <2> QED
    BY <2>1, <2>4, <2>5, <2>6, <2>7 DEF Stored
<1>2. CASE DeleteContext
  <2>1. /\ \A u \in Thread : th'[u].key = Null
        /\ ids' = <<>> /\ count' = [count EXCEPT !["hash"] = 0]
        /\ tables' = [tables EXCEPT !["hash"] = <<>>]
        /\ freed' = freed \cup DOMAIN tables["concept"]
    BY <1>2 DEF DeleteContext, Idle, CountAfter
  <2>2. count'["concept"] = count["concept"] /\ tables'["concept"] = tables["concept"] /\ tables'["hash"] = <<>>
        /\ DOMAIN tables' = Kind
    BY <1>b, <2>1 DEF Numbers, Kind, Stored
  <2>3. \A kind \in Kind : DOMAIN tables'[kind] \subseteq 1..count'[kind]
    BY <2>2 DEF Stored, Kind
  <2>4. DOMAIN ids' = {}
    BY <2>1
  <2>5. freed' \subseteq 1..count'["concept"]
    BY <2>1, <2>2 DEF Stored, Kind
  <2> QED
    BY <2>1, <2>2, <2>3, <2>4, <2>5 DEF Stored
<1>3. ASSUME NEW t \in Thread, Take(t) PROVE Stored'
  <2>1. th[t].key # Null /\ UNCHANGED <<ids, count, freed>>
    BY <1>a, <1>3, NullAssumption DEF Take, Phase, Busy
  <2>2. ASSUME NEW part, UNCHANGED tables,
               th' = [th EXCEPT ![t] = [Searching(@, "master", @.key.master) EXCEPT !.part = part]]
        PROVE  Stored'
    BY <1>a, <1>c, <2>1, <2>2 DEF Searching, Phase, Fields
  <2> QED
    BY <1>3, <1>d, <2>1, <2>2 DEF Take
<1>4. ASSUME NEW t \in Thread, NoMaster(t) PROVE Stored'
  <2>1. th[t].key # Null /\ UNCHANGED <<ids, count, freed>>
    BY <1>a, <1>4, NullAssumption DEF NoMaster, Phase, Busy, Purpose, Parts
  <2> QED
    BY <1>4, <1>d, <2>1 DEF NoMaster
<1>5. ASSUME NEW t \in Thread, Get(t) PROVE Stored'
  BY <1>a, <1>c, <1>5 DEF Get, context, Phase, Fields
<1>6. ASSUME NEW t \in Thread, Test(t) PROVE Stored'
  BY <1>a, <1>c, <1>6 DEF Test, context, Phase, Fields
<1>7. ASSUME NEW t \in Thread, Enter(t) PROVE Stored'
  BY <1>a, <1>c, <1>7 DEF Enter, context, Phase, Fields
<1>8. ASSUME NEW t \in Thread, LinkNode(t) PROVE Stored'
  BY <1>a, <1>c, <1>8 DEF LinkNode, context, Phase, Fields
<1>9. ASSUME NEW t \in Thread, SetNode(t) PROVE Stored'
  BY <1>a, <1>c, <1>9 DEF SetNode, context, Phase, Fields
<1>10. ASSUME NEW t \in Thread, StartParse(t) PROVE Stored'
  BY <1>a, <1>c, <1>10 DEF StartParse, context, Phase, Fields
<1>11. ASSUME NEW t \in Thread, Include(t) PROVE Stored'
  BY <1>a, <1>c, <1>11 DEF Include, Searching, context, Phase, Fields
<1>12. ASSUME NEW t \in Thread, Included(t) PROVE Stored'
  BY <1>a, <1>c, <1>12 DEF Included, context, Phase, Fields
<1>13. ASSUME NEW t \in Thread, Keep(t) PROVE Stored'
  BY <1>a, <1>c, <1>13 DEF Keep, context, Phase, Fields
<1>14. ASSUME NEW t \in Thread, Leave(t) PROVE Stored'
  BY <1>a, <1>c, <1>14 DEF Leave, context, Phase, Fields
<1>15. ASSUME NEW t \in Thread, Booted(t) PROVE Stored'
  BY <1>a, <1>c, <1>15 DEF Booted, context, Phase, Fields
<1>16. ASSUME NEW t \in Thread, NoAlternative(t) PROVE Stored'
  BY <1>a, <1>c, <1>16 DEF NoAlternative, Sought, Searching, context, Phase, Fields
<1>17. ASSUME NEW t \in Thread, NoTemplate(t) PROVE Stored'
  BY <1>a, <1>c, <1>17 DEF NoTemplate, Returned, Idle, context, Phase, Fields
<1>18. ASSUME NEW t \in Thread, Create(t) PROVE Stored'
  BY <1>a, <1>c, <1>18 DEF Create, Returned, Idle, context, Phase, Fields
<1>19. ASSUME NEW t \in Thread, HaveTemplate(t) PROVE Stored'
  BY <1>a, <1>c, <1>19 DEF HaveTemplate, Returned, Idle, context, Phase, Fields
<1>20. ASSUME NEW t \in Thread, Walk(t) PROVE Stored'
  <2>1. PICK place : \/ th' = [th EXCEPT ![t].node = @ + 1]
                     \/ th' = [th EXCEPT ![t].pc = "found", ![t].ans = place]
    BY <1>20 DEF Walk
  <2>2. UNCHANGED <<ids, count, tables, freed>>
    BY <1>20 DEF Walk, context
  <2> QED
    BY <1>a, <1>c, <2>1, <2>2 DEF Phase, Fields
<1>21. ASSUME NEW t \in Thread, NewHandle(t) PROVE Stored'
  <2>1. UNCHANGED <<ids, count, tables, freed>>
    BY <1>21 DEF NewHandle, context
  <2>2. CASE th' = [th EXCEPT ![t] = Searching(Counted(@), "boot", Boot)]
    BY <1>a, <1>c, <2>1, <2>2 DEF Searching, Counted, Phase, Fields
  <2>3. CASE th' = [th EXCEPT ![t] = [Counted(@) EXCEPT !.pc = "create"]]
    BY <1>a, <1>c, <2>1, <2>3 DEF Counted, Phase, Fields
  <2> QED
    BY <1>21, <2>2, <2>3 DEF NewHandle
<1>22. ASSUME NEW t \in Thread, NEW name \in Templates, Template(t, name) PROVE Stored'
  BY <1>a, <1>c, <1>22 DEF Template, Searching, Counted, context, Phase, Fields
<1>23. CASE UNCHANGED <<ids, count, tables, freed, th>>
  BY <1>23 DEF Stored
<1> QED
  BY <1>1, <1>2, <1>3, <1>4, <1>5, <1>6, <1>7, <1>8, <1>9, <1>10, <1>11, <1>12, <1>13, <1>14, <1>15,
     <1>16, <1>17, <1>18, <1>19, <1>20, <1>21, <1>22, <1>23
     DEF Next, Step, Call, Missing, SetPath, context, vars

-----------------------------------------------------------------------------
(* What is loaded *)

\* Files that a parser of file f, if it gets to the end, parses.
Closed(p, f, V) ==
    /\ V \in SUBSET (DefFile \ Broken) /\ f \in V
    /\ \A g \in V : \A i \in DOMAIN Includes[g] : Place(p, Includes[g][i]) \in V

\* The parser, in the middle of a file: what it met was not broken, and is
\* among what it must meet; the rest is still to be included.
Parsing(p, r) ==
    /\ r.todo \in Seq(STRING) /\ r.ok \in BOOLEAN
    /\ r.ok =>
          \E V \in SUBSET (DefFile \ Broken) :
              /\ r.file \in V
              /\ \A g \in V : \A i \in DOMAIN Includes[g] :
                    \/ Place(p, Includes[g][i]) \in V
                    \/ \E j \in DOMAIN r.todo : Place(p, r.todo[j]) = Place(p, Includes[g][i])
    /\ \A V : Closed(p, r.file, V) => r.ok /\ \A j \in DOMAIN r.todo : Place(p, r.todo[j]) \in V

\* The file of a table that is being loaded.
Wanted(r) == IF Purpose(r) = "alternative" THEN r.key.alternatives[r.alt] ELSE r.key.master

Absent(p, r, n) == \A i \in 1..n : Place(p, r.key.alternatives[i]) = Null

\* A thread that loads a table has what the files before hold.
Load(p, r) ==
    IF Busy(r) /\ Purpose(r) \in Parts
    THEN /\ IF Purpose(r) = "alternative"
            THEN r.part = <<>> /\ r.alt \in DOMAIN r.key.alternatives /\ Absent(p, r, r.alt - 1)
            ELSE r.part = Contents(p, Alternative(p, r.key))
         /\ r.pc \in Seeking /\ r.for # "include" => r.name = Wanted(r)
         /\ r.pc \in Seeking /\ r.for = "include" => r.todo # <<>> /\ r.name = Head(r.todo)
         /\ InParser(r) \/ r.pc = "static" => r.file # Null /\ r.file = Place(p, Wanted(r))
         /\ InParser(r) => Parsing(p, r)
         /\ r.pc = "static" => r.ok = Parses(p, r.file)
    ELSE r.part = <<>>

Whole ==
    \A k \in DOMAIN ids : ids[k] \in DOMAIN tables[k.kind] =>
        \E p \in GivenPath : tables[k.kind][ids[k]] = Expected(p, k)

\* Until a static was overwritten.
Loads == overwritten \/ (Whole /\ \A t \in Thread : Load(lists[1].of, th[t]))

\* The first alternative there is, or none.
LEMMA FirstAlternative ==
  ASSUME NEW p, NEW k \in Keys, NEW n \in Nat, n <= Len(k.alternatives),
         \A i \in 1..n : Place(p, k.alternatives[i]) = Null
  PROVE  /\ n = Len(k.alternatives) => Alternative(p, k) = Null
         /\ n + 1 \in DOMAIN k.alternatives /\ Place(p, k.alternatives[n + 1]) # Null =>
               Alternative(p, k) = Place(p, k.alternatives[n + 1])
<1> DEFINE there == {i \in DOMAIN k.alternatives : Place(p, k.alternatives[i]) # Null}
<1>1. k.alternatives \in Seq(STRING) /\ DOMAIN k.alternatives = 1..Len(k.alternatives)
  BY KeysAssumption
<1>2. \A i \in there : i \in Nat /\ i > n
  BY <1>1
<1>3. ASSUME n = Len(k.alternatives) PROVE Alternative(p, k) = Null
  <2>1. there = {}
    BY <1>1, <1>2, <1>3
  <2> QED
    BY <2>1 DEF Alternative
<1>4. ASSUME n + 1 \in DOMAIN k.alternatives, Place(p, k.alternatives[n + 1]) # Null
      PROVE  Alternative(p, k) = Place(p, k.alternatives[n + 1])
  <2>1. n + 1 \in there /\ \A j \in there : n + 1 <= j
    BY <1>2, <1>4
  <2>2. \A i \in there : (\A j \in there : i <= j) => i = n + 1
    BY <1>2, <2>1
  <2>3. (CHOOSE i \in there : \A j \in there : i <= j) = n + 1
    BY <2>1, <2>2
  <2> QED
    BY <2>1, <2>3 DEF Alternative
<1> QED
  BY <1>3, <1>4

\* A search goes on.
Alike(r, s) ==
    /\ r.pc \in Seeking /\ s.pc \in Seeking
    /\ r.for = s.for /\ r.name = s.name /\ r.file = s.file /\ r.todo = s.todo /\ r.ok = s.ok
    /\ r.key = s.key /\ r.alt = s.alt /\ r.part = s.part /\ r.back = s.back

LEMMA AlikeLoad == ASSUME NEW p, NEW r, NEW s, Alike(r, s), Load(p, r) PROVE Load(p, s)
<1>1. Purpose(s) = Purpose(r) /\ Wanted(s) = Wanted(r) /\ Busy(s) /\ Busy(r) /\ (InParser(s) <=> InParser(r))
      /\ r.pc # "static" /\ s.pc # "static"
  BY DEF Alike, Purpose, Wanted, Busy, InParser, Seeking
<1>2. Parsing(p, r) <=> Parsing(p, s)
  BY DEF Alike, Parsing
<1>3. Absent(p, r, r.alt - 1) <=> Absent(p, s, s.alt - 1)
  BY DEF Alike, Absent
<1> QED
  BY <1>1, <1>2, <1>3 DEF Alike, Load

\* A file is started.
LEMMA ParsingStarts ==
  ASSUME NEW p, NEW r, r.file \in DefFile, r.todo = Includes[r.file], r.ok = (r.file \notin Broken)
  PROVE  Parsing(p, r)
<1>1. r.todo \in Seq(STRING)
  BY IncludesAssumption
<1>2. ASSUME r.ok
      PROVE  \E V \in SUBSET (DefFile \ Broken) :
                 /\ r.file \in V
                 /\ \A g \in V : \A i \in DOMAIN Includes[g] :
                       \/ Place(p, Includes[g][i]) \in V
                       \/ \E j \in DOMAIN r.todo : Place(p, r.todo[j]) = Place(p, Includes[g][i])
  <2>1. {r.file} \in SUBSET (DefFile \ Broken)
    BY <1>2
  <2> QED
    BY <2>1
<1>3. ASSUME NEW V, Closed(p, r.file, V) PROVE r.ok /\ \A j \in DOMAIN r.todo : Place(p, r.todo[j]) \in V
  BY <1>3 DEF Closed
<1> QED
  BY <1>1, <1>2, <1>3 DEF Parsing

\* A file is included.
LEMMA ParsingGoesOn ==
  ASSUME NEW p, NEW r, NEW s, Parsing(p, r), r.todo # <<>>, NEW f \in DefFile, f = Place(p, Head(r.todo)),
         s.file = r.file, s.todo = Includes[f] \o Tail(r.todo), s.ok = (r.ok /\ f \notin Broken)
  PROVE  Parsing(p, s)
<1> DEFINE a == Includes[f]
           todo == r.todo
           next == s.todo
           n == Len(a)
<1>a. todo \in Seq(STRING) /\ a \in Seq(STRING) /\ todo # <<>> /\ next = a \o Tail(todo)
  BY IncludesAssumption DEF Parsing
<1> HIDE DEF a, todo, next
<1>b. s.ok \in BOOLEAN
  <2>1. CASE f \in Broken
    BY <2>1
  <2>2. CASE f \notin Broken
    BY <2>2 DEF Parsing
  <2> QED
    BY <2>1, <2>2
<1>c. Tail(todo) \in Seq(STRING) /\ Len(todo) \in Nat \ {0} /\ DOMAIN todo = 1..Len(todo) /\ n \in Nat
      /\ DOMAIN a = 1..n /\ Len(Tail(todo)) = Len(todo) - 1
      /\ \A i \in 1..(Len(todo) - 1) : Tail(todo)[i] = todo[i + 1]
  BY <1>a
<1> DEFINE rest == Tail(todo)
<1> HIDE DEF rest
<1>d. /\ next \in Seq(STRING) /\ DOMAIN next = 1..(n + Len(rest))
      /\ \A i \in 1..n : next[i] = a[i]
      /\ \A i \in 1..Len(rest) : next[n + i] = rest[i]
  BY <1>a, <1>c DEF rest
<1>2. \A i \in DOMAIN a : i \in DOMAIN next /\ next[i] = a[i]
  BY <1>c, <1>d DEF rest
<1>3. 1 \in DOMAIN todo /\ todo[1] = Head(todo)
  BY <1>a
<1>4. ASSUME NEW j \in DOMAIN todo, j # 1
      PROVE  \E m \in DOMAIN next : next[m] = todo[j]
  <2>1. j - 1 \in 1..Len(rest) /\ rest[j - 1] = todo[j] /\ n + (j - 1) \in DOMAIN next
    BY <1>c, <1>d, <1>4 DEF rest
  <2> QED
    BY <1>d, <2>1
<1>5. ASSUME NEW m \in DOMAIN next
      PROVE  \/ m \in DOMAIN a /\ next[m] = a[m]
             \/ \E j \in DOMAIN todo : next[m] = todo[j]
  <2>1. CASE m \in 1..n
    BY <1>c, <1>d, <2>1
  <2>2. CASE m \notin 1..n
    <3>1. m - n \in 1..Len(rest) /\ m = n + (m - n) /\ (m - n) + 1 \in DOMAIN todo
      BY <1>c, <1>d, <2>2 DEF rest
    <3>2. next[m] = rest[m - n] /\ rest[m - n] = todo[(m - n) + 1]
      BY <1>c, <1>d, <3>1 DEF rest
    <3> QED
      BY <3>1, <3>2
  <2> QED
    BY <2>1, <2>2
<1> USE DEF a, todo, next
<1>6. ASSUME s.ok
      PROVE  \E V \in SUBSET (DefFile \ Broken) :
                 /\ s.file \in V
                 /\ \A g \in V : \A i \in DOMAIN Includes[g] :
                       \/ Place(p, Includes[g][i]) \in V
                       \/ \E j \in DOMAIN s.todo : Place(p, s.todo[j]) = Place(p, Includes[g][i])
  <2>1. PICK V \in SUBSET (DefFile \ Broken) :
            /\ r.file \in V
            /\ \A g \in V : \A i \in DOMAIN Includes[g] :
                  \/ Place(p, Includes[g][i]) \in V
                  \/ \E j \in DOMAIN r.todo : Place(p, r.todo[j]) = Place(p, Includes[g][i])
    BY <1>6 DEF Parsing
  <2>2. V \cup {f} \in SUBSET (DefFile \ Broken) /\ s.file \in V \cup {f}
    BY <1>6, <2>1
  <2>3. ASSUME NEW g \in V \cup {f}, NEW i \in DOMAIN Includes[g]
        PROVE  \/ Place(p, Includes[g][i]) \in V \cup {f}
               \/ \E j \in DOMAIN s.todo : Place(p, s.todo[j]) = Place(p, Includes[g][i])
    <3>1. CASE g = f
      BY <1>2, <2>3, <3>1
    <3>2. ASSUME NEW j \in DOMAIN r.todo, Place(p, r.todo[j]) = Place(p, Includes[g][i])
          PROVE  \/ Place(p, Includes[g][i]) = f
                 \/ \E m \in DOMAIN s.todo : Place(p, s.todo[m]) = Place(p, Includes[g][i])
      BY <1>3, <1>4, <3>2
    <3> QED
      BY <2>1, <2>3, <3>1, <3>2
  <2> QED
    BY <2>2, <2>3
<1>7. ASSUME NEW V, Closed(p, s.file, V) PROVE s.ok /\ \A j \in DOMAIN s.todo : Place(p, s.todo[j]) \in V
  <2>1. r.ok /\ \A j \in DOMAIN r.todo : Place(p, r.todo[j]) \in V
    BY <1>7 DEF Parsing
  <2>2. f \in V
    BY <1>3, <2>1
  <2>3. s.ok
    BY <1>7, <2>1, <2>2 DEF Closed
  <2>4. \A i \in DOMAIN Includes[f] : Place(p, Includes[f][i]) \in V
    BY <1>7, <2>2 DEF Closed
  <2> QED
    BY <1>5, <2>1, <2>3, <2>4
<1> QED
  BY <1>b, <1>d, <1>6, <1>7 DEF Parsing

\* A file is parsed to its end.
LEMMA ParsingEnds == ASSUME NEW p, NEW r, Parsing(p, r), r.todo = <<>> PROVE r.ok = Parses(p, r.file)
<1>1. ASSUME r.ok PROVE Parses(p, r.file)
  <2>1. DOMAIN r.todo = {}
    OBVIOUS
  <2> QED
    BY <1>1, <2>1 DEF Parsing, Parses
<1>2. ASSUME Parses(p, r.file) PROVE r.ok
  <2>1. PICK V : Closed(p, r.file, V)
    BY <1>2 DEF Parses, Closed
  <2> QED
    BY <2>1 DEF Parsing
<1>3. Parses(p, r.file) \in BOOLEAN /\ r.ok \in BOOLEAN
  BY DEF Parses, Parsing
<1> QED
  BY <1>1, <1>2, <1>3

LEMMA ReturnedLoad == ASSUME NEW p, NEW r PROVE Load(p, Returned(r))
  BY DEF Load, Returned, Idle, Busy

\* Contents are put together.
LEMMA JoinContents ==
  ASSUME NEW p, NEW f PROVE <<>> \o Contents(p, f) = Contents(p, f) /\ Contents(p, f) \o <<>> = Contents(p, f)
<1>1. CASE Contents(p, f) = <<>>
  BY <1>1
<1>2. CASE Contents(p, f) = <<f>>
  BY <1>2
<1> QED
  BY <1>1, <1>2 DEF Contents

LEMMA LoadsStep == ASSUME Types, Roots, Searches, Stored, Loads, [Next]_vars PROVE Loads'
<1> DEFINE p == lists[1].of
<1> HIDE DEF p
<1>a. DOMAIN th = Thread /\ \A t \in Thread : Phase(th[t])
  BY DEF Types, Phases
<1>b. \A t \in Thread : Search(th[t])
  BY DEF Searches
<1>k. DOMAIN ids \subseteq Keys /\ (\A k \in Keys : k.kind \in Kind /\ k.alternatives \in Seq(STRING))
      /\ \A j, k \in DOMAIN ids : j.kind = k.kind /\ ids[j] = ids[k] => j = k
  BY KeysAssumption DEF Types, Numbers
\* A step of one thread that stores no table.
<1>c. ASSUME NEW t \in Thread, UNCHANGED <<lists, ids, tables>>, overwritten => overwritten',
             \A u \in Thread : u # t => th'[u] = th[u], Load(p, th[t]) => Load(p, th'[t])
      PROVE  Loads'
  <2>1. Whole => Whole'
    BY <1>c DEF Whole
  <2>2. ASSUME \A u \in Thread : Load(p, th[u]) PROVE \A u \in Thread : Load(lists[1].of, th[u])'
    BY <1>c, <2>2 DEF p
  <2> QED
    BY <1>c, <2>1, <2>2 DEF Loads, p
\* The search goes on.
<1>d. ASSUME NEW t \in Thread, UNCHANGED <<lists, ids, tables, overwritten>>,
             \A u \in Thread : u # t => th'[u] = th[u], Alike(th[t], th'[t])
      PROVE  Loads'
  BY <1>c, <1>d, AlikeLoad
\* A thread comes back.
<1>e. ASSUME NEW t \in Thread, UNCHANGED <<lists, ids, tables, overwritten>>,
             th' = [th EXCEPT ![t] = Returned(@)]
      PROVE  Loads'
  BY <1>a, <1>c, <1>e, ReturnedLoad
\* A thread that loads no table.
<1>f. ASSUME NEW t \in Thread, UNCHANGED <<lists, ids, tables, overwritten>>,
             \A u \in Thread : u # t => th'[u] = th[u], th'[t].part = th[t].part,
             Busy(th[t]) => Purpose(th[t]) \notin Parts, Busy(th'[t]) => Purpose(th'[t]) \notin Parts
      PROVE  Loads'
  BY <1>c, <1>f DEF Load
<1>1. ASSUME NEW t \in Thread, Get(t) PROVE Loads'
  BY <1>a, <1>d, <1>1 DEF Get, context, Alike, Phase, Fields, Seeking
<1>2. ASSUME NEW t \in Thread, Test(t) PROVE Loads'
  BY <1>a, <1>d, <1>2 DEF Test, context, Alike, Phase, Fields, Seeking
<1>3. ASSUME NEW t \in Thread, Enter(t) PROVE Loads'
  BY <1>a, <1>d, <1>3 DEF Enter, context, Alike, Phase, Fields, Seeking
<1>4. ASSUME NEW t \in Thread, Walk(t) PROVE Loads'
  <2>1. PICK place : \/ th' = [th EXCEPT ![t].node = @ + 1]
                     \/ th' = [th EXCEPT ![t].pc = "found", ![t].ans = place]
    BY <1>4 DEF Walk
  <2>2. th[t].pc = "walk" /\ UNCHANGED <<lists, ids, tables, overwritten>>
    BY <1>4 DEF Walk, context
  <2> QED
    BY <1>a, <1>d, <2>1, <2>2 DEF Alike, Phase, Fields, Seeking
\* The list is made while no table is loaded.
<1>g. ASSUME NEW t \in Thread, th[t].pc \in Making, UNCHANGED <<ids, tables, overwritten>>,
             \A u \in Thread : u # t => th'[u] = th[u], th'[t].part = th[t].part, Purpose(th'[t]) = "boot"
      PROVE  Loads'
  <2>1. /\ Purpose(th[t]) = "boot" /\ \A u \in Thread : u # t => th[u].pc = "idle"
    BY <1>g, MakerAlone
  <2>2. ASSUME \A u \in Thread : Load(p, th[u]), NEW u \in Thread PROVE Load(lists[1].of, th[u])'
    <3>1. CASE u = t
      BY <1>g, <2>1, <2>2, <3>1 DEF Load, Parts
    <3>2. CASE u # t
      BY <1>g, <2>1, <2>2, <3>2 DEF Load, Busy
    <3> QED
      BY <3>1, <3>2
  <2>3. Whole => Whole'
    BY <1>g DEF Whole
  <2> QED
    BY <1>g, <2>2, <2>3 DEF Loads, p
<1>5. ASSUME NEW t \in Thread, LinkNode(t) PROVE Loads'
  <2>1. th[t].pc = "node" /\ UNCHANGED <<ids, tables, overwritten>> /\ th' = [th EXCEPT ![t].pc = "value"]
    BY <1>5 DEF LinkNode, context
  <2>2. Purpose(th[t]) = "boot"
    BY <2>1, MakerAlone DEF Making
  <2> QED
    BY <1>a, <1>g, <2>1, <2>2 DEF Making, Phase, Fields, Purpose
<1>6. ASSUME NEW t \in Thread, SetNode(t) PROVE Loads'
  <2>1. th[t].pc = "value" /\ UNCHANGED <<ids, tables, overwritten>>
        /\ (th' = [th EXCEPT ![t].pc = "node"] \/ th' = [th EXCEPT ![t].pc = "test"])
    BY <1>6 DEF SetNode, context
  <2>2. Purpose(th[t]) = "boot"
    BY <2>1, MakerAlone DEF Making
  <2> QED
    BY <1>a, <1>g, <2>1, <2>2 DEF Making, Phase, Fields, Purpose
<1>7. ASSUME NEW t \in Thread, NoTemplate(t) PROVE Loads'
  BY <1>e, <1>7 DEF NoTemplate, context
<1>8. ASSUME NEW t \in Thread, HaveTemplate(t) PROVE Loads'
  BY <1>e, <1>8 DEF HaveTemplate, context
<1>9. ASSUME NEW t \in Thread, Create(t) PROVE Loads'
  <2>1. Load(p, th'[t])
    BY <1>a, <1>9 DEF Create, Returned, Idle, Load, Busy
  <2> QED
    BY <1>a, <1>c, <1>9, <2>1 DEF Create, context
<1>10. ASSUME NEW t \in Thread, Booted(t) PROVE Loads'
  BY <1>a, <1>f, <1>10 DEF Booted, context, Phase, Fields, Busy, Purpose, Parts
<1>11. ASSUME NEW t \in Thread, Keep(t) PROVE Loads'
  BY <1>a, <1>f, <1>11 DEF Keep, Phase, Fields, Busy, Purpose, Parts
<1>12. ASSUME NEW t \in Thread, NewHandle(t) PROVE Loads'
  <2>1. th[t].pc = "idle" /\ UNCHANGED <<lists, ids, tables, overwritten>>
    BY <1>12 DEF NewHandle, Begin, context
  <2>2. CASE th' = [th EXCEPT ![t] = Searching(Counted(@), "boot", Boot)]
    BY <1>a, <1>f, <2>1, <2>2 DEF Searching, Counted, Phase, Fields, Busy, Purpose, Parts
  <2>3. CASE th' = [th EXCEPT ![t] = [Counted(@) EXCEPT !.pc = "create"]]
    BY <1>a, <1>f, <2>1, <2>3 DEF Counted, Phase, Fields, Busy, Purpose, Parts
  <2> QED
    BY <1>12, <2>2, <2>3 DEF NewHandle
<1>13. ASSUME NEW t \in Thread, NEW name \in Templates, Template(t, name) PROVE Loads'
  BY <1>a, <1>f, <1>13 DEF Template, Begin, Searching, Counted, context, Phase, Fields, Busy, Purpose, Parts
<1>14. ASSUME NEW t \in Thread, StartParse(t) PROVE Loads'
  <2> DEFINE r == th[t]
             s == th'[t]
  <2>1. /\ r.pc = "found" /\ r.ans # Null /\ r.for # "include" /\ UNCHANGED <<lists, ids, tables, overwritten>>
        /\ \A u \in Thread : u # t => th'[u] = th[u]
    BY <1>a, <1>14 DEF StartParse
  <2>2. r.ans = Place(p, r.name) /\ r.ans \in DefFile
    BY <1>b, <2>1 DEF Search, Types, Places, Sees, PlaceOf, p
  <2>3. /\ s.pc \in {"have", "parse"} /\ s.for = r.for /\ s.key = r.key /\ s.alt = r.alt /\ s.part = r.part
        /\ s.back = r.back
    BY <1>a, <1>14 DEF StartParse, Phase, Fields
  <2>4. CASE r.for \in Actions
    BY <1>f, <2>1, <2>3, <2>4 DEF Busy, Purpose, Actions, Parts
  <2>5. CASE r.for \in Parts
    <3>1. /\ s.pc = "parse" /\ s.file = r.ans /\ s.todo = Includes[r.ans] /\ s.ok = (r.ans \notin Broken)
      BY <1>a, <1>14, <2>5 DEF StartParse, Phase, Fields, Parts
    <3>2. Parsing(p, s)
      BY <2>2, <3>1, ParsingStarts
    <3>3. Wanted(s) = Wanted(r) /\ Purpose(s) = r.for /\ Purpose(r) = r.for
          /\ (Absent(p, r, r.alt - 1) <=> Absent(p, s, s.alt - 1))
      BY <2>1, <2>3 DEF Wanted, Purpose, Absent
    <3>4. Load(p, r) => Load(p, s)
      BY <2>1, <2>2, <2>3, <2>5, <3>1, <3>2, <3>3 DEF Load, Busy, Seeking, InParser
    <3> QED
      BY <1>c, <2>1, <3>4
  <2> QED
    BY <1>a, <2>1, <2>4, <2>5 DEF Phase, Busy, Purpose
<1>15. ASSUME NEW t \in Thread, Include(t) PROVE Loads'
  <2> DEFINE r == th[t]
             s == th'[t]
  <2>1. /\ r.pc = "parse" /\ r.todo # <<>> /\ UNCHANGED <<lists, ids, tables, overwritten>>
        /\ \A u \in Thread : u # t => th'[u] = th[u]
    BY <1>a, <1>15 DEF Include, context
  <2>2. /\ s.pc = "get" /\ s.for = "include" /\ s.name = Head(r.todo) /\ s.back = r.for /\ r.for # "include"
        /\ s.file = r.file /\ s.todo = r.todo /\ s.ok = r.ok /\ s.key = r.key /\ s.alt = r.alt /\ s.part = r.part
    BY <1>a, <1>15 DEF Include, Searching, Phase, Fields, Busy, Seeking
  <2>3. Purpose(s) = r.for /\ Purpose(r) = r.for /\ Wanted(s) = Wanted(r) /\ (Parsing(p, r) <=> Parsing(p, s))
        /\ (Absent(p, r, r.alt - 1) <=> Absent(p, s, s.alt - 1))
    BY <2>2 DEF Purpose, Wanted, Absent, Parsing
  <2>4. Load(p, r) => Load(p, s)
    BY <2>1, <2>2, <2>3 DEF Load, Busy, Seeking, InParser
  <2> QED
    BY <1>c, <2>1, <2>4
<1>16. ASSUME NEW t \in Thread, Included(t) PROVE Loads'
  <2> DEFINE r == th[t]
             s == th'[t]
  <2>1. /\ r.pc = "found" /\ r.ans # Null /\ r.for = "include" /\ UNCHANGED <<lists, ids, tables, overwritten>>
        /\ \A u \in Thread : u # t => th'[u] = th[u]
    BY <1>a, <1>16 DEF Included, context
  <2>2. r.ans = Place(p, r.name) /\ r.ans \in DefFile
    BY <1>b, <2>1 DEF Search, First, Types, Places, Sees, PlaceOf, p
  <2>3. /\ s.pc = "parse" /\ s.for = r.back /\ r.back # "include"
        /\ s.todo = Includes[r.ans] \o Tail(r.todo) /\ s.ok = (r.ok /\ r.ans \notin Broken)
        /\ s.file = r.file /\ s.key = r.key /\ s.alt = r.alt /\ s.part = r.part
    <3>1. DOMAIN r = Fields /\ t \in DOMAIN th /\ r.back # "include"
      BY <1>a, <2>1 DEF Phase, Fields, Busy, Purpose, Actions, Parts
    <3>2. th' = [th EXCEPT ![t].pc = "parse", ![t].todo = Includes[r.ans] \o Tail(r.todo),
                           ![t].ok = r.ok /\ r.ans \notin Broken, ![t].for = r.back]
      BY <1>16 DEF Included
    <3> QED
      BY <3>1, <3>2 DEF Fields
  <2>4. Purpose(s) = r.back /\ Purpose(r) = r.back /\ Wanted(s) = Wanted(r)
        /\ (Absent(p, r, r.alt - 1) <=> Absent(p, s, s.alt - 1))
    BY <2>1, <2>3 DEF Purpose, Wanted, Absent
  <2>5. ASSUME Load(p, r) PROVE Load(p, s)
    <3>1. CASE r.back \in Parts
      <4>1. Parsing(p, r) /\ r.todo # <<>> /\ r.name = Head(r.todo)
        BY <2>1, <2>4, <2>5, <3>1 DEF Load, Busy, Seeking, InParser
      <4>2. Parsing(p, s)
        BY <2>2, <2>3, <4>1, ParsingGoesOn
      <4> QED
        BY <2>1, <2>3, <2>4, <2>5, <3>1, <4>2 DEF Load, Busy, Seeking, InParser
    <3>2. CASE r.back \notin Parts
      BY <2>1, <2>3, <2>4, <2>5, <3>2 DEF Load
    <3> QED
      BY <3>1, <3>2
  <2> QED
    BY <1>c, <2>1, <2>5
<1>17. ASSUME NEW t \in Thread, Leave(t) PROVE Loads'
  <2> DEFINE r == th[t]
             s == th'[t]
  <2>1. /\ r.pc = "parse" /\ r.todo = <<>> /\ r.for \in Parts /\ UNCHANGED <<lists, ids, tables, overwritten>>
        /\ \A u \in Thread : u # t => th'[u] = th[u]
    BY <1>a, <1>17 DEF Leave, context, Parts
  <2>2. /\ s.pc = "static" /\ s.for = r.for /\ s.name = r.name /\ s.back = r.back
        /\ s.file = r.file /\ s.todo = r.todo /\ s.ok = r.ok /\ s.key = r.key /\ s.alt = r.alt /\ s.part = r.part
    BY <1>a, <1>17 DEF Leave, Phase, Fields
  <2>3. Purpose(s) = r.for /\ Purpose(r) = r.for /\ Wanted(s) = Wanted(r)
        /\ (Absent(p, r, r.alt - 1) <=> Absent(p, s, s.alt - 1))
    BY <2>1, <2>2 DEF Purpose, Wanted, Absent, Parts
  <2>4. ASSUME Load(p, r) PROVE Load(p, s)
    <3>1. Parsing(p, r)
      BY <2>1, <2>3, <2>4 DEF Load, Busy, InParser
    <3>2. r.ok = Parses(p, r.file)
      BY <2>1, <3>1, ParsingEnds
    <3> QED
      BY <2>1, <2>2, <2>3, <2>4, <3>2 DEF Load, Busy, Seeking, InParser
  <2> QED
    BY <1>c, <2>1, <2>4
\* The next alternative of a table, or its master.
<1>h. ASSUME NEW r, NEW k \in Keys, r.key = k, r.part = <<>>,
             NEW n \in Nat, n <= Len(k.alternatives), Absent(p, r, n), DOMAIN r = Fields
      PROVE  Load(p, Sought(r, n + 1))
  <2> DEFINE s == Sought(r, n + 1)
  <2>1. s.pc = "get" /\ s.key = k /\ s.part = <<>> /\ s.for \in Parts
    BY <1>h DEF Sought, Searching, Fields, Parts
  <2>2. \A i \in 1..n : Place(p, k.alternatives[i]) = Null
    BY <1>h DEF Absent
  <2>3. CASE n + 1 <= Len(k.alternatives)
    <3>1. s.for = "alternative" /\ s.alt = n + 1 /\ s.name = k.alternatives[n + 1]
      BY <1>h, <2>3 DEF Sought, Searching, Fields
    <3>2. n + 1 \in DOMAIN k.alternatives /\ (n + 1) - 1 = n
      BY <1>k, <2>3
    <3>3. Absent(p, s, s.alt - 1)
      BY <2>1, <2>2, <3>1, <3>2 DEF Absent
    <3> QED
      BY <2>1, <3>1, <3>2, <3>3 DEF Load, Busy, Purpose, Wanted, Seeking, InParser
  <2>4. CASE ~(n + 1 <= Len(k.alternatives))
    <3>1. s.for = "master" /\ s.name = k.master
      BY <1>h, <2>4 DEF Sought, Searching, Fields
    <3>2. n = Len(k.alternatives)
      BY <1>h, <1>k, <2>4
    <3>3. Alternative(p, k) = Null
      BY <2>2, <3>2, FirstAlternative
    <3>4. Contents(p, Alternative(p, k)) = <<>>
      BY <3>3 DEF Contents
    <3> QED
      BY <2>1, <3>1, <3>4 DEF Load, Busy, Purpose, Wanted, Seeking, InParser
  <2> QED
    BY <2>3, <2>4
<1>18. ASSUME NEW t \in Thread, NoAlternative(t) PROVE Loads'
  <2> DEFINE r == th[t]
  <2>1. /\ r.pc = "found" /\ r.ans = Null /\ r.for = "alternative" /\ UNCHANGED <<lists, ids, tables, overwritten>>
        /\ th' = [th EXCEPT ![t] = Sought(r, r.alt + 1)]
    BY <1>18 DEF NoAlternative, context
  <2>2. r.key \in Keys /\ Purpose(r) = "alternative" /\ DOMAIN r = Fields /\ Place(p, r.name) = Null
    BY <1>a, <1>b, <2>1 DEF Phase, Busy, Purpose, Parts, Search, First, p
  <2>3. ASSUME Load(p, r) PROVE Load(p, Sought(r, r.alt + 1))
    <3>1. r.part = <<>> /\ r.alt \in DOMAIN r.key.alternatives /\ Absent(p, r, r.alt - 1)
          /\ r.name = r.key.alternatives[r.alt]
      BY <2>1, <2>2, <2>3 DEF Load, Busy, Parts, Wanted, Seeking
    <3>2. r.alt \in Nat /\ r.alt <= Len(r.key.alternatives) /\ \A i \in 1..r.alt : i \in 1..(r.alt - 1) \/ i = r.alt
      BY <1>k, <2>2, <3>1
    <3>3. Absent(p, r, r.alt)
      BY <2>2, <3>1, <3>2 DEF Absent
    <3> QED
      BY <1>h, <2>2, <3>1, <3>2, <3>3
  <2> QED
    BY <1>a, <1>c, <2>1, <2>3
\* A whole table is stored.
<1>i. ASSUME NEW t \in Thread, NEW part, Store(t, part), Busy(th[t]), Purpose(th[t]) \in Parts,
             UNCHANGED <<lists, ids>>, overwritten => overwritten', ~overwritten => part \in {Expected(p, th[t].key), <<>>}
      PROVE  Loads'
  <2> DEFINE k == th[t].key
             kind == k.kind
             id == ids[k]
  <2>1. k \in DOMAIN ids /\ k \in Keys
    BY <1>a, <1>i, NullAssumption DEF Stored, Phase
  <2>2. p \in GivenPath
    BY <1>b, <1>i DEF Search, First, Complete, Purpose, Parts, p
  <2>3. \A u \in Thread : u # t => th'[u] = th[u]
    BY <1>i DEF Store
  <2>4. ASSUME \A u \in Thread : Load(p, th[u]), NEW u \in Thread PROVE Load(lists[1].of, th[u])'
    <3>1. CASE u = t
      <4>1. th'[t] = Returned(th[t])
        BY <1>a, <1>i DEF Store
      <4> QED
        BY <3>1, <4>1, ReturnedLoad
    <3> QED
      BY <1>i, <2>3, <2>4, <3>1 DEF p
  <2>5. ASSUME Whole, ~overwritten PROVE Whole'
    <3>1. CASE tables' = tables
      BY <1>i, <2>5, <3>1 DEF Whole
    <3> DEFINE new == [i \in DOMAIN tables[kind] \cup {id} |-> IF i = id THEN part ELSE tables[kind][i]]
    <3>2. CASE part # <<>> /\ tables' = [tables EXCEPT ![kind] = new]
      <4>1. DOMAIN new = DOMAIN tables[kind] \cup {id} /\ new[id] = Expected(p, k)
            /\ \A i \in DOMAIN tables[kind] : i # id => new[i] = tables[kind][i]
        BY <1>i, <2>5, <3>2
      <4> HIDE DEF new
      <4>2. kind \in DOMAIN tables /\ tables'[kind] = new /\ \A x \in Kind : x # kind => tables'[x] = tables[x]
        BY <1>k, <2>1, <3>2 DEF Stored
      <4>3. ASSUME NEW j \in DOMAIN ids, ids[j] \in DOMAIN tables'[j.kind]
            PROVE  \E q \in GivenPath : tables'[j.kind][ids[j]] = Expected(q, j)
        <5>1. CASE j = k
          BY <2>2, <4>1, <4>2, <5>1
        <5>2. CASE j # k /\ j.kind = kind
          <6>1. ids[j] # id
            BY <1>k, <2>1, <4>3, <5>2
          <6> QED
            BY <2>5, <4>1, <4>2, <4>3, <5>2, <6>1 DEF Whole
        <5>3. CASE j.kind # kind
          <6>1. j.kind \in Kind
            BY <1>k, <4>3
          <6> QED
            BY <2>5, <4>2, <4>3, <5>3, <6>1 DEF Whole
        <5> QED
          BY <5>1, <5>2, <5>3
      <4> QED
        BY <1>i, <4>3 DEF Whole
    <3> QED
      BY <1>i, <3>1, <3>2 DEF Store
  <2> QED
    BY <1>i, <2>4, <2>5 DEF Loads, p
<1>19. ASSUME NEW t \in Thread, Take(t) PROVE Loads'
  <2> DEFINE r == th[t]
             left == parsed[r.key.kind]
             mine == IF r.ok /\ r.file \notin Empty THEN r.file ELSE Null
             got  == IF left = Null THEN <<>> ELSE <<left>>
             part == r.part \o got
  <2>1. r.pc = "static" /\ UNCHANGED <<lists, ids>> /\ overwritten' = (overwritten \/ left # mine)
    BY <1>19 DEF Take
  <2>2. \/ /\ r.for = "alternative" /\ UNCHANGED <<tables, lock>>
           /\ th' = [th EXCEPT ![t] = [Searching(r, "master", r.key.master) EXCEPT !.part = part]]
        \/ r.for # "alternative" /\ Store(t, part)
    BY <1>19 DEF Take
  <2>3. Purpose(r) \in Parts /\ r.for = Purpose(r) /\ r.key \in Keys /\ DOMAIN r = Fields /\ Busy(r)
    BY <1>a, <2>1 DEF Phase, Busy, Purpose, Seeking
  <2>4. ASSUME Load(p, r), ~overwritten, ~overwritten' PROVE got = Contents(p, Place(p, Wanted(r)))
    <3>1. r.file # Null /\ r.file = Place(p, Wanted(r)) /\ r.ok = Parses(p, r.file)
      BY <2>1, <2>3, <2>4 DEF Load
    <3>2. left = mine
      BY <2>1, <2>4
    <3>3. CASE r.ok /\ r.file \notin Empty
      BY <3>1, <3>2, <3>3 DEF Contents
    <3>4. CASE ~(r.ok /\ r.file \notin Empty)
      BY <3>1, <3>2, <3>4 DEF Contents
    <3> QED
      BY <3>3, <3>4
  <2> HIDE DEF got, left, mine
  <2>5. CASE overwritten'
    BY <2>5 DEF Loads
  <2>6. CASE ~overwritten'
    <3>1. ~overwritten /\ Whole /\ \A u \in Thread : Load(p, th[u])
      BY <2>1, <2>6 DEF Loads, p
    <3>2. got = Contents(p, Place(p, Wanted(r)))
      BY <2>4, <2>6, <3>1
    <3>3. CASE r.for = "alternative"
      <4> DEFINE s == [Searching(r, "master", r.key.master) EXCEPT !.part = part]
      <4>1. r.part = <<>> /\ r.alt \in DOMAIN r.key.alternatives /\ Absent(p, r, r.alt - 1)
            /\ r.file = Place(p, Wanted(r)) /\ r.file # Null /\ Wanted(r) = r.key.alternatives[r.alt]
        BY <2>1, <2>3, <3>1, <3>3 DEF Load, Wanted
      <4>2. r.alt - 1 \in Nat /\ r.alt - 1 <= Len(r.key.alternatives) /\ (r.alt - 1) + 1 = r.alt
        BY <1>k, <2>3, <4>1
      <4>4. Alternative(p, r.key) = Place(p, r.key.alternatives[r.alt])
        <5> DEFINE n == r.alt - 1
                   k == r.key
        <5>1. k \in Keys /\ n \in Nat /\ n <= Len(k.alternatives) /\ n + 1 = r.alt /\ n + 1 \in DOMAIN k.alternatives
              /\ (\A i \in 1..n : Place(p, k.alternatives[i]) = Null)
          BY <2>3, <4>1, <4>2 DEF Absent
        <5>2. Place(p, k.alternatives[n + 1]) # Null
          BY <4>1, <5>1
        <5> HIDE DEF n
        <5>3. Alternative(p, k) = Place(p, k.alternatives[n + 1])
          BY <5>1, <5>2, FirstAlternative
        <5> QED
          BY <5>1, <5>3
      <4>5. part = Contents(p, Alternative(p, r.key))
        BY <3>2, <4>1, <4>4, JoinContents
      <4> HIDE DEF part
      <4>6. /\ s.pc = "get" /\ s.for = "master" /\ s.name = r.key.master /\ s.key = r.key /\ s.part = part
        BY <2>3 DEF Searching, Fields
      <4>7. Load(p, s)
        BY <4>5, <4>6 DEF Load, Busy, Purpose, Wanted, Seeking, InParser, Parts
      <4>8. th'[t] = s /\ (\A u \in Thread : u # t => th'[u] = th[u]) /\ UNCHANGED <<lists, ids, tables>>
        BY <1>a, <2>1, <2>2, <3>3
      <4> QED
        BY <1>c, <3>1, <4>7, <4>8
    <3>4. CASE r.for # "alternative"
      <4>1. r.part = Contents(p, Alternative(p, r.key)) /\ Wanted(r) = r.key.master
        BY <2>1, <2>3, <3>1, <3>4 DEF Load, Wanted
      <4>2. part = Expected(p, r.key)
        BY <3>2, <4>1 DEF Expected
      <4> HIDE DEF part
      <4> QED
        BY <1>i, <2>1, <2>2, <2>3, <2>6, <3>4, <4>2
    <3> QED
      BY <3>3, <3>4
  <2> QED
    BY <2>5, <2>6
<1>20. ASSUME NEW t \in Thread, NoMaster(t) PROVE Loads'
  <2> DEFINE r == th[t]
  <2>1. /\ r.pc = "found" /\ r.ans = Null /\ r.for = "master" /\ UNCHANGED <<lists, ids, overwritten>>
        /\ Store(t, r.part) \/ Store(t, <<>>)
    BY <1>20 DEF NoMaster
  <2>2. Purpose(r) \in Parts /\ Busy(r) /\ Place(p, r.name) = Null
    BY <1>b, <2>1 DEF Busy, Purpose, Parts, Search, First, p
  <2>3. ASSUME ~overwritten PROVE r.part = Expected(p, r.key)
    <3>1. Load(p, r)
      BY <2>3 DEF Loads, p
    <3>2. r.part = Contents(p, Alternative(p, r.key)) /\ r.name = r.key.master
      BY <2>1, <2>2, <3>1 DEF Load, Purpose, Wanted, Seeking
    <3>3. Contents(p, Place(p, r.key.master)) = <<>>
      BY <2>2, <3>2 DEF Contents
    <3> QED
      BY <3>2, <3>3, JoinContents DEF Expected
  <2> QED
    BY <1>i, <2>1, <2>2, <2>3
<1>21. ASSUME NEW t \in Thread, NEW k \in Keys, Table(t, k) PROVE Loads'
  <2> DEFINE r == th[t]
             d == [Counted(r) EXCEPT !.key = k]
  <2>1. /\ r.pc = "idle" /\ UNCHANGED <<lists, tables, overwritten>>
        /\ ids' = [x \in DOMAIN ids \cup {k} |-> IF x = k THEN NumberOf(k) ELSE ids[x]]
        /\ th' = [th EXCEPT ![t] = Counted(r)] \/ th' = [th EXCEPT ![t] = Sought(d, 1)]
    BY <1>21 DEF Table, Begin
  <2>2. ASSUME Load(p, r) PROVE Load(p, th'[t])
    <3>1. r.part = <<>> /\ DOMAIN r = Fields
      BY <1>a, <2>1, <2>2 DEF Load, Busy, Phase
    <3>2. CASE th' = [th EXCEPT ![t] = Counted(r)]
      <4>1. th'[t].pc = "idle" /\ th'[t].part = <<>>
        BY <1>a, <2>1, <3>1, <3>2 DEF Counted, Fields
      <4> QED
        BY <4>1 DEF Load, Busy
    <3>3. CASE th' = [th EXCEPT ![t] = Sought(d, 1)]
      <4>1. d.key = k /\ d.part = <<>> /\ DOMAIN d = Fields
        BY <3>1 DEF Counted, Fields
      <4>2. 0 \in Nat /\ 0 <= Len(k.alternatives) /\ 0 + 1 = 1
        BY <1>k
      <4> HIDE DEF d
      <4>3. Absent(p, d, 0)
        BY DEF Absent
      <4>4. Load(p, Sought(d, 0 + 1))
        BY <1>h, <4>1, <4>2, <4>3
      <4> QED
        BY <1>a, <3>3, <4>2, <4>4
    <3> QED
      BY <2>1, <3>2, <3>3
  <2>3. ASSUME Whole PROVE Whole'
    <3>1. ASSUME NEW j \in DOMAIN ids', ids'[j] \in DOMAIN tables[j.kind]
          PROVE  \E q \in GivenPath : tables[j.kind][ids'[j]] = Expected(q, j)
      <4>1. CASE j \in DOMAIN ids
        <5>1. ids'[j] = ids[j]
          BY <2>1, <4>1 DEF NumberOf
        <5> QED
          BY <2>3, <3>1, <4>1, <5>1 DEF Whole
      <4>2. CASE j \notin DOMAIN ids
        <5>1. j = k /\ ids'[j] = count[k.kind] + 1 /\ count[k.kind] \in Nat /\ k.kind \in Kind
          BY <1>k, <2>1, <3>1, <4>2 DEF NumberOf, Types, Numbers
        <5> QED
          BY <3>1, <5>1 DEF Stored
      <4> QED
        BY <4>1, <4>2
    <3> QED
      BY <2>1, <3>1 DEF Whole
  <2>4. \A u \in Thread : u # t => th'[u] = th[u]
    BY <1>a, <1>21 DEF Table
  <2>5. ASSUME \A u \in Thread : Load(p, th[u]) PROVE \A u \in Thread : Load(lists[1].of, th[u])'
    BY <2>1, <2>2, <2>4, <2>5 DEF p
  <2> QED
    BY <2>1, <2>3, <2>5 DEF Loads, p
<1>22. CASE DeleteContext
  <2>1. /\ \A u \in Thread : th'[u].pc = "idle" /\ th'[u].part = <<>>
        /\ ids' = <<>> /\ UNCHANGED overwritten
    BY <1>22 DEF DeleteContext, Idle
  <2>2. DOMAIN ids' = {}
    BY <2>1
  <2> QED
    BY <2>1, <2>2 DEF Loads, Whole, Load, Busy
<1>23. CASE UNCHANGED <<lists, ids, tables, overwritten, th>>
  BY <1>23 DEF Loads, Whole
<1> QED
  BY <1>1, <1>2, <1>3, <1>4, <1>5, <1>6, <1>7, <1>8, <1>9, <1>10, <1>11, <1>12, <1>13, <1>14, <1>15,
     <1>16, <1>17, <1>18, <1>19, <1>20, <1>21, <1>22, <1>23
     DEF Next, Step, Call, Missing, SetPath, context, vars

(* A table holds the first of its alternatives that is there and its master,
   each unless it has no instructions or the parser does not get to its end,
   up to the first race for the static of the parser; and no key leads to a
   table that was freed.  For any tables, files and includes, also those that
   include each other. *)
THEOREM TablesWholeCorrect == Spec => []TablesWhole
<1> DEFINE All == Types /\ Roots /\ Searches /\ Stored /\ Loads
<1>1. Init => All
  <2> SUFFICES ASSUME Init PROVE Stored /\ Loads
    BY TypesInit, SearchesInit
  <2>1. Stored
    <3>1. DOMAIN ids = {} /\ \A kind \in Kind : DOMAIN tables[kind] = {}
      BY DEF Init
    <3> QED
      BY <3>1 DEF Init, Stored, Idle, Kind
  <2>2. \A t \in Thread : Load(lists[1].of, th[t])
    BY DEF Init, Load, Idle, Busy
  <2>3. Whole
    BY DEF Init, Whole
  <2> QED
    BY <2>1, <2>2, <2>3 DEF Loads
<1>2. All /\ [Next]_vars => All'
  BY TypesStep, RootsStep, SearchesStep, StoredStep, LoadsStep
<1>3. All => TablesWhole
  BY DEF Stored, Loads, Whole, TablesWhole, GivenPath
<1> QED
  BY <1>1, <1>2, <1>3, PTL DEF Spec
=============================================================================
