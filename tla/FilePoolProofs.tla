--------------------------- MODULE FilePoolProofs ---------------------------
(* Proofs about the file pool, for any threads, names, modes and limit, and
   also when several threads open the same file.

   Inv, the inductive invariant of the first part, adds to the types what ties
   the parts of the state together: a file that has a handle is in the list (so
   that a fresh entry has none), and after close_all no thread runs (so that the
   count, which close_all leaves alone, is not used again). Nothing is said of
   the file a thread points to: another may have deleted it, and whoever follows
   a pointer looks whether it is in the list.

   The second part is about the FILE pointers: who owns the open ones (Streams).

   The third is about the limit, which is not inductive: in the middle of calls
   more files are open than allowed. What is kept is that the open files which no
   call tends are never too many (Bound). *)
EXTENDS FilePool, TLAPS, FiniteSetTheorems

Anchored ==
    /\ Open \subseteq Pooled
    /\ ended => AllIdle

Types == TypeOK /\ Anchored

-----------------------------------------------------------------------------
(* Opening and closing one more file *)

LEMMA OpenFinite == IsFiniteSet(Open) /\ Cardinality(Open) \in Nat
<1>1. IsFiniteSet(Address) /\ Open \subseteq Address
  BY PoolAssumption DEF Open
<1>2. IsFiniteSet(Open)
  BY <1>1, FS_Subset
<1> QED
  BY <1>2, FS_CardinalityType

LEMMA OneMore ==
  ASSUME NEW a \in Address, a \notin Open, Open' = Open \cup {a}
  PROVE  Cardinality(Open') = Cardinality(Open) + 1
  BY OpenFinite, FS_AddElement

LEMMA OneLess ==
  ASSUME NEW a \in Open, Open' = Open \ {a}
  PROVE  Cardinality(Open') = Cardinality(Open) - 1 /\ Cardinality(Open) \in Nat \ {0}
<1>1. Cardinality(Open') = Cardinality(Open) - 1
  BY OpenFinite, FS_RemoveElement
<1>2. Cardinality(Open) # 0
  BY OpenFinite, FS_EmptySet
<1> QED
  BY <1>1, <1>2, OpenFinite

\* The count after the handle of a file is given up.
LEMMA CountedDown ==
  ASSUME NEW a \in Address, opened \in Nat, opened = Cardinality(Open),
         Open' = Open \ {a}, opened' = CountDown(a)
  PROVE  opened' \in Nat /\ opened' = Cardinality(Open')
<1>1. CASE a \in Open
  <2>1. file[a].handle # Null
    BY <1>1 DEF Open
  <2> QED
    BY <1>1, <2>1, OneLess DEF CountDown
<1>2. CASE a \notin Open
  <2>1. file[a].handle = Null
    BY <1>2 DEF Open
  <2>2. Open' = Open
    BY <1>2
  <2> QED
    BY <2>1, <2>2 DEF CountDown
<1> QED
  BY <1>1, <1>2

-----------------------------------------------------------------------------
(* The list *)

LEMMA IndexOfIn ==
  ASSUME NEW a \in Pooled PROVE IndexOf(a) \in DOMAIN list /\ list[IndexOf(a)] = a
  BY DEF Pooled, IndexOf

LEMMA WithoutType ==
  ASSUME list \in Seq(Address), NEW a \in Pooled
  PROVE  /\ Without(a) \in Seq(Address)
         /\ Len(Without(a)) = Len(list) - 1
         /\ DOMAIN Without(a) = 1..(Len(list) - 1)
<1>1. Len(list) \in Nat /\ DOMAIN list = 1..Len(list)
  OBVIOUS
<1>2. Len(list) - 1 \in Nat
  BY <1>1, IndexOfIn
<1>3. \A i \in 1..(Len(list) - 1) : list[i] \in Address /\ list[i + 1] \in Address
  BY <1>1
<1>4. Without(a) \in [1..(Len(list) - 1) -> Address]
  BY <1>3 DEF Without
<1> QED
  BY <1>2, <1>4

\* Without leaves out the file at one index and keeps the others' order.
Skip(a, i) == IF i < IndexOf(a) THEN i ELSE i + 1

LEMMA WithoutElement ==
  ASSUME list \in Seq(Address), NEW a \in Pooled, NEW i \in DOMAIN Without(a)
  PROVE  /\ Skip(a, i) \in DOMAIN list \ {IndexOf(a)}
         /\ Without(a)[i] = list[Skip(a, i)]
<1>1. DOMAIN list = 1..Len(list) /\ Len(list) \in Nat /\ IndexOf(a) \in 1..Len(list)
  BY IndexOfIn
<1>2. i \in 1..(Len(list) - 1)
  BY WithoutType
<1>3. Skip(a, i) \in DOMAIN list \ {IndexOf(a)}
  BY <1>1, <1>2 DEF Skip
<1>4. Without(a)[i] = list[Skip(a, i)]
  BY <1>2 DEF Without, Skip
<1> QED
  BY <1>3, <1>4

LEMMA WithoutKeeps ==
  ASSUME list \in Seq(Address), NEW a \in Pooled, NEW b \in Pooled, b # a
  PROVE  \E i \in DOMAIN Without(a) : Without(a)[i] = b
<1>1. PICK j \in DOMAIN list : list[j] = b
  BY DEF Pooled
<1>2. DOMAIN list = 1..Len(list) /\ Len(list) \in Nat /\ IndexOf(a) \in 1..Len(list) /\ j # IndexOf(a)
  BY <1>1, IndexOfIn
<1>3. CASE j < IndexOf(a)
  <2>1. j \in 1..(Len(list) - 1) /\ Without(a)[j] = b
    BY <1>1, <1>2, <1>3 DEF Without
  <2> QED
    BY <2>1, WithoutType
<1>4. CASE j > IndexOf(a)
  <2>1. j - 1 \in 1..(Len(list) - 1) /\ ~(j - 1 < IndexOf(a)) /\ (j - 1) + 1 = j
    BY <1>2, <1>4
  <2>2. Without(a)[j - 1] = b
    BY <1>1, <2>1 DEF Without
  <2> QED
    BY <2>1, <2>2, WithoutType
<1> QED
  BY <1>2, <1>3, <1>4

\* The first file of a list that is left.
LEMMA FirstOfList ==
  ASSUME list' \in Seq(Address), current' = HeadOr(list')
  PROVE  current' \in Pooled' \cup {Null} /\ (current' = Null <=> list' = <<>>)
<1>1. CASE list' = <<>>
  BY <1>1 DEF HeadOr
<1>2. CASE list' # <<>>
  <2>1. 1 \in DOMAIN list' /\ list'[1] \in Address
    BY <1>2
  <2>2. current' = list'[1]
    BY <1>2 DEF HeadOr
  <2> QED
    BY <1>2, <2>1, <2>2, PoolAssumption DEF Pooled
<1> QED
  BY <1>1, <1>2

-----------------------------------------------------------------------------
(* Types and anchors *)

\* What a thread writes when it goes on in its call.
LEMMA CallStep ==
  ASSUME call \in [Thread -> Call], NEW t \in Thread,
         NEW pc \in {"idle", "compare", "take", "search", "mode", "handle", "open", "use",
                     "close", "fclose", "walk", "delete", "unknown"}
  PROVE  /\ Goto(t, pc) =>
              /\ call' \in [Thread -> Call] /\ call'[t].pc = pc
              /\ call'[t].at = call[t].at /\ call'[t].name = call[t].name
         /\ Return(t) => call' \in [Thread -> Call] /\ call'[t].pc = "idle"
         /\ \A u \in Thread : u # t /\ (Goto(t, pc) \/ Return(t)) => call'[u] = call[u]
<1>1. Idle \in Call
  BY DEF Idle, Call
<1>2. call[t] \in Call
  OBVIOUS
<1>3. [call[t] EXCEPT !.pc = pc] \in Call
  BY <1>2 DEF Call
<1>4. /\ [call[t] EXCEPT !.pc = pc].pc = pc /\ [call[t] EXCEPT !.pc = pc].at = call[t].at
      /\ [call[t] EXCEPT !.pc = pc].name = call[t].name
  BY <1>2 DEF Call
<1>5. ASSUME Goto(t, pc)
      PROVE  /\ call' \in [Thread -> Call] /\ call'[t].pc = pc
             /\ call'[t].at = call[t].at /\ call'[t].name = call[t].name
             /\ \A u \in Thread : u # t => call'[u] = call[u]
  <2>1. call' = [call EXCEPT ![t] = [call[t] EXCEPT !.pc = pc]]
    BY <1>5 DEF Goto
  <2>2. call'[t] = [call[t] EXCEPT !.pc = pc]
    BY <2>1
  <2>3. call' \in [Thread -> Call]
    BY <1>3, <2>1
  <2>4. \A u \in Thread : u # t => call'[u] = call[u]
    BY <2>1
  <2> QED
    BY <1>4, <2>2, <2>3, <2>4
<1>6. ASSUME Return(t)
      PROVE  /\ call' \in [Thread -> Call] /\ call'[t].pc = "idle"
             /\ \A u \in Thread : u # t => call'[u] = call[u]
  BY <1>1, <1>6 DEF Return, Idle
<1> QED
  BY <1>5, <1>6

\* A thread that moves its pointer and goes on.
LEMMA PointStep ==
  ASSUME call \in [Thread -> Call], NEW t \in Thread, NEW a \in Address \cup {Null},
         NEW pc \in {"take", "search", "mode", "walk", "delete", "unknown"},
         call' = [call EXCEPT ![t].pc = pc, ![t].at = a]
  PROVE  /\ call' \in [Thread -> Call] /\ call'[t].pc = pc
         /\ call'[t].at = a /\ call'[t].name = call[t].name
         /\ \A u \in Thread : u # t => call'[u] = call[u]
<1> DEFINE new == [call[t] EXCEPT !.pc = pc, !.at = a]
<1>1. call[t] \in Call
  OBVIOUS
<1>2. new \in Call /\ new.pc = pc /\ new.at = a /\ new.name = call[t].name
  BY <1>1 DEF Call
<1>3. call' = [call EXCEPT ![t] = new]
  OBVIOUS
<1> HIDE DEF new
<1> QED
  BY <1>2, <1>3

\* Another handle or mode for a file.
LEMMA FileStep ==
  ASSUME file \in [Address -> GribFile], NEW a \in Address,
         NEW h \in Stream \cup {Null}, NEW m \in Mode \cup {Null}
  PROVE  /\ [file EXCEPT ![a].handle = h] \in [Address -> GribFile]
         /\ [file EXCEPT ![a].handle = h, ![a].mode = m] \in [Address -> GribFile]
<1>1. file[a] \in GribFile
  OBVIOUS
<1>2. [file[a] EXCEPT !.handle = h] \in GribFile /\ [file[a] EXCEPT !.handle = h, !.mode = m] \in GribFile
  BY <1>1 DEF GribFile
<1> QED
  BY <1>2

\* The steps of a call that change nothing but the call and, of the histories,
\* the abandoned names.
Private(t) ==
    \/ Compare(t) \/ Take(t) \/ Find(t) \/ Walk(t)
    \/ ReadMode(t) \/ ReadHandle(t) \/ FopenFails(t)
    \/ UseNothing(t) \/ Use(t) \/ UseFails(t)
    \/ Decide(t) \/ FcloseNothing(t) \/ DeleteNothing(t)

Others(t) == \A u \in Thread : u # t => call'[u] = call[u]

\* A list that has a file has a first one.
LEMMA FirstIn ==
  ASSUME list \in Seq(Address), NEW a \in Pooled PROVE list[1] \in Address
<1>1. PICK i \in DOMAIN list : list[i] = a
  BY DEF Pooled
<1>2. Len(list) \in Nat /\ i \in 1..Len(list) /\ 1 \in 1..Len(list)
  BY <1>1
<1> QED
  BY <1>2

LEMMA CompareStep ==
  ASSUME TypeOK, NEW t \in Thread, Compare(t)
  PROVE  call' \in [Thread -> Call] /\ Others(t) /\ call'[t].pc \in {"take", "walk", "search"}
<1>1. PICK a \in {call[t].at, current} \cap Pooled :
        LET hit  == file[a].name = call[t].name
            miss == IF call[t].deletes THEN "walk" ELSE "search"
        IN  call' = [call EXCEPT ![t].pc = IF hit THEN "take" ELSE miss,
                                 ![t].at = IF hit THEN a ELSE list[1]]
  BY DEF Compare
<1> DEFINE hit == file[a].name = call[t].name
           to == IF hit THEN "take" ELSE IF call[t].deletes THEN "walk" ELSE "search"
           at == IF hit THEN a ELSE list[1]
<1>2. list \in Seq(Address) /\ call \in [Thread -> Call] /\ a \in Pooled
  BY <1>1 DEF TypeOK
<1>3. a \in Address /\ list[1] \in Address
  BY <1>2, FirstIn DEF Pooled
<1>4. to \in {"take", "walk", "search"} /\ at \in Address \cup {Null}
  BY <1>3
<1>5. call' = [call EXCEPT ![t].pc = to, ![t].at = at]
  BY <1>1
<1> HIDE DEF to, at
<1> QED
  BY <1>2, <1>4, <1>5, PointStep DEF Others

LEMMA TakeStep ==
  ASSUME TypeOK, NEW t \in Thread, Take(t)
  PROVE  call' \in [Thread -> Call] /\ Others(t) /\ call'[t].pc \in {"delete", "mode"}
<1>1. PICK a \in {call[t].at, current} :
        call' = [call EXCEPT ![t].at = a, ![t].pc = IF call[t].deletes THEN "delete" ELSE "mode"]
  BY DEF Take
<1> DEFINE to == IF call[t].deletes THEN "delete" ELSE "mode"
<1>2. call \in [Thread -> Call] /\ call[t] \in Call /\ current \in Address \cup {Null}
  BY DEF TypeOK
<1>3. a \in Address \cup {Null} /\ to \in {"delete", "mode"}
  BY <1>1, <1>2 DEF Call
<1>4. call' = [call EXCEPT ![t].pc = to, ![t].at = a]
  BY <1>1, <1>2 DEF Call
<1> HIDE DEF to
<1> QED
  BY <1>2, <1>3, <1>4, PointStep DEF Others

LEMMA FindStep ==
  ASSUME TypeOK, NEW t \in Thread, Find(t)
  PROVE  call' \in [Thread -> Call] /\ Others(t)
<1>1. PICK a \in FoundBy(t) : call' = [call EXCEPT ![t].pc = "mode", ![t].at = a]
  BY DEF Find
<1>2. a \in Address /\ call \in [Thread -> Call]
  BY <1>1 DEF FoundBy, Pooled, TypeOK
<1> QED
  BY <1>1, <1>2, PointStep DEF Others

\* The walk stays in the list.
LEMMA WalkStep ==
  ASSUME TypeOK, NEW t \in Thread, Walk(t)
  PROVE  /\ call' \in [Thread -> Call] /\ Others(t)
         /\ call'[t].pc \in {"delete", "unknown", "walk"}
<1> DEFINE i    == IndexOf(call[t].at)
           last == i = Len(list)
           hit  == Mine(t).name = call[t].name
           to   == IF hit THEN "delete" ELSE IF last THEN "unknown" ELSE "walk"
           at   == IF hit \/ last THEN call[t].at ELSE list[i + 1]
<1>1. /\ call[t].at \in Pooled
      /\ call' = [call EXCEPT ![t].pc = to, ![t].at = at]
  BY DEF Walk, Follows
<1>2. list \in Seq(Address) /\ call \in [Thread -> Call] /\ call[t].at \in Address
  BY <1>1 DEF TypeOK, Pooled
<1>3. i \in 1..Len(list) /\ Len(list) \in Nat
  BY <1>1, <1>2, IndexOfIn
<1>4. ~last => list[i + 1] \in Address
  BY <1>2, <1>3
<1>5. to \in {"delete", "unknown", "walk"} /\ at \in Address \cup {Null}
  BY <1>2, <1>4
<1> HIDE DEF to, at
<1> QED
  BY <1>1, <1>2, <1>5, PointStep DEF Others

LEMMA PrivateStep ==
  ASSUME TypeOK, NEW t \in Thread, Private(t)
  PROVE  /\ call' \in [Thread -> Call] /\ Others(t)
         /\ call[t].pc # "idle"
         /\ UNCHANGED <<list, file, current, opened, streams, dropped, undefined, clashed, ended>>
<1>1. call \in [Thread -> Call] /\ call[t] \in Call
  BY DEF TypeOK
<1>2. CASE ReadMode(t)
  <2>1. call' = [call EXCEPT ![t].pc = "handle", ![t].same = (Mine(t).mode = call[t].mode)]
    BY <1>2 DEF ReadMode
  <2>2. [call[t] EXCEPT !.pc = "handle", !.same = (Mine(t).mode = call[t].mode)] \in Call
    BY <1>1 DEF Call
  <2>3. call' \in [Thread -> Call] /\ Others(t)
    BY <1>1, <2>1, <2>2 DEF Others
  <2> QED
    BY <1>2, <2>3 DEF ReadMode, Follows
<1>3. CASE ReadHandle(t) \/ Use(t) \/ UseFails(t) \/ Decide(t) \/ FopenFails(t)
           \/ UseNothing(t) \/ FcloseNothing(t) \/ DeleteNothing(t)
  <2>1. \/ Goto(t, "use") \/ Goto(t, "open") \/ Goto(t, "close") \/ Goto(t, "fclose")
        \/ Return(t)
    BY <1>3 DEF ReadHandle, Use, UseFails, Decide, FopenFails, UseNothing, FcloseNothing,
                DeleteNothing
  <2>2. call' \in [Thread -> Call] /\ Others(t)
    BY <1>1, <2>1, CallStep DEF Others
  <2> QED
    BY <1>3, <2>2 DEF ReadHandle, Use, UseFails, Decide, FopenFails, UseNothing, FcloseNothing,
                      DeleteNothing, Follows
<1>4. CASE Compare(t) \/ Take(t) \/ Find(t) \/ Walk(t)
  <2>1. call' \in [Thread -> Call] /\ Others(t)
    BY <1>4, CompareStep, TakeStep, FindStep, WalkStep
  <2> QED
    BY <1>4, <2>1 DEF Compare, Take, Find, Walk, Follows
<1> QED
  BY <1>2, <1>3, <1>4 DEF Private

\* What the steps of t keep for the types.
LEMMA TypesStep ==
  ASSUME Types, NEW t \in Thread, call[t].pc # "idle" \/ ~ended,
         call' \in [Thread -> Call], Open' \subseteq Pooled', UNCHANGED ended,
         list' \in Seq(Address), file' \in [Address -> GribFile],
         current' \in Address \cup {Null}, current' = Null <=> list' = <<>>,
         opened' \in Nat, streams' \subseteq Stream,
         undefined' \in BOOLEAN, clashed' \in BOOLEAN
  PROVE  Types'
<1>1. ~ended
  BY DEF Types, Anchored, AllIdle
<1> QED
  BY <1>1 DEF Types, TypeOK, Anchored

\* The same for a step that leaves the files and the list alone.
LEMMA TypesKept ==
  ASSUME Types, NEW t \in Thread, call[t].pc # "idle" \/ ~ended,
         call' \in [Thread -> Call], UNCHANGED <<list, file, current, opened, ended>>,
         streams' \subseteq Stream, undefined' \in BOOLEAN, clashed' \in BOOLEAN
  PROVE  Types'
<1>1. Pooled' = Pooled /\ Open' = Open
  BY DEF Pooled, Open
<1> QED
  BY <1>1, TypesStep DEF Types, TypeOK, Anchored

\* Every step of a call is of one of these kinds.
LEMMA StepCases ==
  ASSUME NEW t \in Thread, Step(t)
  PROVE  \/ \E n \in Name, m \in Mode \cup {Null}, d \in BOOLEAN : Begin(t, n, m, d)
         \/ Private(t) \/ Insert(t) \/ CloseForMode(t) \/ Fopen(t) \/ Fclose(t)
         \/ DeleteFile(t) \/ DeleteUnknown(t) \/ FollowNothing(t)
<1>1. CASE \E u \in Uses : u[1] = t /\ Begin(t, u[2], u[3], FALSE)
  <2>1. PICK u \in Uses : Begin(t, u[2], u[3], FALSE)
    BY <1>1
  <2>2. u[2] \in Name /\ u[3] \in Mode
    BY PoolAssumption
  <2> QED
    BY <2>1, <2>2
<1>2. CASE \E u \in Deletes : u[1] = t /\ Begin(t, u[2], Null, TRUE)
  <2>1. PICK u \in Deletes : Begin(t, u[2], Null, TRUE)
    BY <1>2
  <2>2. u[2] \in Name
    BY PoolAssumption
  <2> QED
    BY <2>1, <2>2
<1> QED
  BY <1>1, <1>2 DEF Step, Private

\* What a call begins with.
Begun(n, m, deletes) ==
    [Idle EXCEPT !.deletes = deletes, !.name = n, !.mode = m, !.at = current,
                 !.pc = IF current = Null THEN "search" ELSE "compare"]

LEMMA BeginStep ==
  ASSUME Types, NEW t \in Thread, NEW n \in Name, NEW m \in Mode \cup {Null},
         NEW d \in BOOLEAN, Begin(t, n, m, d)
  PROVE  /\ Types' /\ Others(t) /\ call[t].pc = "idle" /\ call'[t].pc \in {"search", "compare"}
         /\ UNCHANGED <<list, file, current, opened, streams, dropped, abandoned, clashed, ended>>
<1> DEFINE new == Begun(n, m, d)
<1>1. current \in Address \cup {Null} /\ call \in [Thread -> Call]
  BY DEF Types, TypeOK
<1>2. new \in Call /\ new.pc \in {"search", "compare"}
  BY <1>1 DEF Begun, Idle, Call
<1>3. /\ call' = [call EXCEPT ![t] = new] /\ ~ended /\ call[t].pc = "idle"
      /\ UNCHANGED <<list, file, current, opened, streams, dropped, abandoned, undefined,
                     clashed, ended>>
  BY DEF Begin, Begun
<1> HIDE DEF new
<1>4. call' \in [Thread -> Call] /\ Others(t) /\ call'[t] = new
  BY <1>1, <1>2, <1>3 DEF Others
<1> QED
  BY <1>2, <1>3, <1>4, TypesKept DEF Types, TypeOK

LEMMA PrivateTypes ==
  ASSUME Types, NEW t \in Thread, Private(t)
  PROVE  Types' /\ UNCHANGED <<list, file, current, opened, ended>>
<1>1. /\ call' \in [Thread -> Call] /\ call[t].pc # "idle"
      /\ UNCHANGED <<list, file, current, opened, streams, undefined, clashed, ended>>
  BY PrivateStep DEF Types
<1> QED
  BY <1>1, TypesKept DEF Types, TypeOK

\* A pointer that is followed nowhere.
LEMMA FollowNothingStep ==
  ASSUME Types, NEW t \in Thread, FollowNothing(t)
  PROVE  /\ Types'
         /\ UNCHANGED <<list, file, current, opened, streams, call, dropped, abandoned,
                        clashed, ended>>
<1>1. /\ call[t].pc # "idle" /\ undefined' = TRUE
      /\ UNCHANGED <<list, file, current, opened, streams, call, dropped, abandoned,
                     clashed, ended>>
  BY DEF FollowNothing, Following
<1> QED
  BY <1>1, TypesKept DEF Types, TypeOK

LEMMA CloseForModeStep ==
  ASSUME Types, NEW t \in Thread, CloseForMode(t)
  PROVE  Types' /\ UNCHANGED <<list, file, current, opened, ended>>
<1>1. /\ Goto(t, "use") /\ call[t].pc = "open"
      /\ streams' \subseteq Stream /\ clashed' \in BOOLEAN
      /\ UNCHANGED <<list, file, current, opened, undefined, ended>>
  <2>1. call[t] \in Call
    BY DEF Types, TypeOK
  <2> QED
    BY <2>1 DEF CloseForMode, Follows, Types, TypeOK, Call
<1>2. call' \in [Thread -> Call]
  BY <1>1, CallStep DEF Types, TypeOK
<1> QED
  BY <1>1, <1>2, TypesKept DEF Types, TypeOK

\* One more file with a handle.
LEMMA FopenStep ==
  ASSUME Types, NEW t \in Thread, Fopen(t)
  PROVE  /\ Types' /\ UNCHANGED <<list, current, ended>>
         /\ \A b \in Address : file'[b].name = file[b].name
         /\ opened' = opened + 1
         /\ Cardinality(Open') = Cardinality(Open) + 1
<1> DEFINE a == call[t].at
<1>1. PICK h \in Stream \ streams :
         /\ streams' = streams \cup {h}
         /\ file' = [file EXCEPT ![a].handle = h, ![a].mode = call[t].mode]
  BY DEF Fopen
<1>2. /\ call[t].pc = "open" /\ Goto(t, "use") /\ opened' = opened + 1
      /\ UNCHANGED <<list, current, undefined, clashed, ended>> /\ file[a].handle = Null
      /\ a \in Pooled
  BY DEF Fopen, Follows, Mine
<1>3. a \in Pooled /\ a \in Address /\ call[t].mode \in Mode \cup {Null}
  <2>1. call[t] \in Call
    BY DEF Types, TypeOK
  <2> QED
    BY <1>2, <2>1 DEF Types, TypeOK, Pooled, Call
<1>4. call' \in [Thread -> Call]
  BY <1>2, CallStep DEF Types, TypeOK
<1>5. file' \in [Address -> GribFile]
  BY <1>1, <1>3, FileStep DEF Types, TypeOK
<1>6. /\ \A b \in Address : file'[b].name = file[b].name /\ (b # a => file'[b] = file[b])
      /\ file'[a].handle = h
  <2>1. file \in [Address -> GribFile]
    BY DEF Types, TypeOK
  <2> QED
    BY <1>1, <1>3, <2>1 DEF GribFile
<1>7. a \notin Open /\ Open' = Open \cup {a}
  BY <1>2, <1>3, <1>6, PoolAssumption DEF Open
<1>8. Cardinality(Open') = Cardinality(Open) + 1
  BY <1>3, <1>7, OneMore
<1>9. Pooled' = Pooled /\ Open' \subseteq Pooled
  BY <1>2, <1>3, <1>7 DEF Pooled, Types, Anchored
<1>10. /\ streams' \subseteq Stream /\ opened' \in Nat /\ list' \in Seq(Address)
       /\ current' \in Address \cup {Null} /\ (current' = Null <=> list' = <<>>)
       /\ undefined' \in BOOLEAN /\ clashed' \in BOOLEAN
  BY <1>1, <1>2 DEF Types, TypeOK
<1>11. Open' \subseteq Pooled' /\ call[t].pc # "idle"
  BY <1>2, <1>9
<1>12. Types'
  BY <1>2, <1>4, <1>5, <1>10, <1>11, TypesStep
<1> QED
  BY <1>2, <1>6, <1>8, <1>12

\* A handle given up.
LEMMA FcloseStep ==
  ASSUME Types, CountMatches, NEW t \in Thread, Fclose(t)
  PROVE  /\ Types' /\ CountMatches' /\ UNCHANGED <<list, current, ended>>
         /\ \A b \in Address : file'[b].name = file[b].name
<1>1. PICK a \in FoundBy(t) :
         /\ streams' = streams \ {file[a].handle}
         /\ file' = [file EXCEPT ![a].handle = Null]
         /\ opened' = CountDown(a)
  BY DEF Fclose
<1>2. /\ call[t].pc = "fclose" /\ Return(t)
      /\ UNCHANGED <<list, current, undefined, clashed, ended>>
  BY DEF Fclose
<1>3. a \in Pooled /\ a \in Address
  BY DEF FoundBy, Pooled, Types, TypeOK
<1>4. call' \in [Thread -> Call]
  BY <1>2, CallStep DEF Types, TypeOK
<1>5. file' \in [Address -> GribFile]
  BY <1>1, <1>3, FileStep DEF Types, TypeOK
<1>6. /\ \A b \in Address : file'[b].name = file[b].name /\ (b # a => file'[b] = file[b])
      /\ file'[a].handle = Null
  <2>1. file \in [Address -> GribFile]
    BY DEF Types, TypeOK
  <2> QED
    BY <1>1, <1>3, <2>1 DEF GribFile
<1>7. Open' = Open \ {a}
  BY <1>6, <1>3 DEF Open
<1>8. opened' \in Nat /\ opened' = Cardinality(Open')
  <2>1. ~ended
    BY <1>2 DEF Types, Anchored, AllIdle
  <2>2. opened \in Nat /\ opened = Cardinality(Open)
    BY <2>1 DEF CountMatches, Types, TypeOK
  <2> QED
    BY <1>1, <1>3, <1>7, <2>2, CountedDown
<1>9. Pooled' = Pooled /\ Open' \subseteq Pooled'
  BY <1>2, <1>7 DEF Pooled, Types, Anchored
<1>10. streams' \subseteq Stream
  BY <1>1 DEF Types, TypeOK
<1>11. Types'
  BY <1>2, <1>4, <1>5, <1>8, <1>9, <1>10, TypesStep DEF Types, TypeOK, Anchored
<1> QED
  BY <1>2, <1>6, <1>8, <1>11 DEF CountMatches

\* A new entry at the end of the list.
LEMMA InsertStep ==
  ASSUME Types, NEW t \in Thread, Insert(t)
  PROVE  /\ Types' /\ UNCHANGED <<opened, ended>> /\ Open' = Open
         /\ \E a \in Address \ Pooled :
              /\ list' = Append(list, a) /\ current' = a
              /\ file'[a].name = call[t].name
              /\ \A b \in Address : b # a => file'[b] = file[b]
<1>1. PICK a \in Address \ Pooled :
         /\ list' = Append(list, a)
         /\ file' = [file EXCEPT ![a] = [Free EXCEPT !.name = call[t].name]]
         /\ current' = a
         /\ call' = [call EXCEPT ![t].pc = "mode", ![t].at = a]
  BY DEF Insert
<1>2. call[t].pc = "search" /\ UNCHANGED <<opened, streams, undefined, clashed, ended>>
  BY DEF Insert
<1>3. call[t] \in Call
  BY DEF Types, TypeOK
<1>5. call' \in [Thread -> Call]
  BY <1>1, PointStep DEF Types, TypeOK
<1>6. [Free EXCEPT !.name = call[t].name] \in GribFile
  BY <1>3 DEF Free, GribFile, Call
<1>7. /\ file' \in [Address -> GribFile]
      /\ file'[a].name = call[t].name /\ file'[a].handle = Null
      /\ \A b \in Address : b # a => file'[b] = file[b]
  BY <1>1, <1>6 DEF Types, TypeOK, Free
<1>8. a \notin Open
  BY <1>1 DEF Types, Anchored
<1>9. Open' = Open
  BY <1>7, <1>8 DEF Open
<1>10. list' \in Seq(Address) /\ Pooled' = Pooled \cup {a}
  <2>1. list \in Seq(Address)
    BY DEF Types, TypeOK
  <2>2. list' \in Seq(Address) /\ Len(list') = Len(list) + 1 /\ list'[Len(list) + 1] = a
        /\ \A i \in 1..Len(list) : list'[i] = list[i]
    BY <1>1, <2>1
  <2>3. DOMAIN list = 1..Len(list) /\ DOMAIN list' = 1..(Len(list) + 1) /\ Len(list) \in Nat
    BY <2>1, <2>2
  <2>4. Pooled' \subseteq Pooled \cup {a}
    <3> SUFFICES ASSUME NEW i \in DOMAIN list' PROVE list'[i] \in Pooled \cup {a}
      BY DEF Pooled
    <3>1. i \in 1..Len(list) \/ i = Len(list) + 1
      BY <2>3
    <3> QED
      BY <2>2, <2>3, <3>1 DEF Pooled
  <2>5. Pooled \cup {a} \subseteq Pooled'
    <3>1. Len(list) + 1 \in DOMAIN list' /\ \A i \in DOMAIN list : i \in DOMAIN list'
      BY <2>3
    <3> QED
      BY <2>2, <2>3, <3>1 DEF Pooled
  <2> QED
    BY <2>2, <2>4, <2>5
<1>11. /\ Open' \subseteq Pooled' /\ current' \in Address \cup {Null}
       /\ current' # Null /\ list' # <<>>
  <2>1. Open' \subseteq Pooled' /\ current' \in Address \cup {Null} /\ current' # Null
    BY <1>1, <1>9, <1>10, PoolAssumption DEF Types, Anchored
  <2>2. list' # <<>>
    BY <1>10 DEF Pooled
  <2> QED
    BY <2>1, <2>2
<1>12. /\ opened' \in Nat /\ streams' \subseteq Stream
       /\ undefined' \in BOOLEAN /\ clashed' \in BOOLEAN
  BY <1>2 DEF Types, TypeOK
<1>13. Types'
  BY <1>2, <1>5, <1>7, <1>10, <1>11, <1>12, TypesStep
<1> QED
  BY <1>1, <1>2, <1>7, <1>9, <1>13

\* A file is taken out of the list, whoever points to it.
LEMMA DeleteStep ==
  ASSUME Types, CountMatches, NEW t \in Thread, DeleteFile(t), NEW a, a = call[t].at
  PROVE  /\ Types' /\ CountMatches' /\ a \in Pooled /\ a \in Address
         /\ call[t].pc = "delete" /\ Return(t) /\ ~ended
         /\ list' = Without(a) /\ (current' # Null => current' \in Pooled')
         /\ file'[a].handle = Null /\ \A b \in Address : b # a => file'[b] = file[b]
<1>1. /\ call[t].pc = "delete" /\ a \in Pooled /\ list' = Without(a) /\ current' = CurrentAfter(a)
      /\ opened' = CountDown(a) /\ file' = [file EXCEPT ![a] = Free] /\ Return(t)
      /\ UNCHANGED <<streams, undefined, clashed, ended>>
  BY DEF DeleteFile, Follows
<1>2. list \in Seq(Address) /\ file \in [Address -> GribFile] /\ a \in Address /\ ~ended
  BY <1>1 DEF Types, TypeOK, Anchored, AllIdle, Pooled
<1>3. Free \in GribFile
  BY DEF Free, GribFile
<1>4. /\ file' \in [Address -> GribFile] /\ file'[a].handle = Null
      /\ \A b \in Address : b # a => file'[b] = file[b]
  BY <1>1, <1>2, <1>3 DEF Free
<1>5. Open' = Open \ {a}
  BY <1>4 DEF Open
<1>6. list' \in Seq(Address) /\ Pooled' \subseteq Address
  <2>1. list' \in Seq(Address)
    BY <1>1, <1>2, WithoutType
  <2> QED
    BY <2>1 DEF Pooled
<1>7. Pooled \ {a} \subseteq Pooled'
  <2> SUFFICES ASSUME NEW b \in Pooled, b # a PROVE b \in Pooled'
    OBVIOUS
  <2>1. PICK i \in DOMAIN Without(a) : Without(a)[i] = b
    BY <1>1, <1>2, WithoutKeeps
  <2> QED
    BY <1>1, <2>1 DEF Pooled
<1>8. current' = HeadOr(list')
  BY <1>1 DEF CurrentAfter
<1>9. current' \in Pooled' \cup {Null} /\ (current' = Null <=> list' = <<>>)
  BY <1>6, <1>8, FirstOfList
<1>10. opened' \in Nat /\ opened' = Cardinality(Open')
  <2>1. opened \in Nat /\ opened = Cardinality(Open)
    BY <1>2 DEF CountMatches, Types, TypeOK
  <2> QED
    BY <1>1, <1>2, <1>5, <2>1, CountedDown
<1>11. Open' \subseteq Pooled'
  BY <1>5, <1>7 DEF Types, Anchored
<1>12. call' \in [Thread -> Call]
  BY <1>1, CallStep DEF Types, TypeOK
<1>13. current' \in Address \cup {Null}
  BY <1>6, <1>9
<1>14. streams' \subseteq Stream /\ undefined' \in BOOLEAN /\ clashed' \in BOOLEAN
  BY <1>1 DEF Types, TypeOK
<1>15. Types'
  BY <1>1, <1>4, <1>6, <1>9, <1>10, <1>11, <1>12, <1>13, <1>14, TypesStep
<1> QED
  BY <1>1, <1>2, <1>4, <1>9, <1>10, <1>15 DEF CountMatches

\* A file that is not in the list is deleted: current is the first again.
LEMMA DeleteUnknownStep ==
  ASSUME Types, NEW t \in Thread, DeleteUnknown(t)
  PROVE  /\ Types' /\ Return(t) /\ (current' # Null => current' \in Pooled')
         /\ UNCHANGED <<list, file, opened, streams, dropped, abandoned, clashed, ended>>
         /\ call[t].pc = "unknown"
<1>1. /\ call[t].pc = "unknown" /\ current' = HeadOr(list') /\ Return(t)
      /\ UNCHANGED <<list, file, opened, streams, dropped, abandoned, undefined, clashed, ended>>
  BY DEF DeleteUnknown
<1>2. list' \in Seq(Address) /\ Pooled' = Pooled /\ Open' = Open /\ Pooled \subseteq Address
  BY <1>1 DEF Types, TypeOK, Pooled, Open
<1>3. current' \in Pooled' \cup {Null} /\ (current' = Null <=> list' = <<>>)
  BY <1>1, <1>2, FirstOfList
<1>4. call' \in [Thread -> Call]
  BY <1>1, CallStep DEF Types, TypeOK
<1>5. current' \in Address \cup {Null}
  BY <1>2, <1>3
<1>6. Types'
  BY <1>1, <1>2, <1>3, <1>4, <1>5, TypesStep DEF Types, TypeOK, Anchored
<1> QED
  BY <1>1, <1>3, <1>6

LEMMA CloseAllStep ==
  ASSUME Types, CloseAll
  PROVE  /\ Types' /\ CountMatches' /\ UNCHANGED <<list, current>>
         /\ \A b \in Address : file'[b].name = file[b].name
<1>1. /\ AllIdle /\ ended' = TRUE /\ UNCHANGED <<list, current, opened, call, undefined, clashed>>
      /\ streams' \subseteq streams
      /\ file' = [b \in Address |-> IF b \in Closed THEN [file[b] EXCEPT !.handle = Null] ELSE file[b]]
  BY DEF CloseAll
<1>2. ASSUME NEW b \in Address
      PROVE  /\ file'[b] \in GribFile /\ file'[b].name = file[b].name
             /\ file'[b].handle # Null => file[b].handle # Null
  <2>1. file[b] \in GribFile
    BY DEF Types, TypeOK
  <2>2. [file[b] EXCEPT !.handle = Null] \in GribFile /\ [file[b] EXCEPT !.handle = Null].name = file[b].name
        /\ [file[b] EXCEPT !.handle = Null].handle = Null
    BY <2>1 DEF GribFile
  <2>3. file'[b] = IF b \in Closed THEN [file[b] EXCEPT !.handle = Null] ELSE file[b]
    BY <1>1
  <2> QED
    BY <2>1, <2>2, <2>3
<1>3. file' \in [Address -> GribFile]
  BY <1>1, <1>2
<1>4. Pooled' = Pooled /\ Open' \subseteq Open
  BY <1>1, <1>2 DEF Pooled, Open
<1> QED
  BY <1>1, <1>2, <1>3, <1>4 DEF Types, TypeOK, Anchored, CountMatches, AllIdle

-----------------------------------------------------------------------------
(* One entry per name *)

\* It only depends on the list, the names in it and current.
LEMMA SameNames ==
  ASSUME OneEntryPerName, list \in Seq(Address), UNCHANGED list,
         UNCHANGED current \/ (current' # Null => current' \in Pooled'),
         \A b \in Address : file'[b].name = file[b].name
  PROVE  OneEntryPerName'
<1>1. \A i \in DOMAIN list : list[i] \in Address
  OBVIOUS
<1>2. Pooled' = Pooled
  BY DEF Pooled
<1> QED
  BY <1>1, <1>2 DEF OneEntryPerName

\* The new entry is for a name that no entry had.
LEMMA InsertNames ==
  ASSUME Types, OneEntryPerName, NEW t \in Thread, Insert(t)
  PROVE  OneEntryPerName'
<1>1. PICK a \in Address \ Pooled :
         /\ list' = Append(list, a) /\ current' = a
         /\ file'[a].name = call[t].name
         /\ \A b \in Address : b # a => file'[b] = file[b]
  BY InsertStep
<1>2. FoundBy(t) = {}
  BY DEF Insert
<1>3. /\ list \in Seq(Address) /\ Len(list) \in Nat
      /\ DOMAIN list = 1..Len(list) /\ DOMAIN list' = 1..(Len(list) + 1)
      /\ list'[Len(list) + 1] = a /\ \A i \in 1..Len(list) : list'[i] = list[i]
  <2>1. list \in Seq(Address)
    BY DEF Types, TypeOK
  <2> QED
    BY <1>1, <2>1
<1>4. \A i \in 1..Len(list) :
         /\ list[i] \in Pooled /\ list[i] \in Address /\ list[i] # a
         /\ file'[list'[i]].name = file[list[i]].name
         /\ file[list[i]].name # call[t].name
  <2> SUFFICES ASSUME NEW i \in 1..Len(list)
               PROVE  /\ list[i] \in Pooled /\ list[i] \in Address /\ list[i] # a
                      /\ file'[list'[i]].name = file[list[i]].name
                      /\ file[list[i]].name # call[t].name
    OBVIOUS
  <2>1. list[i] \in Pooled /\ list[i] \in Address /\ list'[i] = list[i]
    BY <1>3 DEF Pooled
  <2>2. list[i] # a
    BY <2>1
  <2> QED
    BY <1>1, <1>2, <2>1, <2>2 DEF FoundBy
<1>5. ASSUME NEW i \in DOMAIN list', NEW j \in DOMAIN list',
             file'[list'[i]].name = file'[list'[j]].name
      PROVE  i = j
  <2>1. (i \in 1..Len(list) \/ i = Len(list) + 1) /\ (j \in 1..Len(list) \/ j = Len(list) + 1)
    BY <1>3
  <2>2. CASE i \in 1..Len(list) /\ j \in 1..Len(list)
    BY <1>3, <1>4, <1>5, <2>2 DEF OneEntryPerName
  <2>3. CASE i = Len(list) + 1 /\ j \in 1..Len(list)
    BY <1>1, <1>3, <1>4, <1>5, <2>3
  <2>4. CASE i \in 1..Len(list) /\ j = Len(list) + 1
    BY <1>1, <1>3, <1>4, <1>5, <2>4
  <2> QED
    BY <2>1, <2>2, <2>3, <2>4
<1>6. current' \in Pooled'
  <2>1. Len(list) + 1 \in DOMAIN list'
    BY <1>3
  <2> QED
    BY <1>1, <1>3, <2>1 DEF Pooled
<1> QED
  BY <1>5, <1>6 DEF OneEntryPerName

\* What is left of the list has the names it had.
LEMMA DeleteNames ==
  ASSUME Types, CountMatches, OneEntryPerName, NEW t \in Thread, DeleteFile(t)
  PROVE  OneEntryPerName'
<1> DEFINE a == call[t].at
<1>1. /\ a \in Pooled /\ list' = Without(a)
      /\ current' # Null => current' \in Pooled'
      /\ \A b \in Address : b # a => file'[b] = file[b]
  BY DeleteStep
<1> HIDE DEF a
<1>2. list \in Seq(Address) /\ IndexOf(a) \in DOMAIN list /\ list[IndexOf(a)] = a
  BY <1>1, IndexOfIn DEF Types, TypeOK
<1>3. ASSUME NEW i \in DOMAIN list'
      PROVE  /\ Skip(a, i) \in DOMAIN list
             /\ file'[list'[i]].name = file[list[Skip(a, i)]].name
  <2>1. Skip(a, i) \in DOMAIN list \ {IndexOf(a)} /\ list'[i] = list[Skip(a, i)]
    BY <1>1, <1>2, WithoutElement
  <2>2. list'[i] \in Address
    BY <1>2, <2>1
  <2>3. list'[i] # a
    BY <1>2, <2>1 DEF OneEntryPerName
  <2> QED
    BY <1>1, <2>1, <2>2, <2>3
<1>4. ASSUME NEW i \in DOMAIN list', NEW j \in DOMAIN list', Skip(a, i) = Skip(a, j)
      PROVE  i = j
  <2>1. i \in Int /\ j \in Int /\ IndexOf(a) \in Int
    <3>1. DOMAIN list' = 1..(Len(list) - 1) /\ DOMAIN list = 1..Len(list)
      BY <1>1, <1>2, WithoutType
    <3> QED
      BY <1>2, <3>1
  <2> QED
    BY <1>4, <2>1 DEF Skip
<1> QED
  BY <1>1, <1>3, <1>4 DEF OneEntryPerName

-----------------------------------------------------------------------------
(* The invariant *)

Inv == Types /\ OneEntryPerName /\ CountMatches

LEMMA InvInit == Init => Inv
<1> SUFFICES ASSUME Init PROVE Inv
  OBVIOUS
<1>1. Idle \in Call /\ Free \in GribFile
  BY DEF Idle, Free, Call, GribFile
<1>2. list = <<>> /\ DOMAIN list = {} /\ Pooled = {} /\ list \in Seq(Address)
  BY DEF Init, Pooled
<1>3. Open = {} /\ Cardinality(Open) = 0
  <2>1. Open = {}
    BY DEF Init, Open, Free
  <2> QED
    BY <2>1, FS_EmptySet
<1>4. TypeOK
  BY <1>1, <1>2 DEF Init, TypeOK
<1>5. Anchored
  BY <1>3 DEF Init, Anchored
<1>6. OneEntryPerName
  BY <1>2 DEF Init, OneEntryPerName
<1>7. CountMatches
  BY <1>3 DEF Init, CountMatches
<1> QED
  BY <1>4, <1>5, <1>6, <1>7 DEF Inv, Types

\* A step that leaves the files and their number alone.
LEMMA CountKept ==
  ASSUME Inv, UNCHANGED <<list, file, current, opened, ended>>, Types'
  PROVE  Inv'
<1>1. Open' = Open
  BY DEF Open
<1>2. OneEntryPerName'
  BY SameNames DEF Inv, Types, TypeOK
<1>3. CountMatches'
  BY <1>1 DEF Inv, CountMatches
<1> QED
  BY <1>2, <1>3 DEF Inv

LEMMA StepInv ==
  ASSUME Inv, NEW t \in Thread, Step(t)
  PROVE  Inv'
<1>1. Types /\ OneEntryPerName /\ CountMatches /\ list \in Seq(Address)
  BY DEF Inv, Types, TypeOK
<1>2. CASE \E n \in Name, m \in Mode \cup {Null}, d \in BOOLEAN : Begin(t, n, m, d)
  BY <1>1, <1>2, BeginStep, CountKept
<1>3. CASE Private(t)
  BY <1>1, <1>3, PrivateTypes, CountKept
<1>4. CASE CloseForMode(t)
  BY <1>1, <1>4, CloseForModeStep, CountKept
<1>5. CASE Insert(t)
  <2>1. Types' /\ UNCHANGED <<opened, ended>> /\ Open' = Open
    BY <1>1, <1>5, InsertStep
  <2>2. OneEntryPerName'
    BY <1>1, <1>5, InsertNames
  <2> QED
    BY <1>1, <2>1, <2>2 DEF Inv, CountMatches
<1>6. CASE Fopen(t)
  <2>1. /\ Types' /\ UNCHANGED <<list, current, ended>>
        /\ \A b \in Address : file'[b].name = file[b].name
        /\ opened' = opened + 1
        /\ Cardinality(Open') = Cardinality(Open) + 1
    BY <1>1, <1>6, FopenStep
  <2>2. OneEntryPerName'
    BY <1>1, <2>1, SameNames
  <2>3. CountMatches'
    BY <1>1, <2>1 DEF CountMatches
  <2> QED
    BY <2>1, <2>2, <2>3 DEF Inv
<1>7. CASE Fclose(t)
  <2>1. /\ Types' /\ CountMatches' /\ UNCHANGED <<list, current, ended>>
        /\ \A b \in Address : file'[b].name = file[b].name
    BY <1>1, <1>7, FcloseStep
  <2>2. OneEntryPerName'
    BY <1>1, <2>1, SameNames
  <2> QED
    BY <2>1, <2>2 DEF Inv
<1>8. CASE DeleteFile(t)
  BY <1>1, <1>8, DeleteStep, DeleteNames DEF Inv
<1>9. CASE DeleteUnknown(t)
  <2>1. /\ Types' /\ (current' # Null => current' \in Pooled')
        /\ UNCHANGED <<list, file, opened, ended>>
    BY <1>1, <1>9, DeleteUnknownStep
  <2>2. OneEntryPerName'
    BY <1>1, <2>1, SameNames
  <2>3. Open' = Open
    BY <2>1 DEF Open
  <2> QED
    BY <1>1, <2>1, <2>2, <2>3 DEF Inv, CountMatches
<1>10. CASE FollowNothing(t)
  BY <1>1, <1>10, FollowNothingStep, CountKept
<1> QED
  BY <1>2, <1>3, <1>4, <1>5, <1>6, <1>7, <1>8, <1>9, <1>10, StepCases

LEMMA InvNext == Inv /\ [Next]_vars => Inv'
<1> SUFFICES ASSUME Inv, [Next]_vars PROVE Inv'
  OBVIOUS
<1>1. ASSUME NEW t \in Thread, Step(t) PROVE Inv'
  BY <1>1, StepInv
<1>3. ASSUME CloseAll PROVE Inv'
  <2>1. /\ Types' /\ CountMatches' /\ UNCHANGED <<list, current>>
        /\ \A b \in Address : file'[b].name = file[b].name
    BY <1>3, CloseAllStep DEF Inv
  <2>2. OneEntryPerName'
    BY <2>1, SameNames DEF Inv, Types, TypeOK
  <2> QED
    BY <2>1, <2>2 DEF Inv
<1>4. ASSUME UNCHANGED vars PROVE Inv'
  <2>1. UNCHANGED <<list, file, current, opened, streams, call, undefined, clashed, ended>>
    BY <1>4 DEF vars
  <2>2. Pooled' = Pooled /\ Open' = Open
    BY <2>1 DEF Pooled, Open
  <2>3. Types'
    BY <2>1, <2>2 DEF Inv, Types, TypeOK, Anchored, AllIdle
  <2> QED
    BY <2>1, <2>3, CountKept
<1> QED
  BY <1>1, <1>3, <1>4 DEF Next

\* The types hold, names are in the list once, and the counter is the number of
\* open files.
THEOREM Invariance == Spec => []Inv
  BY InvInit, InvNext, PTL DEF Spec

(* The pool keeps its types, and there is a current file exactly as long as the
   list has one: a thread that finds no current file is right to search the
   list, or to make a new entry. *)
THEOREM TypeCorrect == Spec => []TypeOK
<1>1. Inv => TypeOK
  BY DEF Inv, Types
<1> QED
  BY <1>1, Invariance, PTL

(* However many threads open and delete the same name, the pool has one entry
   for it: the search and the insertion are under one lock. *)
THEOREM OneEntryCorrect == Spec => []OneEntryPerName
<1>1. Inv => OneEntryPerName
  BY DEF Inv
<1> QED
  BY <1>1, Invariance, PTL

(* number_of_opened_files is the number of files with a handle at every
   interleaving of opens, closes and deletions, though it is read without the
   lock. *)
THEOREM CountCorrect == Spec => []CountMatches
<1>1. Inv => CountMatches
  BY DEF Inv
<1> QED
  BY <1>1, Invariance, PTL

-----------------------------------------------------------------------------
(* Who owns the open FILE pointers

   Every open FILE* is the handle of a file or was dropped by a deletion, and
   until an open closes a file because of its mode every handle is an open FILE*
   and that of one file only. Owned holds after such a clash too, and is what
   close_all needs: it closes the handles of the list. *)

Owned == \A s \in streams : s \in dropped \/ \E a \in Open : file[a].handle = s

Distinct == \A a, b \in Open : file[a].handle = file[b].handle => a = b

Streams ==
    /\ Owned
    /\ ~clashed => HandleIsOpen /\ Distinct
    /\ NothingLeftOpen

-----------------------------------------------------------------------------
(* Steps of a thread *)

\* Streams depends on the handles alone, not on the list or on the calls.
LEMMA SameStreams ==
  ASSUME Streams, UNCHANGED <<streams, dropped, clashed, ended>>,
         \A b \in Address : file'[b].handle = file[b].handle
  PROVE  Streams'
<1>1. Open' = Open
  BY DEF Open
<1>2. \A b \in Open : b \in Address
  BY DEF Open
<1>3. Owned' /\ NothingLeftOpen'
  BY <1>1, <1>2 DEF Streams, Owned, NothingLeftOpen
<1>4. ~clashed' => HandleIsOpen' /\ Distinct'
  BY <1>1, <1>2 DEF Streams, HandleIsOpen, Distinct
<1> QED
  BY <1>3, <1>4 DEF Streams

\* A file closed for its mode: what is still open has its owner.
LEMMA CloseForModeStreams ==
  ASSUME Types, Streams, NEW t \in Thread, CloseForMode(t)
  PROVE  Streams'
<1>1. /\ streams' = IF call[t].same THEN streams ELSE streams \ {Mine(t).handle}
      /\ clashed' = (clashed \/ ~call[t].same)
      /\ UNCHANGED <<file, dropped, ended>>
  BY DEF CloseForMode
<1>2. call[t].same \in BOOLEAN /\ clashed \in BOOLEAN
  BY DEF Types, TypeOK, Call
<1>3. Open' = Open /\ streams' \subseteq streams
  BY <1>1 DEF Open
<1>4. Owned' /\ NothingLeftOpen'
  BY <1>1, <1>3 DEF Streams, Owned, NothingLeftOpen
<1>5. CASE call[t].same
  BY <1>1, <1>2, <1>5, SameStreams
<1>6. CASE ~call[t].same
  BY <1>1, <1>4, <1>6 DEF Streams
<1> QED
  BY <1>2, <1>5, <1>6

\* The new FILE* is that of no file.
LEMMA FopenStreams ==
  ASSUME Types, Streams, NEW t \in Thread, Fopen(t)
  PROVE  Streams'
<1> DEFINE a == call[t].at
<1>1. PICK h \in Stream \ streams :
         /\ streams' = streams \cup {h}
         /\ file' = [file EXCEPT ![a].handle = h, ![a].mode = call[t].mode]
  BY DEF Fopen
<1>2. /\ call[t].pc = "open" /\ file[a].handle = Null
      /\ UNCHANGED <<dropped, clashed, ended>> /\ ~ended /\ a \in Pooled
  BY DEF Fopen, Follows, Mine, Types, Anchored, AllIdle
<1>3. a \in Address
  BY <1>2 DEF Types, TypeOK, Pooled
<1>4. /\ \A b \in Address : b # a => file'[b] = file[b]
      /\ file'[a].handle = h
  <2>1. file \in [Address -> GribFile]
    BY DEF Types, TypeOK
  <2> QED
    BY <1>1, <1>3, <2>1 DEF GribFile
<1>5. a \notin Open /\ Open' = Open \cup {a} /\ Open \subseteq Address
  BY <1>2, <1>3, <1>4, PoolAssumption DEF Open
<1>6. \A b \in Open : file'[b].handle = file[b].handle
  BY <1>4, <1>5
<1>7. Owned'
  <2> SUFFICES ASSUME NEW s \in streams', s \notin dropped'
               PROVE  \E b \in Open' : file'[b].handle = s
    BY DEF Owned
  <2>1. CASE s = h
    BY <1>4, <1>5, <2>1
  <2>2. CASE s # h
    <3>1. PICK b \in Open : file[b].handle = s
      BY <1>1, <1>2, <2>2 DEF Streams, Owned
    <3> QED
      BY <1>5, <1>6, <3>1
  <2> QED
    BY <2>1, <2>2
<1>8. ASSUME ~clashed' PROVE HandleIsOpen' /\ Distinct'
  <2>1. HandleIsOpen /\ Distinct
    BY <1>2, <1>8 DEF Streams
  <2>2. ASSUME NEW b \in Open' PROVE file'[b].handle \in streams'
    <3>1. CASE b = a
      BY <1>1, <1>4, <3>1
    <3>2. CASE b \in Open
      <4>1. file'[b].handle = file[b].handle /\ file[b].handle \in streams
        BY <1>6, <2>1, <3>2 DEF HandleIsOpen
      <4> QED
        BY <1>1, <4>1
    <3> QED
      BY <1>5, <2>2, <3>1, <3>2
  <2>3. \A b \in Open : file[b].handle # h
    BY <1>1, <2>1 DEF HandleIsOpen
  <2>4. Distinct'
    BY <1>4, <1>5, <1>6, <2>1, <2>3 DEF Distinct
  <2> QED
    BY <2>2, <2>4 DEF HandleIsOpen
<1> QED
  BY <1>2, <1>7, <1>8 DEF Streams, NothingLeftOpen

\* One file gives up its handle, and the FILE* is closed or was dropped.
LEMMA GivenUp ==
  ASSUME Streams, ~ended, UNCHANGED <<clashed, ended>>, NEW a \in Address,
         \A b \in Address : b # a => file'[b] = file[b],
         Open' = Open \ {a}, dropped \subseteq dropped',
         streams' \subseteq streams,
         file[a].handle \notin streams' \/ file[a].handle \in dropped',
         streams \ {file[a].handle} \subseteq streams'
  PROVE  Streams'
<1>1. \A b \in Open \ {a} : b \in Address /\ file'[b] = file[b]
  BY DEF Open
<1>2. Owned'
  <2> SUFFICES ASSUME NEW s \in streams', s \notin dropped'
               PROVE  \E b \in Open' : file'[b].handle = s
    BY DEF Owned
  <2>1. PICK b \in Open : file[b].handle = s
    BY DEF Streams, Owned
  <2>2. b # a
    BY <2>1
  <2> QED
    BY <1>1, <2>1, <2>2
<1>3. ASSUME ~clashed' PROVE HandleIsOpen' /\ Distinct'
  <2>1. HandleIsOpen /\ Distinct
    BY <1>3 DEF Streams
  <2>2. Distinct'
    BY <1>1, <2>1 DEF Distinct
  <2>3. ASSUME NEW b \in Open' PROVE file'[b].handle \in streams'
    <3>1. b \in Open /\ b # a /\ file'[b] = file[b]
      BY <1>1, <2>3
    <3>2. CASE a \in Open
      BY <2>1, <3>1, <3>2 DEF HandleIsOpen, Distinct
    <3>3. CASE a \notin Open
      <4>1. file[a].handle # file[b].handle
        BY <3>1, <3>3 DEF Open
      <4> QED
        BY <2>1, <3>1, <4>1 DEF HandleIsOpen
    <3> QED
      BY <3>2, <3>3
  <2> QED
    BY <2>2, <2>3 DEF HandleIsOpen
<1> QED
  BY <1>2, <1>3 DEF Streams, NothingLeftOpen

\* fclose clears the handle of the file that has the name.
LEMMA FcloseStreams ==
  ASSUME Types, Streams, NEW t \in Thread, Fclose(t)
  PROVE  Streams'
<1>1. PICK a \in FoundBy(t) :
         /\ streams' = streams \ {file[a].handle}
         /\ file' = [file EXCEPT ![a].handle = Null]
  BY DEF Fclose
<1>2. ~ended /\ UNCHANGED <<dropped, clashed, ended>>
  BY DEF Fclose, Types, Anchored, AllIdle
<1>3. a \in Address /\ file \in [Address -> GribFile]
  BY DEF FoundBy, Pooled, Types, TypeOK
<1>4. (\A b \in Address : b # a => file'[b] = file[b]) /\ file'[a].handle = Null
  BY <1>1, <1>3 DEF GribFile
<1>5. Open' = Open \ {a}
  BY <1>3, <1>4 DEF Open
<1> QED
  BY <1>1, <1>2, <1>3, <1>4, <1>5, GivenUp

-----------------------------------------------------------------------------
(* Deletion and close_all *)

LEMMA DeleteStreams ==
  ASSUME Types, Streams, NEW t \in Thread, DeleteFile(t)
  PROVE  Streams'
<1> DEFINE a == call[t].at
<1>1. /\ ~ended /\ a \in Pooled
      /\ dropped' = dropped \cup ({file[a].handle} \ {Null})
      /\ file' = [file EXCEPT ![a] = Free]
      /\ UNCHANGED <<streams, clashed, ended>>
  BY DEF DeleteFile, Follows, Types, Anchored, AllIdle
<1>2. file \in [Address -> GribFile] /\ streams \subseteq Stream /\ a \in Address
  BY <1>1 DEF Types, TypeOK, Pooled
<1> HIDE DEF a
<1>3. (\A b \in Address : b # a => file'[b] = file[b]) /\ file'[a].handle = Null
  BY <1>1, <1>2 DEF Free
<1>4. Open' = Open \ {a}
  BY <1>3 DEF Open
<1>5. file[a].handle \notin streams' \/ file[a].handle \in dropped'
  BY <1>1, <1>2, PoolAssumption
<1>6. dropped \subseteq dropped' /\ streams \ {file[a].handle} \subseteq streams'
  BY <1>1
<1> QED
  BY <1>1, <1>2, <1>3, <1>4, <1>5, <1>6, GivenUp

\* Every owner is in the list, so what close_all leaves has none.
LEMMA CloseAllStreams ==
  ASSUME Types, Streams, CloseAll
  PROVE  Streams' /\ Open' = {}
<1>1. /\ streams' = streams \ {file[b].handle : b \in Closed}
      /\ file' = [b \in Address |-> IF b \in Closed THEN [file[b] EXCEPT !.handle = Null] ELSE file[b]]
      /\ UNCHANGED <<dropped, clashed>>
  BY DEF CloseAll
<1>2. \A b \in Address : b \in Closed => file'[b].handle = Null
  <2> SUFFICES ASSUME NEW b \in Address, b \in Closed PROVE file'[b].handle = Null
    OBVIOUS
  <2>1. file[b] \in GribFile
    BY DEF Types, TypeOK
  <2> QED
    BY <1>1, <2>1 DEF GribFile
<1>3. Open' = {}
  <2> SUFFICES ASSUME NEW b \in Address, file'[b].handle # Null PROVE FALSE
    BY DEF Open
  <2>1. b \notin Closed
    BY <1>2
  <2>2. file'[b] = file[b]
    BY <1>1, <2>1
  <2>3. b \in Open
    BY <2>2 DEF Open
  <2> QED
    BY <2>1, <2>3 DEF Types, Anchored, Closed
<1>4. streams' \subseteq dropped'
  <2> SUFFICES ASSUME NEW s \in streams', s \notin dropped PROVE FALSE
    BY <1>1
  <2>1. PICK b \in Open : file[b].handle = s
    BY <1>1 DEF Streams, Owned
  <2>2. b \in Closed
    BY DEF Types, Anchored, Closed
  <2> QED
    BY <1>1, <2>1, <2>2
<1>5. Owned' /\ NothingLeftOpen'
  BY <1>4 DEF Owned, NothingLeftOpen
<1>6. HandleIsOpen' /\ Distinct'
  BY <1>3 DEF HandleIsOpen, Distinct
<1> QED
  BY <1>3, <1>5, <1>6 DEF Streams

-----------------------------------------------------------------------------
(* The first part of the invariant *)

LEMMA StepStreams ==
  ASSUME Types, Streams, NEW t \in Thread, Step(t)
  PROVE  Streams'
<1>1. CASE \E n \in Name, m \in Mode \cup {Null}, d \in BOOLEAN : Begin(t, n, m, d)
  <2>1. UNCHANGED <<file, streams, dropped, clashed, ended>>
    BY <1>1, BeginStep
  <2> QED
    BY <2>1, SameStreams
<1>2. CASE Private(t)
  <2>1. UNCHANGED <<file, streams, dropped, clashed, ended>>
    BY <1>2, PrivateStep DEF Types
  <2> QED
    BY <2>1, SameStreams
<1>3. CASE Insert(t)
  <2>1. /\ UNCHANGED <<streams, dropped, clashed, ended>> /\ Open' = Open
        /\ \E a \in Address \ Pooled : \A b \in Address : b # a => file'[b] = file[b]
    BY <1>3, InsertStep DEF Insert
  <2>2. PICK a \in Address \ Pooled : \A b \in Address : b # a => file'[b] = file[b]
    BY <2>1
  <2>3. file[a].handle = Null /\ file'[a].handle = Null
    BY <2>1 DEF Open, Types, Anchored
  <2>4. \A b \in Address : file'[b].handle = file[b].handle
    BY <2>2, <2>3
  <2> QED
    BY <2>1, <2>4, SameStreams
<1>4. CASE DeleteUnknown(t) \/ FollowNothing(t)
  <2>1. UNCHANGED <<file, streams, dropped, clashed, ended>>
    BY <1>4, DeleteUnknownStep, FollowNothingStep
  <2> QED
    BY <2>1, SameStreams
<1> QED
  BY <1>1, <1>2, <1>3, <1>4, CloseForModeStreams, FopenStreams, FcloseStreams,
     DeleteStreams, StepCases

LEMMA StreamsInit == Init => Streams
<1> SUFFICES ASSUME Init PROVE Streams
  OBVIOUS
<1>1. Open = {}
  BY DEF Init, Open, Free
<1>2. streams = {} /\ ended = FALSE
  BY DEF Init
<1> QED
  BY <1>1, <1>2 DEF Streams, Owned, Distinct, HandleIsOpen, NothingLeftOpen

LEMMA StreamsNext == Inv /\ Streams /\ [Next]_vars => Streams'
<1> SUFFICES ASSUME Types, Streams, [Next]_vars PROVE Streams'
  BY DEF Inv
<1>1. ASSUME NEW t \in Thread, Step(t) PROVE Streams'
  BY <1>1, StepStreams
<1>3. CASE CloseAll
  BY <1>3, CloseAllStreams
<1>4. CASE UNCHANGED vars
  BY <1>4, SameStreams DEF vars
<1> QED
  BY <1>1, <1>3, <1>4 DEF Next

\* Every open FILE has one owner, in the list or dropped by a deletion.
THEOREM StreamsInvariance == Spec => []Streams
<1>1. Init => Streams
  BY StreamsInit
<1>2. Inv /\ Streams /\ [Next]_vars => Streams'
  BY StreamsNext
<1> QED
  BY <1>1, <1>2, Invariance, PTL DEF Spec

(* Until an open finds its file in another mode, the handle of a file of the
   pool is an open FILE* and that of no other file, whatever the other threads
   close in between, and each open FILE* belongs to a file of the pool or did
   until that was deleted. *)
THEOREM StreamsOwnedCorrect == Spec => []StreamsOwned
<1>1. Inv /\ Streams => StreamsOwned
  BY DEF Inv, Types, Anchored, Streams, Owned, Distinct, StreamsOwned
<1> QED
  BY <1>1, Invariance, StreamsInvariance, PTL

(* close_all leaves no FILE* open but those whose grib_file was deleted before:
   the list has every file that has a handle. *)
THEOREM NothingLeftOpenCorrect == Spec => []NothingLeftOpen
<1>1. Streams => NothingLeftOpen
  BY DEF Streams
<1> QED
  BY <1>1, StreamsInvariance, PTL

-----------------------------------------------------------------------------
(* The limit when no call is under way

   A call goes away from a file that stays open only when it saw few enough
   files open, or when nobody will close the file: a write failed, or it was
   given the file of another name. The limit is read outside the mutex, but the
   count it is compared with is that of the same step.

   Until it uses a file a thread tends the one it points to; then the one of the
   name it closes, which may be another by now. *)

Opening == {"mode", "handle", "open", "use"}

Closing == {"close", "fclose"}

Tends(t, a) ==
    \/ call[t].pc \in Opening /\ call[t].at = a
    \/ call[t].pc \in Closing /\ call[t].name = file[a].name

Resting == {a \in Open : file[a].name \notin abandoned /\ \A t \in Thread : ~Tends(t, a)}

Bound == Cardinality(Resting) <= MaxOpened

-----------------------------------------------------------------------------
(* Sets of open files *)

\* A set of open files that is within one within the limit.
LEMMA WithinLimit ==
  ASSUME NEW S, NEW T, IsFiniteSet(S), T \subseteq S, Cardinality(S) <= MaxOpened
  PROVE  Cardinality(T) <= MaxOpened
<1>1. IsFiniteSet(T) /\ Cardinality(T) <= Cardinality(S)
  BY FS_Subset
<1>2. Cardinality(T) \in Nat /\ Cardinality(S) \in Nat
  BY <1>1, FS_CardinalityType
<1> QED
  BY <1>1, <1>2, PoolAssumption

LEMMA RestingFinite == IsFiniteSet(Resting)
<1>1. Resting \subseteq Open
  BY DEF Resting
<1> QED
  BY <1>1, OpenFinite, FS_Subset

LEMMA RestingFewer ==
  ASSUME Bound, Resting' \subseteq Resting
  PROVE  Bound'
<1>1. Cardinality(Resting') <= MaxOpened
  BY RestingFinite, WithinLimit DEF Bound
<1> QED
  BY <1>1 DEF Bound

\* Two files of the pool differ in name.
LEMMA SameEntry ==
  ASSUME OneEntryPerName, NEW a \in Pooled, NEW b \in Pooled, file[a].name = file[b].name
  PROVE  a = b
<1>1. PICK i \in DOMAIN list : list[i] = a
  BY DEF Pooled
<1>2. PICK j \in DOMAIN list : list[j] = b
  BY DEF Pooled
<1> QED
  BY <1>1, <1>2 DEF OneEntryPerName

-----------------------------------------------------------------------------
(* What a step of one thread has to show *)

\* The file b is open, was open with the same name and was not tended by t.
WasLeft(t, b) ==
    b \in Open /\ file'[b].name = file[b].name /\ file[b].name \notin abandoned /\ ~Tends(t, b)

\* A file newly open is one t tends, and t only leaves a file that is closed or
\* abandoned.
LEMMA RestingStep ==
  ASSUME Bound, NEW t \in Thread, Others(t),
         \A b \in Open' : Tends(t, b)' \/ file'[b].name \in abandoned' \/ WasLeft(t, b)
  PROVE  Bound'
<1>1. ASSUME NEW b \in Resting' PROVE b \in Resting
  <2>1. /\ b \in Open' /\ file'[b].name \notin abandoned'
        /\ \A u \in Thread : ~Tends(u, b)'
    BY <1>1 DEF Resting
  <2>2. WasLeft(t, b)
    BY <2>1
  <2>3. ASSUME NEW u \in Thread, u # t PROVE ~Tends(u, b)
    <3>1. call'[u] = call[u] /\ file'[b].name = file[b].name /\ ~Tends(u, b)'
      BY <2>1, <2>2, <2>3 DEF Others, WasLeft
    <3> QED
      BY <3>1 DEF Tends
  <2> QED
    BY <2>2, <2>3 DEF Resting, WasLeft
<1> QED
  BY <1>1, RestingFewer

\* No file changes.
LEMMA SameFiles ==
  ASSUME Bound, NEW t \in Thread, Others(t), UNCHANGED file, abandoned \subseteq abandoned',
         \A b \in Open : Tends(t, b) => Tends(t, b)' \/ file[b].name \in abandoned'
  PROVE  Bound'
<1>1. Open' = Open
  BY DEF Open
<1>2. ASSUME NEW b \in Open'
      PROVE  Tends(t, b)' \/ file'[b].name \in abandoned' \/ WasLeft(t, b)
  BY <1>1 DEF WasLeft
<1> QED
  BY <1>2, RestingStep

\* t tends nothing before the step.
LEMMA Untending ==
  ASSUME Bound, NEW t \in Thread, Others(t), UNCHANGED <<file, abandoned>>,
         call[t].pc \notin Opening \cup Closing
  PROVE  Bound'
<1>1. \A b \in Open : ~Tends(t, b)
  BY DEF Tends
<1> QED
  BY <1>1, SameFiles

\* t goes on with the file it points to.
LEMMA GoesOn ==
  ASSUME Bound, NEW t \in Thread, Others(t), UNCHANGED <<file, abandoned>>,
         call[t].pc \in Opening, call'[t].pc \in Opening, call'[t].at = call[t].at
  PROVE  Bound'
<1>1. \A b \in Open : Tends(t, b) => Tends(t, b)'
  BY DEF Tends, Opening, Closing
<1> QED
  BY <1>1, SameFiles

\* t leaves the file it points to, which has no handle or is abandoned.
LEMMA Leaves ==
  ASSUME Bound, NEW t \in Thread, Others(t), UNCHANGED file, abandoned \subseteq abandoned',
         call[t].pc \in Opening,
         call[t].at \notin Open \/ file[call[t].at].name \in abandoned'
  PROVE  Bound'
<1>1. \A b \in Open : Tends(t, b) => b = call[t].at
  BY DEF Tends, Opening, Closing
<1> QED
  BY <1>1, SameFiles

\* t goes on to close the file of its name.
LEMMA GoesOnToClose ==
  ASSUME Bound, NEW t \in Thread, Others(t), UNCHANGED file, abandoned \subseteq abandoned',
         call'[t].pc \in Closing, call'[t].name = call[t].name,
         call[t].pc \in Opening =>
             file[call[t].at].name = call[t].name \/ file[call[t].at].name \in abandoned'
  PROVE  Bound'
<1>1. ASSUME NEW b \in Open, Tends(t, b)
      PROVE  Tends(t, b)' \/ file[b].name \in abandoned'
  <2>1. CASE call[t].pc \in Opening
    <3>1. b = call[t].at
      BY <1>1, <2>1 DEF Tends, Opening, Closing
    <3> QED
      BY <2>1, <3>1 DEF Tends
  <2>2. CASE call[t].pc \notin Opening
    BY <1>1, <2>2 DEF Tends
  <2> QED
    BY <2>1, <2>2
<1> QED
  BY <1>1, SameFiles

\* Goto keeps the rest of the call, and both keep the other calls.
LEMMA CallKeeps ==
  ASSUME TypeOK, NEW t \in Thread
  PROVE  /\ \A pc \in Opening \cup Closing : Goto(t, pc) =>
              /\ call'[t].pc = pc /\ call'[t].at = call[t].at /\ call'[t].name = call[t].name
              /\ Others(t)
         /\ Return(t) => call'[t].pc = "idle" /\ Others(t)
<1>1. call \in [Thread -> Call]
  BY DEF TypeOK
<1> QED
  BY <1>1, CallStep DEF Others, Opening, Closing

\* A thread that has the file of its name gives up its handle, or the file
\* itself: the open files left have other names.
LEMMA GivesUp ==
  ASSUME Inv, Bound, NEW t \in Thread, Others(t), NEW a \in Pooled,
         file'[a].handle = Null, \A b \in Address : b # a => file'[b] = file[b],
         \A b \in Open : Tends(t, b) => file[b].name = file[a].name,
         abandoned' = abandoned \ {file[a].name}
  PROVE  Bound'
<1>1. ASSUME NEW b \in Open', file'[b].name \notin abandoned' PROVE WasLeft(t, b)
  <2>1. b \in Address /\ b # a
    BY <1>1 DEF Open
  <2>2. file'[b] = file[b] /\ b \in Open
    BY <1>1, <2>1 DEF Open
  <2>3. file[b].name # file[a].name
    BY <2>1, <2>2, SameEntry DEF Inv, Types, Anchored
  <2>4. file[b].name \notin abandoned
    BY <1>1, <2>2, <2>3
  <2> QED
    BY <2>2, <2>3, <2>4 DEF WasLeft
<1> QED
  BY <1>1, RestingStep

-----------------------------------------------------------------------------
(* The steps of a call *)

LEMMA BeginBound ==
  ASSUME Inv, Bound, NEW t \in Thread, NEW n \in Name, NEW m \in Mode \cup {Null},
         NEW d \in BOOLEAN, Begin(t, n, m, d)
  PROVE  Bound'
<1>1. Others(t) /\ call[t].pc = "idle" /\ UNCHANGED <<file, abandoned>>
  BY BeginStep DEF Inv
<1> QED
  BY <1>1, Untending DEF Opening, Closing

\* The steps that change the call alone, but for the names that are abandoned.
LEMMA PrivateBound ==
  ASSUME Inv, Bound, NEW t \in Thread, Private(t)
  PROVE  Bound'
<1>1. /\ TypeOK /\ Others(t) /\ UNCHANGED <<list, file, opened, ended>>
      /\ call \in [Thread -> Call] /\ call[t] \in Call
  BY PrivateStep DEF Inv, Types, TypeOK
<1>2. CASE Compare(t) \/ Take(t) \/ Find(t) \/ Walk(t) \/ DeleteNothing(t)
  <2>1. call[t].pc \notin Opening \cup Closing /\ UNCHANGED abandoned
    BY <1>2 DEF Compare, Take, Find, Walk, DeleteNothing, Follows, Opening, Closing
  <2> QED
    BY <1>1, <2>1, Untending
<1>3. CASE ReadMode(t)
  <2>1. call[t].pc = "mode" /\ UNCHANGED abandoned
        /\ call' = [call EXCEPT ![t] = [call[t] EXCEPT !.pc = "handle",
                                                       !.same = (Mine(t).mode = call[t].mode)]]
    BY <1>3 DEF ReadMode, Follows
  <2>2. call'[t].pc = "handle" /\ call'[t].at = call[t].at
    BY <1>1, <2>1 DEF Call
  <2> QED
    BY <1>1, <2>1, <2>2, GoesOn DEF Opening
<1>4. CASE ReadHandle(t)
  <2>1. call[t].pc \in Opening /\ UNCHANGED abandoned /\ (Goto(t, "use") \/ Goto(t, "open"))
    BY <1>4 DEF ReadHandle, Follows, Opening
  <2>2. call'[t].pc \in Opening /\ call'[t].at = call[t].at
    BY <1>1, <2>1, CallKeeps DEF Opening
  <2> QED
    BY <1>1, <2>1, <2>2, GoesOn
<1>5. CASE FopenFails(t) \/ UseNothing(t)
  <2>1. call[t].pc \in Opening /\ UNCHANGED abandoned /\ file[call[t].at].handle = Null
    BY <1>5 DEF FopenFails, UseNothing, Follows, Mine, Opening
  <2>2. call[t].at \notin Open
    BY <2>1 DEF Open
  <2> QED
    BY <1>1, <2>1, <2>2, Leaves
<1>6. CASE Use(t)
  <2>1. /\ Goto(t, "close") /\ abandoned \subseteq abandoned'
        /\ file[call[t].at].name = call[t].name \/ file[call[t].at].name \in abandoned'
    BY <1>6 DEF Use, Mine
  <2>2. call'[t].pc \in Closing /\ call'[t].name = call[t].name
    BY <1>1, <2>1, CallKeeps DEF Closing
  <2> QED
    BY <1>1, <2>1, <2>2, GoesOnToClose
<1>7. CASE UseFails(t)
  <2>1. call[t].pc \in Opening /\ abandoned' = abandoned \cup {file[call[t].at].name}
    BY <1>7 DEF UseFails, Follows, Mine, Opening
  <2> QED
    BY <1>1, <2>1, Leaves
<1>8. CASE Decide(t)
  <2>1. /\ call[t].pc = "close" /\ UNCHANGED abandoned
        /\ IF opened > MaxOpened THEN Goto(t, "fclose") ELSE Return(t)
    BY <1>8 DEF Decide, TooMany
  <2>2. CASE opened > MaxOpened
    <3>1. call'[t].pc \in Closing /\ call'[t].name = call[t].name
      BY <1>1, <2>1, <2>2, CallKeeps DEF Closing
    <3> QED
      BY <1>1, <2>1, <3>1, GoesOnToClose DEF Opening
  <2>3. CASE ~(opened > MaxOpened)
    <3>1. ~ended
      BY <2>1 DEF Inv, Types, Anchored, AllIdle
    <3>2. Cardinality(Open) <= MaxOpened
      BY <1>1, <2>3, <3>1, PoolAssumption DEF Inv, CountMatches, TypeOK
    <3>3. Resting' \subseteq Open
      BY <1>1 DEF Resting, Open
    <3>4. Cardinality(Resting') <= MaxOpened
      BY <3>2, <3>3, OpenFinite, WithinLimit
    <3> QED
      BY <3>4 DEF Bound
  <2> QED
    BY <2>2, <2>3
<1>9. CASE FcloseNothing(t)
  <2>1. call[t].pc = "fclose" /\ UNCHANGED abandoned /\ FoundBy(t) = {}
    BY <1>9 DEF FcloseNothing
  <2>2. ASSUME NEW b \in Open PROVE ~Tends(t, b)
    <3>1. b \in Pooled
      BY DEF Inv, Types, Anchored
    <3>2. file[b].name # call[t].name
      BY <2>1, <3>1 DEF FoundBy
    <3> QED
      BY <2>1, <3>2 DEF Tends, Opening
  <2> QED
    BY <1>1, <2>1, <2>2, SameFiles
<1> QED
  BY <1>2, <1>3, <1>4, <1>5, <1>6, <1>7, <1>8, <1>9 DEF Private

LEMMA CloseForModeBound ==
  ASSUME Inv, Bound, NEW t \in Thread, CloseForMode(t)
  PROVE  Bound'
<1>1. /\ call[t].pc \in Opening /\ Goto(t, "use") /\ UNCHANGED <<file, abandoned>>
      /\ TypeOK
  BY DEF CloseForMode, Follows, Inv, Types, Opening
<1>2. call'[t].pc \in Opening /\ Others(t) /\ call'[t].at = call[t].at
  BY <1>1, CallKeeps DEF Opening
<1> QED
  BY <1>1, <1>2, GoesOn

\* The new entry has no handle.
LEMMA InsertBound ==
  ASSUME Inv, Bound, NEW t \in Thread, Insert(t)
  PROVE  Bound'
<1>1. PICK a \in Address \ Pooled :
         /\ file' = [file EXCEPT ![a] = [Free EXCEPT !.name = call[t].name]]
         /\ call' = [call EXCEPT ![t].pc = "mode", ![t].at = a]
  BY DEF Insert
<1>2. call[t].pc = "search" /\ UNCHANGED abandoned
  BY DEF Insert
<1>3. Others(t)
  BY <1>1, PointStep DEF Inv, Types, TypeOK, Others
<1>4. Open' = Open
  BY InsertStep DEF Inv
<1>5. \A b \in Address : b # a => file'[b] = file[b]
  BY <1>1 DEF Inv, Types, TypeOK
<1>6. \A b \in Open : b \in Address /\ b # a
  BY DEF Inv, Types, Anchored, Open
<1>7. \A b \in Open : ~Tends(t, b)
  BY <1>2 DEF Tends, Opening, Closing
<1>8. ASSUME NEW b \in Open', file'[b].name \notin abandoned' PROVE WasLeft(t, b)
  BY <1>2, <1>4, <1>5, <1>6, <1>7, <1>8 DEF WasLeft
<1> QED
  BY <1>3, <1>8, RestingStep

\* The file newly open is the one t points to.
LEMMA FopenBound ==
  ASSUME Inv, Bound, NEW t \in Thread, Fopen(t)
  PROVE  Bound'
<1> DEFINE a == call[t].at
<1>1. PICK h \in Stream \ streams :
         file' = [file EXCEPT ![a].handle = h, ![a].mode = call[t].mode]
  BY DEF Fopen
<1>2. /\ call[t].pc = "open" /\ Goto(t, "use") /\ UNCHANGED <<list, abandoned>> /\ TypeOK
      /\ a \in Pooled
  BY DEF Fopen, Follows, Inv, Types
<1>3. call'[t].pc = "use" /\ Others(t) /\ call'[t].at = a
  BY <1>2, CallKeeps DEF Opening
<1>4. \A b \in Address : b # a => file'[b] = file[b]
  <2>1. file \in [Address -> GribFile]
    BY <1>2 DEF TypeOK
  <2> QED
    BY <1>1, <2>1
<1>5. ASSUME NEW b \in Open'
      PROVE  Tends(t, b)' \/ file'[b].name \in abandoned' \/ WasLeft(t, b)
  <2>1. CASE b = a
    BY <1>3, <2>1 DEF Tends, Opening
  <2>2. CASE b # a
    <3>1. b \in Open /\ file'[b] = file[b]
      BY <1>4, <1>5, <2>2 DEF Open
    <3>2. ~Tends(t, b)
      BY <1>2, <2>2 DEF Tends, Opening, Closing
    <3> QED
      BY <1>2, <3>1, <3>2 DEF WasLeft
  <2> QED
    BY <2>1, <2>2
<1> QED
  BY <1>3, <1>5, RestingStep

\* The file closed is the one of the name that t tends.
LEMMA FcloseBound ==
  ASSUME Inv, Bound, NEW t \in Thread, Fclose(t)
  PROVE  Bound'
<1>1. PICK a \in FoundBy(t) :
         /\ file' = [file EXCEPT ![a].handle = Null]
         /\ abandoned' = abandoned \ {file[a].name}
  BY DEF Fclose
<1>2. call[t].pc = "fclose" /\ Return(t) /\ TypeOK
  BY DEF Fclose, Inv, Types
<1>3. a \in Pooled /\ a \in Address /\ file[a].name = call[t].name /\ Others(t)
  BY <1>1, <1>2, CallKeeps DEF FoundBy, Pooled, TypeOK
<1>4. file'[a].handle = Null /\ \A b \in Address : b # a => file'[b] = file[b]
  <2>1. file \in [Address -> GribFile]
    BY <1>2 DEF TypeOK
  <2> QED
    BY <1>1, <1>3, <2>1 DEF GribFile
<1>5. \A b \in Open : Tends(t, b) => file[b].name = file[a].name
  BY <1>2, <1>3 DEF Tends, Opening
<1> QED
  BY <1>1, <1>3, <1>4, <1>5, GivesUp

-----------------------------------------------------------------------------
(* Deletion and close_all *)

LEMMA DeleteBound ==
  ASSUME Inv, Bound, NEW t \in Thread, DeleteFile(t)
  PROVE  Bound'
<1> DEFINE a == call[t].at
<1>1. abandoned' = abandoned \ {file[a].name}
  BY DEF DeleteFile
<1>2. /\ a \in Pooled /\ call[t].pc = "delete" /\ Return(t)
      /\ file'[a].handle = Null /\ \A b \in Address : b # a => file'[b] = file[b]
  BY DeleteStep DEF Inv
<1> HIDE DEF a
<1>3. Others(t)
  BY <1>2, CallKeeps DEF Inv, Types
<1>4. \A b \in Open : ~Tends(t, b)
  BY <1>2 DEF Tends, Opening, Closing
<1> QED
  BY <1>1, <1>2, <1>3, <1>4, GivesUp

LEMMA CloseAllBound ==
  ASSUME Inv, Bound, CloseAll
  PROVE  Bound'
<1>1. /\ AllIdle /\ UNCHANGED <<call, abandoned>>
      /\ file' = [b \in Address |-> IF b \in Closed THEN [file[b] EXCEPT !.handle = Null] ELSE file[b]]
  BY DEF CloseAll
<1>2. ASSUME NEW b \in Open' PROVE b \in Open /\ file'[b].name = file[b].name
  <2>1. b \in Address /\ file[b] \in GribFile
    BY DEF Open, Inv, Types, TypeOK
  <2>2. file'[b] = IF b \in Closed THEN [file[b] EXCEPT !.handle = Null] ELSE file[b]
    BY <1>1, <2>1
  <2>3. CASE b \in Closed
    BY <2>1, <2>2, <2>3 DEF Open, GribFile
  <2>4. CASE b \notin Closed
    BY <2>1, <2>2, <2>4 DEF Open
  <2> QED
    BY <2>3, <2>4
<1>3. \A u \in Thread : \A b \in Open : ~Tends(u, b)
  BY <1>1 DEF Tends, AllIdle, Opening, Closing
<1>4. Resting' \subseteq Resting
  BY <1>1, <1>2, <1>3 DEF Resting
<1> QED
  BY <1>4, RestingFewer

-----------------------------------------------------------------------------
(* The invariant *)

LEMMA BoundInit == Init => Bound
<1> SUFFICES ASSUME Init PROVE Bound
  OBVIOUS
<1>1. Open = {}
  BY DEF Init, Open, Free
<1>2. Cardinality(Resting) = 0
  <2>1. Resting = {}
    BY <1>1 DEF Resting
  <2> QED
    BY <2>1, FS_EmptySet
<1> QED
  BY <1>2, PoolAssumption DEF Bound

LEMMA StepBound ==
  ASSUME Inv, Bound, NEW t \in Thread, Step(t)
  PROVE  Bound'
<1>1. CASE \E n \in Name, m \in Mode \cup {Null}, d \in BOOLEAN : Begin(t, n, m, d)
  BY <1>1, BeginBound
<1>2. CASE DeleteUnknown(t)
  <2>1. call[t].pc = "unknown" /\ Return(t) /\ UNCHANGED <<file, abandoned>>
    BY <1>2, DeleteUnknownStep DEF Inv
  <2>2. Others(t)
    BY <2>1, CallKeeps DEF Inv, Types
  <2> QED
    BY <2>1, <2>2, Untending DEF Opening, Closing
<1>3. CASE FollowNothing(t)
  <2>1. UNCHANGED <<file, call, abandoned>>
    BY <1>3, FollowNothingStep DEF Inv
  <2>2. Open' = Open
    BY <2>1 DEF Open
  <2>3. Resting' \subseteq Resting
    BY <2>1, <2>2 DEF Resting, Tends
  <2> QED
    BY <2>3, RestingFewer
<1> QED
  BY <1>1, <1>2, <1>3, PrivateBound, InsertBound, CloseForModeBound, FopenBound,
     FcloseBound, DeleteBound, StepCases DEF Inv

LEMMA BoundNext == Inv /\ Bound /\ [Next]_vars => Bound'
<1> SUFFICES ASSUME Inv, Bound, [Next]_vars PROVE Bound'
  OBVIOUS
<1>1. ASSUME NEW t \in Thread, Step(t) PROVE Bound'
  BY <1>1, StepBound
<1>2. CASE CloseAll
  BY <1>2, CloseAllBound
<1>3. CASE UNCHANGED vars
  <2>1. UNCHANGED <<file, call, abandoned>>
    BY <1>3 DEF vars
  <2>2. Open' = Open
    BY <2>1 DEF Open
  <2>3. Resting' \subseteq Resting
    BY <2>1, <2>2 DEF Resting, Tends
  <2> QED
    BY <2>3, RestingFewer
<1> QED
  BY <1>1, <1>2, <1>3 DEF Next

\* The open files that no call tends are never more than allowed.
THEOREM BoundInvariance == Spec => []Bound
<1>1. Init => Bound
  BY BoundInit
<1>2. Inv /\ Bound /\ [Next]_vars => Bound'
  BY BoundNext
<1> QED
  BY <1>1, <1>2, Invariance, PTL DEF Spec

(* When no call is under way, no more files are open than the limit but those
   nobody will close, of failed writes and of callers that were given the file
   of another name, however many threads opened, closed and deleted at the same
   time and decided on a count that others were changing. *)
THEOREM LimitCorrect == Spec => []LimitAtRest
<1>1. Bound => LimitAtRest
  <2> SUFFICES ASSUME Bound, AllIdle
               PROVE  Cardinality({a \in Open : file[a].name \notin abandoned}) <= MaxOpened
    BY DEF LimitAtRest
  <2>1. Resting = {a \in Open : file[a].name \notin abandoned}
    BY DEF Resting, Tends, AllIdle, Opening, Closing
  <2> QED
    BY <2>1 DEF Bound
<1> QED
  BY <1>1, BoundInvariance, PTL
=============================================================================
