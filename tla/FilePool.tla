------------------------------ MODULE FilePool ------------------------------
(* The pool of open files shared by all threads (grib_filepool.cc).

   A thread opens a file by name and mode, uses its FILE* and closes the file
   again, as the write action and the readers of fields do, or deletes a file
   by its name (the close action). The pool keeps a list of files, the file
   inserted last, and the number of open ones; closing a file closes its FILE*
   only when too many are open.

   The parts of a call under the (recursive) mutex are one step each. Outside
   it current, a file's mode and handle, the number of open files and, before a
   deletion, the list are read, each in a step of its own. A program may be
   built to read current once or each time it is named.

   A file is deleted whether or not a thread has a pointer to it. Its memory may
   be another file's by the time the pointer is followed; when it is not, or
   when a null pointer is followed, nothing more is said of the program. *)
EXTENDS Naturals, Sequences, FiniteSets

CONSTANTS
    Thread, Name, Mode,
    Uses,        \* which thread opens which name in which mode
    Deletes,     \* which thread deletes which name
    Address,     \* where a grib_file may be allocated
    Stream,      \* the FILE pointers fopen may return
    Null,
    MaxOpened    \* context->file_pool_max_opened_files

ASSUME PoolAssumption ==
    /\ Uses \subseteq Thread \X Name \X Mode
    /\ Deletes \subseteq Thread \X Name
    /\ Null \notin Address \cup Stream \cup Name \cup Mode \cup Thread
    /\ IsFiniteSet(Address)
    /\ MaxOpened \in Nat

VARIABLES
    list,       \* the pool: addresses in order, the first is file_pool.first
    file,       \* what is at each address: [name, mode, handle]
    current,    \* file_pool.current
    opened,     \* file_pool.number_of_opened_files
    streams,    \* the FILE pointers that fopen returned and fclose has not seen
    call,       \* per thread: the call it is in
    dropped,    \* history: streams whose grib_file was deleted
    abandoned,  \* history: names left open: by a failed write, or by a caller that
                \* was given the file of another name and closes its own
    undefined,  \* history: a pointer to no file was followed
    clashed,    \* history: a file was closed because of its mode
    ended       \* grib_file_close_all was called, by a tool that is done

vars == <<list, file, current, opened, streams, call, dropped, abandoned, undefined, clashed, ended>>

Free == [name |-> Null, mode |-> Null, handle |-> Null]
Idle ==
    [pc |-> "idle", deletes |-> FALSE, name |-> Null, mode |-> Null, at |-> Null, same |-> FALSE]

Pooled == {list[i] : i \in DOMAIN list}
Open   == {a \in Address : file[a].handle # Null}

AllIdle == \A t \in Thread : call[t].pc = "idle"

Goto(t, pc) == call' = [call EXCEPT ![t].pc = pc]
Return(t)   == call' = [call EXCEPT ![t] = Idle]

\* The thread is there, and the file it follows its pointer to is one of the pool.
Follows(t, pc) == call[t].pc = pc /\ call[t].at \in Pooled

Mine(t) == file[call[t].at]

-----------------------------------------------------------------------------
(* The unlocked look at current, in grib_file_open and in grib_get_file as the
   close action calls it *)

\* Is there a current file? A deletion needs one.
Begin(t, n, m, deletes) ==
    /\ ~ended
    /\ call[t].pc = "idle"
    /\ deletes => current # Null
    /\ call' = [call EXCEPT ![t] =
          [Idle EXCEPT !.deletes = deletes, !.name = n, !.mode = m, !.at = current,
                       !.pc = IF current = Null THEN "search" ELSE "compare"]]
    /\ UNCHANGED <<list, file, current, opened, streams, dropped, abandoned, undefined, clashed, ended>>

\* Is it the one? If not the list is searched, in the mutex to open.
Compare(t) ==
    /\ call[t].pc = "compare"
    /\ \E a \in {call[t].at, current} \cap Pooled :
          LET hit  == file[a].name = call[t].name
              miss == IF call[t].deletes THEN "walk" ELSE "search"
          IN  call' = [call EXCEPT ![t].pc = IF hit THEN "take" ELSE miss,
                                   ![t].at = IF hit THEN a ELSE list[1]]
    /\ UNCHANGED <<list, file, current, opened, streams, dropped, abandoned, undefined, clashed, ended>>

\* It is taken as it is now.
Take(t) ==
    /\ call[t].pc = "take"
    /\ \E a \in {call[t].at, current} :
          call' = [call EXCEPT ![t].at = a, ![t].pc = IF call[t].deletes THEN "delete" ELSE "mode"]
    /\ UNCHANGED <<list, file, current, opened, streams, dropped, abandoned, undefined, clashed, ended>>

-----------------------------------------------------------------------------
(* grib_file_open *)

FoundBy(t) == {a \in Pooled : file[a].name = call[t].name}

Find(t) ==
    /\ call[t].pc = "search"
    /\ \E a \in FoundBy(t) : call' = [call EXCEPT ![t].pc = "mode", ![t].at = a]
    /\ UNCHANGED <<list, file, current, opened, streams, dropped, abandoned, undefined, clashed, ended>>

\* Mutant: the list was searched before the mutex was taken.
InsertUnsearched(t) ==
    /\ call[t].pc = "search"
    /\ \E a \in Address \ Pooled :
          /\ list' = Append(list, a)
          /\ file' = [file EXCEPT ![a] = [Free EXCEPT !.name = call[t].name]]
          /\ current' = a
          /\ call' = [call EXCEPT ![t].pc = "mode", ![t].at = a]
    /\ UNCHANGED <<opened, streams, dropped, abandoned, undefined, clashed, ended>>

\* The name is in no entry: a new one at the end of the list, wherever memory is
\* free, also where a thread still points to.
Insert(t) ==
    /\ call[t].pc = "search"
    /\ FoundBy(t) = {}
    /\ \E a \in Address \ Pooled :
          /\ list' = Append(list, a)
          /\ file' = [file EXCEPT ![a] = [Free EXCEPT !.name = call[t].name]]
          /\ current' = a
          /\ call' = [call EXCEPT ![t].pc = "mode", ![t].at = a]
    /\ UNCHANGED <<opened, streams, dropped, abandoned, undefined, clashed, ended>>

\* same_mode, read outside the mutex.
ReadMode(t) ==
    /\ Follows(t, "mode")
    /\ call' = [call EXCEPT ![t].pc = "handle", ![t].same = (Mine(t).mode = call[t].mode)]
    /\ UNCHANGED <<list, file, current, opened, streams, dropped, abandoned, undefined, clashed, ended>>

ReadHandle(t) ==
    /\ Follows(t, "handle")
    /\ Goto(t, IF Mine(t).handle # Null /\ call[t].same THEN "use" ELSE "open")
    /\ UNCHANGED <<list, file, current, opened, streams, dropped, abandoned, undefined, clashed, ended>>

\* A file open in another mode: it is closed, its handle is kept, and what is
\* returned is that handle.
CloseForMode(t) ==
    /\ Follows(t, "open")
    /\ Mine(t).handle # Null
    /\ streams' = IF call[t].same THEN streams ELSE streams \ {Mine(t).handle}
    /\ clashed' = (clashed \/ ~call[t].same)
    /\ Goto(t, "use")
    /\ UNCHANGED <<list, file, current, opened, dropped, abandoned, undefined, ended>>

\* Mutant: an open file is opened once more.
FopenAgain(t) ==
    /\ Follows(t, "open")
    /\ \E s \in Stream \ streams :
          /\ streams' = streams \cup {s}
          /\ file' = [file EXCEPT ![call[t].at].handle = s, ![call[t].at].mode = call[t].mode]
    /\ opened' = opened + 1
    /\ Goto(t, "use")
    /\ UNCHANGED <<list, current, dropped, abandoned, undefined, clashed, ended>>

\* fopen may return a pointer that was closed before. (That a file which is not
\* new is opened with "a" for "w" only matters to its contents.)
Fopen(t) ==
    /\ Follows(t, "open")
    /\ Mine(t).handle = Null
    /\ \E s \in Stream \ streams :
          /\ streams' = streams \cup {s}
          /\ file' = [file EXCEPT ![call[t].at].handle = s, ![call[t].at].mode = call[t].mode]
    /\ opened' = opened + 1
    /\ Goto(t, "use")
    /\ UNCHANGED <<list, current, dropped, abandoned, undefined, clashed, ended>>

FopenFails(t) ==
    /\ Follows(t, "open")
    /\ Mine(t).handle = Null
    /\ Return(t)
    /\ UNCHANGED <<list, file, current, opened, streams, dropped, abandoned, undefined, clashed, ended>>

-----------------------------------------------------------------------------
(* The callers, and grib_file_close *)

\* A caller that finds no handle reports that the file cannot be opened.
UseNothing(t) ==
    /\ Follows(t, "use")
    /\ Mine(t).handle = Null
    /\ Return(t)
    /\ UNCHANGED <<list, file, current, opened, streams, dropped, abandoned, undefined, clashed, ended>>

\* A caller closes the name it asked for, whatever file it was given.
Use(t) ==
    /\ Follows(t, "use")
    /\ Mine(t).handle # Null
    /\ abandoned' = IF Mine(t).name = call[t].name THEN abandoned ELSE abandoned \cup {Mine(t).name}
    /\ Goto(t, "close")
    /\ UNCHANGED <<list, file, current, opened, streams, dropped, undefined, clashed, ended>>

\* The write action returns an error of fwrite without closing the file.
UseFails(t) ==
    /\ Follows(t, "use")
    /\ Mine(t).handle # Null
    /\ abandoned' = abandoned \cup {Mine(t).name}
    /\ Return(t)
    /\ UNCHANGED <<list, file, current, opened, streams, dropped, undefined, clashed, ended>>

\* Mutant: one file too many stays open.
TooManyLax == opened > MaxOpened + 1

TooMany == opened > MaxOpened

\* do_close, decided outside the mutex.
Decide(t) ==
    /\ call[t].pc = "close"
    /\ IF TooMany THEN Goto(t, "fclose") ELSE Return(t)
    /\ UNCHANGED <<list, file, current, opened, streams, dropped, abandoned, undefined, clashed, ended>>

\* Mutant: a file without a handle is counted down too.
CountDownAlways(a) == opened - 1

CountDown(a) == IF file[a].handle # Null THEN opened - 1 ELSE opened

\* Mutant: the handle is kept.
FcloseKept(t) ==
    /\ call[t].pc = "fclose"
    /\ \E a \in FoundBy(t) :
          /\ streams' = streams \ {file[a].handle}
          /\ opened' = CountDown(a)
          /\ abandoned' = abandoned \ {file[a].name}
    /\ Return(t)
    /\ UNCHANGED <<list, file, current, dropped, undefined, clashed, ended>>

\* grib_get_file finds it in current or in the list; the file is closed for
\* every thread that uses it.
Fclose(t) ==
    /\ call[t].pc = "fclose"
    /\ \E a \in FoundBy(t) :
          /\ streams' = streams \ {file[a].handle}
          /\ file' = [file EXCEPT ![a].handle = Null]
          /\ opened' = CountDown(a)
          /\ abandoned' = abandoned \ {file[a].name}
    /\ Return(t)
    /\ UNCHANGED <<list, current, dropped, undefined, clashed, ended>>

\* It was deleted since: there is nothing to close in the file grib_get_file
\* allocates for the name.
FcloseNothing(t) ==
    /\ call[t].pc = "fclose"
    /\ FoundBy(t) = {} /\ current # Null
    /\ Return(t)
    /\ UNCHANGED <<list, file, current, opened, streams, dropped, abandoned, undefined, clashed, ended>>

-----------------------------------------------------------------------------
(* The close action, which deletes a file *)

IndexOf(a) == CHOOSE i \in DOMAIN list : list[i] = a

\* grib_get_file goes along the list without the mutex. For a name it does not
\* find it allocates a file that is not in the pool.
Walk(t) ==
    LET i    == IndexOf(call[t].at)
        last == i = Len(list)
    IN  /\ Follows(t, "walk")
        /\ call' = [call EXCEPT
              ![t].pc = IF Mine(t).name = call[t].name THEN "delete"
                        ELSE IF last THEN "unknown" ELSE "walk",
              ![t].at = IF Mine(t).name = call[t].name \/ last THEN call[t].at ELSE list[i + 1]]
        /\ UNCHANGED <<list, file, current, opened, streams, dropped, abandoned, undefined, clashed, ended>>

Without(a) ==
    [i \in 1..(Len(list) - 1) |-> IF i < IndexOf(a) THEN list[i] ELSE list[i + 1]]

HeadOr(l) == IF l = <<>> THEN Null ELSE l[1]

\* Whether the first file is deleted or another, current is the new first.
CurrentAfter(a) == HeadOr(Without(a))

\* grib_file_pool_delete_file: the FILE* is not closed (GRIB-803), and no thread
\* that has a pointer to the file is asked.
DeleteFile(t) ==
    LET a == call[t].at
    IN  /\ Follows(t, "delete")
        /\ list' = Without(a)
        /\ current' = CurrentAfter(a)
        /\ opened' = CountDown(a)
        /\ dropped' = dropped \cup ({file[a].handle} \ {Null})
        /\ abandoned' = abandoned \ {file[a].name}
        /\ file' = [file EXCEPT ![a] = Free]
        /\ Return(t)
        /\ UNCHANGED <<streams, undefined, clashed, ended>>

\* The same, of a file that is not in the pool.
DeleteUnknown(t) ==
    /\ call[t].pc = "unknown"
    /\ current' = HeadOr(list)
    /\ Return(t)
    /\ UNCHANGED <<list, file, opened, streams, dropped, abandoned, undefined, clashed, ended>>

\* The close action was given no file.
DeleteNothing(t) ==
    /\ call[t].pc = "delete" /\ call[t].at = Null
    /\ Return(t)
    /\ UNCHANGED <<list, file, current, opened, streams, dropped, abandoned, undefined, clashed, ended>>

\* Where a pointer to a file is followed.
Following == {"compare", "mode", "handle", "open", "use", "walk", "delete"}

\* A pointer to a deleted file, or to none.
FollowNothing(t) ==
    /\ \/ call[t].pc \in Following /\ call[t].at \notin Pooled
       \/ call[t].pc \in {"compare", "fclose"} /\ current = Null
    /\ ~(call[t].pc = "delete" /\ call[t].at = Null)
    /\ undefined' = TRUE
    /\ UNCHANGED <<list, file, current, opened, streams, call, dropped, abandoned, clashed, ended>>

-----------------------------------------------------------------------------
(* The end of a tool, when no thread is in a call *)

\* Mutant: the walk stops before the last file.
ClosedShort == {list[i] : i \in 1..(Len(list) - 1)}

Closed == Pooled

\* grib_file_close_all: the number of open files is left as it is.
CloseAll ==
    /\ ~ended /\ AllIdle
    /\ streams' = streams \ {file[a].handle : a \in Closed}
    /\ file' = [a \in Address |-> IF a \in Closed THEN [file[a] EXCEPT !.handle = Null] ELSE file[a]]
    /\ ended' = TRUE
    /\ UNCHANGED <<list, current, opened, call, dropped, abandoned, undefined, clashed>>

-----------------------------------------------------------------------------

Init ==
    /\ list = <<>>
    /\ file = [a \in Address |-> Free]
    /\ current = Null
    /\ opened = 0
    /\ streams = {}
    /\ call = [t \in Thread |-> Idle]
    /\ dropped = {} /\ abandoned = {} /\ undefined = FALSE /\ clashed = FALSE
    /\ ended = FALSE

Step(t) ==
    \/ \E u \in Uses : u[1] = t /\ Begin(t, u[2], u[3], FALSE)
    \/ \E u \in Deletes : u[1] = t /\ Begin(t, u[2], Null, TRUE)
    \/ Compare(t) \/ Take(t)
    \/ Find(t) \/ Insert(t) \/ ReadMode(t) \/ ReadHandle(t)
    \/ CloseForMode(t) \/ Fopen(t) \/ FopenFails(t)
    \/ UseNothing(t) \/ Use(t) \/ UseFails(t) \/ Decide(t) \/ Fclose(t) \/ FcloseNothing(t)
    \/ Walk(t) \/ DeleteFile(t) \/ DeleteUnknown(t) \/ DeleteNothing(t)
    \/ FollowNothing(t)

Next == ~undefined /\ ((\E t \in Thread : Step(t)) \/ CloseAll)

Spec == Init /\ [][Next]_vars

-----------------------------------------------------------------------------
(* Properties *)

GribFile == [name : Name \cup {Null}, mode : Mode \cup {Null}, handle : Stream \cup {Null}]

Call ==
    [pc : {"idle", "compare", "take", "search", "mode", "handle", "open", "use",
           "close", "fclose", "walk", "delete", "unknown"},
     deletes : BOOLEAN,
     name : Name \cup {Null}, mode : Mode \cup {Null},
     at : Address \cup {Null}, same : BOOLEAN]

(* The variables have their types, and there is a current file as long as the
   list has one. *)
TypeOK ==
    /\ list \in Seq(Address)
    /\ file \in [Address -> GribFile]
    /\ current \in Address \cup {Null}
    /\ current = Null <=> list = <<>>
    /\ opened \in Nat
    /\ streams \subseteq Stream
    /\ call \in [Thread -> Call]
    /\ undefined \in BOOLEAN /\ clashed \in BOOLEAN /\ ended \in BOOLEAN

(* A name has one entry however many threads open and delete it at the same
   time: two would each write their own FILE* of the same file. *)
OneEntryPerName ==
    /\ \A i, j \in DOMAIN list : file[list[i]].name = file[list[j]].name => i = j
    /\ current # Null => current \in Pooled

(* number_of_opened_files, which decides whether a file is closed, is the
   number of files with a handle, whatever calls interleave: also when a file
   is deleted while it is opened or closed by others. *)
CountMatches == ~ended => opened = Cardinality(Open)

(* A handle in the pool is a FILE* that is open: a thread that is given it
   does not write to a closed one, and it is not closed twice. *)
HandleIsOpen == \A a \in Open : file[a].handle \in streams

(* As long as no open found its file in another mode: every handle is an open
   FILE*, also when one is closed by one thread and returned to another, or
   when its file is deleted under a thread that uses it; two files never share
   one; and an open FILE* belongs to a file of the pool, or did until that was
   deleted.  A thread that has the pointer of a deleted file is outside this as
   soon as it follows it (undefined). *)
StreamsOwned ==
    ~clashed =>
        /\ HandleIsOpen
        /\ \A a, b \in Open : file[a].handle = file[b].handle => a = b
        /\ \A s \in streams : s \in dropped \/ \E a \in Pooled : file[a].handle = s

(* When no call is under way, no more files are open than allowed, also when
   two threads decide at once, except those nobody will close: left by a failed
   write, or opened for a caller that asked for another name and closes that
   one.  The second happens: current is compared and then read again outside
   the mutex (lines 185 and 186), and a deleted file's memory is reused. *)
LimitAtRest ==
    AllIdle /\ ~ended =>
        Cardinality({a \in Open : file[a].name \notin abandoned}) <= MaxOpened

(* After grib_file_close_all only the streams of deleted files are open. *)
NothingLeftOpen == ended => streams \subseteq dropped
=============================================================================
