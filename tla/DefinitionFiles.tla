--------------------------- MODULE DefinitionFiles ---------------------------
(* grib_context.cc, grib_parse_utils.cc: threads that find definition files in
   the directories of a path, parse them and keep what they found; and the
   tables of concepts and hash arrays that are loaded from such files.

   A definition file is a directory and a name.  The directories that exist
   and what is in the files do not change.  The three mutexes of the parser
   are taken together, and are one here; the mutexes of the tries are held
   around their own steps only.

   Left out: absolute names, files that cannot be opened, concepts defined
   inside a definition file, programs that parse a filter of their own. *)
EXTENDS Integers, Sequences, FiniteSets, SequencesExt

CONSTANTS Thread, Null, Dir,
          EnvPath,    \* the path of the environment, a sequence of directories
          Paths,      \* those a program may set
          Holds,      \* the names a directory holds
          Includes,   \* the names a file includes
          Broken,     \* files with a syntax error
          Empty,      \* files without instructions
          Boot,       \* the name every handle starts with
          Templates,  \* the names of templates
          Keys,       \* tables: their kind, alternatives, and master
          MaxCalls,   \* calls of a thread
          MaxDeletes  \* deletions of the context

Name == UNION {Holds[d] : d \in Dir}
DefFile == {x \in Dir \X Name : x[2] \in Holds[x[1]]}
Kind == {"concept", "hash"}
Mutex == {"c", "file", "root"} \cup Kind

ASSUME NullAssumption ==
    /\ Null \notin Thread /\ Null \notin Keys /\ Null \notin Dir
    /\ Null \notin Seq(DefFile) /\ Null # "boot"
ASSUME PathAssumption == {EnvPath} \cup Paths \subseteq Seq(Dir) \ {<<>>}
ASSUME KeysAssumption == \A k \in Keys : k.kind \in Kind /\ k.alternatives \in Seq(STRING)
ASSUME IncludesAssumption == \A f \in DefFile : Includes[f] \in Seq(STRING)

VARIABLES path,     \* grib_definition_files_path
          lists,    \* the lists of directories that were made, with their path
          dirs,     \* grib_definition_files_dir: the one in use, or 0
          cache,    \* def_files: where a name was found, or Null if nowhere
          reader,   \* the parsed files, in order; Null before the first
          error,    \* the parser's flag
          parsed,   \* the parser's last concept or hash array
          ids, count, tables, \* the numbers of the tables, and the tables that have something
          freed,    \* the concept tables that were freed
          lock,     \* who holds a mutex
          th,       \* the threads
          overwritten, \* a static was changed between an unlock and the read
          aborted,  \* the name for which an assertion failed, or Null
          deletes

vars == <<path, lists, dirs, cache, reader, error, parsed, ids, count, tables, freed,
          lock, th, overwritten, aborted, deletes>>

context == <<reader, ids, count, tables, freed, deletes>>

Idle == [pc |-> "idle", for |-> Null, name |-> Null, list |-> 0, node |-> 0, mine |-> <<>>,
         ans |-> Null, file |-> Null, todo |-> <<>>, ok |-> TRUE, key |-> Null, alt |-> 0,
         part |-> <<>>, back |-> Null, handle |-> FALSE, root |-> Null, calls |-> 0]

Init ==
    /\ path = EnvPath
    /\ lists = <<>> /\ dirs = 0
    /\ cache = <<>>
    /\ reader = Null
    /\ error = FALSE
    /\ parsed = [k \in Kind |-> Null]
    /\ ids = <<>> /\ count = [k \in Kind |-> 0]
    /\ tables = [k \in Kind |-> <<>>]
    /\ freed = {}
    /\ lock = [x \in Mutex |-> Null]
    /\ th = [t \in Thread |-> Idle]
    /\ overwritten = FALSE
    /\ aborted = Null
    /\ deletes = 0

Free(x) == lock[x] = Null

\* The call is over.
Returned(r) == [Idle EXCEPT !.handle = r.handle, !.root = r.root, !.calls = r.calls]

\* A name is searched, for one of the purposes of a call.
Searching(r, purpose, name) == [r EXCEPT !.pc = "get", !.for = purpose, !.name = name]

-----------------------------------------------------------------------------
(* grib_context_full_defs_path *)

Known(name) == name \in DOMAIN cache

Get(t) ==
    /\ th[t].pc = "get" /\ Free("c")
    /\ th' = [th EXCEPT ![t] = IF Known(@.name)
                               THEN [@ EXCEPT !.pc = "found", !.ans = cache[th[t].name]]
                               ELSE [@ EXCEPT !.pc = "test"]]
    /\ UNCHANGED <<path, lists, dirs, cache, error, parsed, lock, overwritten, aborted, context>>

\* Outside the mutex; a thread that will make the list has its own copy of the path.
Test(t) ==
    /\ th[t].pc = "test"
    /\ th' = [th EXCEPT ![t] = IF dirs # 0 THEN [@ EXCEPT !.pc = "walk", !.list = dirs, !.node = 1]
                               ELSE [@ EXCEPT !.pc = "enter", !.mine = path]]
    /\ UNCHANGED <<path, lists, dirs, cache, error, parsed, lock, overwritten, aborted, context>>

\* init_definition_files_dir: in the mutex the test is not repeated.
Enter(t) ==
    /\ th[t].pc = "enter" /\ Free("c")
    /\ lock' = [lock EXCEPT !["c"] = t]
    /\ th' = [th EXCEPT ![t].pc = "node", ![t].list = Len(lists) + 1]
    /\ UNCHANGED <<path, lists, dirs, cache, error, parsed, overwritten, aborted, context>>

\* A node is linked before it has a value; the first is published.
LinkNode(t) ==
    /\ th[t].pc = "node"
    /\ LET l == th[t].list
           new == l > Len(lists)
       IN  /\ lists' = IF new THEN Append(lists, [of |-> th[t].mine, nodes |-> <<Null>>])
                       ELSE [lists EXCEPT ![l].nodes = Append(@, Null)]
           /\ dirs' = IF new THEN l ELSE dirs
    /\ th' = [th EXCEPT ![t].pc = "value"]
    /\ UNCHANGED <<path, cache, error, parsed, lock, overwritten, aborted, context>>

SetNode(t) ==
    /\ th[t].pc = "value"
    /\ LET l == th[t].list
           n == Len(lists[l].nodes)
       IN  /\ lists' = [lists EXCEPT ![l].nodes[n] = lists[l].of[n]]
           /\ IF n < Len(lists[l].of)
              THEN th' = [th EXCEPT ![t].pc = "node"] /\ UNCHANGED lock
              ELSE /\ th' = [th EXCEPT ![t].pc = "test"]
                   /\ lock' = [lock EXCEPT !["c"] = Null]
    /\ UNCHANGED <<path, dirs, cache, error, parsed, overwritten, aborted, context>>

\* What is remembered of a name.
Remembered(name, place) == [n \in DOMAIN cache \cup {name} |-> IF n = name THEN place ELSE cache[n]]

\* The next directory of the list, which another thread may still be making.
Walk(t) ==
    /\ th[t].pc = "walk"
    /\ LET nodes == lists[th[t].list].nodes
           d     == nodes[th[t].node]
           name  == th[t].name
           held  == d # Null /\ name \in Holds[d]
           last  == th[t].node = Len(nodes)
           place == IF held THEN <<d, name>> ELSE Null
       IN  \/ /\ ~held /\ ~last
              /\ th' = [th EXCEPT ![t].node = @ + 1]
              /\ UNCHANGED cache
           \/ /\ held \/ last
              /\ Free("c")
              /\ cache' = Remembered(name, place)
              /\ th' = [th EXCEPT ![t].pc = "found", ![t].ans = place]
    /\ UNCHANGED <<path, lists, dirs, error, parsed, lock, overwritten, aborted, context>>

-----------------------------------------------------------------------------
(* Parsing *)

\* A file that must be there is not: the process ends.
Missing(t) ==
    /\ th[t].pc = "found" /\ th[t].ans = Null
    /\ \/ th[t].for \in {"boot", "include"}
       \/ th[t].for = "master" /\ th[t].part = <<>> /\ th[t].key.kind = "concept"
    /\ aborted' = th[t].name
    /\ UNCHANGED <<path, lists, dirs, cache, error, parsed, lock, th, overwritten, context>>

\* A template that is not found fails the call.
NoTemplate(t) ==
    /\ th[t].pc = "found" /\ th[t].ans = Null /\ th[t].for = "template"
    /\ th' = [th EXCEPT ![t] = Returned(@)]
    /\ UNCHANGED <<path, lists, dirs, cache, error, parsed, lock, overwritten, aborted, context>>

\* Mutant: the search of the list ends at its first file.
IsParsedFirst(f) == reader # Null /\ reader # <<>> /\ f = reader[1]

IsParsed(f) == reader # Null /\ f \in ToSet(reader)

\* grib_parse_file for actions, which are kept, or grib_parse_concept_file and
\* grib_parse_hash_array_file, which parse each time.
StartParse(t) ==
    /\ th[t].pc = "found" /\ th[t].ans # Null /\ th[t].for # "include"
    /\ Free("file")
    /\ LET f == th[t].ans
           actions == th[t].for \in {"boot", "template"}
       IN  /\ reader' = IF actions /\ reader = Null THEN <<>> ELSE reader
           /\ IF actions /\ IsParsed(f)
              THEN th' = [th EXCEPT ![t].pc = "have", ![t].file = f] /\ UNCHANGED <<lock, error>>
              ELSE /\ th' = [th EXCEPT ![t].pc = "parse", ![t].file = f, ![t].todo = Includes[f],
                                       ![t].ok = f \notin Broken]
                   /\ error' = (error \/ f \in Broken)
                   /\ lock' = [lock EXCEPT !["file"] = t]
    /\ UNCHANGED <<path, lists, dirs, cache, parsed, overwritten, aborted, ids, count, tables, freed, deletes>>

\* grib_parser_include: an included file is searched like any other.
Include(t) ==
    /\ th[t].pc = "parse" /\ th[t].todo # <<>>
    /\ th' = [th EXCEPT ![t] = [Searching(@, "include", Head(@.todo)) EXCEPT !.back = th[t].for]]
    /\ UNCHANGED <<path, lists, dirs, cache, error, parsed, lock, overwritten, aborted, context>>

Included(t) ==
    /\ th[t].pc = "found" /\ th[t].ans # Null /\ th[t].for = "include"
    /\ LET f == th[t].ans
       IN  /\ th' = [th EXCEPT ![t].pc = "parse", ![t].todo = Includes[f] \o Tail(@),
                               ![t].ok = @ /\ f \notin Broken, ![t].for = th[t].back]
           /\ error' = (error \/ f \in Broken)
    /\ UNCHANGED <<path, lists, dirs, cache, parsed, lock, overwritten, aborted, context>>

\* Mutant: the mutex is kept when the parser failed.
UnlockedUnless(t) == IF error THEN lock ELSE [lock EXCEPT !["file"] = Null]

Unlocked(t) == [lock EXCEPT !["file"] = Null]

\* A file of actions: kept, unless the parser ever failed.
Keep(t) ==
    /\ th[t].pc = "parse" /\ th[t].todo = <<>> /\ th[t].for \in {"boot", "template"}
    /\ reader' = IF error THEN reader ELSE Append(reader, th[t].file)
    /\ parsed' = IF th[t].ok /\ th[t].file \notin Empty THEN parsed ELSE [k \in Kind |-> Null]
    /\ lock' = Unlocked(t)
    /\ th' = [th EXCEPT ![t].pc = "have", ![t].file = IF error THEN Null ELSE @]
    /\ UNCHANGED <<path, lists, dirs, cache, error, overwritten, aborted, ids, count, tables, freed, deletes>>

\* A table is left in a static, which is read once the mutex was released.
Leave(t) ==
    /\ th[t].pc = "parse" /\ th[t].todo = <<>> /\ th[t].for \in {"alternative", "master"}
    /\ parsed' = IF th[t].ok /\ th[t].file \notin Empty
                 THEN [parsed EXCEPT ![th[t].key.kind] = th[t].file] ELSE [k \in Kind |-> Null]
    /\ lock' = Unlocked(t)
    /\ th' = [th EXCEPT ![t].pc = "static"]
    /\ UNCHANGED <<path, lists, dirs, cache, error, overwritten, aborted, context>>

-----------------------------------------------------------------------------
(* Handles, templates, tables *)

Begin(t) == th[t].pc = "idle" /\ th[t].calls < MaxCalls

\* A program makes one call more.
Counted(r) == [r EXCEPT !.calls = r.calls + 1]

\* Mutant: the mutex is not kept while the boot file is loaded.
RootNotKept(t) == lock

RootKept(t) == [lock EXCEPT !["root"] = t]

\* grib_create_root_section: the first handle loads the boot file.
NewHandle(t) ==
    /\ Begin(t) /\ ~th[t].handle /\ Free("root")
    /\ IF reader = Null
       THEN /\ th' = [th EXCEPT ![t] = Searching(Counted(@), "boot", Boot)]
            /\ lock' = RootKept(t)
       ELSE /\ th' = [th EXCEPT ![t] = [Counted(@) EXCEPT !.pc = "create"]]
            /\ UNCHANGED lock
    /\ UNCHANGED <<path, lists, dirs, cache, error, parsed, overwritten, aborted, context>>

Booted(t) ==
    /\ th[t].pc = "have" /\ th[t].for = "boot"
    /\ lock' = [lock EXCEPT !["root"] = Null]
    /\ th' = [th EXCEPT ![t].pc = "create"]
    /\ UNCHANGED <<path, lists, dirs, cache, error, parsed, overwritten, aborted, context>>

\* grib_handle_create starts with the first file that was parsed, if any.
Create(t) ==
    /\ th[t].pc = "create"
    /\ th' = [th EXCEPT ![t] = [Returned(@) EXCEPT !.handle = reader # <<>>,
                                                   !.root = IF reader = <<>> THEN Null ELSE reader[1]]]
    /\ UNCHANGED <<path, lists, dirs, cache, error, parsed, lock, overwritten, aborted, context>>

Template(t, name) ==
    /\ Begin(t) /\ th[t].handle
    /\ th' = [th EXCEPT ![t] = Searching(Counted(@), "template", name)]
    /\ UNCHANGED <<path, lists, dirs, cache, error, parsed, lock, overwritten, aborted, context>>

HaveTemplate(t) ==
    /\ th[t].pc = "have" /\ th[t].for = "template"
    /\ th' = [th EXCEPT ![t] = Returned(@)]
    /\ UNCHANGED <<path, lists, dirs, cache, error, parsed, lock, overwritten, aborted, context>>

\* Next: the alternatives of a table, until one is found, and then its master.
Sought(r, i) ==
    IF i <= Len(r.key.alternatives)
    THEN [Searching(r, "alternative", r.key.alternatives[i]) EXCEPT !.alt = i]
    ELSE Searching(r, "master", r.key.master)

\* grib_itrie_get_id
NumberOf(k) == IF k \in DOMAIN ids THEN ids[k] ELSE count[k.kind] + 1

\* get_concept, get_hash_array: under a mutex of their own.
Table(t, k) ==
    /\ Begin(t) /\ th[t].handle /\ Free(k.kind)
    /\ ids' = [x \in DOMAIN ids \cup {k} |-> IF x = k THEN NumberOf(k) ELSE ids[x]]
    /\ count' = [count EXCEPT ![k.kind] = IF k \in DOMAIN ids THEN @ ELSE @ + 1]
    /\ IF NumberOf(k) \in DOMAIN tables[k.kind]
       THEN th' = [th EXCEPT ![t] = Counted(@)] /\ UNCHANGED lock
       ELSE /\ th' = [th EXCEPT ![t] = Sought([Counted(@) EXCEPT !.key = k], 1)]
            /\ lock' = [lock EXCEPT ![k.kind] = t]
    /\ UNCHANGED <<path, lists, dirs, cache, reader, error, parsed, tables, freed, overwritten, aborted, deletes>>

NoAlternative(t) ==
    /\ th[t].pc = "found" /\ th[t].ans = Null /\ th[t].for = "alternative"
    /\ th' = [th EXCEPT ![t] = Sought(@, @.alt + 1)]
    /\ UNCHANGED <<path, lists, dirs, cache, error, parsed, lock, overwritten, aborted, context>>

\* The whole table gets its number and is given to the caller.
Store(t, part) ==
    /\ LET kind == th[t].key.kind
           id   == ids[th[t].key]
       IN  tables' = IF part = <<>> THEN tables
                     ELSE [tables EXCEPT ![kind] = [i \in DOMAIN tables[kind] \cup {id} |->
                                                       IF i = id THEN part ELSE tables[kind][i]]]
    /\ lock' = [lock EXCEPT ![th[t].key.kind] = Null]
    /\ th' = [th EXCEPT ![t] = Returned(@)]

\* The static is read: after an alternative the master is searched.
Take(t) ==
    /\ th[t].pc = "static"
    /\ LET left == parsed[th[t].key.kind]
           part == th[t].part \o (IF left = Null THEN <<>> ELSE <<left>>)
           mine == IF th[t].ok /\ th[t].file \notin Empty THEN th[t].file ELSE Null
       IN  /\ overwritten' = (overwritten \/ left # mine)
           /\ IF th[t].for = "alternative"
              THEN /\ th' = [th EXCEPT ![t] = [Searching(@, "master", @.key.master) EXCEPT !.part = part]]
                   /\ UNCHANGED <<tables, lock>>
              ELSE Store(t, part)
    /\ UNCHANGED <<path, lists, dirs, cache, reader, error, parsed, ids, count, freed, aborted, deletes>>

\* Without a master a concept is what its alternative holds, a hash array nothing.
NoMaster(t) ==
    /\ th[t].pc = "found" /\ th[t].ans = Null /\ th[t].for = "master"
    /\ \/ th[t].key.kind = "concept" /\ th[t].part # <<>> /\ Store(t, th[t].part)
       \/ th[t].key.kind = "hash" /\ Store(t, <<>>)
    /\ UNCHANGED <<path, lists, dirs, cache, reader, error, parsed, ids, count, freed, overwritten, aborted, deletes>>

-----------------------------------------------------------------------------
(* The context *)

\* grib_context_set_definitions_path sets the path, and nothing else.
SetPath(t, p) ==
    /\ th[t].pc = "idle" /\ Free("c") /\ path # p
    /\ path' = p
    /\ UNCHANGED <<lists, dirs, cache, error, parsed, lock, th, overwritten, aborted, context>>

\* Mutant: the concepts are counted anew.
CountedAnew == [k \in Kind |-> 0]

\* Hash arrays lose their tables and start again; concepts are freed, keep
\* their places and go on with new numbers.
CountAfter == [count EXCEPT !["hash"] = 0]

\* grib_context_delete by a program that deleted its handles; the next call
\* takes a context with the path of the environment.
DeleteContext ==
    /\ deletes < MaxDeletes
    /\ \A t \in Thread : th[t].pc = "idle"
    /\ deletes' = deletes + 1
    /\ reader' = Null
    /\ path' = EnvPath /\ lists' = <<>> /\ dirs' = 0 /\ cache' = <<>>
    /\ freed' = freed \cup DOMAIN tables["concept"]
    /\ tables' = [tables EXCEPT !["hash"] = <<>>]
    /\ ids' = <<>> /\ count' = CountAfter
    /\ th' = [t \in Thread |-> [Idle EXCEPT !.calls = th[t].calls]]
    /\ UNCHANGED <<error, parsed, lock, overwritten, aborted>>

-----------------------------------------------------------------------------

\* What a thread does in the middle of a call.
Step(t) ==
    \/ Get(t) \/ Test(t) \/ Enter(t) \/ LinkNode(t) \/ SetNode(t) \/ Walk(t)
    \/ Missing(t) \/ NoTemplate(t) \/ StartParse(t) \/ Include(t) \/ Included(t) \/ Keep(t) \/ Leave(t)
    \/ Booted(t) \/ Create(t) \/ HaveTemplate(t)
    \/ NoAlternative(t) \/ Take(t) \/ NoMaster(t)

Call(t) ==
    \/ NewHandle(t)
    \/ \E name \in Templates : Template(t, name)
    \/ \E k \in Keys : Table(t, k)
    \/ \E p \in Paths : SetPath(t, p)

Next == aborted = Null /\ (DeleteContext \/ \E t \in Thread : Step(t) \/ Call(t))

Spec == Init /\ [][Next]_vars /\ \A t \in Thread : WF_vars(aborted = Null /\ Step(t))

-----------------------------------------------------------------------------
(* Properties *)

(* Each mutex is held by the thread that is where the code holds it; names,
   numbers and files are of their kinds, and no two tables share a number. *)
TypeOK ==
    /\ \A t \in Thread :
          /\ lock["c"] = t <=> th[t].pc \in {"node", "value"}
          /\ lock["file"] = t <=>
                \/ th[t].pc = "parse"
                \/ th[t].pc \notin {"parse", "idle", "have", "static", "create"} /\ th[t].for = "include"
          /\ lock["root"] = t <=> th[t].pc \notin {"idle", "create"} /\ "boot" \in {th[t].for, th[t].back}
          /\ \A k \in Kind : lock[k] = t <=> th[t].key # Null /\ th[t].key.kind = k
    /\ \A n \in DOMAIN cache : cache[n] # Null => cache[n] \in DefFile /\ cache[n][2] = n
    /\ \A k \in DOMAIN ids : ids[k] \in 1..count[k.kind]
    /\ \A j, k \in DOMAIN ids : j.kind = k.kind /\ ids[j] = ids[k] => j = k
    /\ dirs \in 0..Len(lists)

\* The file of a name in the first directory of a path that holds it.
Place(p, n) ==
    LET where == {i \in DOMAIN p : n \in Holds[p[i]]}
    IN  IF where = {} THEN Null
        ELSE <<p[CHOOSE i \in where : \A j \in where : i <= j], n>>

(* All names are answered from one and the same path, each with its first
   file there, also after the program set another path; a missing name stays
   missing; and no thread ends the process for a file that is there.  The list
   of directories is tested and walked without the mutex, but no thread meets
   one that another is still making. *)
FilesFound ==
    \E p \in {EnvPath} \cup Paths :
        /\ \A n \in DOMAIN cache : cache[n] = Place(p, n)
        /\ aborted # Null => Place(p, aborted) = Null

(* Every file of actions is parsed and kept once, whichever threads ask for
   it; the first is the boot file, and every handle starts from it. *)
OneRoot ==
    /\ reader # Null => \A i, j \in DOMAIN reader : reader[i] = reader[j] => i = j
    /\ \A t \in Thread : th[t].handle => reader # <<>> /\ th[t].root = reader[1] /\ th[t].root[2] = Boot

\* The parser gets to the end of a file, whatever it includes.
Parses(p, f) ==
    \E V \in SUBSET (DefFile \ Broken) :
        f \in V /\ \A g \in V : \A i \in DOMAIN Includes[g] : Place(p, Includes[g][i]) \in V

\* What a file has for a table.
Contents(p, f) == IF f # Null /\ f \notin Empty /\ Parses(p, f) THEN <<f>> ELSE <<>>

\* The first alternative of a table that is there.
Alternative(p, k) ==
    LET there == {i \in DOMAIN k.alternatives : Place(p, k.alternatives[i]) # Null}
    IN  IF there = {} THEN Null
        ELSE Place(p, k.alternatives[CHOOSE i \in there : \A j \in there : i <= j])

\* What a table holds: the first alternative there is, then the master.
Expected(p, k) == Contents(p, Alternative(p, k)) \o Contents(p, Place(p, k.master))

(* A table holds what its files hold, although the parser leaves it in a
   static that is read without the mutex, as long as no other thread parsed a
   file without instructions in between; and no key leads to a table that was
   freed with an earlier context. *)
TablesWhole ==
    \A k \in DOMAIN ids :
        /\ ~overwritten /\ ids[k] \in DOMAIN tables[k.kind] =>
              \E p \in {EnvPath} \cup Paths : tables[k.kind][ids[k]] = Expected(p, k)
        /\ k.kind = "concept" => ids[k] \notin freed

(* No thread waits for ever: the mutexes are taken in one order (of a table,
   or of the first handle; of the parser; of the context) and every way out of
   a call releases them. *)
EveryCallReturns == \A t \in Thread : th[t].pc # "idle" ~> th[t].pc = "idle" \/ aborted # Null
=============================================================================
