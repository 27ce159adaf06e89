-------------------------------- MODULE Index --------------------------------
(* Indexes (grib_index.cc): where the messages of some files are, by the values
   of a few keys; selecting messages by these values; and the index file, which
   another run of a program reads.

   A field of an index refers to a grib_file of the pool of open files, but
   the index keeps a table of its files of its own, with identifiers of its
   own. A program has one index at a time here; what two share, the pool and
   the counters of identifiers, outlives an index.

   The tree of fields has a level per key, the nodes of a level being the
   values met. It is the function "tree" from the paths to its leaves to their
   lists of fields, and "nodes", the paths to the levels that were allocated.
   An offset is the number of a message in its file. *)
EXTENDS Integers, Sequences, FiniteSets, SequencesExt

CONSTANTS
    File,         \* the names that programs pass
    Absent,       \* those that cannot be opened
    Others,       \* those that other parts of the library open
    Contents,     \* the messages of the others
    Key,
    Value,        \* as the index writes them, "undef" included
    KeyLists,     \* the keys that programs pass to grib_index_new
    Null,
    Unselected,   \* the empty string in index_key->value
    TotalLength,  \* a key that is read of each message besides
    Unreadable,   \* what a message has for a key that cannot be decoded
    Damaged,      \* a message that cannot be read
    MaxAdds,      \* bound: files one program adds to indexes
    MaxFields     \* bound: fields of an index

ASSUME IndexAssumption ==
    /\ Absent \cup Others \subseteq File
    /\ \A f \in File \ Absent :
          Contents[f] \in Seq([Key \cup {TotalLength} -> Value \cup {Unreadable}] \cup {Damaged})
    /\ KeyLists \subseteq Seq(Key) \ {<<>>}
    /\ {Unselected, Unreadable} \cap Value = {}

VARIABLES
    pool,      \* the names in the pool; the identifier of the first is 0
    filesid,   \* grib_filesid
    ix,        \* the grib_index, or Null
    disk,      \* the index file, or Null
    crashed,   \* the program compared or followed a null pointer
    added,     \* history: the messages with a field in the index, in order
    sound,     \* history: every index file the index comes from named its files
    query,     \* history: when the tree was last walked, the values selected and
               \*   the number of messages indexed
    got,       \* history: the handles returned since then
    last       \* history: how the last grib_handle_new_from_index ended

history == <<added, sound, query, got, last>>
vars == <<pool, filesid, ix, disk, crashed, history>>

NoQuery == [values |-> <<>>, seen |-> 0]

\* The next grib_handle_new_from_index will start from the first handle.
NewSearch == query' = NoQuery /\ got' = <<>> /\ last' = "none"

NoHistory == added' = <<>> /\ sound' = TRUE /\ NewSearch

MessageAt(ref) == Contents[ref[1]][ref[2]]

\* Mutant: the pool is not searched for the name.
OpenedAgain(f) == Append(pool, f)

Opened(f) == IF Contains(pool, f) THEN pool ELSE Append(pool, f)

\* file->id, from next_id of the pool.
PoolId(f) == SelectInSeq(pool, LAMBDA g : g = f) - 1

-----------------------------------------------------------------------------
(* The keys and the tree *)

NewIndex(keys) ==
    [keys |-> keys, files |-> <<>>,
     values |-> [k \in ToSet(keys) |-> <<>>],
     sel |-> [k \in ToSet(keys) |-> Unselected],
     nodes |-> {<<>>}, tree |-> [p \in {} |-> <<>>],
     rewind |-> FALSE, cur |-> Null, compressed |-> FALSE]

\* How many keys, in order, a message has readable values for.
ReadableKeys(keys, m) ==
    IF \E i \in DOMAIN keys : m[keys[i]] = Unreadable
    THEN SelectInSeq(keys, LAMBDA k : m[k] = Unreadable) - 1
    ELSE Len(keys)

PathOf(keys, m) == [i \in 1..ReadableKeys(keys, m) |-> m[keys[i]]]

\* Mutant: only the last value of the list is compared.
ListedTail(values, v) == IF values # <<>> /\ Last(values) = v THEN values ELSE Append(values, v)

Listed(values, v) == IF Contains(values, v) THEN values ELSE Append(values, v)

At(tree, p) == IF p \in DOMAIN tree THEN tree[p] ELSE <<>>

\* Mutant: the field goes to the head of the list.
InsertFirst(tree, p, field) ==
    [q \in DOMAIN tree \cup {p} |-> IF q = p THEN <<field>> \o At(tree, p) ELSE tree[q]]

Insert(tree, p, field) ==
    [q \in DOMAIN tree \cup {p} |-> IF q = p THEN Append(At(tree, p), field) ELSE tree[q]]

\* The message of an edition that is not known: its handle lacks totalLength.
Unmeasured(m) == m[TotalLength] = Unreadable

\* A message whose n-th key cannot be decoded leaves its first values, and an
\* empty level under them; one without a length leaves all of its values, and
\* maybe a leaf without fields. In any case the first key is not selected any
\* more.
AddMessage(x, ref) ==
    LET m == MessageAt(ref)
        p == PathOf(x.keys, m)
        whole == Len(p) = Len(x.keys)
        upto == SubSeq(x.keys, 1, Len(p))
    IN  [x EXCEPT
            !.sel[x.keys[1]] = Unselected,
            !.values = [k \in DOMAIN x.values |->
                IF Contains(upto, k) THEN Listed(x.values[k], m[k]) ELSE x.values[k]],
            !.nodes = x.nodes \cup (IF whole THEN Prefixes(Front(p)) ELSE Prefixes(p)),
            !.tree = IF ~whole THEN x.tree
                     ELSE IF Unmeasured(m) THEN [q \in DOMAIN x.tree \cup {p} |-> At(x.tree, q)]
                     ELSE Insert(x.tree, p, [file |-> ref[1], at |-> ref[2]])]

-----------------------------------------------------------------------------
(* Filling an index *)

New(keys) ==
    /\ ~crashed /\ ix = Null
    /\ ix' = NewIndex(keys)
    /\ NoHistory
    /\ UNCHANGED <<pool, filesid, disk, crashed>>

\* The error is in reading the message, one of its keys or its length.
Fails(keys, m) == m = Damaged \/ ReadableKeys(keys, m) < Len(keys) \/ Unmeasured(m)

FirstFailing(keys, f) == SelectInSeq(Contents[f], LAMBDA m : Fails(keys, m))

\* The messages that are looked at: up to the one that fails.
LookedAt(keys, f) ==
    LET n == FirstFailing(keys, f)
    IN  IF n = 0 THEN Len(Contents[f])
        ELSE IF Contents[f][n] = Damaged THEN n - 1 ELSE n

RefsOf(f, n) == [i \in 1..n |-> <<f, i>>]

Indexed(keys, refs) == SelectSeq(refs, LAMBDA r : ~Fails(keys, MessageAt(r)))

IsListed(f) == \E i \in DOMAIN ix.files : ix.files[i].name = f

\* codes_index_add_file_internal. The index lists the file before it is read,
\* and goes back to the first handle only if all of it was.
AddFile(f) ==
    LET refs == RefsOf(f, LookedAt(ix.keys, f))
        entry == [name |-> f, id |-> filesid + 1]
        filled == FoldLeft(AddMessage, [ix EXCEPT !.files = Append(ix.files, entry)], refs)
        complete == FirstFailing(ix.keys, f) = 0
    IN  /\ f \notin Absent /\ ~IsListed(f)
        /\ ix.keys # <<>> \/ refs = <<>>
        /\ Len(added) + Len(Indexed(ix.keys, refs)) <= MaxFields /\ filesid + 1 < MaxAdds
        /\ filesid' = filesid + 1
        /\ ix' = IF complete THEN [filled EXCEPT !.rewind = TRUE] ELSE filled
        /\ added' = added \o Indexed(ix.keys, refs)
        /\ IF complete THEN NewSearch ELSE UNCHANGED <<query, got, last>>
        /\ UNCHANGED <<crashed, sound>>

\* An index file may have no keys: the first of them is followed nevertheless.
AddToNoKeys(f) ==
    /\ f \notin Absent /\ ~IsListed(f)
    /\ ix.keys = <<>> /\ LookedAt(ix.keys, f) > 0
    /\ crashed' = TRUE
    /\ UNCHANGED <<filesid, ix, history>>

\* The file cannot be opened, or is in the index: only the pool knows it now.
AddNothing(f) ==
    /\ f \in Absent \/ IsListed(f)
    /\ UNCHANGED <<filesid, ix, crashed, history>>

\* Only the tools that build an index compress it, as the last thing they do.
Add(f) ==
    /\ ~crashed /\ ix # Null
    /\ ~ix.compressed
    /\ AddFile(f) \/ AddToNoKeys(f) \/ AddNothing(f)
    /\ pool' = Opened(f)
    /\ UNCHANGED disk

\* grib_file_open by another part of the library: a fieldset, a write action.
OpenOther(f) ==
    /\ ~crashed
    /\ f \in Others
    /\ pool' = Opened(f)
    /\ UNCHANGED <<filesid, ix, disk, crashed, history>>

\* A level with one node that has no value yet.
Hollow(q) == q \in ix.nodes /\ \A v \in Value : Append(q, v) \notin ix.nodes \cup DOMAIN ix.tree

Kept(keys, values) == SelectSeq(keys, LAMBDA k : Len(values[k]) # 1)

\* A path without the levels of the keys that have one value.
Projected(p, keys, values) ==
    LET levels == SelectSeq([i \in DOMAIN p |-> i], LAMBDA i : Len(values[keys[i]]) # 1)
    IN  [i \in DOMAIN levels |-> p[levels[i]]]

\* grib_index_compress: keys with one value, and their levels of the tree, are
\* removed. When that is all of them the list of fields goes with the root. The
\* tools have selected nothing, and have ended if a file could not be added.
Compress ==
    LET keys == Kept(ix.keys, ix.values)
        proj(p) == Projected(p, ix.keys, ix.values)
        paths == IF keys = <<>> THEN {} ELSE DOMAIN ix.tree
    IN  /\ ~crashed /\ ix # Null
        /\ ~ix.compressed /\ added # <<>> /\ Len(ix.keys) > 1
        /\ ix.cur = Null /\ \A k \in ToSet(ix.keys) : ix.sel[k] = Unselected
        /\ (\A q \in ix.nodes : ~Hollow(q)) /\ \A p \in DOMAIN ix.tree : ix.tree[p] # <<>>
        /\ ix' = [ix EXCEPT
                !.compressed = TRUE,
                !.keys = keys,
                !.values = [k \in ToSet(keys) |-> ix.values[k]],
                !.sel = [k \in ToSet(keys) |-> Unselected],
                !.nodes = {proj(p) : p \in {q \in ix.nodes : keys # <<>> /\ Len(proj(q)) < Len(keys)}},
                !.tree = [q \in {proj(p) : p \in paths} |->
                            ix.tree[CHOOSE p \in paths : proj(p) = q]]]
        /\ UNCHANGED <<pool, filesid, disk, crashed, history>>

-----------------------------------------------------------------------------
(* Selecting *)

\* grib_index_select_long, _double, _string.
Select(k, v) ==
    /\ ~crashed /\ ix # Null
    /\ ~ix.compressed /\ Contains(ix.keys, k)
    /\ ix' = [ix EXCEPT !.sel[k] = v, !.rewind = TRUE]
    /\ NewSearch
    /\ UNCHANGED <<pool, filesid, disk, crashed, added, sound>>

\* grib_index_search_same: the values of another message, up to one that it
\* cannot get.
SelectSame(m) ==
    /\ ~crashed /\ ix # Null
    /\ ~ix.compressed
    /\ LET p == PathOf(ix.keys, m)
           n == Len(p)
       IN  ix' = [ix EXCEPT
                !.sel = [k \in ToSet(ix.keys) |->
                    IF Contains(SubSeq(ix.keys, 1, n), k) THEN m[k] ELSE ix.sel[k]],
                !.rewind = @ \/ n = Len(ix.keys)]
    /\ IF ix'.rewind THEN NewSearch ELSE UNCHANGED <<query, got, last>>
    /\ UNCHANGED <<pool, filesid, disk, crashed, added, sound>>

Selected == [i \in DOMAIN ix.keys |-> ix.sel[ix.keys[i]]]

\* The levels at which grib_index_execute stops to compare a value.
Walked == {n \in DOMAIN Selected : SubSeq(Selected, 1, n - 1) \in ix.nodes}

Found == Selected \in DOMAIN ix.tree /\ ix.tree[Selected] # <<>>

\* The value is compared with the null pointer of a hollow level; or, without
\* any key or at a leaf without fields, the walk succeeds and leaves no field to
\* get a handle for.
ExecuteCrashes ==
    \/ ix.keys = <<>>
    \/ Selected \in DOMAIN ix.tree /\ ~Found
    \/ \E n \in Walked : Selected[n] # Unselected /\ Hollow(SubSeq(Selected, 1, n - 1))

\* codes_index_get_handle, for the n-th field at p; before is what was returned
\* since the tree was walked.
GetHandle(p, n, before) ==
    LET field == ix.tree[p][n]
    IN  /\ ix' = [ix EXCEPT !.rewind = FALSE, !.cur = <<p, n>>]
        /\ IF field.file = Null
           THEN last' = "no file" /\ got' = before
           ELSE last' = "handle" /\ got' = Append(before, <<field.file, field.at>>)

NoHandle(how) ==
    /\ ix' = [ix EXCEPT !.rewind = FALSE, !.cur = Null]
    /\ got' = <<>>
    /\ last' = how

\* The first call after a selection walks the tree.
Execute ==
    /\ ~crashed /\ ix # Null
    /\ ix.rewind /\ ~ix.compressed
    /\ query' = [values |-> Selected, seen |-> Len(added)]
    /\ crashed' = ExecuteCrashes
    /\ IF Found THEN GetHandle(Selected, 1, <<>>)
       ELSE IF \E n \in Walked : Selected[n] = Unselected THEN NoHandle("unselected")
       ELSE NoHandle("end")
    /\ UNCHANGED <<pool, filesid, disk, added, sound>>

HasNext == ix.cur # Null /\ ix.cur[2] < Len(ix.tree[ix.cur[1]])

Advance ==
    /\ ~crashed /\ ix # Null
    /\ ~ix.rewind
    /\ HasNext
    /\ GetHandle(ix.cur[1], ix.cur[2] + 1, got)
    /\ UNCHANGED <<pool, filesid, disk, crashed, added, sound, query>>

AdvanceAtEnd ==
    /\ ~crashed /\ ix # Null
    /\ ~ix.rewind
    /\ ~HasNext
    /\ last' = "end"
    /\ UNCHANGED <<pool, filesid, ix, disk, crashed, added, sound, query, got>>

-----------------------------------------------------------------------------
(* The index file *)

Fields == UNION {ToSet(ix.tree[p]) : p \in DOMAIN ix.tree}

\* The table names the file that a field refers to.
TableNames(field) == \E i \in DOMAIN ix.files : ix.files[i] = [name |-> field.file, id |-> PoolId(field.file)]

\* grib_write_field writes the identifier that the file has in the pool.
WrittenFields(fields) == [i \in DOMAIN fields |-> [id |-> PoolId(fields[i].file), at |-> fields[i].at]]

\* grib_index_write. A hollow level has no value to write: the rest is missing.
\* A field that lost its file is followed nevertheless.
Write ==
    /\ ~crashed /\ ix # Null
    /\ crashed' = \E field \in Fields : field.file = Null
    /\ disk' = [complete |-> ~crashed' /\ \A q \in ix.nodes : ~Hollow(q),
                files |-> ix.files, keys |-> ix.keys, values |-> ix.values, nodes |-> ix.nodes,
                tree |-> IF crashed' THEN <<>> ELSE [p \in DOMAIN ix.tree |-> WrittenFields(ix.tree[p])],
                added |-> added, sound |-> sound /\ \A field \in Fields : TableNames(field)]
    /\ UNCHANGED <<pool, filesid, ix, history>>

\* files[id]: an identifier that is not in the table finds a null pointer, as
\* the array is allocated several times too large.
Named(id) ==
    IF \E i \in DOMAIN disk.files : disk.files[i].id = id
    THEN (CHOOSE e \in ToSet(disk.files) : e.id = id).name
    ELSE Null

ReadFields(fields) ==
    [i \in DOMAIN fields |-> [file |-> Named(fields[i].id), at |-> fields[i].at]]

\* grib_index_read: the files are opened, and their table is not kept.
Read ==
    /\ ~crashed /\ ix = Null
    /\ disk # Null
    /\ pool' = FoldLeft(LAMBDA p, e : IF Contains(p, e.name) THEN p ELSE Append(p, e.name),
                        pool, disk.files)
    /\ IF disk.complete
       THEN /\ ix' = [NewIndex(disk.keys) EXCEPT
                        !.values = disk.values,
                        !.nodes = disk.nodes,
                        !.tree = [p \in DOMAIN disk.tree |-> ReadFields(disk.tree[p])]]
            /\ added' = disk.added /\ sound' = disk.sound
            /\ NewSearch
       ELSE UNCHANGED <<ix, history>>
    /\ UNCHANGED <<filesid, disk, crashed>>

\* grib_index_delete.
Delete ==
    /\ ~crashed /\ ix # Null
    /\ ix' = Null
    /\ NoHistory
    /\ UNCHANGED <<pool, filesid, disk, crashed>>

\* The program ends, or crashed, and another one starts.
Restart ==
    /\ pool' = <<>> /\ filesid' = -1
    /\ ix' = Null /\ crashed' = FALSE
    /\ NoHistory
    /\ UNCHANGED disk

Init ==
    /\ pool = <<>> /\ filesid = -1
    /\ ix = Null /\ disk = Null /\ crashed = FALSE
    /\ added = <<>> /\ sound = TRUE /\ query = NoQuery /\ got = <<>> /\ last = "none"

Next ==
    \/ \E keys \in KeyLists : New(keys)
    \/ \E f \in File : Add(f) \/ OpenOther(f)
    \/ \E k \in Key, v \in Value : Select(k, v)
    \/ \E m \in UNION {ToSet(Contents[f]) : f \in File \ Absent} \ {Damaged} : SelectSame(m)
    \/ Compress \/ Execute \/ Advance \/ AdvanceAtEnd
    \/ Write \/ Read \/ Delete \/ Restart

Spec == Init /\ [][Next]_vars

-----------------------------------------------------------------------------
(* Properties *)

\* Those of the first n messages indexed that have the values p for the keys.
MatchingOf(p, n) ==
    SelectSeq(SubSeq(added, 1, n), LAMBDA r : PathOf(ix.keys, MessageAt(r)) = p)
Matching(p) == MatchingOf(p, Len(added))

\* An index file written when all of its keys had one value has no key and no
\* field left.
HasKeys == ix # Null /\ ix.keys # <<>>

(* The variables have their types; the position in the list of fields is that
   of a field, and the tree has a leaf only below levels that exist. *)
TypeOK ==
    /\ IsInjective(pool) /\ ToSet(pool) \subseteq File
    /\ filesid \in -1..(MaxAdds - 1)
    /\ crashed \in BOOLEAN
    /\ ix # Null =>
          /\ DOMAIN ix.values = ToSet(ix.keys) /\ DOMAIN ix.sel = ToSet(ix.keys)
          /\ \A p \in DOMAIN ix.tree : Len(p) = Len(ix.keys) /\ Prefixes(Front(p)) \subseteq ix.nodes
          /\ ix.cur # Null => ix.cur[2] \in DOMAIN ix.tree[ix.cur[1]]

(* Every message that was indexed can be found by its values: they are listed
   for the keys, each once however often it was met, and the leaf they lead to
   has the offsets of the messages with these values, all of them and in the
   order in which they were indexed; also after a file of which a part was
   indexed, after the keys with one value were removed, and after the index was
   written and read by another program.

   Nothing is said of the other combinations of listed values: after a message
   that failed half way some of them lead to a level or a leaf that the walk
   cannot read (ExecuteCrashes). Nor is it said in which file an offset is: for
   an index that was read that may be wrong (ReadIndexReturnsAll). *)
ListedValuesReachAll ==
    HasKeys =>
        /\ \A k \in ToSet(ix.keys) : IsInjective(ix.values[k])
        /\ \A i \in DOMAIN added :
              LET p == PathOf(ix.keys, MessageAt(added[i]))
              IN  /\ p \in DOMAIN ix.tree
                  /\ \A n \in DOMAIN p : Contains(ix.values[ix.keys[n]], p[n])
        /\ \A p \in DOMAIN ix.tree :
              [n \in DOMAIN ix.tree[p] |-> ix.tree[p][n].at] =
                  [n \in DOMAIN Matching(p) |-> Matching(p)[n][2]]

(* The handles returned since the selection are the messages that have the
   selected values, in the order in which they were indexed, while files are
   added and other programs' files are opened; if the index was read, as long
   as the index file named the files of its fields. *)
HandlesMatchSelection ==
    HasKeys /\ sound =>
        /\ IsPrefix(got, Matching(query.values))
        /\ last = "end" => IsPrefix(MatchingOf(query.values, query.seen), got)

(* The same of every index that grib_index_read returns. *)
ReadIndexReturnsAll ==
    HasKeys /\ last = "end" => IsPrefix(MatchingOf(query.values, query.seen), got)
=============================================================================
