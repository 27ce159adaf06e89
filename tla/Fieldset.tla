------------------------------ MODULE Fieldset ------------------------------
(* Fieldsets (grib_fieldset.cc): the fields of some files, with the values of
   a few keys in columns, sorted by those and read one after the other.

   A fieldset keeps no message, only where it is. Its files are in the pool of
   open files, so that all fieldsets of a program share one FILE*, and its
   position, per file: grib_file_open neither rewinds a file that is open nor
   does grib_file_close close it while there are few of them.

   A field is known by its reference <<file, k>>, the k-th message of a file.
   A column is of longs, of doubles or of strings, as its key says with :l (or
   :i), :d or :s; of strings when it says nothing. A program says the same of a
   key wherever it passes it. Strings are numbers here, in the order of strcmp.

   Fieldsets have less than GRIB_START_ARRAY_SIZE fields: the arrays are not
   enlarged. Indices start at 1. *)
EXTENDS Integers, Sequences, FiniteSets, SequencesExt

CONSTANTS
    File,         \* the names of files
    Contents,     \* the messages of each file
    Key,          \* the keys a column may be for
    Long,         \* those of columns of longs
    Double,       \* those of columns of doubles; the others are of strings
    KeyLists,     \* the keys that programs pass, <<>> for none
    OrderBys,     \* the order_by strings they pass, parsed
    FileLists,    \* the files they pass
    Set,          \* the fieldsets
    Null,
    Damaged,      \* a message that cannot be read
    NotFound,     \* what a message has for a key: nothing,
    Unreadable,   \*   or something that cannot be read as the column's type
    Strings,      \* what a buffer that was never set may hold
    MaxOpened,    \* context->file_pool_max_opened_files
    IntHalf       \* 2^31: an int is in -IntHalf..(IntHalf - 1)

ASSUME FieldsetAssumption ==
    /\ DOMAIN Contents = File
    /\ \A f \in File : Len(Contents[f]) \in Nat /\ DOMAIN Contents[f] = 1..Len(Contents[f])
    /\ \A f \in File : Null \notin {f} \X DOMAIN Contents[f]
    /\ KeyLists \subseteq Seq(Key)
    /\ OrderBys \subseteq Seq(Key \X {1, -1})
    /\ FileLists \subseteq Seq(File)
    /\ Null \notin Set
    /\ NotFound \notin Int /\ Unreadable \notin Int /\ Strings \subseteq Int
    /\ MaxOpened \in Nat /\ IntHalf \in Nat \ {0}

VARIABLES
    position,   \* per file: the message its FILE* is at, 0 when it is closed
    sets,       \* per fieldset: Null, or what it holds
    got,        \* history: the fields returned since the last rewind
    fresh       \* history: per fieldset, its files if all were closed before, or Null

vars == <<position, sets, got, fresh>>

Closed == 0
Readable(f) == Contents[f] # <<>>

Number == Long \cup Double
Missing == {NotFound, Unreadable}

References(files) == UNION {{f} \X DOMAIN Contents[f] : f \in files}

-----------------------------------------------------------------------------
(* Adding a file *)

NewSet(cols) ==
    [cols |-> cols, rows |-> <<>>, fields |-> <<>>, order |-> <<>>, current |-> -1, orderBy |-> <<>>]

\* A number that is missing is 0. A string that is missing is left open here.
RowOf(cols, m) ==
    [c \in ToSet(cols) |-> IF m[c] \in Missing /\ c \in Number THEN 0 ELSE m[c]]

Gaps(set) ==
    {g \in (DOMAIN set.rows) \X ToSet(set.cols) : set.rows[g[1]][g[2]] \in Missing}

\* A string that is missing: the column gets a copy of sval, which nothing has
\* set and which holds any string.
Filled(set, sval) ==
    [set EXCEPT !.rows = [i \in DOMAIN set.rows |->
        [c \in ToSet(set.cols) |->
            IF <<i, c>> \in Gaps(set) THEN sval[<<i, c>>] ELSE set.rows[i][c]]]]

\* The error of the last column decides.
Kept(cols, m) == m[Last(cols)] # Unreadable

\* Mutant: the new field goes before the others.
AddMessageFront(set, ref) ==
    [set EXCEPT !.rows = Append(@, RowOf(set.cols, Contents[ref[1]][ref[2]])),
                !.fields = <<ref>> \o @,
                !.order = Append(@, Len(set.fields) + 1)]

\* The columns get a value in any case; the field goes to the place after the
\* last field, which is not that of the value once a message was not kept.
AddMessage(set, ref) ==
    LET m    == Contents[ref[1]][ref[2]]
        rows == Append(set.rows, RowOf(set.cols, m))
        size == Len(set.fields)
        skipped == [i \in 1..(Len(rows) - size - 1) |-> Null]
    IN  IF Kept(set.cols, m)
        THEN [set EXCEPT !.rows = rows,
                         !.fields = @ \o <<ref>> \o skipped,
                         !.order = @ \o [i \in 1..(Len(rows) - size) |-> size + i]]
        ELSE [set EXCEPT !.rows = rows]

\* Where reading a file starts, and the first message that cannot be read.
From(pos, f) == IF pos[f] = Closed THEN 1 ELSE pos[f]

Stop(pos, f) ==
    LET spoilt == {k \in From(pos, f)..Len(Contents[f]) : Contents[f][k] = Damaged}
    IN  IF spoilt = {} THEN Len(Contents[f]) + 1 ELSE Min(spoilt)

OpenFiles(pos) == {f \in File : pos[f] # Closed}

\* grib_file_close.
AfterClose(pos, f) ==
    IF Cardinality(OpenFiles(pos)) > MaxOpened THEN [pos EXCEPT ![f] = Closed] ELSE pos

Until(pos, f) == Stop(pos, f) - 1

\* grib_fieldset_add, on [set, pos, ok].
AddFile(state, f) ==
    LET from == From(state.pos, f)
        stop == Stop(state.pos, f)
        refs == [i \in 1..(Until(state.pos, f) + 1 - from) |-> <<f, from + i - 1>>]
        set  == FoldLeft(AddMessage, state.set, refs)
    IN  IF ~state.ok THEN state
        ELSE IF ~Readable(f) THEN [state EXCEPT !.ok = FALSE]
        ELSE IF stop <= Len(Contents[f])
             THEN [set |-> set, pos |-> [state.pos EXCEPT ![f] = stop + 1], ok |-> FALSE]
        ELSE [set |-> [set EXCEPT !.current = 0],
              pos |-> AfterClose([state.pos EXCEPT ![f] = stop], f), ok |-> TRUE]

-----------------------------------------------------------------------------
(* Sorting *)

\* A difference of two longs is kept in an int.
AsInt(n) == ((n + IntHalf) % (2 * IntHalf)) - IntHalf

\* Of doubles and of strings only the sign of the difference is kept, and only
\* the sign is used.
Difference(c, x, y) == IF c \in Long THEN AsInt(x - y) ELSE x - y

\* Mutant: the last key decides.
CompareLast(rows, orderBy, i, j) ==
    LET last == Last(orderBy)
    IN  Difference(last[1], rows[i][last[1]], rows[j][last[1]]) * last[2]

\* grib_fieldset_compare: the first key in which the two differ.
Compare(rows, orderBy, i, j) ==
    LET diff(o) == Difference(o[1], rows[i][o[1]], rows[j][o[1]])
        first == SelectInSeq(orderBy, LAMBDA o : diff(o) # 0)
    IN  IF first = 0 THEN 0 ELSE diff(orderBy[first]) * orderBy[first][2]

Swap(order, i, j) == [order EXCEPT ![i] = order[j], ![j] = order[i]]

\* The loop of grib_fieldset_sort: one turn, and all that it may take.
Turn(rows, orderBy, start, state) ==
    LET cmp(i) == Compare(rows, orderBy, state.order[i], state.order[start])
    IN  IF state.l >= state.r THEN state
        ELSE IF cmp(state.l) <= 0 THEN [state EXCEPT !.l = @ + 1]
        ELSE IF cmp(state.r) >= 0 THEN [state EXCEPT !.r = @ - 1]
        ELSE [state EXCEPT !.order = Swap(@, state.l, state.r)]

Partition(rows, orderBy, order, start, end) ==
    LET turns == 2 * (end - start)
        turn[n \in 0..turns] ==
            IF n = 0 THEN [order |-> order, l |-> start + 1, r |-> end]
            ELSE Turn(rows, orderBy, start, turn[n - 1])
    IN  turn[turns]

\* One call of grib_fieldset_sort: quicksort around the field at the start.
\* It calls itself for the part before l and then for that from l on; the calls
\* to come are kept as the places where their parts end.
SortPart(rows, orderBy, state) ==
    LET start == state.from
        end   == Min({e \in state.ends : e >= start})
        p     == Partition(rows, orderBy, state.order, start, end)
        pivot == IF Compare(rows, orderBy, p.order[p.l], p.order[start]) < 0 THEN p.l ELSE p.l - 1
    IN  IF start > Len(state.order) THEN state
        ELSE IF end <= start THEN [state EXCEPT !.from = end + 1]
        ELSE [order |-> Swap(p.order, pivot, start), from |-> start, ends |-> state.ends \cup {p.l - 1}]

Sorted(rows, orderBy, order) ==
    LET calls == 2 * Len(order)
        call[n \in 0..calls] ==
            IF n = 0 THEN [order |-> order, from |-> 1, ends |-> {Len(order)}]
            ELSE SortPart(rows, orderBy, call[n - 1])
    IN  call[calls].order

KnownKeys(set, orderBy) == \A i \in DOMAIN orderBy : orderBy[i][1] \in ToSet(set.cols)

SortBy(set, orderBy) ==
    [set EXCEPT !.orderBy = orderBy, !.current = 0,
                !.order = IF orderBy = <<>> THEN @ ELSE Sorted(set.rows, orderBy, @)]

\* A new fieldset is sorted and rewound only when there is an order.
Made(set, sval, orderBy) ==
    IF orderBy = <<>> THEN Filled(set, sval) ELSE SortBy(Filled(set, sval), orderBy)

-----------------------------------------------------------------------------
(* The calls of the program *)

Exists(s) == sets[s] # Null

\* grib_fieldset_new_from_files. Without keys the columns are those of the
\* order; a file, a message or a key of the order that is missing makes it
\* return NULL, and the files stay where they are.
New(s, files, keys, orderBy) ==
    LET cols  == IF keys = <<>> THEN [i \in DOMAIN orderBy |-> orderBy[i][1]] ELSE keys
        added == FoldLeft(AddFile, [set |-> NewSet(cols), pos |-> position, ok |-> TRUE], files)
        ok    == added.ok /\ KnownKeys(added.set, orderBy)
    IN  /\ ~Exists(s)
        /\ cols # <<>>
        /\ position' = added.pos
        /\ \E sval \in [Gaps(added.set) -> Strings] :
               sets' = IF ok THEN [sets EXCEPT ![s] = Made(added.set, sval, orderBy)] ELSE sets
        /\ fresh' = IF ok
                    THEN [fresh EXCEPT ![s] = IF \A f \in ToSet(files) : position[f] = Closed
                                              THEN ToSet(files) ELSE Null]
                    ELSE fresh
        /\ got' = IF ok THEN [got EXCEPT ![s] = <<>>] ELSE got

\* An order that is refused leaves the fieldset with none, and as sorted as it
\* was.
ApplyOrderBy(s, orderBy) ==
    /\ Exists(s)
    /\ IF KnownKeys(sets[s], orderBy)
       THEN /\ sets' = [sets EXCEPT ![s] = SortBy(@, orderBy)]
            /\ got' = [got EXCEPT ![s] = <<>>]
       ELSE /\ sets' = [sets EXCEPT ![s].orderBy = <<>>]
            /\ UNCHANGED got
    /\ UNCHANGED <<position, fresh>>

Rewind(s) ==
    /\ Exists(s)
    /\ sets' = [sets EXCEPT ![s].current = 0]
    /\ got' = [got EXCEPT ![s] = <<>>]
    /\ UNCHANGED <<position, fresh>>

Size(s) == Len(sets[s].fields)

\* Mutant: the FILE* is read where it is.
SeekForgotten(ref) == <<ref[1], IF position[ref[1]] = Closed THEN 1 ELSE position[ref[1]]>>

\* The message read after the seek to the offset of a field.
Seek(ref) == ref

\* grib_fieldset_next_handle. (An entry without a field cannot be followed.)
NextHandle(s) ==
    /\ Exists(s)
    /\ sets[s].current \in 0..(Size(s) - 1)
    /\ LET ref  == sets[s].fields[sets[s].order[sets[s].current + 1]]
           f    == ref[1]
       IN  /\ ref \in References(File)
           /\ got' = [got EXCEPT ![s] = Append(@, Seek(ref))]
           /\ position' = AfterClose([position EXCEPT ![f] = Seek(ref)[2] + 1], f)
    /\ sets' = [sets EXCEPT ![s].current = @ + 1]
    /\ UNCHANGED fresh

\* At the end it returns NULL and no error, and still moves on (counted here
\* once); so it does in a fieldset of no files, which is at -1 when it is made:
\* the size is unsigned, and -1 compared with it is large.
NextAtEnd(s) ==
    /\ Exists(s)
    /\ sets[s].current \in {-1, Size(s)}
    /\ sets' = [sets EXCEPT ![s].current = @ + 1]
    /\ UNCHANGED <<position, got, fresh>>

\* grib_fieldset_delete; the files stay open (GRIB-1010).
Delete(s) ==
    /\ Exists(s)
    /\ sets' = [sets EXCEPT ![s] = Null]
    /\ got' = [got EXCEPT ![s] = <<>>]
    /\ fresh' = [fresh EXCEPT ![s] = Null]
    /\ UNCHANGED position

Init ==
    /\ position = [f \in File |-> Closed]
    /\ sets = [s \in Set |-> Null]
    /\ got = [s \in Set |-> <<>>]
    /\ fresh = [s \in Set |-> Null]

Next ==
    \E s \in Set :
        \/ \E files \in FileLists, keys \in KeyLists, orderBy \in OrderBys :
              New(s, files, keys, orderBy)
        \/ \E orderBy \in OrderBys : ApplyOrderBy(s, orderBy)
        \/ Rewind(s) \/ NextHandle(s) \/ NextAtEnd(s) \/ Delete(s)

Spec == Init /\ [][Next]_vars

-----------------------------------------------------------------------------
(* Properties *)

Existing == {s \in Set : Exists(s)}

MessageOf(ref) == Contents[ref[1]][ref[2]]

Precedes(r1, r2, orderBy) ==
    \E n \in DOMAIN orderBy :
        /\ \A m \in 1..(n - 1) : r1[orderBy[m][1]] = r2[orderBy[m][1]]
        /\ r1[orderBy[n][1]] * orderBy[n][2] < r2[orderBy[n][1]] * orderBy[n][2]

\* The values that messages have are numbers (a string the number of its place
\* among the strings), and the differences of longs fit in an int.
ValuesNear ==
    \A c \in Key, r1, r2 \in References(File) :
        LET value(ref) == RowOf(<<c>>, MessageOf(ref))[c]
        IN  Damaged \notin {MessageOf(r1), MessageOf(r2)} =>
                /\ value(r1) \in Int \cup Missing
                /\ c \in Long => value(r1) - value(r2) < IntHalf

(* Sorting, again and by other keys, and refusing an order never loses a field
   or lists one twice; and a fieldset that has an order is in it: no field
   comes after one that it precedes by the first key in which they differ. *)
InOrder ==
    \A s \in Existing :
        LET row(i) == sets[s].rows[sets[s].order[i]]
        IN  /\ Len(sets[s].order) = Size(s) /\ ToSet(sets[s].order) = 1..Size(s)
            /\ \A i, j \in 1..Size(s) : i < j => ~Precedes(row(j), row(i), sets[s].orderBy)

Describes(row, cols, m) ==
    \A c \in ToSet(cols) :
        /\ m[c] \notin Missing => row[c] = m[c]
        /\ m[c] \in Missing /\ c \in Number => row[c] = 0

(* The values that a field is sorted by are those of its own message, for every
   key that this message has, and 0 for a number that it has not, as long as
   every message could be read: never those of the field before or after it.
   (Of a string that the message has not, nothing holds: see Filled.) And a
   fieldset made of files that no one had open holds every message that can be
   read of them, and no other. *)
RowsDescribeFields ==
    \A s \in Existing :
        /\ Len(sets[s].rows) = Size(s) /\ Null \notin ToSet(sets[s].fields) =>
               \A i \in 1..Size(s) :
                   Describes(sets[s].rows[i], sets[s].cols, MessageOf(sets[s].fields[i]))
        /\ fresh[s] # Null =>
               ToSet(sets[s].fields) \ {Null} =
                   {ref \in References(fresh[s]) : Kept(sets[s].cols, MessageOf(ref))}

(* The handles returned since the last rewind are those of the fields in
   order, each once, although other fieldsets read the same FILE* in between
   and the pool closes it and opens it again. *)
HandlesInOrder ==
    \A s \in Existing :
        LET n == IF sets[s].current > Size(s) THEN Size(s) ELSE sets[s].current
        IN  got[s] = [i \in 1..n |-> sets[s].fields[sets[s].order[i]]]
=============================================================================
