# A formal model of the ecCodes core

ecCodes decodes and encodes GRIB, BUFR and other meteorological messages.  These are TLA+ models of the parts of the library in `src/src` whose correctness depends on the order of things: who tells whom of a change, which accessor is still alive, which file a stream belongs to, which thread makes what the others read, which section of which message is used next, which element of a template a value belongs to.  TLC checks the models on small instances; TLAPS proves some of their properties for every instance.

Nothing is assumed about the code that the code does not do: each definition is a translation of the lines `PROJECT.json` ("map") names, and behaviour that looks wrong is modelled as it is.

## The system

| Part | State | Operations | Interacts with | What makes it correct |
| --- | --- | --- | --- | --- |
| Dependency list (`grib_dependency.cc`) | a linked list of (observed, observer, run) per handle | add, clear on destroy, notify | every accessor that is created or destroyed; `when`, `lookup` and section actions as observers | no entry for a dead accessor, no pair twice, a pass calls exactly the observers it marked |
| Sections, lookup and iteration (`action_class_section.cc`, `_list`, `_if`, `_template`, `grib_query.cc`, `grib_loader_from_handle.cc`, `grib_accessor_class.cc`, `grib_keys_iterator.cc`) | the accessor tree, the buffer, lengths and offsets, the cache of accessors by name, the "kid" handle | rebuild a section when its key changes, get and set keys, iterate over them | told by the dependency list; creates a temporary handle; edits the buffer | no freed accessor is reached, offsets, lengths and buffer agree, the content follows the key, values survive, an iteration meets each key once |
| Message reader (`grib_io.cc`) | the position of a FILE, the buffers of its readers | read the next message into a buffer of the caller or of its own, skip it, read its headers, list the offsets of a file, put the FILE back | programs and threads that share a FILE; gives messages to the multi-field reader | each message once and in order, also behind damaged ones; all readers agree; loops end |
| Multi-field reading (`grib_handle.cc`, `grib_context.cc`) | an entry per stream: message, length and place of each section | next field from a file or from memory, reset, rewind | the message reader, the handles it creates | the fields of a stream in order, each with its own or its inherited sections, in a block of its own |
| Multi-field writing (`grib_handle.cc`) | a growing buffer, offset and length of its last message | append from section n, write | what is written is read by the part above | the same fields come back |
| Context, definition files and tables (`grib_context.cc`, `grib_parse_utils.cc`, `action_class_concept.cc`, `_hash_array`, `_template`, `grib_itrie.cc`) | the list of definition directories, the places found for names, the parsed files, the tables and their numbers, six mutexes | find a file, parse it with its includes, load a table, set the path, delete the context | every handle that is created, of any thread | names answered from one path, files parsed once, tables whole, calls that return |
| BUFR (`accessor/grib_accessor_class_bufr_data_array.cc`, `_expanded_descriptors.cc`) | expanded templates in the context, shared by handles without a mutex; per handle the values, the bitmap and the changed references | decode, set, encode, extract subsets, make new data | tables of elements and sequences, bits of the data section | what is decoded is what the template means, and what is about an element is an attribute of it; what is packed says the values again |
| File pool (`grib_filepool.cc`) | list of files, the last one used, the number of open ones, one mutex | open, close, delete, close all | write and close actions, fieldsets, indexes, threads | one entry per name, count = files open, a FILE in use stays open |
| Fieldsets (`grib_fieldset.cc`) | columns of values, fields, two permutations | create, sort, iterate, delete | positions in files shared through the pool | a permutation in the order asked for, rows that describe their fields |
| Indexes (`grib_index.cc`) | keys with their values, a tree of lists of fields, a table of files | add, compress, select, iterate, write, read | the pool and its identifiers, index files of other programs | selecting meets each message once; an iteration returns all that match |

The parts that are not modelled are under "Not modelled" below.

What is hard in this code:

* Callbacks.  A set notifies observers, which set other keys, destroy and create accessors, register dependencies and notify again, while loops of their callers hold pointers into the list and the tree.
* State that outlives what it describes: the cache of accessors, the entry of a stream, the position of a shared FILE, identifiers of files, remembered places of definition files, bitmaps.
* Errors half way.  A rebuild has five exits; an add to an index or a fieldset stops at a bad message and keeps what it has; a reader goes on behind a message it could not read.
* Threads.  The pool, the tries and the context have mutexes, and parts of them are read outside; the expanded BUFR templates are shared without one; a FILE is locked by the C library for one call, not for one message.
* Levels.  Replications in BUFR templates lie in each other, and which of them ends, starts again or goes on is kept in counters that two loops update.
* Numbers of different units (octets, bits, units of 120 octets) and widths (a difference of longs in an int, a field whose largest value means missing).

`PROJECT.json` ("hazards") lists these places at their lines, with the properties that would notice them going wrong, or the reason why none does.

## The modules

`SequenceLemmas` models nothing: it holds what the proofs of several parts need of sequences, folds and sums (see "The proofs").

### Dependency, DependencyProofs, MCDependency

`live` is the set of accessors that exist, `deps` the list, `stack` the notification passes under way, the innermost last.  `Notify` is the first loop of `grib_dependency_notify_change` (it calls nobody and is a step), `Call` and `ObserverReturns` its second loop, one entry at a time.  In between, and at rest, the caller's code may create (`Add`), destroy (`Destroy`) and notify again, so that everything a callback can do to the list is there.  `ObserverFails` is the early return.  An address may be used again by a later accessor.

### SectionRebuild, KeysIterator, SectionRebuildProofs, MCSectionRebuild

A message with a key `n` and sections whose content depends on it: lists of `n` elements, an `if`, a template chosen by `n`.  `SetKey` starts a notification, which visits the sections one after the other: `Ignore` (nothing to do), or `StartRebuild`, `Create` (the temporary handle and the copied values), `AdjustKid`, `Replace` (the bytes, the offsets of what follows, the accessors), `Settle` (the lengths of what the sections lie in, `outer`, from the innermost to the message), each with the failures of the code; `Return` ends it.  A length that does not fit its key ends a rebuild in two places: that of the new section before anything was replaced, with the kid left behind, and one further out (`SettleFails`) when the section is replaced and the lengths within are written, those outside not.  `Get` is a lookup with the cache and its invalidation, possible also while the kid exists, as the code does inside a rebuild; `SetValue` sets an element.  Accessors are addresses, a block of memory and a number in it, as what is created at a time is freed at a time; a block is used again when nothing points to it.  The observers here are only the sections, in the order of their registration: the general list is `Dependency`.

`KeysIterator` adds a program that walks over the keys of that handle (`grib_keys_iterator.cc`): `New`, `Step` (the next accessor that is not filtered out and, if asked for, whose name was not seen), `Rewind`, `Delete`, between any two actions of the handle.  The iterator keeps a pointer to an accessor; `HandleStep` is a step of `SectionRebuild` and notes whether it freed that accessor, after which the iterator is lost and not used.  `KeysReturnedOnce` is about the iterators that are not: a rebuild of another section in the middle of an iteration neither repeats nor leaves out a key.

### MessageReader, MessageReaderProofs, MCMessageReader

A file is a sequence of cells of four octets: what a cell spells (a magic or not) and what it says where a head or a section is expected; any cell can be met as either.  The readers, which look for a magic, take the edition, add up the sections or take the length, read the rest and look for the closing 7777, are operators from a position to a result (`Result`: the kind of error or none, the position after, the place, the size); a reader stores what it reads in a buffer of its own or its caller, skips it, or reads headers (`Malloc`, `Buffer`, `Fast`, `HeadersOnly`).  Large GRIB 1 messages, whose length counts units and is corrected by that of section 4, are among them.  The processes are the threads that share a FILE: `Tell` notes the position, `Read` is one call of a reader, `Restore` puts the FILE back when the buffer was too small, which is a step of its own, because another thread may have read in between.

### MultiField, MultiFieldProofs, MCMultiField

`supports` is the list of entries of the context.  A read finds or makes the entry of a stream, reads a message when none is in progress, walks its sections to the next section 7 and either copies a block out or, at the last field, gives the message away.  The walk is an operator that changes only the sections and the bitmap of an entry, and the five ways in which a read ends are five actions.  Streams are read in any interleaving, reset, rewound, closed and opened again; the memory reader is the stream `Null`.  Bytes are references to sections of messages; lengths are kept, as the code adds them; `HandlesAreWhole` claims them only for `Uniform` sources, because the code leaves the lengths of one message in the entry for the next, and the run has sources that are not.  `Expected` says what the fields of a message are without the walk.

### MultiHandle, MultiRoundTrip, MCMultiRoundTrip, and MultiFieldProofs

`MultiHandle` is the writer: fields appended as messages (`AppendWhole`) or from section 2, 3 or 4 on (`AppendPartial`), with the position at which the new length is encoded.  Nothing checks that the handle has the section asked for: of one that lost it the whole message is copied into the middle of the last one (`AppendFromStart`), of one that never had it a null name is followed (`AppendCrashes`).  `Intact` says that none of this happened: each message declares the length it has, nothing but sections is in it, and no octet of another was overwritten.

`MultiRoundTrip` is `MultiField` with the writer beside it (an instance of `MultiHandle`): its sources have no messages until one is written (`WriteFile`), which remembers the names of the fields and whether the handle was intact.  `grib_multi_handle_write` does not look: an intact handle puts the messages, as a reader sees them (`Sent`), into a file, and any other one something (`Garbage`), as octets are not modelled.  `FieldsComeBack` says that the messages tile the buffer, and that the fields that are read from a file that was written intact are those that were appended, none missing at the end, whatever was written to others.  `AppendedAtTheEnd`, what `eccodes.h` says of an append, is `Intact` at all times; it is violated (a finding).

### DefinitionFiles, DefinitionFilesProofs, MCDefinitionFiles

Threads make handles, parse templates and load tables.  `th` is where each is in its call; `lock` the mutexes.  The search of a name (`grib_context_full_defs_path`) is the steps `Get`, `Test`, `Enter`, `LinkNode`, `SetNode`, `Remembered` and `Walk`: the list of directories is tested and walked outside the mutex, and linked before it is complete, so each of these is a step.  `StartParse`, `Include`, `Included`, `Missing`, `Keep` and `Leave` are the parser, with its mutex, its stack of includes, the error flag that is never cleared and the static in which it leaves a table; `NewHandle`, `Create`, `Template`, `Table`, `Take`, `Store` and their failing counterparts the callers.  `SetPath` and `DeleteContext` happen between and, where the code does not forbid it, among them.

### BufrTemplate, BufrValues, BufrContent, BufrKeys, BufrData, MCBufrData

`BufrTemplate` is the expansion of a template: sequences replaced by their members, replications with their operand kept or repeated, operators 201 to 208 applied to the width, scale and reference of what follows.  `BufrValues` is how one value, and the values of one element in all subsets of a compressed message, are coded in bits: reference, the pattern of all ones for missing values, the width of the increments.  `BufrData` is `process_elements`: a walk over the expansion with a stack of replications, the start and end of bitmaps, and the operand of the operators; one walk that decodes, encodes or makes new data, one element a step, as two handles share the expansion.  `Expanding` and `Publish` are the cache in the context.  A program decodes (`Decode`), sets a value (`SetValue`), packs (`Encode`, with or without a list of subsets to keep), gives the message a new template (`NewData`) and reads it anew (`Reopen`).

`BufrContent` models no code.  It says by recursion over the structure of a template what elements a message has and what each value is coded as: no stack, no counters and no bitmaps that are walked backwards, and which element a quality value, a marker or an associated field is about.  The properties compare the walk with it.

`BufrKeys` is `create_keys`, which ends every decoding (`EndSubset`): a fold over the decoded elements that makes each of them a key at the end of one list or an attribute of another.  A bitmap is followed by positions in that list (`BitmapInit`, `NextInBitmap`), not in the elements the decoder counted, and where the first walk began is kept for all later ones.  The result, `keys`, lives until the next decoding.  Left out are the groups that order the keys for a dump, the ranks, and the flat mode (`unpack=2`).

### FilePool, FilePoolProofs, MCFilePool

Threads open, use, close and delete files.  The code under the (recursive) mutex is one step per critical section; what is read outside it (the current file, first whether there is one, then its name, then again to take it; a file's mode, its handle, the number of open files; in a deletion the list, one entry a step) is a step of its own, and a compiler may make one read of current of two (`Compare`, `Take`).  A thread that takes another file than it compared opens that one and later closes its own name: the first is then left open (`abandoned`).  `DeleteFile` is the close action; it asks no thread whether it has a pointer to the file, and the memory may become another file's.  Whoever follows a pointer to a file that is in the list goes on with what is there now; whoever follows one to a file that was freed, or a null pointer, ends the behaviour (`undefined`), because nothing can be said of a program after that.  `streams` is the set of FILE pointers that are really open; a pointer may be returned again by a later `fopen`.  `CloseAll` is what a tool calls at its end.  Left out are torn reads of a pointer, and orders of memory other than that of the steps.

### Fieldset, FieldsetProofs, MCFieldset

The positions of the FILEs in the pool are shared by all fieldsets.  Columns are of longs, doubles or strings.  A number that a message does not have is 0; of a string that it does not have the column gets a copy of a local array that was never set (`grib_fieldset.cc:232`), which is any string here (`Gaps`, `Filled`).  `New` creates a fieldset from files, keys and an order; a message that cannot be read, a file that is not there and a key that cannot be decoded stop it where the code stops.  `Sorted` is the code's quicksort with its comparison in an int.  Its calls are made one after the other (`SortPart`), those to come being kept as the places where their parts end, and the loop of a call is a number of turns (`Turn`, `Partition`).  Both numbers are bounds, 2(end - start) turns and twice as many calls as there are fields, which are proved to be enough: nothing is left to do when they are reached.  `InOrder` compares the outcome with the definition of a sorted permutation, of the values the columns hold.

### Index, MCIndex

One index at a time, the pool, the two counters of identifiers and the index file, which survives `Restart`.  The tree is a function from paths to lists of fields, with the set of levels that were allocated, as a level without a value is what a failed add leaves and what the walk follows; a leaf without a field is what is left when the length of a message cannot be read (a BUFR edition without definitions has no totalLength).  `Add` reads a file up to the first message that fails; `Compress` removes the keys with one value; `Execute` is the first call after a selection, `Advance` and `AdvanceAtEnd` the next ones; `Write` and `Read` translate between the pool's identifiers and those of the table.  `crashed` records that a null pointer was followed.

Compositions: `MultiRoundTrip` (`MultiField` and, as an instance, `MultiHandle`), `BufrData` (expansion, values and the walk, several handles).  `Fieldset` and `Index` see of the pool only what they depend on (positions; names and identifiers), `MultiField` of the message reader only that it returns the messages in order; `FilePool` and `MessageReader` show what they may rely on there.

## The runs

All constants are model values or small sets; every bound is a named constant in a guard.

| Run | Instance | What it shows |
| --- | --- | --- |
| `dependency` | 3 addresses, 3 entries, 2 nested passes | `ListSound` (no entry for a dead accessor, no pair twice), `PassTellsMarked` (a pass inside which no other ran tells exactly the observers it marked), `EntriesOnlyDecay` |
| `section_rebuild` | a template (one of whose files is missing) and a list, inside of one more section, `n` in 0..2, failing creations and lengths | `LookupsReachTree`, `ContentFollowsKey`, `LayoutConsistent`, `NoKidAtRest`, `ValuesSurvive` after every sequence of sets and gets; `KeysReturnedOnce` for an iteration with sets in its middle |
| `message_reader` | files of one to three messages of all kinds, intact, truncated, with wrong lengths or magics in their data; two threads, one with a small buffer of its own | `EachMessageOnce`, `OffsetsAgree` (the list of offsets and the readers that skip agree with those that store), `EveryLoopEnds` |
| `multifield` | two files and the memory reader, messages of one to four fields, damaged ones | `FieldsInOrder`, `HandlesAreWhole`, `OneCleanEntryPerFile`, whatever the other streams do |
| `multi_round_trip` | up to two fields of two handles, two files | `FieldsComeBack` |
| `definition_files` | two threads, two directories, two paths, three tables, a template, with included, missing, broken and empty files; three calls a thread, one deletion of the context | `FilesFound`, `OneRoot`, `TablesWhole`, `EveryCallReturns` |
| `bufr` | fifteen messages of ten templates, of one to three subsets, compressed or not; two handles of one template; seven templates for new data; up to three calls | `DecodedRight`, `PackedRight`, `KeysRight` |
| `bufr_nested` | three replications in each other, of which the innermost is empty and last | finding: the outermost is not counted down |
| `filepool` | two threads, two files, two modes, one that deletes, no file kept open (the default) | `OneEntryPerName`, `CountMatches`, `StreamsOwned`, `LimitAtRest`, `NothingLeftOpen` |
| `fieldset` | two fieldsets over five files, four columns of the three types, a limit of one open file | `InOrder`, `RowsDescribeFields`, `HandlesInOrder` |
| `index` | four files (one absent, one that fails half way), two keys, two fields | `ListedValuesReachAll`, `HandlesMatchSelection` across adds that succeed and that fail, compress, write and read |
| `index_read` | these files and one whose message has no length, three fields | finding: an index file names the wrong files when the pool knew another file first |

Each run also checks the type invariant of its module (`TypeOK`) but `multi_round_trip`, `fieldset`, `bufr` and the two findings.

Why the bounds are enough to be interesting.  Three entries and three addresses let an entry lie before, at and after the sweep, and an address be used again; two nested passes are what it takes to overwrite a mark.  Three values of `n` let a list grow, shrink and return.  A message of four fields has inherited sections of three kinds, and two files and the memory stream let entries be found, missed and mixed.  Three messages are one before, one inside or behind and one after a damaged one; a buffer of three cells fits some messages and not others.  Two directories and two paths let a name be in the first, the second or neither, and be answered differently before and after the path is set; the three tables are of both kinds, and an alternative or a master is there, is not, has no instructions, or is broken in a file it includes; three calls are a handle and two loads that race with those of the other thread.  For iterations one filter lets a key be skipped in a section, and a program either iterates or gets and sets elements, which do not concern each other.  In the pool two threads and one file suffice for a race between a test outside the mutex and an action in it, and a second file for current to change from the one that was asked for to one that was not; with a limit of none, the default, each close that comes first closes, and a file opened by mistake is one too many.  In fieldsets four messages with equal, different and missing keys make the quicksort recurse on both sides, and a list of no files leaves a fieldset at the place -1.  In indexes the files give a key one value and another two, the same values from two files, and an index all of whose keys have one value.  The BUFR templates have a way through the walk each: groups in groups, last or not, with the counts 0, 1 and 2 in all positions; operators in all pairs that the code treats apart; values that are missing, equal in all subsets or different.

Deadlock is checked except where programs end: after `CloseAll` or a pointer to a freed file in the pool, when everything was written and read or a null name was followed in the round trip, when the file is at its end in the message reader, and when the calls are used up in the definition files and in BUFR.

A property's exception is stated in it or where the instance is defined.  The main ones are:

* `PassTellsMarked` speaks of passes without a nested one (a nested pass overwrites the marks of the outer one).
* `ContentFollowsKey` excludes lists (a list that is resized and set back is taken for unchanged, `action_class_list.cc:168`) and ends at the first failed creation; `NoKidAtRest` at the first length of a section that could not be encoded (that exit leaves the kid).
* `LayoutConsistent` claims the lengths encoded outside of the sections until one of them could not be encoded (`grib_accessor_class.cc:313`): the message then declares a length it does not have, and a later set that rebuilds nothing succeeds and leaves it.  The offsets, the buffer and the lengths of the sections agree then, too.
* `KeysReturnedOnce` ends when the accessor the iterator points to is freed, and at the first length that could not be encoded; it excepts an iterator that was rewound and skips duplicates, as the names it saw are kept (`grib_keys_iterator.cc:105`).
* `EachMessageOnce` ends at the first time a FILE was put back after another thread moved it; `EveryLoopEnds` excepts messages of length zero, at which a reader goes back to where it was; `OffsetsAgree` excepts messages that do not fit the buffer of the fast readers and, for headers only, large GRIB 1 messages and those that declare less than the sections of their headers (in the run only a large one does).
* `TablesWhole` ends when another thread overwrote the static table of the parser.
* `StreamsOwned` ends at the first file that was closed for its mode by another thread (`grib_filepool.cc:218`); `LimitAtRest` does not count files left open by a failed write, or opened for a caller that asked for another name (`grib_filepool.cc:185`); and the model of the pool ends where a pointer to a deleted file is followed.
* `FieldsComeBack` is about files written from an intact handle.  `eccodes.h:519` says of every append that it puts the sections "at the end of the multi-field GRIB handle"; after an append of sections to a second message, whose length is written over the first (`grib_handle.cc:1319`, an octet offset added to a bit position), or of sections that the handle lacks (`grib_handle.cc:1352`), the handle is not that, and what is found in a file it is written to is left open.
* `RowsDescribeFields` says of a column what the message has, or 0 for a number that it has not, and nothing of a string that it has not; and it speaks of what a fieldset holds of files that were closed before.  `InOrder` supposes that the differences of longs fit in an int (`NearAssumption`); `HandlesMatchSelection` of indexes built here or read from files that name their files (the finding).  `ListedValuesReachAll` says that the values of every message indexed lead to it; it does not say that every combination of listed values can be selected: after a file that failed half way some lead to a null pointer (`ExecuteCrashes`, `grib_index.cc:1731`; the instance of the passing run has a file that leaves a level without a value, only that of `index_read` one that leaves a leaf without a field), and it says at which offset a message is, not in which file.
* In BUFR the instance leaves out three replications in each other that end empty (the finding); two handles that change the reference of one shared template to different values; several bitmaps in one template; the lowest reference of n bits, which is written as 0 (line 2952); a `Pack` before anything was unpacked (`Hasty`, which the code does not decode first); further use of a handle after an extraction without reading it anew; and templates with a bitmap for new data on a handle that had one.  A write of a changed reference to the shared expansion is one step.  Scales are whole numbers.
* `KeysRight` follows the bitmaps of the first subset, or of the one that compressed data are.  In the later subsets of uncompressed data `bitmap_init` begins where it did in the first (`referredElementStart`, line 2174, is never reset), and their quality values become attributes of elements of the first subset; TLC shows it at once if that condition is dropped.  It also excepts bitmaps that speak of a 031021 or of a text of 205YYY: the former has no key and the latter has one, so the keys counted are not the elements.

The hazards quote these lines.

### Fairness

`MessageReader` and `DefinitionFiles` state weak fairness for each thread; the other specifications state none, and claim no liveness.

In `MessageReader` a thread is a program that reads a FILE to its end: the loop `while (read) ...` of all tools.  Nothing makes it wait (the lock of the FILE is held for one call of the C library), so a thread that is scheduled at all goes on: `WF_vars(Tell(t) \/ Read(t) \/ Restore(t))`.  `EveryLoopEnds` is not a matter of scheduling alone: a thread that is told its buffer is too small puts the FILE back, and so may send the other back too.

In `DefinitionFiles` fairness is only for threads in the middle of a call (`Step(t)`); new calls (`Call(t)`), setting the path and deleting the context are the programs' choice and may never happen.  Weak fairness of a thread that waits for a mutex asks for the mutex to be given to it if it stays free, not for any order among waiting threads; as each thread makes finitely many calls, that is enough for `EveryCallReturns`, and POSIX mutexes promise no more.  The property fails if the mutexes are taken in a circle or a way out of a call keeps one.

Elsewhere calls are finite loops over data, and whether they end is not about scheduling: a recursion of `when` actions need not end (see the hazards), and the end of the BUFR walk is part of what `DecodedRight` finds by reaching the rest state.

## The proofs

The theorems hold for all values of the constants that satisfy the named assumptions of the modules, which TLC evaluates on every run: any set of accessors, any number of threads, names, modes and streams, any directories, files and includes, any lists of sections, any messages of a stream and any contents of the files that are read.  Most assumptions say of what kind the constants are, or that `Null` is none of them (`NullAssumption` of four modules, `ThreadAssumption`, `BoundsAssumption`, `KindAssumption`, `PoolAssumption`, `PathAssumption`, `KeysAssumption`, `IncludesAssumption`, `StreamsAssumption`, `FileAssumption`, `SizeAssumption`, `FieldsetAssumption`, `GarbageAssumption`).  `HandlesAssumption` says what the handles are that a program appends: sections in the order of their numbers, 2 alone may be missing, with a bitmap of their own, and a start section is 0 or one behind the first.  `LargeAssumption` and `IntactAssumption` are explained with `MessageReaderProofs`.  Two theorems have a hypothesis that is not an assumption of their module, `MemoryApart`, explained with `MultiFieldProofs`, and `ValuesNear`, with `FieldsetProofs`; the instances that TLC checks satisfy both (`ApartAssumption`, `NearAssumption`).

`SequenceLemmas`.  A least number exists (`LeastNatural`, from the well-foundedness of `<`), and so induction holds for a set of numbers (`Induction`, and `Downwards` from the other end); both without an operator for a parameter, which the provers here cannot instantiate.  The folds of the community modules choose a function on sets of positions: `FoldExists` builds that function one position at a time, and a proof follows a fold step by step from it.  `FlattenDefined` and `SumOf` do the same for the two folds used most, `FlattenSeq` and a sum of numbers, with what is kept when one element is changed or appended (`FlattenAnother`, `SumChange`, `SumBehind`); numbers picked from a list, none twice, add up to no more than the list (`SumPicked`).

`DependencyProofs`.  `TypeCorrect` is inductive by itself; `ListSoundCorrect` needs the types only, as entries lose their accessors and never get others, and `Add` searches the whole list.  `PassTellsMarkedCorrect` is not inductive: a pass knows its marks only as long as nothing else wrote the `run` fields.  `PassInv` adds that all passes but the innermost are nested (`OuterAreNested`), and that for an innermost pass that is not, the marked entries are those with the flag, and those called are the ones behind the sweep (`SweepInv`).  Lemma `CallbackKeepsSweep` says what a callback may do without disturbing it.  `EntriesOnlyDecayCorrect` is an action property with one case per action (`DecayStep`): every step leaves each entry where it is, with the accessors it had or without.

`SectionRebuildProofs`.  `NoKidAtRestCorrect`: `KidInv` ties the kid to the place in the rebuild; each exit of the code is a case.  The exit for a length that cannot be encoded is the case that fails, which is why the property excludes it.  `LookupsReachTreeCorrect` rests on `LookInv`: each section has a block of memory to itself and so has what is under construction (`Blocks`, `InKid`), and a cache that is not marked holds for every name nothing or what a search of the tree finds (`Cached`).  The clause that makes it inductive is that the cache is never marked while a kid exists: it is marked by a replacement, which deletes the kid, and the evaluation that precedes the next kid renews it.  That is the reason why the test for a kid in `rebuild_hash_keys` does no harm.  `LookupFinds` concludes that a lookup finds what a search finds, with or without the cache.  `ContentFollowsKeyCorrect` adds what a section remembers (`Content`): each section contains what it remembers (`Remembered`), except the one under construction, which remembers what it is about to contain (`Building`), and those already notified remember what the key asks for (`Followed`).  A failure but a missing file breaks the first for good, which the property says; a missing file leaves a memory that equals no definition, so the next set builds the section again.  `ValuesSurviveCorrect` combines both: a name is in one place of a section that is no list (`Named`), a lookup finds its address, and an address is that of one accessor (`ValueThere`).  `LayoutCorrect` adds `Laid`: every offset is the sum of the lengths before it (`LaidOut`), so is the length of the buffer, and the encoded lengths are those sums except in the step before they are settled, and further out (`Around`) except after one that did not fit.  A replacement changes one summand by the difference by which it shifts everything behind (`SumChange`), and `Settle` encodes what the buffer has, so that the code's own check of the offsets never fails.  `TypeCorrect` needs all of these, as an element of a section must be an accessor, and what a lookup returns an address.  `IteratorsLeaveTheHandle` carries all of this over to `KeysIterator`, whose specification is the one that TLC checks.  `KeysReturnedOnceCorrect` first says what the walk walks: the list of keys is the tree, each accessor at one place of it, in the order of the sections and of the elements in them (`KeysOrdered`, from the fold by `ElementsJoined`).  A step of the handle, whatever it is, leaves the accessors that it does not free in the tree, with their names and in their order (`Survivors`): only a replacement changes the tree, and what it puts in has other addresses than what it frees.  The invariant of the iteration is then that what was returned and not freed is in that order (`InTurn`), not behind the accessor the iterator is at (`Behind`), and that every accessor up to there which existed all the time was returned, filtered out or had a name seen before (`Complete`).

`MessageReaderProofs`.  A file is any sequence of cells.  The first half is about one read, by any reader that stores messages: it starts at the next magic, ends behind it and not behind the end of the file, and an error leaves a GRIB or BUFR message right behind its magic unless the message was cut off or a length was 0 (`Good`, one lemma for each kind of message; `ReadAnyPast` for the search).  This gives `TypeCorrect`.  The second half is what the threads keep: `Order` (what was returned lies before the position, and before every position that will be put back and was not overtaken), `NoneLost` (an intact message before the position was returned, was swallowed by a damaged one that is not put back, or lies where a thread that waits to put the FILE back will go) and `AtTheEnd` (once a thread found the end, no other goes back behind it unless it was overtaken).  When all have stopped nobody waits, which is `EachMessageOnceCorrect`.  `IntactAssumption` is what "intact" means: the reader that allocates reads the message where it starts.  That a reader with a buffer then reads it too, or says the buffer is too small, is proved (`Like`).  `LargeAssumption` leaves out large messages of no unit, whose length the code computes below zero.

`OffsetsAgreeCorrect` compares readers with each other.  `Shape` says that for each kind of message the rest of it is all that depends on how a reader stores (one lemma for each kind), so at every position the readers that store, skip or have a buffer return the same, unless the buffer is too small, and those that read headers only the same start and the same end or the `7777` before it (`ReadAnyAgrees`).  The list of offsets is a recursive function of the position; that there is such a function, and that it is the only one, follows from the end of the file down to its start (`Backwards`, `Downwards`, `FromListing`).  `Sight`, the invariant, says that what was returned is what is listed before the position from which the next message will be returned, or that the list ends with an error that was returned.  That position is the one a thread will put the FILE back to, if there is one: another read before it does is a race that is certain and did not yet happen (`Doomed`), and then nothing is said, as nothing is kept once it happened.  `ThreadAssumption` (there is a thread) is needed for the FILE to be at its end when all threads are done.

`MultiFieldProofs`.  `OneCleanEntryCorrect`: the invariant `Entries` says that the list has one entry for a stream and that an entry has a message of edition 2 or none, and with none starts at section 0 with no section of another (`Entered`).  Edition 2 is needed because a message of another edition is given away without clearing the sections, which is right only as none were set.  That a new entry is not the second of its stream needs that a search that fails has seen the whole list (`AllSupported`; the first match is a least number).  What the walk finds in a message does not matter, only what it may change.  `TypeCorrect` follows the walk turn by turn (`WalkSteps`): an entry stops before section 0 or behind a section 7 of its message, and its sections are sections of blocks that were read (`Typed`).

`FieldsInOrderCorrect` compares with a promise that knows no walk: `Expected` lists the fields that end at each section of each message, a field having the last section of each number before it.  `Gathered` says of a walk that each of its pointers is that section, so the block that is built is the field that ends there (`BuiltField`); `Told`, the invariant, that what a stream returned is the fields of the messages before, followed by those of the message in its entry up to its place.  A reset disowns an entry by writing `Null` into it, the key of the memory reader, which would go on with it; the theorem supposes that memory and a file that is reset have no messages both (`MemoryApart`), and so do the instances TLC checks (`ApartAssumption` of `MCMultiField`).

`HandlesAreWholeCorrect` weighs the same walk.  An entry keeps the lengths of the message before, and `grib2_build_message` adds all eight, whether or not the section is there, but declares no more than the whole message has.  `Uniform` says when that is right: each field of a source has the sections that any of its messages has, and a bitmap is inherited from its own message.  Then every length that is not 0 belongs to a section that is there (`Carried`), and is that of a section of the message with that number (`Measured`); since the numbers differ the sections do, so their sum is at most that of the message (`SumPicked`) and nothing is cut off (`BuiltWhole`).  For a block that a handle will free the proof needs only that no entry keeps a message of another edition than 2, and that a walk over a message that ends with a section 7 ends in a field (`WalkEnds`).

`FieldsComeBackCorrect` joins the reader to the writer.  `NamesFirst` reads off a list of messages the names of the sections of each field in them, a field having the last section of each number up to a section 7.  Appending a whole message adds one field to that list, its own (`NamesWhole`); appending from a section on adds one field which has the new sections from the start section on and, before it, those of the last field (`NameAppended`), as none of the fields before can see the part behind them (`NamesSame`).  So `WritesWell`, the invariant of the writer, says that the names of the buffer are the fields appended, and that the messages tile it, of which `Tiled` is a part.  `Kept` says that each file that was written from an intact handle has the messages, and the history the names, of a buffer like that.  Such a file is well-formed (`HeldWell`), and the field that `FieldAt` promises at a section 7, with no bitmap inherited, has the names `NamesFirst` has there (`HeldName`).  Field by field (`Matches`) the promise `Expected` therefore is what was appended, and what was returned, a prefix of the promise by `Told`, a prefix of it too (`HeldFields`).  Whatever is found in the other files, reading those leaves what is told of this one alone.  Reading leaves the writer as it is and writing changes the messages of one file, of which nothing was returned because it had none (`WriteStep`); what is told of a source depends on its own messages only (`SourceTold`).

`DefinitionFilesProofs`.  Four layers.  `Types` says at which step of a call a thread holds which mutex (`Phases`, `Locks`), that a remembered place is one of its name (`Places`), and that tables and numbers agree (`Numbers`): this gives `TypeCorrect`.  `Roots`, on top of it, says that whoever is not making the first handle has one, and that a handle needs a parsed file, so that the boot file is the first; and that a thread in the parser knows the file it parses not to be kept: this gives `OneRootCorrect`.  `Searches`, on top of both, is about the list of directories, which the code tests and walks without a mutex.  Its key is lemma `MakerAlone`: the thread that makes the list is the one that makes the first handle, under the mutex of that, and everyone else is idle, because no other call is possible without a handle and no handle without a root.  So the list is whole for all others, and `FilesFoundCorrect` follows from what a walk has seen so far (`FirstPlace`).  This is the proof that the unprotected test is harmless, and it says why: not because of the mutex next to it.  The last layer is about the tables.  `Stored` says that stored and freed tables have numbers that were given, from which it follows that no new number is a freed one.  `Loads` says what a thread that loads a table has in its hands at each step, until a static is overwritten.  Its hard part is the parser: what a table file has depends on all files it includes, which the parser meets one after the other, with a stack, and `Expected` says without an order (`Parses`: there is a set of files that are not broken, with the file in it and all that its members include).  `Parsing` is what joins the two: what was met together with what is on the stack is such a set, and every such set has the stack in it.  This gives `TablesWholeCorrect`, also for files that include each other, where the parser never ends.

`FilePoolProofs`, in three parts.  `Inv` has three conjuncts: the types, with `Anchored` (open files are in the list, and no call is under way once all were closed), `OneEntryPerName` and `CountMatches`.  They need each other: the count goes down only for files that are counted, which needs that an open file is in the list; and that names stay unique when a thread inserts one needs that it searched in the same critical section.  Nothing is said of the file a thread points to, which may be deleted or another one by now: that is why no step outside the mutex, however the reads of current fall, can disturb these.  The cardinality of the open files is handled by two lemmas (one more, one less) from the library's theorems on finite sets; deletion by lemmas on the list without an entry.

Second, the FILE pointers.  `Streams`, on top of `Inv`: every open `FILE*` is the handle of a file or was dropped by a deletion (also after a clash); until a clash every handle is an open `FILE*` of one file only; `NothingLeftOpen`.  They need each other: a fclose leaves the other handles open because no two files share a `FILE*`, and close_all closes everything because every owner is in the list.  This gives `StreamsOwnedCorrect` and `NothingLeftOpenCorrect`.

Third, the limit.  `LimitAtRest` says nothing of the middle of calls, where more files are open than allowed.  `Bound` is what is kept there: the open files that are not abandoned and that no call tends (`Resting`) are never more than allowed.  A call tends the file it is about to open or use, and from then on the one that has its name (`Tends`); that these may differ is the case of a file taken instead of another, which is abandoned when it is used.  Each step leaves `Resting` as it is or smaller, but for a close that decides to leave its file open, which saw a count within the limit; by `CountMatches` that count is the number of open files.  That a close with too many open closes the file of its own name needs `OneEntryPerName`.

`FieldsetProofs`.  The invariant `SetsInv` says of each fieldset that its fields are references to messages and have a row each, their own as long as no message was left out (`Described`), whatever strings fill the gaps (`GapsFilled`); that a fieldset of files nobody had open has all messages of them whose keys can be read (`Whole`); and that the handles returned since the last rewind are the fields in order up to the place (`Returned`).  `New` is the work: it folds over files, and for each file over its messages, and either fold may stop in its middle.  `MessagesAdded` follows the inner one, `FilesAdded` the outer one, each from a function that `FoldExists` gives.  This gives `RowsCorrect` and `HandlesCorrect`.

`InOrderCorrect` is the correctness of `grib_fieldset_sort`, in three steps.  The comparison is a total preorder (`CompareOrders`): it compares the values of two rows lexicographically, a descending key negated, as long as the difference of two longs fits in an int (of doubles and strings only its sign is used).  This is the hypothesis, `ValuesNear`; without it the difference wraps, the order is no order, and `InOrder` is false (the hazard at line 474).  Then the loop: `Partitioning` says after each turn that what is before `l` is not greater than the field at the start and what is behind `r` not less, and bounds the turns that are left by 2(r - l), less one when the field at `l` may be passed, because an exchange leaves both places and only makes the next turn pass it.  So the loop ends (`Partitioned`), and the exchange with the pivot makes two parts, neither empty, of which none in the first comes after one in the second (`Split`).  Then the calls: `Sorting` says that two fields are in order unless both are in one part to come (`Apart`), and that after k calls the first place to come and the number of parts sum to at least k + 2, so that after 2n calls nothing is to come.  That the order stays a permutation is carried along (`Within`, `Exchanged`).  `OrderInv`, on top of `SetsInv`, says of each fieldset that it is in its order, which reading and rewinding do not touch; a refused order leaves the fields where they are, in no order.

Only model-checked:

* The liveness properties `EveryLoopEnds` and `EveryCallReturns`, which are out of the prover's reach.
* BUFR: `DecodedRight`, `PackedRight` and `KeysRight` compare with a recursive definition of what a message means, and a module that reaches one of those cannot hold a theorem.
* The three of `Index`: nothing known stands against a proof but its length.

## Findings

Two places where the code does other than its documents or comments say; each is a run that TLC finds violated ("findings" quotes the texts).

1. `accessor/grib_accessor_class_bufr_data_array.cc:2898`: a replication that ends because an empty one was its last part is not counted in the one around it; with three in each other, part of the message is not decoded, and success reported.
2. `grib_index.cc:406`: fields are written with the pool's identifiers, the table with those of the index.

Other divergences are recorded as hazards, with the properties that except them: `action_class_list.cc:168` (a list set back to its first length keeps the second), `grib_handle.cc:846` (section lengths of one message counted for the next), `grib_handle.cc:1319` (an octet offset added to a bit position), `grib_handle.cc:1352` (sections appended from one the handle has not), `grib_accessor_class.cc:313` (an enclosing length that does not fit), `grib_filepool.cc:185` (current is compared and read again), `grib_filepool.cc:286` (a file is deleted while others have pointers to it), `grib_filepool.cc:218` (a thread closes the FILE another was just given), `grib_fieldset.cc:232` (a string that was never set is sorted by), `grib_accessor_class_bufr_data_array.cc:982` and `:759` (references in the shared expansion; sign and magnitude).

## Not modelled

Each part is in "components" with its sources and the reason.

* Pure data or text: the generated parser and hash of keys, definitions, samples and memfs, dumpers, version and error tables, the tools, the Fortran and Python interfaces, tests, examples, deprecated code.  These are most of the lines of the repository.
* Floating point: the packing of values, spherical harmonics, geographic iterators, IBM and IEEE numbers.
* Code of one owner without a protocol: dynamic arrays, expressions, memory, timers, image codecs.
* Could be modelled, and is not yet: `when` and `switch`, the evaluation of concepts, copies of handles, the growth of buffers, getting and setting by type, bit streams, dates and steps, the groups of BUFR keys and the iterator over them.

## What comes next

In order of what is at stake:

1. Proofs: for `Index`, that a selection returns the messages that match.
2. `MessageReader` composed with `MultiField`: what a damaged or misread message does to the fields of the next.
3. `when` and `switch` beside `Dependency`; an abstract handle (a map from keys to values) that `SectionRebuild` implements.
4. BUFR: several bitmaps, the groups and ranks of keys, references changed in a shared expansion.
5. Pure algorithms against a reference definition: n-bit integers at any bit, Julian dates, units of steps, boustrophedonic order, the search of the nearest row.
