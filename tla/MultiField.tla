----------------------------- MODULE MultiField -----------------------------
(* Reading the fields of multi-field GRIB messages one handle at a time: the
   entries of grib_context.multi_support and the readers of grib_handle.cc.

   A GRIB edition 2 message may hold several fields: after the section 7 of
   one field the next one starts again at section 2, 3 or 4, and the sections
   it does not repeat are those of the field before. One entry per FILE*
   remembers the message in progress and the latest section of each number.
   The message is cut at every section 7 and copied into a handle of its own.

   A section's bytes are its reference <<block, j>>: the j-th section of a
   message block (section 0 has j = 0), a block being <<source, k>>, the k-th
   message of a source. Lengths are kept, since the code adds them up.
   The source Null is the memory reader, which calls with the file 0. *)
EXTENDS Naturals, Sequences, FiniteSets, SequencesExt

CONSTANTS
    File,         \* the FILE pointers of the program
    Null,         \* the null pointer; as a source, the memory reader
    Streams,      \* the contents the sources may have
    Resettable,   \* the files the program resets
    MaxSupports,  \* bound: entries a reset may leave behind
    MaxHandles    \* bound: handles a source returns before it starts again

Source == File \cup {Null}

VARIABLES
    stream,     \* the messages each source holds; never changes
    files,      \* per source: is it open, which message is read next
    supports,   \* c->multi_support, the linked list of entries
    out,        \* the handles returned since the source was (re)started
    last        \* per source: how the last read ended, or "reset"

vars == <<stream, files, supports, out, last>>

HeaderLen == 16   \* section 0
EndLen    == 4    \* "7777"

Section == [num : Nat, len : Nat, inherits : BOOLEAN]
Message == [edition : {1, 2}, sections : Seq(Section)]

ASSUME StreamsAssumption ==
    /\ Null \notin File /\ Resettable \subseteq File
    /\ Streams \subseteq [Source -> Seq(Message)]

\* The null pointer is no message block and no section of one.
ASSUME NullAssumption == Null \notin Source \X Nat /\ Null \notin (Source \X Nat) \X Nat

Of(b) == stream[b[1]][b[2]].sections

SumLens(lens) == FoldLeft(LAMBDA a, n : a + n, 0, lens)

\* message_length: the whole block, from "GRIB" to "7777".
MessageLength(b) ==
    HeaderLen + SumLens([j \in DOMAIN Of(b) |-> Of(b)[j].len]) + EndLen

-----------------------------------------------------------------------------
(* The entry of a source *)

NewSupport(s) ==
    [file |-> s, message |-> Null, number |-> 0,
     sections |-> [n \in 0..7 |-> Null],
     lens |-> [n \in 0..7 |-> IF n = 0 THEN HeaderLen ELSE 0],
     bitmap |-> Null, bitmapLen |-> 0, freed |-> FALSE]

\* Mutant: only the head of the list is looked at.
HasSupportHead(s) == supports # <<>> /\ supports[1].file = s

HasSupport(s) == \E i \in DOMAIN supports : supports[i].file = s

Supported(s) == IF HasSupport(s) THEN supports ELSE Append(supports, NewSupport(s))

\* The list is searched from its head: the first entry of that file.
FirstOf(list, s) ==
    CHOOSE i \in DOMAIN list :
        /\ list[i].file = s
        /\ \A j \in 1..(i - 1) : list[j].file # s

Entry(s) == Supported(s)[FirstOf(Supported(s), s)]

SetEntry(s, gm) == [Supported(s) EXCEPT ![FirstOf(Supported(s), s)] = gm]

AtEnd(s) == files[s].next > Len(stream[s])

MustLoad(s) == Entry(s).message = Null

\* The message in progress, or the next one of the source.
Loaded(s) ==
    IF MustLoad(s) /\ ~AtEnd(s) THEN [Entry(s) EXCEPT !.message = <<s, files[s].next>>]
    ELSE Entry(s)

-----------------------------------------------------------------------------
(* The walk over the sections of one field *)

HasNext(b, j) == j < Len(Of(b))

\* Mutant: a section already there is kept.
StoreKept(walk, n, ref, len) ==
    IF walk.sections[n] # Null THEN walk
    ELSE [walk EXCEPT !.sections[n] = ref, !.lens[n] = len]

Store(walk, n, ref, len) ==
    [walk EXCEPT !.sections[n] = ref, !.lens[n] = len]

\* Mutant: the first bitmap is never replaced.
KeepBitmapOnce(walk, ref, len) ==
    IF walk.bitmap = Null THEN [walk EXCEPT !.bitmap = ref, !.bitmapLen = len] ELSE walk

KeepBitmap(walk, ref, len) == [walk EXCEPT !.bitmap = ref, !.bitmapLen = len]

\* One turn of the while loop, on the j-th section of the block b.
Visit(b, walk, j) ==
    LET sec == Of(b)[j]
        w   == [Store(walk, sec.num, <<b, j>>, sec.len) EXCEPT !.at = j]
    IN  IF walk.status # "walking" THEN walk
        ELSE IF sec.num \notin 1..7 THEN [walk EXCEPT !.status = "invalid"]
        ELSE IF sec.num = 6 /\ sec.inherits /\ w.bitmap = Null THEN [w EXCEPT !.status = "no bitmap"]
        ELSE IF sec.num = 6 /\ sec.inherits THEN Store(w, 6, w.bitmap, w.bitmapLen)
        ELSE IF sec.num = 6 THEN KeepBitmap(w, <<b, j>>, sec.len)
        ELSE IF sec.num = 7 THEN [w EXCEPT !.status = "field"]
        ELSE w

\* The walk starts after the section the entry stopped at; of the entry it
\* changes the sections and the bitmap.
Walk(gm) ==
    LET b     == gm.message
        first == IF gm.number = 0 THEN [gm.sections EXCEPT ![0] = <<b, 0>>] ELSE gm.sections
        from  == first[gm.number][2]
        walk  == FoldLeft(LAMBDA w, j : Visit(b, w, j),
                          [sections |-> first, lens |-> gm.lens, bitmap |-> gm.bitmap,
                           bitmapLen |-> gm.bitmapLen, status |-> "walking", at |-> from],
                          [i \in 1..(Len(Of(b)) - from) |-> from + i])
    IN  [gm |-> [gm EXCEPT !.sections = walk.sections, !.lens = walk.lens,
                           !.bitmap = walk.bitmap, !.bitmapLen = walk.bitmapLen],
         status |-> walk.status, at |-> walk.at]

-----------------------------------------------------------------------------
(* What a read leaves *)

\* grib2_build_message: a block of its own with the sections in order.
BuiltLength(gm, olen) ==
    LET all == SumLens([n \in 1..8 |-> gm.lens[n - 1]]) + EndLen
    IN  IF olen < all THEN olen ELSE all

Present(gm) == {n \in 0..7 : gm.sections[n] # Null}

Written(gm) ==
    SumLens([n \in 1..8 |-> IF n - 1 \in Present(gm) THEN gm.lens[n - 1] ELSE 0]) + EndLen

Build(gm) ==
    [content |-> [n \in Present(gm) |-> gm.sections[n]],
     declared |-> BuiltLength(gm, MessageLength(gm.message)), written |-> Written(gm), block |-> Null]

\* A handle made of the message block itself, which it will free.
Whole(b) ==
    [content |-> [n \in {0} |-> <<b, 0>>],
     declared |-> MessageLength(b), written |-> MessageLength(b), block |-> b]

Finish(gm) ==
    [gm EXCEPT !.message = Null, !.number = 0, !.sections = [n \in 0..7 |-> Null]]

\* Mutant: the index of the section for its number.
AfterFieldIndex(gm, at) ==
    IF HasNext(gm.message, at) THEN [gm EXCEPT !.number = at] ELSE Finish(gm)

AfterField(gm, at) ==
    IF HasNext(gm.message, at) THEN [gm EXCEPT !.number = 7] ELSE Finish(gm)

\* Mutant: the entry keeps the block it gave away.
HandOverKept(gm) == gm

HandOver(gm) == [gm EXCEPT !.message = Null]

Readable(s) ==
    /\ files[s].open
    /\ last[s] # "reset"    \* a program that resets a file starts it again
    /\ Len(out[s]) < MaxHandles
    /\ ~Entry(s).freed      \* what a read of the freed block does is undefined

TakesNext(s) ==
    files' = IF MustLoad(s) /\ ~AtEnd(s) THEN [files EXCEPT ![s].next = @ + 1] ELSE files

Returns(s, gm, handle) ==
    /\ supports' = SetEntry(s, gm)
    /\ out' = [out EXCEPT ![s] = Append(@, handle)]
    /\ last' = [last EXCEPT ![s] = "handle"]
    /\ TakesNext(s)
    /\ UNCHANGED stream

ReturnsNull(s, gm, how) ==
    /\ supports' = SetEntry(s, gm)
    /\ last' = [last EXCEPT ![s] = how]
    /\ TakesNext(s)
    /\ UNCHANGED <<stream, out>>

EndOfFile(s) ==
    /\ Readable(s)
    /\ Loaded(s).message = Null
    /\ ReturnsNull(s, Entry(s), "end")

EditionOf(s) == LET b == Loaded(s).message IN stream[b[1]][b[2]].edition

InEdition(s, e) ==
    /\ Readable(s)
    /\ Loaded(s).message # Null
    /\ EditionOf(s) = e

ReadEdition1(s) ==
    /\ InEdition(s, 1)
    /\ Returns(s, HandOver(Loaded(s)), Whole(Loaded(s).message))

ReadField(s) ==
    /\ InEdition(s, 2)
    /\ LET walk == Walk(Loaded(s))
       IN  /\ walk.status = "field"
           /\ Returns(s, AfterField(walk.gm, walk.at), Build(walk.gm))

\* ECC-782: a section number that is none of 1..7; the error stays in err.
ReadInvalidSection(s) ==
    /\ InEdition(s, 2)
    /\ LET walk == Walk(Loaded(s))
       IN  /\ walk.status = "invalid"
           /\ ReturnsNull(s, walk.gm, "null")

\* An inherited bitmap with none before it. The reader from a file frees the
\* block the entry still points to.
ReadMissingBitmap(s) ==
    /\ InEdition(s, 2)
    /\ LET walk == Walk(Loaded(s))
       IN  /\ walk.status = "no bitmap"
           /\ ReturnsNull(s, [walk.gm EXCEPT !.freed = (s # Null)], "null")

\* The sections run out before a section 7: the handle gets the block itself.
ReadUnfinished(s) ==
    /\ InEdition(s, 2)
    /\ LET walk == Walk(Loaded(s))
       IN  /\ walk.status = "walking"
           /\ Returns(s, walk.gm, Whole(Loaded(s).message))

-----------------------------------------------------------------------------
(* The program around it *)

\* Nothing of the source is in progress: it was read to its end, or reset.
Settled(s) ==
    \A i \in DOMAIN supports : supports[i].file = s => supports[i].message = Null

Restart(s, open) ==
    /\ files' = [files EXCEPT ![s] = [open |-> open, next |-> 1]]
    /\ out' = [out EXCEPT ![s] = <<>>]
    /\ last' = [last EXCEPT ![s] = "none"]
    /\ UNCHANGED <<stream, supports>>

\* fopen; for the memory reader, a new buffer.
Open(s) ==
    /\ ~files[s].open
    /\ stream[s] # <<>>
    /\ Restart(s, TRUE)

\* rewind, as the examples do it: the source is settled.
Rewind(s) ==
    /\ files[s].open
    /\ Settled(s)
    /\ Restart(s, TRUE)

\* fclose; the entry keeps the pointer, which the next fopen may return again.
Close(s) ==
    /\ files[s].open
    /\ Settled(s)
    /\ Restart(s, FALSE)

\* grib_multi_support_reset_file: the entry is disowned, not emptied.
ResetFile(f) ==
    /\ f \in Resettable
    /\ HasSupport(f)
    /\ Len(supports) < MaxSupports
    /\ supports' = [i \in DOMAIN supports |->
                        IF supports[i].file = f THEN [supports[i] EXCEPT !.file = Null] ELSE supports[i]]
    /\ last' = [last EXCEPT ![f] = "reset"]
    /\ UNCHANGED <<stream, files, out>>

Started ==
    /\ files = [s \in Source |-> [open |-> FALSE, next |-> 1]]
    /\ supports = <<>>
    /\ out = [s \in Source |-> <<>>]
    /\ last = [s \in Source |-> "none"]

Init == stream \in Streams /\ Started

Next ==
    \E s \in Source :
        \/ Open(s) \/ Rewind(s) \/ Close(s) \/ ResetFile(s)
        \/ EndOfFile(s)
        \/ ReadEdition1(s) \/ ReadField(s)
        \/ ReadInvalidSection(s) \/ ReadMissingBitmap(s) \/ ReadUnfinished(s)

Spec == Init /\ [][Next]_vars

-----------------------------------------------------------------------------
(* What the fields of a source are, said without the walk *)

SectionsUpTo(b, e, n) == {i \in 1..e : Of(b)[i].num = n}

Own(b, I) == {i \in I : ~Of(b)[i].inherits}

\* The section n of the field that ends at section e: the last one so far;
\* for an inherited bitmap, the last one that was given.
Latest(b, e, n) ==
    LET all == SectionsUpTo(b, e, n)
    IN  <<b, Max(IF n = 6 THEN Own(b, all) ELSE all)>>

FieldAt(b, e) ==
    [n \in {0} \cup {Of(b)[i].num : i \in 1..e} |-> IF n = 0 THEN <<b, 0>> ELSE Latest(b, e, n)]

EndingAt(b, j) == IF Of(b)[j].num = 7 THEN <<FieldAt(b, j)>> ELSE <<>>

\* A message of edition 2 has a field for each of its sections 7.
FieldsOf(b) ==
    IF stream[b[1]][b[2]].edition = 1 THEN <<[n \in {0} |-> <<b, 0>>]>>
    ELSE FlattenSeq([j \in DOMAIN Of(b) |-> EndingAt(b, j)])

Expected(s) == FlattenSeq([k \in DOMAIN stream[s] |-> FieldsOf(<<s, k>>)])

\* Sections 1..7, the last one a 7, no bitmap inherited from nowhere.
WellFormedMessage(b) ==
    stream[b[1]][b[2]].edition = 2 =>
        /\ \A i \in DOMAIN Of(b) : Of(b)[i].num \in 1..7
        /\ Of(b) # <<>> /\ Of(b)[Len(Of(b))].num = 7
        /\ \A i \in DOMAIN Of(b) :
              Of(b)[i].inherits => Own(b, SectionsUpTo(b, i, 6)) # {}

WellFormed(s) == \A k \in DOMAIN stream[s] : WellFormedMessage(<<s, k>>)

Contents(s) == [i \in DOMAIN out[s] |-> out[s][i].content]

\* The messages of a source that have fields, and the numbers of their sections
\* up to the e-th.
MessagesOf(s) == {<<s, k>> : k \in {i \in DOMAIN stream[s] : stream[s][i].edition = 2}}
Numbers(b, e) == {Of(b)[i].num : i \in 1..e} \cap (1..7)

GivesBitmap(b) == Own(b, SectionsUpTo(b, Len(Of(b)), 6)) # {}

\* An entry keeps the lengths of the sections, and the bitmap, of the message
\* before. They are those of the next message too if a section that any message
\* has is in each field, and a bitmap is inherited from its own message.
Uniform(s) ==
    \A b, c \in MessagesOf(s) :
        /\ \A e \in DOMAIN Of(c) : Of(c)[e].num = 7 => Numbers(b, Len(Of(b))) \subseteq Numbers(c, e)
        /\ \A i \in DOMAIN Of(c) :
              GivesBitmap(b) /\ Of(c)[i].num = 6 /\ Of(c)[i].inherits => Own(c, SectionsUpTo(c, i, 6)) # {}

\* The memory reader has messages only where no file that is reset has any: it
\* would take over the entry a reset disowned.
MemoryApart ==
    \A st \in Streams : st[Null] # <<>> => \A f \in Resettable : st[f] = <<>>

-----------------------------------------------------------------------------
(* Properties *)

(* Entries, sources and handles have their types; an entry stops before
   section 0 or after a section 7, never elsewhere. *)
TypeOK ==
    /\ \A s \in Source : files[s].open \in BOOLEAN /\ files[s].next \in 1..(Len(stream[s]) + 1)
    /\ \A i \in DOMAIN supports :
          LET gm == supports[i]
          IN  /\ gm.file \in Source
              /\ gm.number \in {0, 7}
              /\ DOMAIN gm.sections = 0..7 /\ DOMAIN gm.lens = 0..7
              /\ \A n \in 0..7 : gm.lens[n] \in Nat
              /\ gm.number = 7 => gm.sections[7] # Null
    /\ \A s \in Source : last[s] \in {"none", "handle", "end", "null", "reset"}

(* The handles a well-formed source returns are its fields, in order, each
   with its own or inherited sections: not those of another file read in
   between, of a message before it, or of where an earlier pass stopped.  When
   it says end of file, all were returned. *)
FieldsInOrder ==
    \A s \in Source : WellFormed(s) =>
        /\ IsPrefix(Contents(s), Expected(s))
        /\ last[s] = "end" => Contents(s) = Expected(s)

(* The length section 0 declares is what grib2_build_message wrote, so that
   the message ends with its 7777, for Uniform sources; and the block of a handle belongs to it alone: no entry reads it
   on, or frees it, after the handle was deleted. *)
HandlesAreWhole ==
    \A s \in Source : \A i \in DOMAIN out[s] :
        LET b == out[s][i].block
        IN  /\ Uniform(s) => out[s][i].declared = out[s][i].written
            /\ b # Null /\ WellFormedMessage(b) => \A j \in DOMAIN supports : supports[j].message # b

(* A file has at most one entry (two would each read half of its messages),
   and an entry with no message in progress starts the next one at its section
   0, with no section of the message before. *)
OneCleanEntryPerFile ==
    \A i, j \in DOMAIN supports :
        LET gm == supports[i]
        IN  /\ gm.file = supports[j].file /\ gm.file # Null => i = j
            /\ gm.message = Null => gm.number = 0 /\ \A n \in 1..7 : gm.sections[n] = Null
=============================================================================
