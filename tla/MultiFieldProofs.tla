-------------------------- MODULE MultiFieldProofs --------------------------
(* Proofs about the multi-field reader, for any files, any messages, well-formed
   or not, and any order of reads, rewinds and resets; and about the reader with
   the writer, for any handles.

   Walk is a fold over the sections of a message. It is followed turn by turn
   (WalkSteps), by what SequenceLemmas has of folds.

   OneCleanEntryCorrect needs nothing of what the walk computes, only that it
   changes the sections and the bitmap of an entry and nothing else, that a
   message stays in an entry only when it is of edition 2 (Entered), and that a
   search that fails has seen the whole list.

   TypeCorrect needs that the entry a read works on is one of the list, and that
   its sections are sections of blocks that were read (Typed).

   FieldsInOrderCorrect is the long one. Gathered says of an entry in the middle
   of a message which section each of its pointers has: the last one with that
   number the walk has passed in the message. From it the block that is built has
   the sections the promise FieldAt names (BuiltField), and Told says that what
   was returned is the fields of the messages before, then those of the message in
   the entry up to its section (AllTold). It holds where the memory reader and a
   file that is reset have no messages both (MemoryApart): a reset disowns an entry
   by writing the key of the memory reader into it.

   HandlesAreWholeCorrect weighs what is built. Measured says that the length an
   entry has for a section is that of a section of its message, Carried that it has
   none for a number the source does not use; so the lengths that are added are
   those of the sections that are there, and of different sections of the message,
   which add up to no more than the message (BuiltWhole).

   FieldsComeBackCorrect is about both. NamesFirst reads off a buffer the names of
   the sections each of its fields has. Appending a whole message adds one field to
   them (NamesWhole), appending from a section on adds one that keeps the sections
   before it (NamesAppended): so the names are what was appended (WritesWell), and
   the messages tile the buffer (Tiling). A file holds such a buffer (Kept). It is
   well-formed (HeldWell) and the field FieldAt names at a section 7 has the names
   NamesFirst has (HeldName), so the fields expected of the file match what was
   appended (FirstMatches), and what a reader was told of it is a prefix
   (HeldFields). Writing a file leaves what was told of the others (SourceTold); of
   the file itself nothing was told, it had no messages (WriteStep). *)
EXTENDS MultiRoundTrip, SequenceLemmas, SequenceTheorems, TLAPS

-----------------------------------------------------------------------------
(* The walk *)

\* Where a walk starts: at section 0, or after the section the entry stopped at.
First(gm) == IF gm.number = 0 THEN [gm.sections EXCEPT ![0] = <<gm.message, 0>>] ELSE gm.sections
\* Where a walk starts, with what, and how many sections lie ahead of it.
From(gm) == First(gm)[gm.number][2]
Start(gm) ==
    [sections |-> First(gm), lens |-> gm.lens, bitmap |-> gm.bitmap,
     bitmapLen |-> gm.bitmapLen, status |-> "walking", at |-> From(gm)]
Steps(gm) == Len(Of(gm.message)) - From(gm)

\* What was seen after the k-th turn, and what Walk makes of the last.
WalkedThrough(gm, H) ==
    /\ H[0] = Start(gm)
    /\ \A k \in 1..Steps(gm) : H[k] = Visit(gm.message, H[k - 1], From(gm) + k)
    /\ Walk(gm) = [gm |-> [gm EXCEPT !.sections = H[Steps(gm)].sections, !.lens = H[Steps(gm)].lens,
                                     !.bitmap = H[Steps(gm)].bitmap, !.bitmapLen = H[Steps(gm)].bitmapLen],
                   status |-> H[Steps(gm)].status, at |-> H[Steps(gm)].at]

-----------------------------------------------------------------------------
(* One turn of the walk *)

\* A pointer to a section, and the record a walk carries.
Ref == {Null} \cup ((Source \X Nat) \X Nat)

WalkRecord ==
    [sections : [0..7 -> Ref], lens : [0..7 -> Nat], bitmap : Ref, bitmapLen : Nat,
     status : {"walking", "invalid", "no bitmap", "field"}, at : Nat]

\* The sources have messages.
Sourced == stream \in [Source -> Seq(Message)]

\* A block that was read.
IsBlock(b) == b \in Source \X Nat /\ b[2] \in 1..Len(stream[b[1]])

\* Its sections are sections, whatever the stream.
LEMMA BlockSections ==
  ASSUME Sourced, NEW b, IsBlock(b)
  PROVE  Of(b) \in Seq(Section) /\ stream[b[1]][b[2]].edition \in {1, 2}
<1>1. b[1] \in Source /\ stream \in [Source -> Seq(Message)]
  BY StreamsAssumption DEF IsBlock, Sourced
<1>2. stream[b[1]] \in Seq(Message)
  BY <1>1
<1>3. stream[b[1]][b[2]] \in Message
  BY <1>2 DEF IsBlock
<1> QED
  BY <1>3 DEF Message, Of

\* What a turn changes, without the order in which it does so.
Turned(b, w, j, v) ==
    LET sec == Of(b)[j]
        inherited == sec.num = 6 /\ sec.inherits
    IN  IF w.status # "walking" THEN v = w
        ELSE IF sec.num \notin 1..7 THEN v = [w EXCEPT !.status = "invalid"]
        ELSE /\ v.at = j
             /\ \A n \in 0..7 : n # sec.num => v.sections[n] = w.sections[n] /\ v.lens[n] = w.lens[n]
             /\ IF inherited /\ w.bitmap # Null
                THEN v.sections[6] = w.bitmap /\ v.lens[6] = w.bitmapLen
                ELSE v.sections[sec.num] = <<b, j>> /\ v.lens[sec.num] = sec.len
             /\ IF sec.num = 6 /\ ~sec.inherits
                THEN v.bitmap = <<b, j>> /\ v.bitmapLen = sec.len
                ELSE v.bitmap = w.bitmap /\ v.bitmapLen = w.bitmapLen
             /\ v.status = IF inherited /\ w.bitmap = Null THEN "no bitmap"
                           ELSE IF sec.num = 7 THEN "field" ELSE "walking"

\* The parts of the record of a walk.
LEMMA WalkTypes ==
  ASSUME NEW w \in WalkRecord
  PROVE  /\ w.sections \in [0..7 -> Ref] /\ w.lens \in [0..7 -> Nat]
         /\ w.bitmap \in Ref /\ w.bitmapLen \in Nat /\ w.at \in Nat
         /\ w.status \in {"walking", "invalid", "no bitmap", "field"}
  BY DEF WalkRecord

\* Store changes one section and its length.
LEMMA Stored ==
  ASSUME NEW w \in WalkRecord, NEW n \in 0..7, NEW ref \in Ref, NEW len \in Nat
  PROVE  /\ Store(w, n, ref, len) \in WalkRecord
         /\ Store(w, n, ref, len).sections = [w.sections EXCEPT ![n] = ref]
         /\ Store(w, n, ref, len).lens = [w.lens EXCEPT ![n] = len]
         /\ Store(w, n, ref, len).bitmap = w.bitmap /\ Store(w, n, ref, len).bitmapLen = w.bitmapLen
         /\ Store(w, n, ref, len).status = w.status /\ Store(w, n, ref, len).at = w.at
<1> DEFINE s == [w EXCEPT !.sections = [w.sections EXCEPT ![n] = ref], !.lens = [w.lens EXCEPT ![n] = len]]
<1>1. Store(w, n, ref, len) = s
  BY DEF Store
<1>2. [w.sections EXCEPT ![n] = ref] \in [0..7 -> Ref] /\ [w.lens EXCEPT ![n] = len] \in [0..7 -> Nat]
  BY DEF WalkRecord
<1> QED
  BY <1>1, <1>2 DEF WalkRecord

\* The same when it puts the kept bitmap in place.
LEMMA StoredBitmap ==
  ASSUME NEW w \in WalkRecord, NEW v, v = Store(w, 6, w.bitmap, w.bitmapLen)
  PROVE  /\ v \in WalkRecord
         /\ v.sections = [w.sections EXCEPT ![6] = w.bitmap] /\ v.lens = [w.lens EXCEPT ![6] = w.bitmapLen]
         /\ v.bitmap = w.bitmap /\ v.bitmapLen = w.bitmapLen
         /\ v.status = w.status /\ v.at = w.at
<1>1. w.bitmap \in Ref /\ w.bitmapLen \in Nat
  BY WalkTypes
<1>2. 6 \in 0..7
  OBVIOUS
<1> QED
  BY <1>1, <1>2, Stored

\* A turn of the walk by cases: it has stopped already, or looks at section j.
LEMMA VisitTurns ==
  ASSUME Sourced, NEW b, IsBlock(b), NEW j \in 1..Len(Of(b)), NEW w \in WalkRecord
  PROVE  Visit(b, w, j) \in WalkRecord /\ Turned(b, w, j, Visit(b, w, j))
<1> DEFINE sec == Of(b)[j]
           num == sec.num
           plain == Store(w, num, <<b, j>>, sec.len)
           stored == [plain EXCEPT !.at = j]
<1>1. num \in Nat /\ sec.len \in Nat /\ sec.inherits \in BOOLEAN
  <2>1. sec \in Section
    BY BlockSections
  <2> QED
    BY <2>1 DEF Section
<1>2. <<b, j>> \in Ref /\ j \in Nat
  <2>1. Len(Of(b)) \in Nat
    BY BlockSections
  <2> QED
    BY <2>1 DEF Ref, IsBlock
<1>3. CASE w.status # "walking"
  BY <1>3 DEF Visit, Turned
<1>4. CASE w.status = "walking" /\ num \notin 1..7
  <2>1. Visit(b, w, j) = [w EXCEPT !.status = "invalid"]
    BY <1>4 DEF Visit
  <2>2. Visit(b, w, j) \in WalkRecord
    BY <2>1 DEF WalkRecord
  <2> QED
    BY <1>4, <2>1, <2>2 DEF Turned
<1>5. CASE w.status = "walking" /\ num \in 1..7
  <2>1. num \in 0..7
    BY <1>5
  <2> HIDE DEF sec
  <2>2. /\ plain \in WalkRecord
        /\ plain.sections = [w.sections EXCEPT ![num] = <<b, j>>] /\ plain.lens = [w.lens EXCEPT ![num] = sec.len]
        /\ plain.bitmap = w.bitmap /\ plain.bitmapLen = w.bitmapLen
        /\ plain.status = w.status /\ plain.at = w.at
    <3> DEFINE ref == <<b, j>>
               len == sec.len
    <3>1. ref \in Ref /\ len \in Nat
      BY <1>1, <1>2
    <3>2. plain = Store(w, num, ref, len)
      OBVIOUS
    <3> HIDE DEF plain, ref, len, num
    <3>3. /\ plain \in WalkRecord
          /\ plain.sections = [w.sections EXCEPT ![num] = ref] /\ plain.lens = [w.lens EXCEPT ![num] = len]
          /\ plain.bitmap = w.bitmap /\ plain.bitmapLen = w.bitmapLen
          /\ plain.status = w.status /\ plain.at = w.at
      <4>1. /\ Store(w, num, ref, len) \in WalkRecord
            /\ Store(w, num, ref, len).sections = [w.sections EXCEPT ![num] = ref]
            /\ Store(w, num, ref, len).lens = [w.lens EXCEPT ![num] = len]
            /\ Store(w, num, ref, len).bitmap = w.bitmap /\ Store(w, num, ref, len).bitmapLen = w.bitmapLen
            /\ Store(w, num, ref, len).status = w.status /\ Store(w, num, ref, len).at = w.at
        BY SMTT(40), <2>1, <3>1, Stored
      <4> QED
        BY <3>2, <4>1
    <3> QED
      BY <3>3 DEF ref, len
  <2> HIDE DEF plain
  <2>3. /\ stored \in WalkRecord
        /\ stored.at = j /\ stored.status = "walking"
        /\ stored.sections = plain.sections /\ stored.lens = plain.lens
        /\ stored.bitmap = w.bitmap /\ stored.bitmapLen = w.bitmapLen
    <3>1. plain \in WalkRecord /\ j \in Nat /\ plain.status = "walking"
      BY <1>2, <1>5, <2>2
    <3>2. stored \in WalkRecord /\ stored.at = j /\ stored.status = plain.status
      BY <3>1 DEF WalkRecord
    <3>3. stored.sections = plain.sections /\ stored.lens = plain.lens
      BY <3>1 DEF WalkRecord
    <3>4. stored.bitmap = plain.bitmap /\ stored.bitmapLen = plain.bitmapLen
      BY <3>1 DEF WalkRecord
    <3> QED
      BY <2>2, <3>1, <3>2, <3>3, <3>4
  <2> HIDE DEF stored
  <2>4. w.sections \in [0..7 -> Ref] /\ w.lens \in [0..7 -> Nat]
    BY DEF WalkRecord
  <2>5. /\ \A n \in 0..7 : n # num => stored.sections[n] = w.sections[n] /\ stored.lens[n] = w.lens[n]
        /\ stored.sections[num] = <<b, j>> /\ stored.lens[num] = sec.len
    <3>1. stored.sections = [w.sections EXCEPT ![num] = <<b, j>>]
      BY <2>2, <2>3
    <3>2. stored.lens = [w.lens EXCEPT ![num] = sec.len]
      BY <2>2, <2>3
    <3> HIDE DEF num
    <3> QED
      BY <2>1, <2>4, <3>1, <3>2
  <2> DEFINE v == Visit(b, w, j)
  <2>6. v = IF num = 6 /\ sec.inherits /\ w.bitmap = Null THEN [stored EXCEPT !.status = "no bitmap"]
            ELSE IF num = 6 /\ sec.inherits THEN Store(stored, 6, stored.bitmap, stored.bitmapLen)
            ELSE IF num = 6 THEN KeepBitmap(stored, <<b, j>>, sec.len)
            ELSE IF num = 7 THEN [stored EXCEPT !.status = "field"]
            ELSE stored
    BY <1>5, <2>3 DEF Visit, sec, stored, plain
  <2> HIDE DEF v
  <2>7. CASE num = 6 /\ sec.inherits /\ w.bitmap # Null
    <3>1. v = Store(stored, 6, stored.bitmap, stored.bitmapLen)
      BY <2>3, <2>6, <2>7
    <3>2. stored \in WalkRecord
      BY <2>3
    <3>3. /\ v \in WalkRecord
          /\ v.sections = [stored.sections EXCEPT ![6] = stored.bitmap]
          /\ v.lens = [stored.lens EXCEPT ![6] = stored.bitmapLen]
          /\ v.bitmap = stored.bitmap /\ v.bitmapLen = stored.bitmapLen
          /\ v.status = stored.status /\ v.at = stored.at
      BY <3>1, <3>2, StoredBitmap
    <3>4. stored.sections \in [0..7 -> Ref] /\ stored.lens \in [0..7 -> Nat]
      BY <2>3 DEF WalkRecord
    <3>5. /\ v.sections[6] = stored.bitmap /\ v.lens[6] = stored.bitmapLen
          /\ \A n \in 0..7 : n # 6 => v.sections[n] = stored.sections[n] /\ v.lens[n] = stored.lens[n]
      <4>1. 6 \in 0..7
        OBVIOUS
      <4> QED
        BY <3>3, <3>4, <4>1
    <3> HIDE DEF num
    <3>6. /\ v.sections[6] = w.bitmap /\ v.lens[6] = w.bitmapLen
          /\ \A n \in 0..7 : n # 6 => v.sections[n] = w.sections[n] /\ v.lens[n] = w.lens[n]
          /\ v.bitmap = w.bitmap /\ v.bitmapLen = w.bitmapLen
          /\ v.status = "walking" /\ v.at = j
      BY <2>3, <2>5, <2>7, <3>3, <3>5
    <3> QED
      BY <1>5, <2>7, <3>3, <3>6 DEF Turned, v, sec, num
  <2>8. CASE ~(num = 6 /\ sec.inherits /\ w.bitmap # Null)
    <3>1. /\ v \in WalkRecord
          /\ v.sections = stored.sections /\ v.lens = stored.lens /\ v.at = j
          /\ v.bitmap = IF num = 6 /\ ~sec.inherits THEN <<b, j>> ELSE w.bitmap
          /\ v.bitmapLen = IF num = 6 /\ ~sec.inherits THEN sec.len ELSE w.bitmapLen
          /\ v.status = IF num = 6 /\ sec.inherits /\ w.bitmap = Null THEN "no bitmap"
                        ELSE IF num = 7 THEN "field" ELSE "walking"
      <4>1. CASE num = 6 /\ sec.inherits /\ w.bitmap = Null
        <5>1. v = [stored EXCEPT !.status = "no bitmap"]
          BY <2>6, <4>1
        <5> HIDE DEF num
        <5> QED
          BY <2>3, <4>1, <5>1 DEF WalkRecord
      <4>2. CASE num = 6 /\ ~sec.inherits
        <5>1. v = [stored EXCEPT !.bitmap = <<b, j>>, !.bitmapLen = sec.len]
          BY <2>6, <4>2 DEF KeepBitmap
        <5> DEFINE ref == <<b, j>>
                   len == sec.len
        <5>2. ref \in Ref /\ len \in Nat
          BY <1>1, <1>2
        <5> HIDE DEF num, ref, len
        <5>3. /\ v \in WalkRecord
              /\ v.sections = stored.sections /\ v.lens = stored.lens /\ v.at = j
              /\ v.bitmap = ref /\ v.bitmapLen = len /\ v.status = "walking"
          BY <2>3, <5>1, <5>2 DEF WalkRecord, ref, len
        <5> QED
          BY <4>2, <5>3 DEF ref, len
      <4>3. CASE num = 7
        <5>1. v = [stored EXCEPT !.status = "field"]
          BY <2>6, <4>3
        <5>2. num # 6 /\ stored \in WalkRecord
          BY <2>3, <4>3
        <5> HIDE DEF num
        <5>3. /\ v \in WalkRecord /\ v.status = "field"
              /\ v.sections = stored.sections /\ v.lens = stored.lens /\ v.at = stored.at
              /\ v.bitmap = stored.bitmap /\ v.bitmapLen = stored.bitmapLen
          BY <5>1, <5>2 DEF WalkRecord
        <5> QED
          BY <2>3, <4>3, <5>2, <5>3
      <4>4. CASE num \notin {6, 7}
        <5>1. v = stored
          BY <2>6, <4>4
        <5> HIDE DEF num
        <5> QED
          BY <2>3, <4>4, <5>1
      <4> QED
        BY <1>1, <2>8, <4>1, <4>2, <4>3, <4>4
    <3> QED
      BY <1>5, <2>5, <2>8, <3>1 DEF Turned, v, sec
  <2> QED
    BY <2>7, <2>8 DEF v
<1> QED
  BY <1>3, <1>4, <1>5

-----------------------------------------------------------------------------
(* Entries *)

\* The fields of an entry.
Fields == {"file", "message", "number", "sections", "lens", "bitmap", "bitmapLen", "freed"}

\* An entry has a message of edition 2, or none and starts at section 0.
Entered(gm) ==
    /\ DOMAIN gm = Fields
    /\ IF gm.message = Null
       THEN gm.number = 0 /\ \A n \in 1..7 : gm.sections[n] = Null
       ELSE stream[gm.message[1]][gm.message[2]].edition = 2

\* Every entry is Entered, and a file has one at most.
Entries ==
    /\ \E S : supports \in Seq(S)
    /\ \A i \in DOMAIN supports : Entered(supports[i])
    /\ \A i, j \in DOMAIN supports :
          supports[i].file = supports[j].file /\ supports[i].file # Null => i = j

-----------------------------------------------------------------------------
(* The search of an entry *)

\* The search finds an entry of the file when there is one.
LEMMA FirstFound ==
  ASSUME NEW S, NEW list \in Seq(S), NEW s, \E i \in DOMAIN list : list[i].file = s
  PROVE  FirstOf(list, s) \in DOMAIN list /\ list[FirstOf(list, s)].file = s
<1> DEFINE found == {i \in DOMAIN list : list[i].file = s}
<1>1. DOMAIN list = 1..Len(list) /\ Len(list) \in Nat
  OBVIOUS
<1>2. found \in SUBSET Nat /\ found # {}
  BY <1>1
<1>3. PICK i \in found : \A j \in found : i <= j
  BY <1>2, LeastNatural
<1>4. \A j \in 1..(i - 1) : list[j].file # s
  <2> SUFFICES ASSUME NEW j \in 1..(i - 1), j \in found PROVE FALSE
    BY <1>1, <1>3
  <2> QED
    BY <1>1, <1>3
<1> HIDE DEF found
<1>5. i \in DOMAIN list /\ list[i].file = s
  BY <1>3 DEF found
<1> QED
  BY <1>4, <1>5 DEF FirstOf

\* With the entry added when it is missing, the entries are still Entered and apart.
LEMMA AllSupported ==
  ASSUME Entries, NEW s
  PROVE  /\ \E S : Supported(s) \in Seq(S)
         /\ \A i \in DOMAIN Supported(s) : Entered(Supported(s)[i])
         /\ \A i, j \in DOMAIN Supported(s) :
               Supported(s)[i].file = Supported(s)[j].file /\ Supported(s)[i].file # Null => i = j
         /\ \E i \in DOMAIN Supported(s) : Supported(s)[i].file = s
<1>1. PICK S : supports \in Seq(S)
  BY DEF Entries
<1>2. CASE HasSupport(s)
  BY <1>2 DEF Entries, Supported, HasSupport
<1>3. CASE ~HasSupport(s)
  <2> DEFINE new == NewSupport(s)
             all == Append(supports, new)
  <2>1. Supported(s) = all
    BY <1>3 DEF Supported
  <2>2. Entered(new) /\ new.file = s
    BY DEF NewSupport, Entered, Fields
  <2>3. \A i \in DOMAIN supports : supports[i].file # s
    BY <1>3 DEF HasSupport
  <2> HIDE DEF new
  <2>4. all \in Seq(S \cup {new})
    BY <1>1
  <2>5. /\ DOMAIN supports = 1..Len(supports) /\ Len(supports) \in Nat
        /\ DOMAIN all = 1..(Len(supports) + 1)
        /\ all[Len(supports) + 1] = new
        /\ \A i \in DOMAIN supports : all[i] = supports[i]
    BY <1>1
  <2> HIDE DEF all
  <2>6. \A i \in DOMAIN all : i \in DOMAIN supports \/ i = Len(supports) + 1
    BY <2>5
  <2> QED
    BY <2>1, <2>2, <2>3, <2>4, <2>5, <2>6 DEF Entries
<1> QED
  BY <1>2, <1>3

\* The entry a read works on is one of the list.
LEMMA EntryFound ==
  ASSUME Entries, NEW s
  PROVE  /\ FirstOf(Supported(s), s) \in DOMAIN Supported(s)
         /\ Entered(Entry(s)) /\ Entry(s).file = s
<1>1. PICK S : Supported(s) \in Seq(S)
  BY AllSupported
<1>2. \E i \in DOMAIN Supported(s) : Supported(s)[i].file = s
  BY AllSupported
<1>3. FirstOf(Supported(s), s) \in DOMAIN Supported(s) /\ Supported(s)[FirstOf(Supported(s), s)].file = s
  BY <1>1, <1>2, FirstFound
<1> QED
  BY <1>3, AllSupported DEF Entry

\* What a read leaves in the entry of its source.
LEMMA EntrySet ==
  ASSUME Entries, NEW s, NEW gm, Entered(gm), gm.file = s, supports' = SetEntry(s, gm), UNCHANGED stream
  PROVE  Entries'
<1> DEFINE all == Supported(s)
           k == FirstOf(all, s)
<1>1. /\ \A i \in DOMAIN all : Entered(all[i])
      /\ \A i, j \in DOMAIN all : all[i].file = all[j].file /\ all[i].file # Null => i = j
  BY AllSupported
<1>2. k \in DOMAIN all /\ all[k].file = s
  BY EntryFound DEF Entry
<1>3. supports' = [all EXCEPT ![k] = gm]
  BY DEF SetEntry
<1>4. PICK S : all \in Seq(S)
  BY AllSupported
<1> HIDE DEF all, k
<1>5. supports' \in Seq(S \cup {gm})
  BY <1>2, <1>3, <1>4
<1>6. /\ DOMAIN supports' = DOMAIN all
      /\ supports'[k] = gm
      /\ \A i \in DOMAIN all : i # k => supports'[i] = all[i]
  BY <1>2, <1>3, <1>4
<1>7. \A i \in DOMAIN all : supports'[i].file = all[i].file
  BY <1>2, <1>6
<1>8. \A i \in DOMAIN supports' : Entered(supports[i])'
  BY <1>1, <1>6 DEF Entered
<1> QED
  BY <1>1, <1>5, <1>6, <1>7, <1>8 DEF Entries

-----------------------------------------------------------------------------
(* The steps *)

\* The message in progress, or the one that was read.
LEMMA LoadedEntry ==
  ASSUME Entries, NEW s
  PROVE  /\ DOMAIN Loaded(s) = Fields /\ Loaded(s).file = s
         /\ Loaded(s).message # Null /\ EditionOf(s) # 2 =>
               Loaded(s).number = 0 /\ \A n \in 1..7 : Loaded(s).sections[n] = Null
<1>1. Entered(Entry(s)) /\ Entry(s).file = s
  BY EntryFound
<1>2. CASE Entry(s).message # Null
  <2>1. Loaded(s) = Entry(s)
    BY <1>2 DEF Loaded, MustLoad
  <2> QED
    BY <1>1, <1>2, <2>1 DEF EditionOf, Entered
<1>3. CASE Entry(s).message = Null /\ AtEnd(s)
  BY <1>1, <1>3 DEF Loaded, Entered
<1>4. CASE Entry(s).message = Null /\ ~AtEnd(s)
  <2>1. Loaded(s) = [Entry(s) EXCEPT !.message = <<s, files[s].next>>]
    BY <1>4 DEF Loaded, MustLoad
  <2>2. /\ DOMAIN Entry(s) = Fields /\ Entry(s).file = s /\ Entry(s).number = 0
        /\ \A n \in 1..7 : Entry(s).sections[n] = Null
    BY <1>1, <1>4 DEF Entered
  <2> QED
    BY <2>1, <2>2 DEF Fields
<1> QED
  BY <1>2, <1>3, <1>4

\* The walk leaves the file and the message of an entry alone.
LEMMA WalkedEntry ==
  ASSUME NEW gm, DOMAIN gm = Fields
  PROVE  DOMAIN Walk(gm).gm = Fields /\ Walk(gm).gm.file = gm.file /\ Walk(gm).gm.message = gm.message
<1>1. PICK sections, lens, bitmap, bitmapLen :
        Walk(gm).gm = [gm EXCEPT !.sections = sections, !.lens = lens, !.bitmap = bitmap, !.bitmapLen = bitmapLen]
  BY ZenonT(40) DEF Walk
<1> QED
  BY <1>1 DEF Fields

\* Behind a field the entry is Entered.
LEMMA FieldEntry ==
  ASSUME NEW gm, DOMAIN gm = Fields, stream[gm.message[1]][gm.message[2]].edition = 2, gm.message # Null, NEW at
  PROVE  Entered(AfterField(gm, at)) /\ AfterField(gm, at).file = gm.file
  BY DEF AfterField, Finish, Entered, Fields

\* Every step keeps the entries Entered and apart.
LEMMA EntriesStep == ASSUME Entries, [Next]_vars PROVE Entries'
<1>1. ASSUME NEW s \in Source, EndOfFile(s) PROVE Entries'
  <2>1. Entered(Entry(s)) /\ Entry(s).file = s
    BY EntryFound
  <2> QED
    BY <1>1, <2>1, EntrySet DEF EndOfFile, ReturnsNull
<1>2. ASSUME NEW s \in Source, ReadEdition1(s) PROVE Entries'
  <2>1. Entered(HandOver(Loaded(s))) /\ HandOver(Loaded(s)).file = s
    BY <1>2, LoadedEntry DEF ReadEdition1, InEdition, HandOver, Entered, Fields
  <2> QED
    BY <1>2, <2>1, EntrySet DEF ReadEdition1, Returns
<1>3. ASSUME NEW s \in Source, InEdition(s, 2)
      PROVE  LET gm == Walk(Loaded(s)).gm
             IN  /\ DOMAIN gm = Fields /\ gm.file = s /\ gm.message # Null
                 /\ stream[gm.message[1]][gm.message[2]].edition = 2
                 /\ Entered(gm) /\ Entered([gm EXCEPT !.freed = (s # Null)])
  <2> DEFINE gm == Walk(Loaded(s)).gm
  <2>1. DOMAIN gm = Fields /\ gm.file = s /\ gm.message = Loaded(s).message
    BY LoadedEntry, WalkedEntry
  <2> HIDE DEF gm
  <2>2. gm.message # Null /\ stream[gm.message[1]][gm.message[2]].edition = 2
    BY <1>3, <2>1 DEF InEdition, EditionOf
  <2>3. Entered(gm) /\ Entered([gm EXCEPT !.freed = (s # Null)])
    BY <2>1, <2>2 DEF Entered, Fields
  <2> QED
    BY <2>1, <2>2, <2>3 DEF gm
<1>4. ASSUME NEW s \in Source, ReadField(s) PROVE Entries'
  <2> DEFINE walk == Walk(Loaded(s))
  <2>1. /\ DOMAIN walk.gm = Fields /\ walk.gm.file = s /\ walk.gm.message # Null
        /\ stream[walk.gm.message[1]][walk.gm.message[2]].edition = 2
    BY <1>3, <1>4 DEF ReadField
  <2>2. Returns(s, AfterField(walk.gm, walk.at), Build(walk.gm))
    BY <1>4 DEF ReadField
  <2> HIDE DEF walk
  <2>3. Entered(AfterField(walk.gm, walk.at)) /\ AfterField(walk.gm, walk.at).file = s
    BY <2>1, FieldEntry
  <2> QED
    BY <2>2, <2>3, EntrySet DEF Returns
<1>5. ASSUME NEW s \in Source, ReadInvalidSection(s) PROVE Entries'
  BY <1>3, <1>5, EntrySet DEF ReadInvalidSection, ReturnsNull
<1>6. ASSUME NEW s \in Source, ReadMissingBitmap(s) PROVE Entries'
  <2> DEFINE gm == Walk(Loaded(s)).gm
             left == [gm EXCEPT !.freed = (s # Null)]
  <2>1. DOMAIN gm = Fields /\ gm.file = s /\ Entered(left) /\ ReturnsNull(s, left, "null")
    BY <1>3, <1>6 DEF ReadMissingBitmap
  <2> HIDE DEF gm
  <2>2. left.file = s
    BY <2>1 DEF Fields
  <2> HIDE DEF left
  <2> QED
    BY <2>1, <2>2, EntrySet DEF ReturnsNull
<1>7. ASSUME NEW s \in Source, ReadUnfinished(s) PROVE Entries'
  BY <1>3, <1>7, EntrySet DEF ReadUnfinished, Returns
<1>8. ASSUME NEW f \in Source, ResetFile(f) PROVE Entries'
  <2>1. PICK S : supports \in Seq(S)
    BY DEF Entries
  <2> DEFINE left(i) == IF supports[i].file = f THEN [supports[i] EXCEPT !.file = Null] ELSE supports[i]
             T == {left(i) : i \in DOMAIN supports}
  <2>2. supports' = [i \in DOMAIN supports |-> left(i)] /\ UNCHANGED stream
    BY <1>8 DEF ResetFile
  <2>3. DOMAIN supports = 1..Len(supports) /\ Len(supports) \in Nat
    BY <2>1
  <2>4. supports' \in Seq(T)
    BY <2>2, <2>3
  <2>5. \A i \in DOMAIN supports :
          /\ Entered(left(i))
          /\ left(i).file = supports[i].file \/ left(i).file = Null
    BY DEF Entries, Entered, Fields
  <2> HIDE DEF left, T
  <2>6. DOMAIN supports' = DOMAIN supports /\ \A i \in DOMAIN supports : supports'[i] = left(i)
    BY <2>2
  <2>7. \A i \in DOMAIN supports' : Entered(supports[i])'
    BY <2>2, <2>5, <2>6 DEF Entered
  <2> QED
    BY <2>4, <2>5, <2>6, <2>7 DEF Entries
<1>9. ASSUME NEW s \in Source, Open(s) \/ Rewind(s) \/ Close(s) PROVE Entries'
  BY <1>9 DEF Open, Rewind, Close, Restart, Entries, Entered
<1>10. CASE UNCHANGED vars
  BY <1>10 DEF vars, Entries, Entered
<1> QED
  BY <1>1, <1>2, <1>4, <1>5, <1>6, <1>7, <1>8, <1>9, <1>10 DEF Next

(* However files are read, rewound, closed, opened again and reset, each has
   one entry at most, and none starts a message with sections of another: the
   edition 1 and the last field of edition 2 both leave a clean one. *)
THEOREM OneCleanEntryCorrect == Spec => []OneCleanEntryPerFile
<1>1. Init => Entries
  <2> SUFFICES ASSUME Init PROVE Entries
    OBVIOUS
  <2>1. supports = <<>> /\ supports \in Seq({})
    BY DEF Init, Started
  <2> QED
    BY <2>1 DEF Entries
<1>2. Entries /\ [Next]_vars => Entries'
  BY EntriesStep
<1>3. Entries => OneCleanEntryPerFile
  BY DEF Entries, Entered, OneCleanEntryPerFile
<1> QED
  BY <1>1, <1>2, <1>3, PTL DEF Spec

-----------------------------------------------------------------------------
(* Types *)

\* What an entry is made of.
Support ==
    [file : Source, message : {Null} \cup (Source \X Nat), number : {0, 7},
     sections : [0..7 -> Ref], lens : [0..7 -> Nat], bitmap : Ref, bitmapLen : Nat,
     freed : BOOLEAN]

\* An entry stopped after a section 7 of its message that is not the last.
Placed(gm) ==
    /\ gm.message # Null => IsBlock(gm.message)
    /\ gm.number = 7 =>
          /\ gm.message # Null
          /\ \E j \in 1..(Len(Of(gm.message)) - 1) : gm.sections[7] = <<gm.message, j>>

\* The state has its types, and every entry is Placed.
Typed ==
    /\ Sourced
    /\ files \in [Source -> [open : BOOLEAN, next : Nat]]
    /\ \A s \in Source : files[s].next \in 1..(Len(stream[s]) + 1)
    /\ supports \in Seq(Support)
    /\ \A i \in DOMAIN supports : Placed(supports[i])
    /\ last \in [Source -> {"none", "handle", "end", "null", "reset"}]
    /\ \E S : out \in [Source -> Seq(S)]

\* The parts of an entry.
LEMMA SupportTypes ==
  ASSUME NEW gm \in Support
  PROVE  /\ gm.file \in Source /\ gm.number \in {0, 7} /\ gm.freed \in BOOLEAN
         /\ gm.message = Null \/ gm.message \in Source \X Nat
         /\ gm.sections \in [0..7 -> Ref] /\ gm.lens \in [0..7 -> Nat]
         /\ gm.bitmap \in Ref /\ gm.bitmapLen \in Nat
  BY DEF Support

\* A walk starts in the message, behind the section 7 of the field before.
LEMMA StartsAt ==
  ASSUME Sourced, NEW gm \in Support, Placed(gm), gm.message # Null
  PROVE  /\ Start(gm) \in WalkRecord /\ First(gm)[7] = gm.sections[7]
         /\ From(gm) \in 0..Len(Of(gm.message)) /\ Len(Of(gm.message)) \in Nat
         /\ Steps(gm) \in Nat /\ From(gm) + Steps(gm) = Len(Of(gm.message))
         /\ gm.number = 0 => From(gm) = 0
         /\ gm.number = 7 => gm.sections[7] = <<gm.message, From(gm)>> /\ From(gm) \in 1..(Len(Of(gm.message)) - 1)
<1> DEFINE b == gm.message
<1>1. IsBlock(b) /\ Len(Of(b)) \in Nat
  BY BlockSections DEF Placed
<1>2. gm.sections \in [0..7 -> Ref] /\ gm.number \in {0, 7}
  BY SupportTypes
<1>3. CASE gm.number = 0
  <2>1. First(gm) = [gm.sections EXCEPT ![0] = <<b, 0>>] /\ <<b, 0>> \in Ref
    BY <1>1, <1>3 DEF First, IsBlock, Ref
  <2>2. First(gm) \in [0..7 -> Ref] /\ First(gm)[7] = gm.sections[7] /\ First(gm)[0] = <<b, 0>>
    BY <1>2, <2>1
  <2>3. From(gm) = 0
    BY <1>3, <2>2 DEF From
  <2>4. Start(gm) \in WalkRecord
    <3>1. gm.lens \in [0..7 -> Nat] /\ gm.bitmap \in Ref /\ gm.bitmapLen \in Nat
      BY SupportTypes
    <3> QED
      BY <2>2, <2>3, <3>1 DEF Start, WalkRecord
  <2> QED
    BY <1>1, <1>3, <2>2, <2>3, <2>4 DEF Steps
<1>4. CASE gm.number = 7
  <2>1. PICK j \in 1..(Len(Of(b)) - 1) : gm.sections[7] = <<b, j>>
    BY <1>4 DEF Placed
  <2>2. First(gm) = gm.sections
    BY <1>4 DEF First
  <2>3. From(gm) = j
    BY <1>4, <2>1, <2>2 DEF From
  <2>4. Start(gm) \in WalkRecord
    <3>1. gm.lens \in [0..7 -> Nat] /\ gm.bitmap \in Ref /\ gm.bitmapLen \in Nat
      BY SupportTypes
    <3>2. j \in Nat
      BY <1>1
    <3> QED
      BY <1>2, <2>2, <2>3, <3>1, <3>2 DEF Start, WalkRecord
  <2> QED
    BY <1>1, <1>4, <2>1, <2>2, <2>3, <2>4 DEF Steps
<1> QED
  BY <1>2, <1>3, <1>4

\* What holds after every turn, whatever the message.
Walked(gm, w) ==
    /\ w \in WalkRecord
    /\ IF w.status = "field"
       THEN /\ w.at \in 1..Len(Of(gm.message)) /\ Of(gm.message)[w.at].num = 7
            /\ w.sections[7] = <<gm.message, w.at>>
       ELSE w.sections[7] = gm.sections[7]

\* The walk is one turn after another, from the start to the last section.
LEMMA WalkSteps ==
  ASSUME Sourced, NEW gm \in Support, Placed(gm), gm.message # Null
  PROVE  \E H : WalkedThrough(gm, H)
<1> DEFINE b == gm.message
           n == Steps(gm)
           seq == [i \in 1..n |-> From(gm) + i]
           start == Start(gm)
           C == CHOOSE F : F = [s \in SUBSET (1..n) |->
                                  IF s = {} THEN start ELSE Visit(b, F[s \ {Max(s)}], seq[Max(s)])]
           step == [p \in WalkRecord \X (1..n) |-> Visit(b, p[1], seq[p[2]])]
<1>1. Walk(gm) = [gm |-> [gm EXCEPT !.sections = C[1..n].sections, !.lens = C[1..n].lens,
                                    !.bitmap = C[1..n].bitmap, !.bitmapLen = C[1..n].bitmapLen],
                  status |-> C[1..n].status, at |-> C[1..n].at]
  BY DEF Walk, FoldLeft, MapThenFoldSet, Start, First, From, Steps
<1>2. /\ n \in Nat /\ start \in WalkRecord /\ IsBlock(b) /\ From(gm) \in Nat
      /\ From(gm) + n = Len(Of(b)) /\ Len(Of(b)) \in Nat
  BY StartsAt DEF Placed
<1>3. \A i \in 1..n : seq[i] = From(gm) + i /\ seq[i] \in 1..Len(Of(b))
  BY <1>2
<1> HIDE DEF n, start, seq
<1>4. step \in [WalkRecord \X (1..n) -> WalkRecord]
  <2>1. \A w \in WalkRecord, i \in 1..n : Visit(b, w, seq[i]) \in WalkRecord
    BY <1>2, <1>3, VisitTurns
  <2> QED
    BY <2>1
<1>5. PICK F \in [SUBSET (1..n) -> WalkRecord] : Folds(step, start, n, F)
  <2> HIDE DEF step
  <2> QED
    BY <1>2, <1>4, FoldExists
<1>6. F = [s \in SUBSET (1..n) |-> IF s = {} THEN start ELSE Visit(b, F[s \ {Max(s)}], seq[Max(s)])]
  <2>1. ASSUME NEW s \in SUBSET (1..n)
        PROVE  F[s] = IF s = {} THEN start ELSE Visit(b, F[s \ {Max(s)}], seq[Max(s)])
    <3>1. F[s] = IF s = {} THEN start ELSE step[<<F[s \ {Max(s)}], Max(s)>>]
      BY <1>5 DEF Folds
    <3>2. CASE s # {}
      <4>1. Max(s) \in 1..n /\ F[s \ {Max(s)}] \in WalkRecord
        BY <1>2, <3>2, MaxOf
      <4>2. step[<<F[s \ {Max(s)}], Max(s)>>] = Visit(b, F[s \ {Max(s)}], seq[Max(s)])
        BY <4>1
      <4> QED
        BY <3>1, <3>2, <4>2
    <3> QED
      BY <3>1, <3>2
  <2> QED
    BY <2>1
<1>7. C = [s \in SUBSET (1..n) |-> IF s = {} THEN start ELSE Visit(b, C[s \ {Max(s)}], seq[Max(s)])]
  BY <1>6
<1> HIDE DEF C
<1>8. \A s \in SUBSET (1..n) : C[s] = IF s = {} THEN start ELSE Visit(b, C[s \ {Max(s)}], seq[Max(s)])
  BY <1>7
<1> DEFINE H == [k \in 0..n |-> C[1..k]]
<1>9. H[0] = start /\ H[n] = C[1..n]
  <2>1. 1..0 = {} /\ 1..0 \in SUBSET (1..n)
    OBVIOUS
  <2>2. C[1..0] = start
    BY <1>8, <2>1
  <2> QED
    BY <1>2, <2>2
<1>10. ASSUME NEW k \in 1..n PROVE H[k] = Visit(b, H[k - 1], From(gm) + k)
  <2>1. /\ 1..k \in SUBSET (1..n) /\ 1..k # {}
        /\ Max(1..k) = k /\ (1..k) \ {Max(1..k)} = 1..(k - 1)
    BY <1>2, HeadOf
  <2>2. C[1..k] = Visit(b, C[(1..k) \ {Max(1..k)}], seq[Max(1..k)])
    BY <1>8, <2>1
  <2>3. H[k] = C[1..k] /\ H[k - 1] = C[1..(k - 1)]
    BY <1>2
  <2> QED
    BY <1>3, <2>1, <2>2, <2>3
<1> HIDE DEF H
<1>11. WalkedThrough(gm, H)
  BY <1>1, <1>9, <1>10 DEF WalkedThrough, n, start
<1> QED
  BY <1>11

\* A turn of the walk keeps the record Walked.
LEMMA WalkedOnce ==
  ASSUME Sourced, NEW gm \in Support, IsBlock(gm.message), NEW w, Walked(gm, w),
         NEW j \in 1..Len(Of(gm.message))
  PROVE  Walked(gm, Visit(gm.message, w, j))
<1> DEFINE b == gm.message
           v == Visit(b, w, j)
<1>1. v \in WalkRecord /\ Turned(b, w, j, v) /\ w \in WalkRecord
  BY VisitTurns DEF Walked
<1> HIDE DEF v
<1>2. CASE w.status # "walking"
  <2>1. v = w
    BY <1>1, <1>2 DEF Turned
  <2> QED
    BY <2>1 DEF v
<1>3. CASE w.status = "walking" /\ Of(b)[j].num \notin 1..7
  <2>1. v = [w EXCEPT !.status = "invalid"]
    BY <1>1, <1>3 DEF Turned
  <2>2. v.status = "invalid" /\ v.sections = w.sections
    BY <1>1, <2>1 DEF WalkRecord
  <2>3. Walked(gm, v)
    BY <1>1, <1>3, <2>2 DEF Walked
  <2> QED
    BY <2>3 DEF v
<1>4. CASE w.status = "walking" /\ Of(b)[j].num \in 1..7
  <2>1. CASE Of(b)[j].num = 7
    <3>1. v.at = j /\ v.status = "field" /\ v.sections[7] = <<b, j>>
      BY <1>1, <1>4, <2>1 DEF Turned
    <3>2. Walked(gm, v)
      BY <1>1, <2>1, <3>1 DEF Walked
    <3> QED
      BY <3>2 DEF v
  <2>2. CASE Of(b)[j].num # 7
    <3>1. v.status # "field"
      BY <1>1, <1>4, <2>2 DEF Turned
    <3>2. 7 \in 0..7
      OBVIOUS
    <3>3. v.sections[7] = w.sections[7]
      BY <1>1, <1>4, <2>2, <3>2 DEF Turned
    <3>4. Walked(gm, v)
      BY <1>1, <1>4, <3>1, <3>3 DEF Walked
    <3> QED
      BY <3>4 DEF v
  <2> QED
    BY <2>1, <2>2
<1> QED
  BY <1>2, <1>3, <1>4

\* After every turn of the walk the record is Walked.
LEMMA WalkedEach ==
  ASSUME Sourced, NEW gm \in Support, Placed(gm), gm.message # Null, NEW H, WalkedThrough(gm, H)
  PROVE  \A k \in 0..Steps(gm) : Walked(gm, H[k])
<1> DEFINE n == Steps(gm)
<1>1. n \in Nat /\ Start(gm) \in WalkRecord /\ IsBlock(gm.message) /\ From(gm) \in Nat
      /\ From(gm) + n = Len(Of(gm.message))
  BY StartsAt DEF Placed
<1> HIDE DEF n
<1> DEFINE S == {k \in Nat : Walked(gm, H[k])}
<1>2. 0 \in S
  <2>1. Start(gm).status = "walking" /\ Start(gm).sections = First(gm) /\ First(gm)[7] = gm.sections[7]
    BY StartsAt DEF Start
  <2> QED
    BY <1>1, <2>1 DEF Walked, WalkedThrough
<1>3. ASSUME NEW k \in 0..(n - 1), k \in S PROVE k + 1 \in S
  <2>1. k + 1 \in 1..n /\ (k + 1) - 1 = k /\ k + 1 \in Nat
    BY <1>1
  <2>2. From(gm) + (k + 1) \in 1..Len(Of(gm.message))
    BY <1>1, <2>1
  <2>3. H[k + 1] = Visit(gm.message, H[k], From(gm) + (k + 1))
    BY <2>1 DEF WalkedThrough, n
  <2>4. Walked(gm, H[k + 1])
    BY <1>1, <1>3, <2>2, <2>3, WalkedOnce
  <2> QED
    BY <2>1, <2>4
<1> HIDE DEF S
<1>4. \A k \in 0..n : k \in S
  BY <1>1, <1>2, <1>3, Induction
<1> QED
  BY <1>4 DEF S, n

\* The result of the walk is that of the last turn.
LEMMA WalkTyped ==
  ASSUME Sourced, NEW gm \in Support, Placed(gm), gm.message # Null
  PROVE  \E w : /\ Walked(gm, w) /\ Walk(gm).status = w.status /\ Walk(gm).at = w.at
                /\ Walk(gm).gm = [gm EXCEPT !.sections = w.sections, !.lens = w.lens,
                                            !.bitmap = w.bitmap, !.bitmapLen = w.bitmapLen]
<1> DEFINE n == Steps(gm)
<1>1. n \in 0..n
  BY StartsAt
<1>2. PICK H : WalkedThrough(gm, H)
  BY WalkSteps
<1>3. Walked(gm, H[n])
  BY <1>1, <1>2, WalkedEach
<1> HIDE DEF n
<1> DEFINE w == H[n]
<1>4. /\ Walk(gm).status = w.status /\ Walk(gm).at = w.at
      /\ Walk(gm).gm = [gm EXCEPT !.sections = w.sections, !.lens = w.lens,
                                  !.bitmap = w.bitmap, !.bitmapLen = w.bitmapLen]
  <2>1. Walk(gm) = [gm |-> [gm EXCEPT !.sections = w.sections, !.lens = w.lens,
                                      !.bitmap = w.bitmap, !.bitmapLen = w.bitmapLen],
                    status |-> w.status, at |-> w.at]
    BY <1>2 DEF WalkedThrough, n
  <2> HIDE DEF w
  <2> QED
    BY <2>1
<1> HIDE DEF w
<1> QED
  BY <1>3, <1>4 DEF w

\* A new entry is Placed.
LEMMA NewTyped == ASSUME NEW s \in Source PROVE NewSupport(s) \in Support /\ Placed(NewSupport(s))
<1> DEFINE sections == [n \in 0..7 |-> Null]
           lens == [n \in 0..7 |-> IF n = 0 THEN HeaderLen ELSE 0]
<1>1. sections \in [0..7 -> Ref] /\ lens \in [0..7 -> Nat] /\ Null \in Ref
  BY DEF Ref, HeaderLen
<1>2. NewSupport(s) = [file |-> s, message |-> Null, number |-> 0, sections |-> sections, lens |-> lens,
                       bitmap |-> Null, bitmapLen |-> 0, freed |-> FALSE]
  BY DEF NewSupport
<1> HIDE DEF sections, lens
<1> QED
  BY <1>1, <1>2 DEF Support, Placed

\* With the entry added when it is missing, the list is still one of Placed entries.
LEMMA AllTyped ==
  ASSUME Entries, Typed, NEW s \in Source
  PROVE  /\ Supported(s) \in Seq(Support)
         /\ \A i \in DOMAIN Supported(s) : Placed(Supported(s)[i])
<1>1. CASE HasSupport(s)
  BY <1>1 DEF Typed, Supported
<1>2. CASE ~HasSupport(s)
  <2> DEFINE new == NewSupport(s)
             all == Append(supports, new)
  <2>1. new \in Support /\ Placed(new)
    BY NewTyped
  <2>2. Supported(s) = all
    BY <1>2 DEF Supported
  <2>3. supports \in Seq(Support) /\ \A i \in DOMAIN supports : Placed(supports[i])
    BY DEF Typed
  <2> HIDE DEF new
  <2>4. all \in Seq(Support)
    BY <2>1, <2>3
  <2>5. /\ DOMAIN all = 1..(Len(supports) + 1) /\ Len(supports) \in Nat
        /\ all[Len(supports) + 1] = new
        /\ \A i \in 1..Len(supports) : all[i] = supports[i] /\ i \in DOMAIN supports
    BY <2>1, <2>3
  <2> HIDE DEF all
  <2>6. \A i \in DOMAIN all : i \in 1..Len(supports) \/ i = Len(supports) + 1
    BY <2>5
  <2> QED
    BY <2>1, <2>2, <2>3, <2>4, <2>5, <2>6
<1> QED
  BY <1>1, <1>2

\* The entry a read works on has its type.
LEMMA EntryTyped ==
  ASSUME Entries, Typed, NEW s \in Source
  PROVE  Entry(s) \in Support /\ Placed(Entry(s)) /\ Entered(Entry(s)) /\ Entry(s).file = s
<1> DEFINE all == Supported(s)
           k == FirstOf(all, s)
<1>1. k \in DOMAIN all /\ Entered(Entry(s)) /\ Entry(s).file = s
  BY EntryFound
<1>2. all \in Seq(Support) /\ \A i \in DOMAIN all : Placed(all[i])
  BY AllTyped
<1>3. Entry(s) = all[k]
  BY DEF Entry
<1> HIDE DEF all, k
<1> QED
  BY <1>1, <1>2, <1>3

\* What a read leaves in the entry of its source.
LEMMA TypedSet ==
  ASSUME Entries, Typed, NEW s \in Source, NEW gm \in Support, Placed(gm),
         supports' = SetEntry(s, gm), stream' = stream
  PROVE  supports' \in Seq(Support) /\ \A i \in DOMAIN supports' : Placed(supports[i])'
<1> DEFINE all == Supported(s)
           k == FirstOf(all, s)
<1>1. k \in DOMAIN all
  BY EntryFound
<1>2. all \in Seq(Support) /\ \A i \in DOMAIN all : Placed(all[i])
  BY AllTyped
<1>3. supports' = [all EXCEPT ![k] = gm]
  BY DEF SetEntry
<1> HIDE DEF all, k
<1>4. supports' \in Seq(Support) /\ DOMAIN supports' = DOMAIN all
  BY <1>1, <1>2, <1>3
<1>5. \A i \in DOMAIN supports' : supports'[i] = gm \/ supports'[i] = all[i]
  BY <1>1, <1>2, <1>3
<1>6. \A i \in DOMAIN supports' : Placed(supports'[i])
  BY <1>2, <1>4, <1>5
<1> QED
  BY <1>4, <1>6 DEF Placed, IsBlock, Of

\* So has the entry with the next message loaded, which is a block that was read.
LEMMA LoadedTyped ==
  ASSUME Entries, Typed, NEW s \in Source
  PROVE  /\ Loaded(s) \in Support /\ Placed(Loaded(s))
         /\ Loaded(s).message # Null => IsBlock(Loaded(s).message)
<1>1. Entry(s) \in Support /\ Placed(Entry(s)) /\ Entered(Entry(s))
  BY EntryTyped
<1>2. CASE MustLoad(s) /\ ~AtEnd(s)
  <2> DEFINE b == <<s, files[s].next>>
  <2>1. Loaded(s) = [Entry(s) EXCEPT !.message = b]
    BY <1>2 DEF Loaded
  <2>2. IsBlock(b) /\ b \in Source \X Nat
    <3>1. files[s].next \in 1..(Len(stream[s]) + 1) /\ ~(files[s].next > Len(stream[s]))
      BY <1>2 DEF Typed, AtEnd
    <3>2. Len(stream[s]) \in Nat
      BY StreamsAssumption DEF Typed, Sourced
    <3> QED
      BY <3>1, <3>2 DEF IsBlock
  <2>3. Entry(s).number = 0
    BY <1>1, <1>2 DEF MustLoad, Entered
  <2> HIDE DEF b
  <2>4. Loaded(s) \in Support /\ Loaded(s).message = b /\ Loaded(s).number = 0
    BY <1>1, <2>1, <2>2, <2>3 DEF Support
  <2> QED
    BY <2>2, <2>4 DEF Placed
<1>3. CASE ~(MustLoad(s) /\ ~AtEnd(s))
  <2>1. Loaded(s) = Entry(s)
    BY <1>3 DEF Loaded
  <2> QED
    BY <1>1, <2>1 DEF Placed
<1> QED
  BY <1>2, <1>3

\* The message read is one of the source's.
LEMMA FilesTyped ==
  ASSUME Typed, NEW s \in Source, TakesNext(s), stream' = stream
  PROVE  /\ files' \in [Source -> [open : BOOLEAN, next : Nat]]
         /\ \A r \in Source : files'[r].next \in 1..(Len(stream'[r]) + 1)
<1>1. /\ files \in [Source -> [open : BOOLEAN, next : Nat]]
      /\ \A r \in Source : files[r].next \in 1..(Len(stream[r]) + 1) /\ Len(stream[r]) \in Nat
  BY StreamsAssumption DEF Typed, Sourced
<1>2. CASE MustLoad(s) /\ ~AtEnd(s)
  <2> DEFINE k == files[s].next
  <2>1. files' = [files EXCEPT ![s].next = k + 1]
    BY <1>2 DEF TakesNext
  <2>2. k \in Nat /\ k + 1 \in Nat /\ k + 1 \in 1..(Len(stream[s]) + 1)
    BY <1>1, <1>2 DEF AtEnd
  <2> HIDE DEF k
  <2>3. files' \in [Source -> [open : BOOLEAN, next : Nat]]
    BY <1>1, <2>1, <2>2
  <2>4. files'[s].next = k + 1 /\ \A r \in Source : r # s => files'[r] = files[r]
    BY <1>1, <2>1
  <2> QED
    BY <1>1, <2>2, <2>3, <2>4
<1>3. CASE ~(MustLoad(s) /\ ~AtEnd(s))
  <2>1. files' = files
    BY <1>3 DEF TakesNext
  <2> QED
    BY <1>1, <2>1
<1> QED
  BY <1>2, <1>3

\* The entry after the walk; after a section 7 it stops there, or is cleared.
LEMMA WalkedTyped ==
  ASSUME Sourced, NEW gm \in Support, Placed(gm), gm.message # Null
  PROVE  LET walk == Walk(gm)
         IN  /\ walk.gm \in Support /\ walk.gm.message = gm.message
             /\ walk.status # "field" => Placed(walk.gm) /\ Placed([walk.gm EXCEPT !.freed = (gm.file # Null)])
             /\ walk.status = "field" => AfterField(walk.gm, walk.at) \in Support /\ Placed(AfterField(walk.gm, walk.at))
<1> DEFINE walk == Walk(gm)
           g == walk.gm
<1>1. PICK w : /\ Walked(gm, w) /\ Walk(gm).status = w.status /\ Walk(gm).at = w.at
               /\ Walk(gm).gm = [gm EXCEPT !.sections = w.sections, !.lens = w.lens,
                                           !.bitmap = w.bitmap, !.bitmapLen = w.bitmapLen]
  BY WalkTyped
<1>2. /\ w.sections \in [0..7 -> Ref] /\ w.lens \in [0..7 -> Nat]
      /\ w.bitmap \in Ref /\ w.bitmapLen \in Nat
  BY <1>1, WalkTypes DEF Walked
<1>3. g \in Support
  BY <1>1, <1>2 DEF Support
<1>4. g.file = gm.file /\ g.message = gm.message /\ g.number = gm.number /\ g.sections = w.sections
  BY <1>1 DEF Support
<1> HIDE DEF walk
<1>5. IsBlock(gm.message) /\ Len(Of(gm.message)) \in Nat
  BY BlockSections DEF Placed
<1>6. ASSUME walk.status # "field" PROVE Placed(g) /\ Placed([g EXCEPT !.freed = (gm.file # Null)])
  <2>1. g.sections[7] = gm.sections[7]
    BY <1>1, <1>4, <1>6 DEF Walked, walk
  <2>2. Placed(g)
    BY <1>4, <2>1 DEF Placed
  <2> DEFINE left == [g EXCEPT !.freed = (gm.file # Null)]
  <2>3. left.message = g.message /\ left.number = g.number /\ left.sections = g.sections
    BY <1>3 DEF Support
  <2> HIDE DEF left, g
  <2>4. Placed(left)
    BY <2>2, <2>3 DEF Placed
  <2> QED
    BY <2>2, <2>4 DEF left
<1>7. ASSUME walk.status = "field" PROVE AfterField(g, walk.at) \in Support /\ Placed(AfterField(g, walk.at))
  <2>1. walk.at \in 1..Len(Of(gm.message)) /\ g.sections[7] = <<gm.message, walk.at>>
    BY <1>1, <1>4, <1>7 DEF Walked, walk
  <2> HIDE DEF g
  <2>2. CASE HasNext(gm.message, walk.at)
    <3> DEFINE left == [g EXCEPT !.number = 7]
    <3>1. AfterField(g, walk.at) = left
      BY <1>4, <2>2 DEF AfterField
    <3>2. left \in Support /\ left.message = g.message /\ left.sections = g.sections
      BY <1>3 DEF Support
    <3>3. walk.at \in 1..(Len(Of(gm.message)) - 1)
      BY <1>5, <2>1, <2>2 DEF HasNext
    <3> HIDE DEF left
    <3>4. Placed(left)
      BY <1>4, <1>5, <2>1, <3>2, <3>3 DEF Placed
    <3> QED
      BY <3>1, <3>2, <3>4
  <2>3. CASE ~HasNext(gm.message, walk.at)
    <3> DEFINE none == [n \in 0..7 |-> Null]
               left == [g EXCEPT !.message = Null, !.number = 0, !.sections = none]
    <3>1. AfterField(g, walk.at) = left
      BY <1>4, <2>3 DEF AfterField, Finish
    <3>2. none \in [0..7 -> Ref]
      BY DEF Ref
    <3> HIDE DEF none
    <3>3. left \in Support /\ left.message = Null /\ left.number = 0
      BY <1>3, <3>2 DEF Support
    <3> QED
      BY <3>1, <3>3 DEF Placed
  <2> QED
    BY <2>2, <2>3
<1> QED
  BY <1>3, <1>4, <1>6, <1>7 DEF walk

\* What all the reads do to the types.
LEMMA ReadTyped ==
  ASSUME Entries, Typed, NEW s \in Source, NEW gm \in Support, Placed(gm), NEW how,
         (\E handle : Returns(s, gm, handle)) \/ (how \in {"end", "null"} /\ ReturnsNull(s, gm, how))
  PROVE  Typed'
<1>1. supports' = SetEntry(s, gm) /\ TakesNext(s) /\ stream' = stream
  BY DEF Returns, ReturnsNull
<1>2. supports' \in Seq(Support) /\ \A i \in DOMAIN supports' : Placed(supports[i])'
  BY <1>1, TypedSet
<1>3. /\ files' \in [Source -> [open : BOOLEAN, next : Nat]]
      /\ \A r \in Source : files'[r].next \in 1..(Len(stream'[r]) + 1)
  BY <1>1, FilesTyped
<1>4. last' \in [Source -> {"none", "handle", "end", "null", "reset"}]
  BY DEF Returns, ReturnsNull, Typed
<1>5. \E S : out' \in [Source -> Seq(S)]
  <2>1. PICK S : out \in [Source -> Seq(S)]
    BY DEF Typed
  <2>2. CASE \E handle : Returns(s, gm, handle)
    <3>1. PICK handle : out' = [out EXCEPT ![s] = Append(@, handle)]
      BY <2>2 DEF Returns
    <3> DEFINE T == S \cup {handle}
    <3>2. \A r \in Source : out[r] \in Seq(T)
      BY <2>1
    <3>3. Append(out[s], handle) \in Seq(T)
      BY <3>2
    <3>4. out' \in [Source -> Seq(T)]
      BY <2>1, <3>1, <3>2, <3>3
    <3> QED
      BY <3>4
  <2>3. CASE ReturnsNull(s, gm, how)
    BY <2>1, <2>3 DEF ReturnsNull
  <2> QED
    BY <2>2, <2>3
<1>6. Sourced'
  BY <1>1 DEF Typed, Sourced
<1> QED
  BY <1>2, <1>3, <1>4, <1>5, <1>6 DEF Typed

\* Every step keeps the types.
LEMMA TypedStep == ASSUME Entries, Typed, [Next]_vars PROVE Typed'
<1>1. ASSUME NEW s \in Source, EndOfFile(s) PROVE Typed'
  BY <1>1, EntryTyped, ReadTyped DEF EndOfFile
<1>2. ASSUME NEW s \in Source, ReadEdition1(s) PROVE Typed'
  <2> DEFINE gm == Loaded(s)
             left == [gm EXCEPT !.message = Null]
  <2>1. gm \in Support /\ gm.number = 0
    BY <1>2, LoadedTyped, LoadedEntry DEF ReadEdition1, InEdition
  <2>2. Returns(s, left, Whole(gm.message))
    BY <1>2 DEF ReadEdition1, HandOver
  <2> HIDE DEF gm
  <2>3. left \in Support /\ left.number = 0 /\ left.message = Null
    BY <2>1 DEF Support
  <2>4. Placed(left)
    BY <2>3 DEF Placed
  <2> HIDE DEF left
  <2> QED
    BY <2>2, <2>3, <2>4, ReadTyped
<1>3. ASSUME NEW s \in Source, InEdition(s, 2)
      PROVE  LET walk == Walk(Loaded(s))
             IN  /\ walk.gm \in Support
                 /\ [walk.gm EXCEPT !.freed = (s # Null)] \in Support
                 /\ walk.status # "field" => Placed(walk.gm) /\ Placed([walk.gm EXCEPT !.freed = (s # Null)])
                 /\ walk.status = "field" => AfterField(walk.gm, walk.at) \in Support /\ Placed(AfterField(walk.gm, walk.at))
  <2> DEFINE gm == Loaded(s)
             walk == Walk(gm)
             left == [walk.gm EXCEPT !.freed = (s # Null)]
  <2>1. gm \in Support /\ Placed(gm) /\ gm.message # Null /\ Sourced /\ gm.file = s
    BY <1>3, LoadedTyped, LoadedEntry DEF InEdition, Typed
  <2> HIDE DEF gm
  <2>2. /\ walk.gm \in Support
        /\ walk.status # "field" => Placed(walk.gm) /\ Placed(left)
        /\ walk.status = "field" => AfterField(walk.gm, walk.at) \in Support /\ Placed(AfterField(walk.gm, walk.at))
    BY <2>1, WalkedTyped
  <2> HIDE DEF walk
  <2>3. left \in Support
    BY <2>2 DEF Support
  <2> QED
    BY <2>2, <2>3 DEF walk, gm
<1>4. ASSUME NEW s \in Source, ReadField(s) PROVE Typed'
  <2> DEFINE walk == Walk(Loaded(s))
             left == AfterField(walk.gm, walk.at)
  <2>1. left \in Support /\ Placed(left) /\ Returns(s, left, Build(walk.gm))
    BY <1>3, <1>4 DEF ReadField
  <2> HIDE DEF left
  <2> QED
    BY <2>1, ReadTyped
<1>5. ASSUME NEW s \in Source, ReadInvalidSection(s) PROVE Typed'
  <2> DEFINE left == Walk(Loaded(s)).gm
  <2>1. left \in Support /\ Placed(left) /\ ReturnsNull(s, left, "null")
    BY <1>3, <1>5 DEF ReadInvalidSection
  <2> HIDE DEF left
  <2> QED
    BY <2>1, ReadTyped
<1>6. ASSUME NEW s \in Source, ReadMissingBitmap(s) PROVE Typed'
  <2> DEFINE left == [Walk(Loaded(s)).gm EXCEPT !.freed = (s # Null)]
  <2>1. left \in Support /\ Placed(left) /\ ReturnsNull(s, left, "null")
    BY <1>3, <1>6 DEF ReadMissingBitmap
  <2> HIDE DEF left
  <2> QED
    BY <2>1, ReadTyped
<1>7. ASSUME NEW s \in Source, ReadUnfinished(s) PROVE Typed'
  <2> DEFINE left == Walk(Loaded(s)).gm
  <2>1. left \in Support /\ Placed(left) /\ Returns(s, left, Whole(Loaded(s).message))
    BY <1>3, <1>7 DEF ReadUnfinished
  <2> HIDE DEF left
  <2> QED
    BY <2>1, ReadTyped
<1>8. ASSUME NEW f \in Source, ResetFile(f) PROVE Typed'
  <2> DEFINE left(i) == IF supports[i].file = f THEN [supports[i] EXCEPT !.file = Null] ELSE supports[i]
  <2>1. /\ supports' = [i \in DOMAIN supports |-> left(i)] /\ stream' = stream /\ files' = files /\ out' = out
        /\ last' = [last EXCEPT ![f] = "reset"]
    BY <1>8 DEF ResetFile
  <2>2. /\ supports \in Seq(Support) /\ DOMAIN supports = 1..Len(supports) /\ Len(supports) \in Nat
        /\ \A i \in DOMAIN supports : Placed(supports[i])
    BY DEF Typed
  <2>3. ASSUME NEW i \in DOMAIN supports PROVE left(i) \in Support /\ Placed(left(i))
    <3> DEFINE gm == supports[i]
    <3>1. gm \in Support /\ Placed(gm) /\ Null \in Source
      BY <2>2 DEF Source
    <3> HIDE DEF gm
    <3>2. left(i) = IF gm.file = f THEN [gm EXCEPT !.file = Null] ELSE gm
      BY DEF gm
    <3> HIDE DEF left
    <3>3. /\ left(i) \in Support
          /\ left(i).message = gm.message /\ left(i).number = gm.number /\ left(i).sections = gm.sections
      BY <3>1, <3>2 DEF Support
    <3> QED
      BY <3>1, <3>3 DEF Placed
  <2> HIDE DEF left
  <2>4. supports' \in Seq(Support) /\ DOMAIN supports' = DOMAIN supports
    BY <2>1, <2>2, <2>3
  <2>5. \A i \in DOMAIN supports' : Placed(supports'[i])
    BY <2>1, <2>3, <2>4
  <2>6. last' \in [Source -> {"none", "handle", "end", "null", "reset"}]
    BY <2>1 DEF Typed
  <2> QED
    BY <2>1, <2>4, <2>5, <2>6 DEF Typed, Sourced, Placed, IsBlock, Of
<1>9. ASSUME NEW s \in Source, Open(s) \/ Rewind(s) \/ Close(s) PROVE Typed'
  <2>1. PICK open \in BOOLEAN : Restart(s, open)
    BY <1>9 DEF Open, Rewind, Close
  <2>2. /\ files \in [Source -> [open : BOOLEAN, next : Nat]]
        /\ \A r \in Source : files[r].next \in 1..(Len(stream[r]) + 1) /\ Len(stream[r]) \in Nat
    BY StreamsAssumption DEF Typed, Sourced
  <2>3. /\ stream' = stream /\ supports' = supports
        /\ files' = [files EXCEPT ![s] = [open |-> open, next |-> 1]]
        /\ out' = [out EXCEPT ![s] = <<>>] /\ last' = [last EXCEPT ![s] = "none"]
    BY <2>1 DEF Restart
  <2>4. files' \in [Source -> [open : BOOLEAN, next : Nat]]
    BY <2>2, <2>3
  <2>5. \A r \in Source : files'[r].next \in 1..(Len(stream'[r]) + 1)
    BY <2>2, <2>3
  <2>6. last' \in [Source -> {"none", "handle", "end", "null", "reset"}]
    BY <2>3 DEF Typed
  <2>7. \E S : out' \in [Source -> Seq(S)]
    BY <2>3 DEF Typed
  <2> QED
    BY ZenonT(40), <2>3, <2>4, <2>5, <2>6, <2>7 DEF Typed, Sourced, Placed, IsBlock, Of
<1>10. CASE UNCHANGED vars
  BY <1>10 DEF vars, Typed, Sourced, Placed, IsBlock, Of
<1> QED
  BY <1>1, <1>2, <1>4, <1>5, <1>6, <1>7, <1>8, <1>9, <1>10 DEF Next

\* They hold at the start.
LEMMA InitTyped == ASSUME Sourced, Started PROVE Entries /\ Typed
<1>1. Entries
  <2>1. supports = <<>> /\ supports \in Seq({})
    BY DEF Started
  <2> QED
    BY <2>1 DEF Entries
<1>2. \A s \in Source : Len(stream[s]) \in Nat
  BY StreamsAssumption DEF Started, Sourced
<1>3. supports \in Seq(Support) /\ DOMAIN supports = {}
  BY DEF Started
<1>4. /\ files \in [Source -> [open : BOOLEAN, next : Nat]]
      /\ \A s \in Source : files[s].next \in 1..(Len(stream[s]) + 1)
  BY <1>2 DEF Started
<1>5. out \in [Source -> Seq({})] /\ last \in [Source -> {"none"}]
  BY DEF Started
<1>6. last \in [Source -> {"none", "handle", "end", "null", "reset"}]
  BY <1>5
<1> QED
  BY <1>1, <1>3, <1>4, <1>5, <1>6 DEF Typed

\* They hold always.
LEMMA TypedAlways == Spec => [](Entries /\ Typed)
<1>1. Init => Entries /\ Typed
  BY StreamsAssumption, InitTyped DEF Init, Sourced
<1>2. (Entries /\ Typed) /\ [Next]_vars => (Entries /\ Typed)'
  BY EntriesStep, TypedStep
<1> QED
  BY <1>1, <1>2, PTL DEF Spec

\* Whatever messages a source holds, damaged ones among them, and however reads,
\* rewinds, closes and resets are mixed, every entry keeps its type, and stops
\* only before section 0 or after a section 7 of its message.
THEOREM TypeCorrect == Spec => []TypeOK
<1>1. Entries /\ Typed => TypeOK
  <2> SUFFICES ASSUME Typed PROVE TypeOK
    OBVIOUS
  <2>1. \A s \in Source : files[s].open \in BOOLEAN /\ files[s].next \in 1..(Len(stream[s]) + 1)
    BY DEF Typed
  <2>2. ASSUME NEW i \in DOMAIN supports
        PROVE  LET gm == supports[i]
               IN  /\ gm.file \in Source
                   /\ gm.number \in {0, 7}
                   /\ DOMAIN gm.sections = 0..7 /\ DOMAIN gm.lens = 0..7
                   /\ \A n \in 0..7 : gm.lens[n] \in Nat
                   /\ gm.number = 7 => gm.sections[7] # Null
    <3> DEFINE gm == supports[i]
    <3>1. gm \in Support /\ Placed(gm)
      BY DEF Typed
    <3> HIDE DEF gm
    <3>2. gm.file \in Source /\ gm.number \in {0, 7} /\ gm.sections \in [0..7 -> Ref] /\ gm.lens \in [0..7 -> Nat]
      BY <3>1, SupportTypes
    <3>3. gm.number = 7 => gm.sections[7] # Null
      <4> SUFFICES ASSUME gm.number = 7 PROVE gm.sections[7] # Null
        OBVIOUS
      <4>1. PICK j \in 1..(Len(Of(gm.message)) - 1) : gm.sections[7] = <<gm.message, j>>
        BY <3>1 DEF Placed
      <4>2. IsBlock(gm.message)
        BY <3>1 DEF Placed
      <4>3. Len(Of(gm.message)) \in Nat
        BY <4>2, BlockSections DEF Typed
      <4>4. j \in Nat
        BY <4>3
      <4>5. <<gm.message, j>> \in (Source \X Nat) \X Nat
        BY <4>2, <4>4 DEF IsBlock
      <4> QED
        BY <4>1, <4>5, NullAssumption
    <3> QED
      BY <3>2, <3>3 DEF gm
  <2>3. \A s \in Source : last[s] \in {"none", "handle", "end", "null", "reset"}
    BY DEF Typed
  <2> QED
    BY <2>1, <2>2, <2>3 DEF TypeOK
<1> QED
  BY <1>1, TypedAlways, PTL

-----------------------------------------------------------------------------
(* What the walk of a well-formed message gathers *)

\* The sections of the field so far, when the walk stands at section j of b.
Gathered(b, j, w) ==
    /\ w.sections[0] = <<b, 0>>
    /\ \A n \in 1..7 : w.sections[n] = IF SectionsUpTo(b, j, n) = {} THEN Null ELSE Latest(b, j, n)
    /\ Own(b, SectionsUpTo(b, j, 6)) # {} => w.bitmap = <<b, Max(Own(b, SectionsUpTo(b, j, 6)))>>

\* The maximum of a set of numbers up to j that has j.
LEMMA MaxLast == ASSUME NEW j \in Nat, NEW s \in SUBSET (1..j), j \in s PROVE Max(s) = j
<1>1. Max(s) \in s /\ \A y \in s : y <= Max(s)
  BY MaxOf
<1>2. j <= Max(s) /\ Max(s) \in 1..j
  BY <1>1
<1> QED
  BY <1>2

\* The sections with number n up to j, from those up to j - 1.
LEMMA OneMoreSection ==
  ASSUME NEW b, NEW j \in Nat \ {0}, NEW n
  PROVE  /\ Of(b)[j].num # n => SectionsUpTo(b, j, n) = SectionsUpTo(b, j - 1, n)
         /\ Of(b)[j].num = n => SectionsUpTo(b, j, n) = SectionsUpTo(b, j - 1, n) \cup {j}
         /\ SectionsUpTo(b, j, n) \in SUBSET (1..j)
<1>1. 1..j = (1..(j - 1)) \cup {j}
  OBVIOUS
<1> QED
  BY <1>1 DEF SectionsUpTo

\* In a well-formed message a turn keeps the pointers Gathered, and stops at a section 7.
LEMMA GatheredNext ==
  ASSUME Sourced, NEW b, IsBlock(b), stream[b[1]][b[2]].edition = 2, WellFormedMessage(b),
         NEW j \in 1..Len(Of(b)), NEW w \in WalkRecord, w.status = "walking", Gathered(b, j - 1, w)
  PROVE  LET v == Visit(b, w, j)
         IN  /\ v \in WalkRecord /\ Gathered(b, j, v) /\ v.at = j
             /\ v.status = IF Of(b)[j].num = 7 THEN "field" ELSE "walking"
<1> DEFINE v == Visit(b, w, j)
           sec == Of(b)[j]
           num == sec.num
           all == SectionsUpTo(b, j, num)
           given == Own(b, SectionsUpTo(b, j, 6))
           before == Own(b, SectionsUpTo(b, j - 1, 6))
<1>1. v \in WalkRecord /\ Turned(b, w, j, v)
  BY VisitTurns
<1>2. Len(Of(b)) \in Nat /\ j \in Nat \ {0} /\ j \in DOMAIN Of(b)
  BY BlockSections
<1>3. num \in 1..7 /\ (sec.inherits => given # {})
  BY <1>2 DEF WellFormedMessage
<1>4. /\ given \in SUBSET (1..j) /\ before \in SUBSET (1..j)
      /\ num = 6 /\ ~sec.inherits => j \in given
      /\ ~(num = 6 /\ ~sec.inherits) => given = before
  <2>1. SectionsUpTo(b, j, 6) \in SUBSET (1..j) /\ SectionsUpTo(b, j - 1, 6) \in SUBSET (1..j)
    BY <1>2 DEF SectionsUpTo
  <2>2. CASE num = 6
    <3>1. SectionsUpTo(b, j, 6) = SectionsUpTo(b, j - 1, 6) \cup {j}
      <4>1. Of(b)[j].num = 6
        BY <2>2
      <4>2. 1..j = (1..(j - 1)) \cup {j}
        BY <1>2
      <4> QED
        BY <4>1, <4>2 DEF SectionsUpTo
    <3>2. given = {i \in SectionsUpTo(b, j - 1, 6) \cup {j} : ~Of(b)[i].inherits}
      BY <3>1 DEF Own
    <3>3. before = {i \in SectionsUpTo(b, j - 1, 6) : ~Of(b)[i].inherits}
      BY DEF Own
    <3>4. given \in SUBSET (1..j) /\ before \in SUBSET (1..j)
      BY <2>1 DEF Own
    <3>5. ~sec.inherits => j \in given
      BY <3>2
    <3>6. sec.inherits => given = before
      BY <3>2, <3>3
    <3> QED
      BY <2>2, <3>4, <3>5, <3>6
  <2>3. CASE num # 6
    <3>1. SectionsUpTo(b, j, 6) = SectionsUpTo(b, j - 1, 6)
      BY <1>2, <2>3, OneMoreSection
    <3> QED
      BY <2>1, <2>3, <3>1 DEF Own
  <2> QED
    BY <2>2, <2>3
<1>5. before # {} => w.bitmap = <<b, Max(before)>>
  BY DEF Gathered
<1>6. ASSUME num = 6, sec.inherits PROVE w.bitmap = <<b, Max(given)>> /\ w.bitmap # Null
  <2>1. given = before /\ before # {} /\ given \in SUBSET (1..j) /\ j \in Nat
    BY <1>2, <1>3, <1>4, <1>6
  <2> HIDE DEF given, before
  <2>2. Max(given) \in given
    BY <2>1, MaxOf
  <2>3. Max(given) \in Nat
    <3>1. Max(given) \in 1..j
      BY <2>1, <2>2
    <3> QED
      BY <2>1, <3>1
  <2>4. <<b, Max(given)>> \in (Source \X Nat) \X Nat
    BY <2>3 DEF IsBlock
  <2> QED
    BY <1>5, <2>1, <2>4, NullAssumption
<1> HIDE DEF given, before, v
<1>7. v.at = j /\ v.status = IF num = 7 THEN "field" ELSE "walking"
  <2>1. v.at = j
    BY <1>1, <1>3 DEF Turned
  <2>2. v.status = IF (num = 6 /\ sec.inherits) /\ w.bitmap = Null THEN "no bitmap"
                   ELSE IF num = 7 THEN "field" ELSE "walking"
    BY <1>1, <1>3 DEF Turned
  <2> QED
    BY <1>6, <2>1, <2>2
<1>8. /\ \A n \in 0..7 : n # num => v.sections[n] = w.sections[n]
      /\ num = 6 /\ sec.inherits => v.sections[6] = w.bitmap
      /\ ~(num = 6 /\ sec.inherits) => v.sections[num] = <<b, j>>
      /\ num = 6 /\ ~sec.inherits => v.bitmap = <<b, j>>
      /\ ~(num = 6 /\ ~sec.inherits) => v.bitmap = w.bitmap
  <2>1. \A n \in 0..7 : n # num => v.sections[n] = w.sections[n]
    BY <1>1, <1>3 DEF Turned
  <2>2. num = 6 /\ sec.inherits => v.sections[6] = w.bitmap
    BY <1>1, <1>3, <1>6 DEF Turned
  <2>3. ~(num = 6 /\ sec.inherits) => v.sections[num] = <<b, j>>
    BY <1>1, <1>3 DEF Turned
  <2>4. /\ num = 6 /\ ~sec.inherits => v.bitmap = <<b, j>>
        /\ ~(num = 6 /\ ~sec.inherits) => v.bitmap = w.bitmap
    BY <1>1, <1>3 DEF Turned
  <2> QED
    BY <2>1, <2>2, <2>3, <2>4
<1>9. v.sections[0] = <<b, 0>>
  <2>1. 0 \in 0..7 /\ 0 # num
    BY <1>3
  <2> QED
    BY <1>8, <2>1 DEF Gathered
<1>10. ASSUME NEW n \in 1..7
       PROVE  v.sections[n] = IF SectionsUpTo(b, j, n) = {} THEN Null ELSE Latest(b, j, n)
  <2>1. CASE n # num
    <3>1. SectionsUpTo(b, j, n) = SectionsUpTo(b, j - 1, n)
      BY <1>2, <2>1, OneMoreSection
    <3>2. v.sections[n] = w.sections[n]
      BY SMTT(20), <1>8, <2>1
    <3>3. Latest(b, j, n) = Latest(b, j - 1, n)
      BY <3>1 DEF Latest
    <3> QED
      BY <3>1, <3>2, <3>3 DEF Gathered
  <2>2. CASE n = num /\ n # 6
    <3>1. j \in all /\ all \in SUBSET (1..j) /\ j \in Nat
      BY SMTT(20), <1>2, OneMoreSection
    <3>2. v.sections[n] = <<b, j>>
      BY <1>8, <2>2
    <3>3. Latest(b, j, n) = <<b, Max(all)>>
      BY <2>2 DEF Latest
    <3> HIDE DEF all
    <3>4. Max(all) = j
      BY <3>1, MaxLast
    <3> QED
      BY <2>2, <3>1, <3>2, <3>3, <3>4 DEF all
  <2>3. CASE n = num /\ n = 6
    <3>1. Latest(b, j, 6) = <<b, Max(given)>>
      BY DEF Latest, given
    <3>2. SectionsUpTo(b, j, 6) # {}
      <4>1. Of(b)[j].num = 6 /\ j \in 1..j
        BY <1>2, <2>3
      <4> QED
        BY <4>1 DEF SectionsUpTo
    <3>3. CASE sec.inherits
      BY <1>6, <1>8, <2>3, <3>1, <3>2, <3>3
    <3>4. CASE ~sec.inherits
      <4>1. Max(given) = j
        BY <1>2, <1>4, <2>3, <3>4, MaxLast
      <4> QED
        BY <1>8, <2>3, <3>1, <3>2, <3>4, <4>1
    <3> QED
      BY <3>3, <3>4
  <2> QED
    BY <2>1, <2>2, <2>3
<1>11. given # {} => v.bitmap = <<b, Max(given)>>
  <2>1. CASE num = 6 /\ ~sec.inherits
    <3>1. Max(given) = j
      BY <1>2, <1>4, <2>1, MaxLast
    <3> QED
      BY <1>8, <2>1, <3>1
  <2>2. CASE ~(num = 6 /\ ~sec.inherits)
    BY <1>4, <1>5, <1>8, <2>2
  <2> QED
    BY <2>1, <2>2
<1>12. Gathered(b, j, v)
  BY <1>9, <1>10, <1>11 DEF Gathered, given
<1> QED
  BY <1>1, <1>7, <1>12 DEF v

\* After k turns: still walking, or stopped at the first section 7 met.
Gathering(gm, k, w) ==
    LET b == gm.message
        e == From(gm)
    IN  /\ w \in WalkRecord
        /\ \/ /\ w.status = "walking" /\ Gathered(b, e + k, w)
              /\ \A i \in (e + 1)..(e + k) : Of(b)[i].num # 7
           \/ /\ w.status = "field" /\ w.at \in (e + 1)..(e + k) /\ Of(b)[w.at].num = 7
              /\ Gathered(b, w.at, w)
              /\ \A i \in (e + 1)..(w.at - 1) : Of(b)[i].num # 7

\* The same, counted in turns from where the walk started.
LEMMA GatheringNext ==
  ASSUME Sourced, NEW gm \in Support, IsBlock(gm.message), From(gm) \in Nat,
         stream[gm.message[1]][gm.message[2]].edition = 2, WellFormedMessage(gm.message),
         NEW k \in Nat, From(gm) + (k + 1) \in 1..Len(Of(gm.message)), NEW w, Gathering(gm, k, w)
  PROVE  Gathering(gm, k + 1, Visit(gm.message, w, From(gm) + (k + 1)))
<1> DEFINE b == gm.message
           e == From(gm)
           j == e + (k + 1)
           v == Visit(b, w, j)
<1>1. w \in WalkRecord /\ j - 1 = e + k /\ j \in 1..Len(Of(b))
  BY DEF Gathering
<1>2. CASE w.status = "walking"
  <2>1. Gathered(b, j - 1, w) /\ \A i \in (e + 1)..(e + k) : Of(b)[i].num # 7
    BY <1>1, <1>2 DEF Gathering
  <2> HIDE DEF j, b
  <2>2. /\ v \in WalkRecord /\ Gathered(b, j, v) /\ v.at = j
        /\ v.status = IF Of(b)[j].num = 7 THEN "field" ELSE "walking"
    BY <1>1, <1>2, <2>1, GatheredNext DEF b
  <2> HIDE DEF v, e
  <2>3. e \in Nat /\ j = e + (k + 1)
    BY DEF e, j
  <2>4. CASE Of(b)[j].num = 7
    <3>1. j \in (e + 1)..(e + (k + 1)) /\ j - 1 = e + k
      BY <2>3
    <3>2. Gathering(gm, k + 1, v)
      BY <2>1, <2>2, <2>4, <3>1 DEF Gathering, b, e
    <3> QED
      BY <3>2 DEF v, j, e, b
  <2>5. CASE Of(b)[j].num # 7
    <3>1. \A i \in (e + 1)..(e + (k + 1)) : i \in (e + 1)..(e + k) \/ i = j
      BY <2>3
    <3>2. \A i \in (e + 1)..(e + (k + 1)) : Of(b)[i].num # 7
      BY <2>1, <2>5, <3>1
    <3>3. Gathering(gm, k + 1, v)
      BY <2>2, <2>3, <2>5, <3>2 DEF Gathering, b, e
    <3> QED
      BY <3>3 DEF v, j, e, b
  <2> QED
    BY <2>4, <2>5
<1>3. CASE w.status = "field"
  <2>1. v = w
    BY <1>3 DEF Visit
  <2>2. /\ w.at \in (e + 1)..(e + k) /\ Of(b)[w.at].num = 7 /\ Gathered(b, w.at, w)
        /\ \A i \in (e + 1)..(w.at - 1) : Of(b)[i].num # 7
    BY <1>3 DEF Gathering
  <2>3. w.at \in (e + 1)..(e + (k + 1))
    BY <2>2
  <2>4. Gathering(gm, k + 1, w)
    BY <1>1, <1>3, <2>2, <2>3 DEF Gathering
  <2> QED
    BY <2>1, <2>4
<1> QED
  BY <1>2, <1>3 DEF Gathering

\* The walk of a well-formed message that goes on from what was gathered ends
\* at its next section 7.
LEMMA WalkGathers ==
  ASSUME Sourced, NEW gm \in Support, Placed(gm), gm.message # Null,
         stream[gm.message[1]][gm.message[2]].edition = 2, WellFormedMessage(gm.message),
         Gathered(gm.message, From(gm), Start(gm))
  PROVE  LET b == gm.message
             walk == Walk(gm)
         IN  /\ walk.status = "field" /\ walk.at \in (From(gm) + 1)..Len(Of(b)) /\ Of(b)[walk.at].num = 7
             /\ \A i \in (From(gm) + 1)..(walk.at - 1) : Of(b)[i].num # 7
             /\ Gathered(b, walk.at, walk.gm)
<1> DEFINE b == gm.message
           n == Steps(gm)
           e == From(gm)
<1>1. n \in Nat /\ Start(gm) \in WalkRecord /\ IsBlock(b) /\ e \in Nat /\ e + n = Len(Of(b)) /\ Len(Of(b)) \in Nat
  BY StartsAt DEF Placed
<1>2. PICK H : WalkedThrough(gm, H)
  BY WalkSteps
<1> HIDE DEF n
<1> DEFINE S == {k \in Nat : Gathering(gm, k, H[k])}
<1>3. 0 \in S
  <2>1. Start(gm).status = "walking" /\ e + 0 = e
    BY <1>1 DEF Start
  <2> QED
    BY <1>1, <1>2, <2>1 DEF Gathering, WalkedThrough
<1>4. ASSUME NEW k \in 0..(n - 1), k \in S PROVE k + 1 \in S
  <2>1. k + 1 \in 1..n /\ (k + 1) - 1 = k /\ k + 1 \in Nat /\ k \in Nat
    BY <1>1
  <2>2. e + (k + 1) \in 1..Len(Of(b))
    BY <1>1, <2>1
  <2>3. H[k + 1] = Visit(b, H[k], e + (k + 1))
    BY <1>2, <2>1 DEF WalkedThrough, n
  <2>4. Gathering(gm, k, H[k])
    BY <1>4
  <2>5. Gathering(gm, k + 1, H[k + 1])
    BY <1>1, <2>1, <2>2, <2>3, <2>4, GatheringNext
  <2> QED
    BY <2>1, <2>5
<1> HIDE DEF S
<1>5. \A k \in 0..n : k \in S
  BY <1>1, <1>3, <1>4, Induction
<1> DEFINE w == H[n]
<1>6. Gathering(gm, n, w)
  <2>1. n \in 0..n
    BY <1>1
  <2> QED
    BY <1>5, <2>1 DEF S
<1>7. /\ Walk(gm).status = w.status /\ Walk(gm).at = w.at
      /\ Walk(gm).gm = [gm EXCEPT !.sections = w.sections, !.lens = w.lens,
                                  !.bitmap = w.bitmap, !.bitmapLen = w.bitmapLen]
  <2>1. Walk(gm) = [gm |-> [gm EXCEPT !.sections = w.sections, !.lens = w.lens,
                                      !.bitmap = w.bitmap, !.bitmapLen = w.bitmapLen],
                    status |-> w.status, at |-> w.at]
    BY <1>2 DEF WalkedThrough, n
  <2> HIDE DEF w
  <2> QED
    BY <2>1
<1> HIDE DEF w
<1>8. w.status # "walking"
  <2> SUFFICES ASSUME w.status = "walking" PROVE FALSE
    OBVIOUS
  <2>1. \A i \in (e + 1)..Len(Of(b)) : Of(b)[i].num # 7
    BY <1>1, <1>6 DEF Gathering
  <2>2. e < Len(Of(b))
    <3>1. gm.number \in {0, 7}
      BY SupportTypes
    <3>2. Of(b) # <<>> /\ Of(b) \in Seq(Section)
      BY <1>1, BlockSections DEF WellFormedMessage
    <3>3. Len(Of(b)) # 0
      BY <3>2
    <3> QED
      BY <1>1, <3>1, <3>3, StartsAt
  <2>3. Len(Of(b)) \in (e + 1)..Len(Of(b))
    BY <1>1, <2>2
  <2> QED
    BY <2>1, <2>3 DEF WellFormedMessage
<1>9. /\ w.status = "field" /\ w.at \in (e + 1)..(e + n) /\ Of(b)[w.at].num = 7
      /\ Gathered(b, w.at, w)
      /\ \A i \in (e + 1)..(w.at - 1) : Of(b)[i].num # 7
  BY <1>6, <1>8 DEF Gathering
<1>10. Walk(gm).gm.sections = w.sections /\ Walk(gm).gm.bitmap = w.bitmap
  BY <1>7 DEF Support
<1>11. Gathered(b, w.at, Walk(gm).gm)
  BY <1>9, <1>10 DEF Gathered
<1> QED
  BY <1>1, <1>7, <1>9, <1>11

-----------------------------------------------------------------------------
(* The fields of a source, one message and one section 7 after the other *)

\* The fields of a block up to section e, and of the first k messages of a source.
FieldsUpTo(b, e) == FlattenSeq([j \in 1..e |-> EndingAt(b, j)])
FirstFields(s, k) == FlattenSeq([i \in 1..k |-> FieldsOf(<<s, i>>)])

\* What a handle may have in it.
Content ==
    {FieldAt(b, e) : b \in Source \X Nat, e \in Nat} \cup {[n \in {0} |-> <<b, 0>>] : b \in Source \X Nat}

\* One section more: the field it ends, if it ends one, comes last.
LEMMA UpToNext ==
  ASSUME NEW b \in Source \X Nat, NEW e \in Nat
  PROVE  /\ FieldsUpTo(b, 0) = <<>>
         /\ FieldsUpTo(b, e) \in Seq(Content)
         /\ EndingAt(b, e + 1) \in Seq(Content)
         /\ FieldsUpTo(b, e + 1) = FieldsUpTo(b, e) \o EndingAt(b, e + 1)
<1>1. ASSUME NEW j \in Nat PROVE EndingAt(b, j) \in Seq(Content)
  <2>1. FieldAt(b, j) \in Content
    BY DEF Content
  <2>2. <<FieldAt(b, j)>> \in Seq(Content) /\ <<>> \in Seq(Content)
    BY <2>1
  <2> QED
    BY <2>2 DEF EndingAt
<1> DEFINE q == [j \in 1..(e + 1) |-> EndingAt(b, j)]
           r == [j \in 1..e |-> EndingAt(b, j)]
<1>2. q \in [1..(e + 1) -> Seq(Content)] /\ r \in [1..e -> Seq(Content)]
  BY SMTT(20), <1>1
<1>3. (\A j \in 1..e : r[j] = q[j]) /\ q[e + 1] = EndingAt(b, e + 1)
  OBVIOUS
<1>4. FieldsUpTo(b, e) = FlattenSeq(r) /\ FieldsUpTo(b, e + 1) = FlattenSeq(q)
  BY DEF FieldsUpTo
<1> HIDE DEF q, r
<1>5. FlattenSeq(r) \in Seq(Content) /\ FlattenSeq(q) = FlattenSeq(r) \o q[e + 1]
  BY <1>2, <1>3, FlattenAnother
<1>6. FieldsUpTo(b, 0) = <<>>
  <2> DEFINE none == [j \in 1..0 |-> EndingAt(b, j)]
  <2>1. none = <<>>
    OBVIOUS
  <2> HIDE DEF none
  <2>2. FlattenSeq(none) = <<>>
    BY <2>1, FlattenEmpty
  <2> QED
    BY <2>2 DEF FieldsUpTo, none
<1>7. EndingAt(b, e + 1) \in Seq(Content)
  <2>1. e + 1 \in Nat
    OBVIOUS
  <2> QED
    BY <1>1, <2>1
<1> QED
  BY <1>3, <1>4, <1>5, <1>6, <1>7

\* All the fields of a message of edition 2.
LEMMA UpToAll ==
  ASSUME Sourced, NEW b, IsBlock(b), stream[b[1]][b[2]].edition = 2
  PROVE  FieldsOf(b) = FieldsUpTo(b, Len(Of(b)))
<1>1. DOMAIN Of(b) = 1..Len(Of(b))
  BY BlockSections
<1> QED
  BY <1>1 DEF FieldsOf, FieldsUpTo

\* The fields of a block are contents.
LEMMA FieldsTyped ==
  ASSUME Sourced, NEW b, IsBlock(b)
  PROVE  FieldsOf(b) \in Seq(Content)
<1>1. CASE stream[b[1]][b[2]].edition = 1
  <2>1. FieldsOf(b) = <<[n \in {0} |-> <<b, 0>>]>>
    BY <1>1 DEF FieldsOf
  <2>2. [n \in {0} |-> <<b, 0>>] \in Content
    BY DEF Content, IsBlock
  <2> QED
    BY <2>1, <2>2
<1>2. CASE stream[b[1]][b[2]].edition # 1
  <2>1. stream[b[1]][b[2]].edition = 2 /\ Len(Of(b)) \in Nat
    BY <1>2, BlockSections
  <2> QED
    BY <2>1, UpToAll, UpToNext DEF IsBlock
<1> QED
  BY <1>1, <1>2

\* One message more: its fields come last.
LEMMA FirstNext ==
  ASSUME Sourced, NEW s \in Source, NEW k \in 0..(Len(stream[s]) - 1)
  PROVE  /\ FirstFields(s, 0) = <<>>
         /\ FirstFields(s, k) \in Seq(Content)
         /\ FieldsOf(<<s, k + 1>>) \in Seq(Content)
         /\ FirstFields(s, k + 1) = FirstFields(s, k) \o FieldsOf(<<s, k + 1>>)
<1>1. Len(stream[s]) \in Nat /\ k \in Nat
  BY StreamsAssumption DEF Sourced
<1>2. \A i \in 1..(k + 1) : FieldsOf(<<s, i>>) \in Seq(Content)
  <2> SUFFICES ASSUME NEW i \in 1..(k + 1) PROVE FieldsOf(<<s, i>>) \in Seq(Content)
    OBVIOUS
  <2>1. IsBlock(<<s, i>>)
    BY <1>1 DEF IsBlock
  <2> QED
    BY <2>1, FieldsTyped
<1> DEFINE q == [i \in 1..(k + 1) |-> FieldsOf(<<s, i>>)]
           r == [i \in 1..k |-> FieldsOf(<<s, i>>)]
<1>3. q \in [1..(k + 1) -> Seq(Content)]
  BY <1>2
<1>4. r \in [1..k -> Seq(Content)]
  <2>1. \A i \in 1..k : i \in 1..(k + 1)
    BY <1>1
  <2> QED
    BY <1>2, <2>1
<1>5. (\A i \in 1..k : r[i] = q[i]) /\ q[k + 1] = FieldsOf(<<s, k + 1>>)
  BY <1>1
<1>6. FirstFields(s, k) = FlattenSeq(r) /\ FirstFields(s, k + 1) = FlattenSeq(q)
  BY DEF FirstFields
<1> HIDE DEF q, r
<1>7. FlattenSeq(r) \in Seq(Content) /\ FlattenSeq(q) = FlattenSeq(r) \o q[k + 1]
  BY <1>1, <1>3, <1>4, <1>5, FlattenAnother
<1>8. FirstFields(s, 0) = <<>>
  <2> DEFINE none == [i \in 1..0 |-> FieldsOf(<<s, i>>)]
  <2>1. none = <<>>
    OBVIOUS
  <2> HIDE DEF none
  <2>2. FlattenSeq(none) = <<>>
    BY <2>1, FlattenEmpty
  <2> QED
    BY <2>2 DEF FirstFields, none
<1>9. FieldsOf(<<s, k + 1>>) \in Seq(Content)
  BY <1>1, <1>2
<1> QED
  BY <1>5, <1>6, <1>7, <1>8, <1>9

\* One sequence goes on from another; and one that goes on at each stage.
Continues(S, x, y) == \E r \in Seq(S) : y = x \o r

\* A chain of sequences each of which continues the one before.
Growing(S, n, F) ==
    /\ \A k \in 0..n : F[k] \in Seq(S)
    /\ \A k \in 0..(n - 1) : Continues(S, F[k], F[k + 1])

\* A sequence continues itself.
LEMMA ContinuesItself == ASSUME NEW S, NEW x \in Seq(S) PROVE Continues(S, x, x)
<1>1. x \o <<>> = x /\ <<>> \in Seq(S)
  OBVIOUS
<1> QED
  BY <1>1 DEF Continues

\* What continues a continuation continues the sequence.
LEMMA ContinuesOn ==
  ASSUME NEW S, NEW x \in Seq(S), NEW y, NEW z, Continues(S, x, y), Continues(S, y, z)
  PROVE  Continues(S, x, z)
<1>1. PICK r \in Seq(S) : y = x \o r
  BY DEF Continues
<1>2. PICK t \in Seq(S) : z = y \o t
  BY DEF Continues
<1>3. z = x \o (r \o t) /\ r \o t \in Seq(S)
  BY <1>1, <1>2
<1> QED
  BY <1>3 DEF Continues

\* In a growing chain the last continues every one.
LEMMA Grows ==
  ASSUME NEW S, NEW n \in Nat, NEW F, Growing(S, n, F), NEW e \in 0..n
  PROVE  Continues(S, F[e], F[n])
<1> DEFINE T == {d \in Nat : Continues(S, F[e], F[e + d])}
           m == n - e
           start == F[e]
<1>1. m \in Nat /\ start \in Seq(S)
  BY DEF Growing
<1>2. 0 \in T
  <2>1. e + 0 = e
    OBVIOUS
  <2>2. Continues(S, start, start)
    BY <1>1, ContinuesItself
  <2> QED
    BY <2>1, <2>2
<1>3. ASSUME NEW d \in 0..(m - 1), d \in T PROVE d + 1 \in T
  <2>1. e + d \in 0..(n - 1) /\ (e + d) + 1 = e + (d + 1) /\ d + 1 \in Nat
    OBVIOUS
  <2>2. Continues(S, F[e + d], F[e + (d + 1)])
    BY <2>1 DEF Growing
  <2>3. Continues(S, start, F[e + d])
    BY <1>3
  <2> HIDE DEF start
  <2>4. Continues(S, start, F[e + (d + 1)])
    BY <1>1, <2>2, <2>3, ContinuesOn
  <2> QED
    BY <2>1, <2>4 DEF start
<1> HIDE DEF T, m
<1>4. \A d \in 0..m : d \in T
  BY <1>1, <1>2, <1>3, Induction
<1>5. m \in 0..m /\ e + m = n
  BY <1>1 DEF m
<1> QED
  BY <1>4, <1>5 DEF T

\* The fields up to a section are the first of those up to a later one.
LEMMA UpToGrows ==
  ASSUME NEW b \in Source \X Nat, NEW n \in Nat, NEW e \in 0..n
  PROVE  Continues(Content, FieldsUpTo(b, e), FieldsUpTo(b, n))
<1> DEFINE F == [k \in 0..n |-> FieldsUpTo(b, k)]
<1>1. \A k \in 0..n : k \in Nat /\ F[k] = FieldsUpTo(b, k)
  OBVIOUS
<1>2. \A k \in 0..(n - 1) : k \in 0..n /\ k + 1 \in 0..n
  OBVIOUS
<1> HIDE DEF F
<1>3. \A k \in 0..n : F[k] \in Seq(Content)
  BY <1>1, UpToNext
<1>4. \A k \in 0..(n - 1) : Continues(Content, F[k], F[k + 1])
  BY ZenonT(40), <1>1, <1>2, UpToNext DEF Continues
<1>5. Growing(Content, n, F)
  BY <1>3, <1>4 DEF Growing
<1>6. Continues(Content, F[e], F[n])
  BY <1>5, Grows
<1>7. n \in 0..n
  OBVIOUS
<1> QED
  BY <1>1, <1>6, <1>7

\* The fields of the first messages are the first of those expected.
LEMMA FirstGrows ==
  ASSUME Sourced, NEW s \in Source, NEW k \in 0..Len(stream[s])
  PROVE  /\ FirstFields(s, k) \in Seq(Content)
         /\ Continues(Content, FirstFields(s, k), Expected(s))
<1> DEFINE n == Len(stream[s])
           F == [i \in 0..n |-> FirstFields(s, i)]
<1>1. n \in Nat /\ DOMAIN stream[s] = 1..n
  BY StreamsAssumption DEF Sourced
<1>2. \A i \in 0..n : F[i] = FirstFields(s, i)
  OBVIOUS
<1>3. \A i \in 0..(n - 1) : i \in 0..n /\ i + 1 \in 0..n
  BY <1>1
<1>4. n \in 0..n /\ (n = 0 \/ (n - 1 \in 0..(n - 1) /\ (n - 1) + 1 = n))
  BY <1>1
<1>5. Expected(s) = FirstFields(s, n)
  BY <1>1 DEF Expected, FirstFields
<1>6. FirstFields(s, 0) = <<>>
  <2> DEFINE none == [i \in 1..0 |-> FieldsOf(<<s, i>>)]
  <2>1. none = <<>>
    OBVIOUS
  <2> HIDE DEF none
  <2>2. FlattenSeq(none) = <<>>
    BY <2>1, FlattenEmpty
  <2> QED
    BY <2>2 DEF FirstFields, none
<1> HIDE DEF F
<1>7. \A i \in 0..(n - 1) : Continues(Content, FirstFields(s, i), FirstFields(s, i + 1))
  BY FirstNext DEF Continues
<1>8. \A i \in 0..n : FirstFields(s, i) \in Seq(Content)
  <2>1. \A i \in 0..(n - 1) : FirstFields(s, i) \in Seq(Content)
    BY FirstNext
  <2> HIDE DEF n
  <2>2. FirstFields(s, n) \in Seq(Content)
    <3>1. CASE n = 0
      <4>1. FirstFields(s, n) = <<>>
        BY <1>6, <3>1
      <4> QED
        BY <4>1
    <3>2. CASE n # 0
      <4> DEFINE d == n - 1
      <4>1. d \in 0..(n - 1) /\ d + 1 = n
        BY <1>4, <3>2
      <4> HIDE DEF d
      <4>2. FirstFields(s, d) \in Seq(Content) /\ FieldsOf(<<s, d + 1>>) \in Seq(Content)
            /\ FirstFields(s, d + 1) = FirstFields(s, d) \o FieldsOf(<<s, d + 1>>)
        BY <4>1, FirstNext DEF n
      <4> DEFINE x == FirstFields(s, d)
                 y == FieldsOf(<<s, d + 1>>)
                 z == FirstFields(s, d + 1)
      <4>3. x \in Seq(Content) /\ y \in Seq(Content) /\ z = x \o y
        BY <4>2
      <4>4. z = FirstFields(s, n)
        BY <4>1
      <4> HIDE DEF x, y, z
      <4>5. x \o y \in Seq(Content)
        BY <4>3, ConcatProperties
      <4> QED
        BY <4>3, <4>4, <4>5
    <3> QED
      BY <3>1, <3>2
  <2>3. \A i \in 0..n : i \in 0..(n - 1) \/ i = n
    BY <1>1
  <2> QED
    BY <2>1, <2>2, <2>3
<1>9. \A i \in 0..n : F[i] \in Seq(Content)
  BY <1>2, <1>8
<1>10. \A i \in 0..(n - 1) : Continues(Content, F[i], F[i + 1])
  BY <1>2, <1>3, <1>7
<1>11. Growing(Content, n, F)
  BY <1>9, <1>10 DEF Growing
<1>12. k \in 0..n
  OBVIOUS
<1> HIDE DEF n
<1>13. Continues(Content, F[k], F[n])
  BY <1>1, <1>11, <1>12, Grows
<1> QED
  BY <1>2, <1>4, <1>5, <1>8, <1>12, <1>13

\* What the next section 7 adds.
LEMMA NextField ==
  ASSUME NEW b \in Source \X Nat, NEW e \in Nat, NEW at \in Nat, e < at, Of(b)[at].num = 7,
         \A i \in (e + 1)..(at - 1) : Of(b)[i].num # 7
  PROVE  FieldsUpTo(b, at) = Append(FieldsUpTo(b, e), FieldAt(b, at))
<1> DEFINE T == {d \in Nat : FieldsUpTo(b, e + d) = FieldsUpTo(b, e)}
           m == (at - 1) - e
<1>1. m \in Nat /\ e + m = at - 1 /\ at - 1 \in Nat /\ (at - 1) + 1 = at
  OBVIOUS
<1>2. 0 \in T
  <2>1. e + 0 = e
    OBVIOUS
  <2> QED
    BY <2>1
<1>3. ASSUME NEW d \in 0..(m - 1), d \in T PROVE d + 1 \in T
  <2> DEFINE f == e + d
  <2>1. f \in Nat /\ f + 1 = e + (d + 1) /\ f + 1 \in (e + 1)..(at - 1) /\ d + 1 \in Nat
    BY <1>1
  <2>2. FieldsUpTo(b, f) = FieldsUpTo(b, e)
    BY <1>3
  <2> HIDE DEF f
  <2>3. EndingAt(b, f + 1) = <<>>
    BY <2>1 DEF EndingAt
  <2>4. FieldsUpTo(b, f) \in Seq(Content) /\ FieldsUpTo(b, f + 1) = FieldsUpTo(b, f) \o EndingAt(b, f + 1)
    BY <2>1, UpToNext
  <2>5. FieldsUpTo(b, f + 1) = FieldsUpTo(b, e)
    BY <2>2, <2>3, <2>4, SMTT(30)
  <2> QED
    BY <2>1, <2>5
<1> HIDE DEF T, m
<1>4. \A d \in 0..m : d \in T
  BY <1>1, <1>2, <1>3, Induction
<1>5. FieldsUpTo(b, at - 1) = FieldsUpTo(b, e)
  <2>1. m \in 0..m
    BY <1>1
  <2> QED
    BY <1>1, <1>4, <2>1 DEF T
<1> DEFINE f == at - 1
<1>6. f \in Nat /\ f + 1 = at /\ FieldsUpTo(b, f) = FieldsUpTo(b, e)
  BY <1>1, <1>5
<1> HIDE DEF f
<1>7. FieldsUpTo(b, e) \in Seq(Content) /\ FieldsUpTo(b, at) = FieldsUpTo(b, e) \o EndingAt(b, at)
  BY <1>6, UpToNext
<1>8. EndingAt(b, at) = <<FieldAt(b, at)>>
  BY DEF EndingAt
<1> QED
  BY <1>7, <1>8

\* The content of the handle that is built from what was gathered.
LEMMA BuiltField ==
  ASSUME Sourced, NEW b, IsBlock(b), stream[b[1]][b[2]].edition = 2, WellFormedMessage(b),
         NEW e \in 1..Len(Of(b)), NEW gm \in Support, Gathered(b, e, gm)
  PROVE  Build(gm).content = FieldAt(b, e)
<1>1. Len(Of(b)) \in Nat /\ e \in Nat /\ \A i \in 1..e : i \in DOMAIN Of(b)
  BY BlockSections
<1>2. \A i \in 1..e : Of(b)[i].num \in 1..7
  BY <1>1 DEF WellFormedMessage
<1>3. \A n : SectionsUpTo(b, e, n) \in SUBSET (1..e) /\ (SectionsUpTo(b, e, n) # {} <=> \E i \in 1..e : Of(b)[i].num = n)
  BY DEF SectionsUpTo
<1>4. ASSUME SectionsUpTo(b, e, 6) # {} PROVE Own(b, SectionsUpTo(b, e, 6)) # {}
  <2>1. PICK i \in 1..e : Of(b)[i].num = 6
    BY <1>3, <1>4
  <2>2. CASE Of(b)[i].inherits
    <3>1. PICK k \in 1..i : Of(b)[k].num = 6 /\ ~Of(b)[k].inherits
      BY <1>1, <2>2 DEF WellFormedMessage, Own, SectionsUpTo
    <3>2. k \in 1..e
      BY <1>1
    <3> QED
      BY <3>1, <3>2 DEF Own, SectionsUpTo
  <2>3. CASE ~Of(b)[i].inherits
    BY <2>1, <2>3 DEF Own, SectionsUpTo
  <2> QED
    BY <2>2, <2>3
<1>5. ASSUME NEW n \in 1..7, SectionsUpTo(b, e, n) # {} PROVE Latest(b, e, n) # Null
  <2> DEFINE I == IF n = 6 THEN Own(b, SectionsUpTo(b, e, n)) ELSE SectionsUpTo(b, e, n)
  <2>1. I \in SUBSET (1..e) /\ I # {}
    BY <1>3, <1>4, <1>5 DEF Own
  <2>2. Latest(b, e, n) = <<b, Max(I)>>
    BY DEF Latest
  <2> HIDE DEF I
  <2>3. Max(I) \in 1..e
    BY <1>1, <2>1, MaxOf
  <2>4. Max(I) \in Nat
    BY <1>1, <2>3
  <2>5. <<b, Max(I)>> \in (Source \X Nat) \X Nat
    BY <2>4 DEF IsBlock
  <2> QED
    BY <2>2, <2>5, NullAssumption
<1> DEFINE D == {0} \cup {Of(b)[i].num : i \in 1..e}
<1>6. gm.sections[0] # Null
  <2>1. <<b, 0>> \in (Source \X Nat) \X Nat
    BY DEF IsBlock
  <2> QED
    BY <2>1, NullAssumption DEF Gathered
<1>7. \A n \in 1..7 : gm.sections[n] # Null <=> n \in D
  <2> SUFFICES ASSUME NEW n \in 1..7 PROVE gm.sections[n] # Null <=> n \in D
    OBVIOUS
  <2>1. gm.sections[n] = IF SectionsUpTo(b, e, n) = {} THEN Null ELSE Latest(b, e, n)
    BY DEF Gathered
  <2>2. gm.sections[n] # Null <=> SectionsUpTo(b, e, n) # {}
    BY <1>5, <2>1
  <2>3. n \in D <=> \E i \in 1..e : Of(b)[i].num = n
    OBVIOUS
  <2> QED
    BY <1>3, <2>2, <2>3
<1>8. D \in SUBSET (0..7)
  BY <1>2
<1>9. Present(gm) = D
  <2>1. Present(gm) = {n \in 0..7 : gm.sections[n] # Null}
    BY DEF Present
  <2>2. \A n \in 0..7 : n = 0 \/ n \in 1..7
    OBVIOUS
  <2>3. 0 \in D
    OBVIOUS
  <2> HIDE DEF D
  <2> QED
    BY <1>6, <1>7, <1>8, <2>1, <2>2, <2>3
<1>10. ASSUME NEW n \in D PROVE gm.sections[n] = IF n = 0 THEN <<b, 0>> ELSE Latest(b, e, n)
  <2>1. CASE n = 0
    BY <2>1 DEF Gathered
  <2>2. CASE n # 0
    <3>1. n \in 1..7 /\ SectionsUpTo(b, e, n) # {}
      BY <1>2, <1>3, <2>2
    <3> QED
      BY <2>2, <3>1 DEF Gathered
  <2> QED
    BY <2>1, <2>2
<1>11. Build(gm).content = [n \in D |-> gm.sections[n]]
  BY <1>9 DEF Build
<1>12. FieldAt(b, e) = [n \in D |-> IF n = 0 THEN <<b, 0>> ELSE Latest(b, e, n)]
  BY DEF FieldAt
<1> HIDE DEF D
<1> QED
  BY <1>10, <1>11, <1>12

\* What is continued is a prefix.
LEMMA PrefixOf ==
  ASSUME NEW S, NEW x \in Seq(S), NEW y, Continues(S, x, y)
  PROVE  IsPrefix(x, y)
<1>1. PICK r \in Seq(S) : y = x \o r
  BY DEF Continues
<1>2. Len(x) <= Len(x \o r) /\ Len(x) \in Nat /\ x \o r \in Seq(S) /\ Len(x \o r) \in Nat
  OBVIOUS
<1>3. SubSeq(x, 1, Len(x)) = SubSeq(x \o r, 1, Len(x))
  <2>1. SubSeq(x, 1, Len(x)) = x
    OBVIOUS
  <2>2. SubSeq(x \o r, 1, Len(x)) = x
    OBVIOUS
  <2> QED
    BY <2>1, <2>2
<1> QED
  BY <1>1, <1>2, <1>3 DEF IsPrefix

\* A common beginning does not matter.
LEMMA ContinuesAfter ==
  ASSUME NEW S, NEW x \in Seq(S), NEW y \in Seq(S), NEW z, Continues(S, y, z)
  PROVE  x \o y \in Seq(S) /\ Continues(S, x \o y, x \o z)
<1>1. PICK r \in Seq(S) : z = y \o r
  BY DEF Continues
<1>2. x \o (y \o r) = (x \o y) \o r /\ x \o y \in Seq(S)
  OBVIOUS
<1> QED
  BY <1>1, <1>2 DEF Continues

-----------------------------------------------------------------------------
(* The handles of a well-formed source are its fields *)

\* The source has one entry at most.
Sole(s) == \A i, j \in DOMAIN supports : supports[i].file = s /\ supports[j].file = s => i = j

\* An entry in the middle of the last message read: what was gathered, and the
\* fields that were returned.
Halfway(s, gm) ==
    LET k == files[s].next - 1
        b == <<s, k>>
    IN  /\ gm.message = b /\ gm.number = 7
        /\ k \in 1..Len(stream[s])
        /\ Gathered(b, From(gm), gm)
        /\ Contents(s) = FirstFields(s, k - 1) \o FieldsUpTo(b, From(gm))

\* What a well-formed source has returned, by the state its entry is in.
Told(s) ==
    /\ ~files[s].open => Settled(s)
    /\ last[s] = "reset" => Settled(s) /\ IsPrefix(Contents(s), Expected(s))
    /\ last[s] # "reset" =>
          /\ Settled(s) => Contents(s) = FirstFields(s, files[s].next - 1)
          /\ \A i \in DOMAIN supports :
                supports[i].file = s /\ supports[i].message # Null => Halfway(s, supports[i])
    /\ last[s] = "end" => Settled(s) /\ files[s].next = Len(stream[s]) + 1

\* A source without messages is never read.
Quiet(s) ==
    /\ ~files[s].open /\ out[s] = <<>> /\ last[s] = "none"
    /\ s # Null => ~HasSupport(s)

\* So for every source that has messages; one that has none is not told anything.
AllTold ==
    \A s \in Source : IF stream[s] = <<>> THEN Quiet(s)
                      ELSE Sole(s) /\ (WellFormed(s) => Told(s))

\* A handle more is a content more.
LEMMA AppendContent ==
  ASSUME NEW S, NEW hs \in Seq(S), NEW h, NEW longer, longer = Append(hs, h)
  PROVE  [i \in DOMAIN longer |-> longer[i].content] = Append([i \in DOMAIN hs |-> hs[i].content], h.content)
<1> DEFINE n == Len(hs)
           before == [i \in DOMAIN hs |-> hs[i].content]
           after == [i \in DOMAIN longer |-> longer[i].content]
           last1 == h.content
<1>1. n \in Nat /\ DOMAIN hs = 1..n
  OBVIOUS
<1>2. DOMAIN longer = 1..(n + 1) /\ longer[n + 1] = h /\ \A i \in 1..n : longer[i] = hs[i]
  BY <1>1
<1>3. after = [i \in 1..(n + 1) |-> IF i = n + 1 THEN last1 ELSE before[i]]
  <2>1. \A i \in 1..(n + 1) : i = n + 1 \/ (i \in 1..n /\ i # n + 1)
    BY <1>1
  <2>2. \A i \in 1..(n + 1) : longer[i].content = IF i = n + 1 THEN last1 ELSE before[i]
    BY <1>1, <1>2, <2>1
  <2> HIDE DEF before, last1
  <2> QED
    BY <1>2, <2>2
<1> DEFINE T == {before[i] : i \in 1..n} \cup {last1}
<1>4. before \in [1..n -> T] /\ last1 \in T
  BY <1>1
<1> HIDE DEF before, after, last1, T, n
<1>5. before \in Seq(T) /\ Len(before) = n
  BY <1>1, <1>4
<1>6. Append(before, last1) = [i \in 1..(n + 1) |-> IF i = n + 1 THEN last1 ELSE before[i]]
  <2> DEFINE more == Append(before, last1)
  <2>1. /\ more \in Seq(T) /\ Len(more) = n + 1
        /\ \A i \in 1..(n + 1) : more[i] = IF i <= n THEN before[i] ELSE last1
    BY <1>1, <1>4, <1>5, AppendProperties
  <2> HIDE DEF more
  <2>2. more = [i \in 1..(n + 1) |-> more[i]]
    BY <2>1
  <2>3. \A i \in 1..(n + 1) : i <= n <=> i # n + 1
    BY <1>1
  <2> QED
    BY <2>1, <2>2, <2>3 DEF more
<1> QED
  BY <1>3, <1>6 DEF before, after, last1

\* What was returned so far are fields of the source.
LEMMA ToldPrefix ==
  ASSUME Entries, Typed, NEW s \in Source, Told(s)
  PROVE  /\ IsPrefix(Contents(s), Expected(s))
         /\ last[s] = "end" => Contents(s) = Expected(s)
<1> DEFINE n == files[s].next - 1
<1>1. /\ Sourced /\ Len(stream[s]) \in Nat /\ n \in 0..Len(stream[s])
      /\ files[s].next = Len(stream[s]) + 1 => n = Len(stream[s])
      /\ DOMAIN stream[s] = 1..Len(stream[s])
  BY StreamsAssumption DEF Typed, Sourced
<1>2. CASE last[s] = "reset"
  BY <1>2 DEF Told
<1>3. CASE last[s] # "reset" /\ Settled(s)
  <2>1. Contents(s) = FirstFields(s, n) /\ (last[s] = "end" => n = Len(stream[s]))
    BY <1>1, <1>3 DEF Told
  <2> HIDE DEF n
  <2>2. FirstFields(s, n) \in Seq(Content) /\ Continues(Content, FirstFields(s, n), Expected(s))
    BY <1>1, FirstGrows
  <2>3. IsPrefix(Contents(s), Expected(s))
    BY <2>1, <2>2, PrefixOf
  <2>4. n = Len(stream[s]) => Expected(s) = FirstFields(s, n)
    BY <1>1 DEF Expected, FirstFields
  <2> QED
    BY <2>1, <2>3, <2>4
<1>4. CASE last[s] # "reset" /\ ~Settled(s)
  <2>1. PICK i \in DOMAIN supports : supports[i].file = s /\ supports[i].message # Null
    BY <1>4 DEF Settled
  <2> DEFINE gm == supports[i]
             b == <<s, n>>
             e == From(gm)
             m == n - 1
             returned == FirstFields(s, m)
             within == FieldsUpTo(b, e)
  <2>2. Halfway(s, gm)
    BY <1>4, <2>1 DEF Told
  <2>3. gm.message = b /\ gm.number = 7 /\ n \in 1..Len(stream[s]) /\ Contents(s) = returned \o within
    BY <2>2 DEF Halfway
  <2>4. gm \in Support /\ Placed(gm) /\ Entered(gm) /\ gm.message # Null
    BY <2>1 DEF Typed, Entries
  <2>5. m \in 0..(Len(stream[s]) - 1) /\ m + 1 = n /\ n \in 0..Len(stream[s])
    BY <1>1, <2>3
  <2>6. b = <<s, m + 1>>
    BY <2>5
  <2> HIDE DEF gm, m
  <2>7. e \in 0..Len(Of(b)) /\ Len(Of(b)) \in Nat /\ e \in Nat
    <3>1. From(gm) \in 0..Len(Of(gm.message)) /\ Len(Of(gm.message)) \in Nat
      BY <1>1, <2>4, StartsAt
    <3> HIDE DEF b
    <3>2. e \in 0..Len(Of(b)) /\ Len(Of(b)) \in Nat
      BY <2>3, <3>1
    <3> HIDE DEF e
    <3> QED
      BY <3>2
  <2> HIDE DEF e
  <2>8. IsBlock(b) /\ b \in Source \X Nat /\ stream[b[1]][b[2]].edition = 2
    BY <2>3, <2>4 DEF Placed, IsBlock, Entered
  <2> HIDE DEF b
  <2>9. returned \in Seq(Content) /\ FirstFields(s, m + 1) = returned \o FieldsOf(<<s, m + 1>>)
    BY <1>1, <2>5, FirstNext
  <2>10. within \in Seq(Content) /\ Continues(Content, within, FieldsOf(b))
    BY <1>1, <2>7, <2>8, UpToNext, UpToGrows, UpToAll
  <2>11. /\ returned \o within \in Seq(Content)
         /\ Continues(Content, returned \o within, returned \o FieldsOf(b))
    BY <2>9, <2>10, ContinuesAfter
  <2>12. Continues(Content, returned \o within, FirstFields(s, n))
    <3>1. FirstFields(s, n) = returned \o FieldsOf(b)
      BY <2>5, <2>6, <2>9
    <3> QED
      BY <2>11, <3>1
  <2> HIDE DEF returned, within, n
  <2>13. Continues(Content, FirstFields(s, n), Expected(s))
    BY <1>1, <2>5, FirstGrows
  <2>14. Continues(Content, returned \o within, Expected(s))
    BY <2>11, <2>12, <2>13, ContinuesOn
  <2>15. IsPrefix(returned \o within, Expected(s))
    BY <2>11, <2>14, PrefixOf
  <2> QED
    BY <1>4, <2>3, <2>15 DEF Told
<1> QED
  BY <1>2, <1>3, <1>4

\* The entries of a source are those that were there before.
SameEntries(s) ==
    /\ \A i \in DOMAIN supports' : supports'[i].file = s => i \in DOMAIN supports /\ supports[i] = supports'[i]
    /\ \A i \in DOMAIN supports : supports[i].file = s => i \in DOMAIN supports' /\ supports'[i] = supports[i]

\* A source nothing was done to is told the same, whatever the others hold.
LEMMA SourceTold ==
  ASSUME NEW s \in Source, stream'[s] = stream[s], files'[s] = files[s], out'[s] = out[s], last'[s] = last[s],
         SameEntries(s)
  PROVE  /\ Sole(s) => Sole(s)'
         /\ Told(s) => Told(s)'
         /\ Quiet(s) => Quiet(s)'
<1>1. Sole(s) => Sole(s)'
  BY DEF Sole, SameEntries
<1>2. Settled(s)' <=> Settled(s)
  BY DEF Settled, SameEntries
<1>3. Contents(s)' = Contents(s)
  BY DEF Contents
<1>4. \A k : Of(<<s, k>>)' = Of(<<s, k>>)
  BY DEF Of
<1>5. \A k, e, n : Latest(<<s, k>>, e, n)' = Latest(<<s, k>>, e, n) /\ SectionsUpTo(<<s, k>>, e, n)' = SectionsUpTo(<<s, k>>, e, n)
  <2>1. \A k, e, n : SectionsUpTo(<<s, k>>, e, n)' = SectionsUpTo(<<s, k>>, e, n)
    BY <1>4 DEF SectionsUpTo
  <2>2. \A k, I : Own(<<s, k>>, I)' = Own(<<s, k>>, I)
    BY <1>4 DEF Own
  <2>3. ASSUME NEW k, NEW e, NEW n PROVE Latest(<<s, k>>, e, n)' = Latest(<<s, k>>, e, n)
    <3> DEFINE all == SectionsUpTo(<<s, k>>, e, n)
    <3>1. all' = all /\ Own(<<s, k>>, all)' = Own(<<s, k>>, all)
      <4> DEFINE secs == Of(<<s, k>>)
                 more == Of(<<s, k>>)'
      <4>1. more = secs
        BY <1>4
      <4>2. all' = all
        BY <2>1
      <4>3. Own(<<s, k>>, all)' = {i \in all' : ~more[i].inherits}
        BY DEF Own
      <4>4. Own(<<s, k>>, all) = {i \in all : ~secs[i].inherits}
        BY DEF Own
      <4>5. {i \in all' : ~more[i].inherits} = {i \in all : ~secs[i].inherits}
        <5> HIDE DEF secs, more
        <5> QED
          BY <4>1, <4>2
      <4> QED
        BY <4>2, <4>3, <4>4, <4>5, Zenon
    <3> HIDE DEF all
    <3> QED
      BY <3>1 DEF Latest, all
  <2> QED
    BY <2>1, <2>3
<1>6. \A k, e : FieldAt(<<s, k>>, e)' = FieldAt(<<s, k>>, e)
  BY <1>4, <1>5 DEF FieldAt
<1>7. \A k, e : EndingAt(<<s, k>>, e)' = EndingAt(<<s, k>>, e)
  BY <1>4, <1>6 DEF EndingAt
<1>8. \A k, e : FieldsUpTo(<<s, k>>, e)' = FieldsUpTo(<<s, k>>, e)
  BY <1>7 DEF FieldsUpTo
<1>9. \A k : FieldsOf(<<s, k>>)' = FieldsOf(<<s, k>>)
  BY <1>4, <1>7 DEF FieldsOf
<1>10. Expected(s)' = Expected(s)
  BY <1>9 DEF Expected
<1>11. \A k : FirstFields(s, k)' = FirstFields(s, k)
  BY <1>9 DEF FirstFields
<1>12. ASSUME Told(s) PROVE Told(s)'
  <2>1. ASSUME NEW i \in DOMAIN supports', supports'[i].file = s, supports'[i].message # Null, last[s] # "reset"
        PROVE  Halfway(s, supports[i])'
    <3>1. i \in DOMAIN supports /\ supports'[i] = supports[i]
      BY <2>1 DEF SameEntries
    <3>2. Halfway(s, supports[i])
      BY <1>12, <2>1, <3>1 DEF Told
    <3>3. Contents(s)' = Contents(s) /\ files'[s] = files[s]
      BY <1>3
    <3>4. From(supports[i])' = From(supports[i])
      BY <3>1 DEF From, First
    <3>5. \A k, e : Own(<<s, k>>, SectionsUpTo(<<s, k>>, e, 6))' = Own(<<s, k>>, SectionsUpTo(<<s, k>>, e, 6))
      BY <1>4, <1>5 DEF Own
    <3>6. \A k, e : Gathered(<<s, k>>, e, supports[i])' <=> Gathered(<<s, k>>, e, supports[i])
      BY <1>5, <3>1, <3>5 DEF Gathered
    <3> QED
      BY <1>8, <1>11, <3>1, <3>2, <3>3, <3>4, <3>6 DEF Halfway
  <2> QED
    BY <1>2, <1>3, <1>10, <1>11, <1>12, <2>1 DEF Told
<1>13. Quiet(s) => Quiet(s)'
  BY DEF Quiet, HasSupport, SameEntries
<1> QED
  BY <1>1, <1>12, <1>13

\* A read changes the entry of its source, and no other.
LEMMA OneEntrySet ==
  ASSUME Entries, Typed, NEW r \in Source, NEW gm \in Support, gm.file = r, supports' = SetEntry(r, gm)
  PROVE  /\ \A s \in Source : s # r => SameEntries(s)
         /\ Sole(r) => /\ \E i \in DOMAIN supports' : supports'[i] = gm
                       /\ \A i \in DOMAIN supports' : supports'[i].file = r => supports'[i] = gm
                       /\ Sole(r)'
<1> DEFINE all == Supported(r)
           k == FirstOf(all, r)
<1>1. k \in DOMAIN all /\ all[k].file = r
  BY EntryFound DEF Entry
<1>2. all \in Seq(Support)
  BY AllTyped
<1>3. /\ \A i \in DOMAIN supports : i \in DOMAIN all /\ all[i] = supports[i]
      /\ \A i \in DOMAIN all : i \in DOMAIN supports \/ all[i].file = r
      /\ Sole(r) => \A i, j \in DOMAIN all : all[i].file = r /\ all[j].file = r => i = j
  <2>1. CASE HasSupport(r)
    <3>1. all = supports
      BY <2>1 DEF Supported
    <3> QED
      BY <3>1 DEF Sole
  <2>2. CASE ~HasSupport(r)
    <3> DEFINE new == NewSupport(r)
    <3>1. all = Append(supports, new) /\ new.file = r /\ new \in Support /\ supports \in Seq(Support)
      BY <2>2, NewTyped DEF Supported, NewSupport, Typed
    <3> HIDE DEF new, all
    <3>2. /\ DOMAIN all = 1..(Len(supports) + 1) /\ Len(supports) \in Nat /\ DOMAIN supports = 1..Len(supports)
          /\ all[Len(supports) + 1] = new
          /\ \A i \in DOMAIN supports : all[i] = supports[i]
      BY <3>1
    <3>3. \A i \in DOMAIN all : i \in DOMAIN supports \/ i = Len(supports) + 1
      BY <3>2
    <3>4. \A i \in DOMAIN supports : i \in DOMAIN all /\ all[i].file # r
      BY <2>2, <3>2 DEF HasSupport
    <3> QED
      BY <3>1, <3>2, <3>3, <3>4
  <2> QED
    BY <2>1, <2>2
<1>4. supports' = [all EXCEPT ![k] = gm]
  BY DEF SetEntry
<1> HIDE DEF all, k
<1>5. DOMAIN supports' = DOMAIN all /\ supports'[k] = gm /\ \A i \in DOMAIN all : i # k => supports'[i] = all[i]
  BY <1>1, <1>2, <1>4
<1>6. ASSUME NEW s \in Source, s # r PROVE SameEntries(s)
  BY <1>1, <1>3, <1>5, <1>6 DEF SameEntries
<1>7. ASSUME Sole(r)
      PROVE  /\ \E i \in DOMAIN supports' : supports'[i] = gm
             /\ \A i \in DOMAIN supports' : supports'[i].file = r => supports'[i] = gm
             /\ Sole(r)'
  <2>1. \A i \in DOMAIN supports' : supports'[i].file = r => i = k
    BY <1>1, <1>3, <1>5, <1>7
  <2>2. Sole(r)'
    BY <2>1 DEF Sole
  <2> QED
    BY <1>1, <1>5, <2>1, <2>2
<1> QED
  BY <1>6, <1>7

\* The entry of a source that has one at most.
LEMMA SoleEntry ==
  ASSUME Entries, Typed, NEW s \in Source, Sole(s)
  PROVE  /\ MustLoad(s) => Settled(s)
         /\ ~MustLoad(s) => \E i \in DOMAIN supports : supports[i] = Entry(s)
<1> DEFINE k == FirstOf(Supported(s), s)
<1>1. k \in DOMAIN Supported(s) /\ Entry(s).file = s /\ Entry(s) = Supported(s)[k]
  BY EntryFound DEF Entry
<1> HIDE DEF k
<1>2. CASE HasSupport(s)
  <2>1. Supported(s) = supports
    BY <1>2 DEF Supported
  <2> QED
    BY <1>1, <2>1 DEF Sole, MustLoad, Settled
<1>3. CASE ~HasSupport(s)
  <2> DEFINE new == NewSupport(s)
  <2>1. Supported(s) = Append(supports, new) /\ supports \in Seq(Support) /\ new \in Support /\ new.message = Null
    BY <1>3, NewTyped DEF Supported, Typed, NewSupport
  <2> HIDE DEF new
  <2>2. k \in DOMAIN supports \/ Supported(s)[k] = new
    BY <1>1, <2>1
  <2>3. k \in DOMAIN supports => Supported(s)[k] = supports[k]
    BY <2>1
  <2>4. MustLoad(s)
    BY <1>1, <1>3, <2>1, <2>2, <2>3 DEF HasSupport, MustLoad
  <2> QED
    BY <1>3, <2>4 DEF HasSupport, Settled
<1> QED
  BY <1>2, <1>3

\* At the start of a message nothing is gathered.
LEMMA GatheredNothing ==
  ASSUME NEW gm \in Support, gm.number = 0, gm.message \in Source \X Nat, \A n \in 1..7 : gm.sections[n] = Null
  PROVE  Gathered(gm.message, 0, Start(gm))
<1> DEFINE b == gm.message
           ref == <<b, 0>>
<1>1. \A n : SectionsUpTo(b, 0, n) = {}
  BY DEF SectionsUpTo
<1>2. First(gm) = [gm.sections EXCEPT ![0] = ref] /\ gm.sections \in [0..7 -> Ref]
  BY SupportTypes DEF First
<1> HIDE DEF ref
<1>3. First(gm)[0] = ref /\ \A n \in 1..7 : First(gm)[n] = Null
  BY <1>2
<1>4. Start(gm).sections = First(gm)
  BY DEF Start
<1>5. Own(b, SectionsUpTo(b, 0, 6)) = {}
  BY <1>1 DEF Own
<1> QED
  BY <1>1, <1>3, <1>4, <1>5 DEF Gathered, ref

\* The k-th message is read, after the fields of those before it and its own up
\* to where the walk starts.
Reading(s, gm, k) ==
    LET b == <<s, k>>
    IN  /\ gm.message = b /\ k \in 1..Len(stream[s]) /\ files'[s].next = k + 1
        /\ EditionOf(s) = 1 => Contents(s) = FirstFields(s, k - 1)
        /\ EditionOf(s) = 2 =>
              /\ Gathered(b, From(gm), Start(gm))
              /\ Contents(s) = FirstFields(s, k - 1) \o FieldsUpTo(b, From(gm))

\* An entry with a message to read is in the middle of it, with so many fields returned.
LEMMA ReadingOne ==
  ASSUME Entries, Typed, NEW s \in Source, Sole(s), Told(s), Readable(s), Loaded(s).message # Null, TakesNext(s)
  PROVE  \E k : Reading(s, Loaded(s), k)
<1> DEFINE gm == Loaded(s)
<1>1. /\ Entry(s) \in Support /\ Entered(Entry(s)) /\ Entry(s).file = s
      /\ gm \in Support /\ Placed(gm) /\ IsBlock(gm.message) /\ Sourced
  BY EntryTyped, LoadedTyped DEF Typed
<1>2. /\ files \in [Source -> [open : BOOLEAN, next : Nat]]
      /\ files[s].next \in 1..(Len(stream[s]) + 1) /\ Len(stream[s]) \in Nat
      /\ last[s] # "reset"
  BY StreamsAssumption DEF Typed, Readable, Sourced
<1>3. CASE MustLoad(s)
  <2> DEFINE k == files[s].next
             b == <<s, k>>
             c == FirstFields(s, k - 1)
  <2>1. ~AtEnd(s)
    BY <1>3 DEF Loaded, MustLoad
  <2>2. k \in 1..Len(stream[s]) /\ k - 1 \in 0..(Len(stream[s]) - 1)
    BY <1>2, <2>1 DEF AtEnd
  <2>3. files' = [files EXCEPT ![s].next = k + 1]
    BY <1>3, <2>1 DEF TakesNext
  <2>4. files'[s].next = k + 1
    <3> HIDE DEF k
    <3> QED
      BY <1>2, <2>3
  <2>5. gm = [Entry(s) EXCEPT !.message = b]
    BY <1>3, <2>1 DEF Loaded
  <2>6. Entry(s).number = 0 /\ \A n \in 1..7 : Entry(s).sections[n] = Null
    BY <1>1, <1>3 DEF MustLoad, Entered
  <2>7. Contents(s) = FirstFields(s, k - 1)
    <3>1. Settled(s)
      BY <1>3, SoleEntry
    <3> QED
      BY <1>2, <3>1 DEF Told
  <2>8. b \in Source \X Nat
    BY <2>2
  <2> HIDE DEF b
  <2>9. gm.message = b /\ gm.number = 0 /\ \A n \in 1..7 : gm.sections[n] = Null
    BY <1>1, <2>5, <2>6 DEF Support
  <2> HIDE DEF gm
  <2>10. Gathered(b, 0, Start(gm))
    BY <1>1, <2>8, <2>9, GatheredNothing
  <2>11. From(gm) = 0
    <3>1. gm.message # Null
      BY <2>8, <2>9, NullAssumption
    <3> QED
      BY <1>1, <2>9, <3>1, StartsAt
  <2>12. Contents(s) = FirstFields(s, k - 1) \o FieldsUpTo(b, From(gm))
    <3>1. FieldsUpTo(b, 0) = <<>>
      BY <2>8, UpToNext
    <3>2. c \in Seq(Content)
      <4> DEFINE d == k - 1
      <4>1. d \in 0..(Len(stream[s]) - 1)
        BY <2>2
      <4> HIDE DEF d
      <4>2. FirstFields(s, d) \in Seq(Content)
        BY <1>1, <4>1, FirstNext
      <4> QED
        BY <4>2 DEF d
    <3>3. FieldsUpTo(b, From(gm)) = <<>>
      BY <2>11, <3>1
    <3> HIDE DEF c
    <3>4. c \o <<>> = c
      BY <3>2
    <3> QED
      BY <2>7, <3>3, <3>4 DEF c
  <2>13. Gathered(b, From(gm), Start(gm))
    BY <2>10, <2>11
  <2>14. Reading(s, gm, k)
    BY <2>2, <2>4, <2>7, <2>9, <2>12, <2>13 DEF Reading, b
  <2> HIDE DEF k
  <2> QED
    BY <2>14 DEF gm
<1>4. CASE ~MustLoad(s)
  <2> DEFINE k == files[s].next - 1
             b == <<s, k>>
  <2>1. gm = Entry(s) /\ files' = files
    BY <1>4 DEF Loaded, TakesNext
  <2>2. PICK i \in DOMAIN supports : supports[i] = gm
    BY <1>4, <2>1, SoleEntry
  <2>3. gm.file = s /\ gm.message # Null /\ Entered(gm)
    BY <1>1, <1>4, <2>1 DEF MustLoad
  <2>4. Halfway(s, gm)
    BY <1>2, <2>2, <2>3 DEF Told
  <2>5. /\ gm.message = b /\ gm.number = 7 /\ k \in 1..Len(stream[s]) /\ Gathered(b, From(gm), gm)
        /\ Contents(s) = FirstFields(s, k - 1) \o FieldsUpTo(b, From(gm))
    BY <2>4 DEF Halfway
  <2>6. EditionOf(s) = 2
    BY <2>3 DEF EditionOf, Entered
  <2>7. files'[s].next = k + 1
    <3>1. files[s].next \in Nat
      BY <1>2
    <3> QED
      BY <2>1, <3>1
  <2>8. Start(gm).sections = gm.sections /\ Start(gm).bitmap = gm.bitmap
    BY <2>5 DEF Start, First
  <2>9. Gathered(b, From(gm), Start(gm))
    <3> HIDE DEF b, gm
    <3> QED
      BY <2>5, <2>8 DEF Gathered
  <2>10. Reading(s, gm, k)
    BY <2>5, <2>6, <2>7, <2>9 DEF Reading
  <2> HIDE DEF k
  <2> QED
    BY <2>10
<1> QED
  BY <1>3, <1>4

\* The entry that a handle of the k-th message leaves: no message, when it was
\* the last handle, or one to go on with.
Leaves(s, left, k) ==
    \/ left.message = Null /\ Contents(s)' = FirstFields(s, k)
    \/ /\ left.message = <<s, k>> /\ left.number = 7 /\ files'[s].open
       /\ Gathered(<<s, k>>, From(left), left)
       /\ Contents(s)' = FirstFields(s, k - 1) \o FieldsUpTo(<<s, k>>, From(left))

\* Told after a read, from the entry the read leaves.
LEMMA ToldAfter ==
  ASSUME Entries, Typed, NEW s \in Source, Sole(s), NEW left \in Support, left.file = s,
         supports' = SetEntry(s, left), stream' = stream, last'[s] = "handle",
         NEW k \in 1..Len(stream[s]), files'[s].next = k + 1, Leaves(s, left, k)
  PROVE  Told(s)'
<1>1. /\ \E i \in DOMAIN supports' : supports'[i] = left
      /\ \A i \in DOMAIN supports' : supports'[i].file = s => supports'[i] = left
  BY OneEntrySet
<1>2. \A n : FirstFields(s, n)' = FirstFields(s, n)
  BY DEF FirstFields, FieldsOf, EndingAt, FieldAt, Latest, SectionsUpTo, Own, Of
<1>3. files'[s].next - 1 = k /\ k \in Nat
  <2>1. Len(stream[s]) \in Nat
    BY StreamsAssumption DEF Typed, Sourced
  <2>2. k \in Nat
    BY <2>1
  <2> QED
    BY <2>2
<1>4. CASE left.message = Null /\ Contents(s)' = FirstFields(s, k)
  <2>1. Settled(s)'
    BY <1>1, <1>4 DEF Settled
  <2>2. \A i \in DOMAIN supports' : supports'[i].file = s => supports'[i].message = Null
    BY <1>1, <1>4
  <2>3. Contents(s)' = FirstFields(s, files[s].next - 1)'
    BY <1>2, <1>3, <1>4
  <2> QED
    BY <2>1, <2>2, <2>3 DEF Told
<1>5. CASE /\ left.message = <<s, k>> /\ left.number = 7 /\ files'[s].open
           /\ Gathered(<<s, k>>, From(left), left)
           /\ Contents(s)' = FirstFields(s, k - 1) \o FieldsUpTo(<<s, k>>, From(left))
  <2> DEFINE b == <<s, k>>
             e == From(left)
  <2>1. b # Null
    <3>1. b \in Source \X Nat
      BY <1>3
    <3> QED
      BY <3>1, NullAssumption
  <2>2. ~Settled(s)'
    BY <1>1, <1>5, <2>1 DEF Settled
  <2>3. \A i \in DOMAIN supports' : supports'[i].file = s => Halfway(s, supports[i])'
    <3> SUFFICES ASSUME NEW i \in DOMAIN supports', supports'[i].file = s PROVE Halfway(s, supports[i])'
      OBVIOUS
    <3>1. supports'[i] = left
      BY <1>1
    <3>2. From(supports[i])' = e
      BY <3>1 DEF From, First
    <3>3. Gathered(b, e, supports[i])' <=> Gathered(b, e, left)
      BY <3>1 DEF Gathered, Latest, SectionsUpTo, Own, Of
    <3>4. FieldsUpTo(b, e)' = FieldsUpTo(b, e)
      BY DEF FieldsUpTo, EndingAt, FieldAt, Latest, SectionsUpTo, Own, Of
    <3>5. FirstFields(s, k - 1)' = FirstFields(s, k - 1)
      BY <1>2
    <3> HIDE DEF e
    <3>6. Contents(s)' = FirstFields(s, k - 1)' \o FieldsUpTo(b, e)'
      BY <1>5, <3>4, <3>5 DEF e
    <3>7. Gathered(b, e, supports[i])'
      BY <1>5, <3>3 DEF e
    <3> QED
      BY <1>3, <1>5, <3>1, <3>2, <3>6, <3>7 DEF Halfway
  <2> QED
    BY <1>5, <2>2, <2>3 DEF Told
<1> QED
  BY <1>4, <1>5 DEF Leaves

\* The contents of the handles after one more was returned.
LEMMA ReturnedContent ==
  ASSUME Typed, NEW s \in Source, NEW left, NEW handle, Returns(s, left, handle)
  PROVE  Contents(s)' = Append(Contents(s), handle.content)
<1>1. PICK S : out \in [Source -> Seq(S)]
  BY DEF Typed
<1> DEFINE hs == out[s]
           longer == out'[s]
<1>2. hs \in Seq(S) /\ longer = Append(hs, handle)
  BY <1>1 DEF Returns
<1> HIDE DEF hs, longer
<1>3. [i \in DOMAIN longer |-> longer[i].content] = Append([i \in DOMAIN hs |-> hs[i].content], handle.content)
  BY <1>2, AppendContent
<1>4. Contents(s)' = [i \in DOMAIN longer |-> longer[i].content]
  BY DEF Contents, longer
<1>5. Contents(s) = [i \in DOMAIN hs |-> hs[i].content]
  BY DEF Contents, hs
<1> QED
  BY <1>3, <1>4, <1>5

\* A message of edition 1 is one field.
LEMMA ToldEdition1 ==
  ASSUME Entries, Typed, NEW s \in Source, Sole(s), Told(s), ReadEdition1(s)
  PROVE  Told(s)'
<1> DEFINE gm == Loaded(s)
           left == [gm EXCEPT !.message = Null]
<1>1. /\ Readable(s) /\ gm.message # Null /\ EditionOf(s) = 1 /\ TakesNext(s) /\ stream' = stream
      /\ Returns(s, left, Whole(gm.message)) /\ supports' = SetEntry(s, left)
      /\ last' = [last EXCEPT ![s] = "handle"]
  BY DEF ReadEdition1, InEdition, Returns, HandOver
<1>2. PICK k : Reading(s, gm, k)
  BY <1>1, ReadingOne
<1> DEFINE b == <<s, k>>
           whole == [n \in {0} |-> <<b, 0>>]
           d == k - 1
<1>3. gm.message = b /\ k \in 1..Len(stream[s]) /\ files'[s].next = k + 1 /\ Contents(s) = FirstFields(s, d)
  BY <1>1, <1>2 DEF Reading
<1>4. gm \in Support /\ gm.file = s /\ Sourced /\ Len(stream[s]) \in Nat
      /\ last' = [last EXCEPT ![s] = "handle"] /\ DOMAIN last = Source
  BY <1>1, LoadedTyped, LoadedEntry, StreamsAssumption DEF Typed, Sourced
<1>5. d \in 0..(Len(stream[s]) - 1) /\ d + 1 = k
  BY <1>3, <1>4
<1>6. Contents(s)' = Append(Contents(s), whole)
  <2>1. Contents(s)' = Append(Contents(s), Whole(gm.message).content)
    BY <1>1, ReturnedContent
  <2>2. Whole(b).content = whole
    BY DEF Whole
  <2> QED
    BY <1>3, <2>1, <2>2
<1>7. FieldsOf(b) = <<whole>>
  BY <1>1, <1>3 DEF FieldsOf, EditionOf
<1> HIDE DEF gm, whole, d
<1>8. left \in Support /\ left.file = s /\ left.message = Null
  BY <1>4 DEF Support
<1>9. FirstFields(s, k) = Append(FirstFields(s, d), whole)
  <2>1. FirstFields(s, d) \in Seq(Content) /\ FieldsOf(<<s, d + 1>>) \in Seq(Content)
        /\ FirstFields(s, d + 1) = FirstFields(s, d) \o FieldsOf(<<s, d + 1>>)
    BY <1>4, <1>5, FirstNext
  <2>2. FirstFields(s, k) = FirstFields(s, d) \o <<whole>>
    BY <1>5, <1>7, <2>1
  <2> DEFINE x == FirstFields(s, d)
  <2>3. x \in Seq(Content)
    BY <2>1
  <2> HIDE DEF x
  <2>4. x \o <<whole>> = Append(x, whole)
    BY <2>3
  <2> QED
    BY <2>2, <2>4 DEF x
<1>10. Contents(s)' = FirstFields(s, k)
  BY <1>3, <1>6, <1>9
<1>11. last'[s] = "handle"
  BY <1>4
<1> HIDE DEF left
<1>12. Leaves(s, left, k)
  BY <1>8, <1>10 DEF Leaves
<1> QED
  BY <1>1, <1>3, <1>8, <1>11, <1>12, ToldAfter

\* A well-formed message is never refused, and each read returns its next field.
LEMMA ToldEdition2 ==
  ASSUME Entries, Typed, NEW s \in Source, Sole(s), Told(s), WellFormed(s), InEdition(s, 2), TakesNext(s)
  PROVE  /\ Walk(Loaded(s)).status = "field"
         /\ ReadField(s) => Told(s)'
<1> DEFINE gm == Loaded(s)
           walk == Walk(gm)
           at == walk.at
           g == walk.gm
<1>1. Readable(s) /\ gm.message # Null /\ EditionOf(s) = 2
  BY DEF InEdition
<1>2. PICK k : Reading(s, gm, k)
  BY <1>1, ReadingOne
<1> DEFINE b == <<s, k>>
           e == From(gm)
           d == k - 1
<1>3. /\ gm.message = b /\ k \in 1..Len(stream[s]) /\ files'[s].next = k + 1
      /\ Gathered(b, e, Start(gm)) /\ Contents(s) = FirstFields(s, d) \o FieldsUpTo(b, e)
  BY <1>1, <1>2 DEF Reading
<1>4. gm \in Support /\ Placed(gm) /\ IsBlock(gm.message) /\ gm.file = s /\ Sourced /\ Len(stream[s]) \in Nat
  BY <1>1, LoadedTyped, LoadedEntry, StreamsAssumption DEF Typed, Sourced
<1>5. stream[b[1]][b[2]].edition = 2 /\ WellFormedMessage(b)
  <2>1. k \in DOMAIN stream[s]
    BY <1>3, <1>4, StreamsAssumption DEF Sourced
  <2> QED
    BY <1>1, <1>3, <2>1 DEF EditionOf, WellFormed
<1>6. /\ walk.status = "field" /\ at \in (e + 1)..Len(Of(b)) /\ Of(b)[at].num = 7
      /\ \A i \in (e + 1)..(at - 1) : Of(b)[i].num # 7
      /\ Gathered(b, at, g)
  <2> HIDE DEF gm, e, b
  <2> QED
    BY <1>1, <1>3, <1>4, <1>5, WalkGathers DEF e
<1>7. e \in Nat /\ Len(Of(b)) \in Nat /\ IsBlock(b) /\ b \in Source \X Nat
  <2>1. From(gm) \in 0..Len(Of(gm.message)) /\ Len(Of(gm.message)) \in Nat
    <3> HIDE DEF gm
    <3> QED
      BY <1>1, <1>4, StartsAt
  <2> HIDE DEF b
  <2>2. e \in 0..Len(Of(b)) /\ Len(Of(b)) \in Nat
    BY <1>3, <2>1
  <2> HIDE DEF e
  <2> QED
    BY <1>3, <1>4, <2>2 DEF IsBlock
<1>8. at \in Nat /\ e < at /\ at \in 1..Len(Of(b))
  <2> HIDE DEF at, e
  <2> QED
    BY <1>6, <1>7
<1>9. FieldsUpTo(b, at) = Append(FieldsUpTo(b, e), FieldAt(b, at))
  <2> HIDE DEF at, e, b
  <2> QED
    BY <1>6, <1>7, <1>8, NextField
<1>10. PICK w : /\ Walked(gm, w) /\ at = w.at /\ walk.status = w.status
                /\ g = [gm EXCEPT !.sections = w.sections, !.lens = w.lens,
                                  !.bitmap = w.bitmap, !.bitmapLen = w.bitmapLen]
  <2> HIDE DEF gm
  <2> QED
    BY <1>1, <1>4, WalkTyped
<1>11. g \in Support /\ g.message = b /\ g.file = s /\ g.sections[7] = <<b, at>>
  <2>1. g.sections = w.sections /\ g.message = gm.message /\ g.file = gm.file
    <3> HIDE DEF gm
    <3> QED
      BY <1>4, <1>10 DEF Support
  <2>2. g \in Support
    <3> HIDE DEF gm
    <3> QED
      BY <1>1, <1>4, WalkedTyped
  <2>3. w.sections[7] = <<gm.message, w.at>>
    BY <1>6, <1>10 DEF Walked
  <2> QED
    BY <1>3, <1>4, <1>10, <2>1, <2>2, <2>3
<1>12. Build(g).content = FieldAt(b, at)
  <2> HIDE DEF at, g, b
  <2> QED
    BY <1>4, <1>5, <1>6, <1>7, <1>8, <1>11, BuiltField
<1>13. ASSUME ReadField(s) PROVE Told(s)'
  <2> DEFINE left == AfterField(g, at)
             x == FirstFields(s, d)
             y == FieldsUpTo(b, e)
             f == FieldAt(b, at)
  <2>1. Returns(s, left, Build(g))
    BY <1>13 DEF ReadField
  <2>2. supports' = SetEntry(s, left) /\ stream' = stream /\ last' = [last EXCEPT ![s] = "handle"] /\ DOMAIN last = Source
    BY <2>1 DEF Returns, Typed
  <2>3. last'[s] = "handle"
    BY <2>2
  <2>4. d \in 0..(Len(stream[s]) - 1) /\ d + 1 = k
    BY <1>3, <1>4
  <2>5. x \in Seq(Content) /\ FirstFields(s, k) = x \o FieldsOf(b)
    <3> HIDE DEF d
    <3>1. FirstFields(s, d) \in Seq(Content) /\ FirstFields(s, d + 1) = FirstFields(s, d) \o FieldsOf(<<s, d + 1>>)
      BY <1>4, <2>4, FirstNext
    <3> QED
      BY <2>4, <3>1
  <2>6. y \in Seq(Content) /\ f \in Content
    <3>1. y \in Seq(Content)
      <4> HIDE DEF b, e
      <4> QED
        BY <1>7, UpToNext
    <3>2. f \in Content
      <4> HIDE DEF b, at
      <4> QED
        BY <1>7, <1>8 DEF Content
    <3> QED
      BY <3>1, <3>2
  <2>7. Contents(s)' = x \o FieldsUpTo(b, at)
    <3>1. Contents(s)' = Append(Contents(s), f)
      <4> HIDE DEF left, g, f
      <4>1. Contents(s)' = Append(Contents(s), Build(g).content)
        BY <2>1, ReturnedContent
      <4> QED
        BY <1>12, <4>1 DEF f
    <3>2. Contents(s) = x \o y
      BY <1>3
    <3> HIDE DEF x, y, f
    <3>3. Append(x \o y, f) = x \o Append(y, f)
      <4>1. x \in Seq(Content) /\ y \in Seq(Content) /\ f \in Content
        BY <2>5, <2>6 DEF x, y, f
      <4> HIDE DEF d, b, at, e, g, left
      <4> DEFINE S == Content
      <4>2. x \in Seq(S) /\ y \in Seq(S) /\ f \in S
        BY <4>1
      <4> HIDE DEF S
      <4>3. Append(y, f) = y \o <<f>> /\ <<f>> \in Seq(S)
        BY <4>2
      <4>4. x \o y \in Seq(S)
        BY <4>2
      <4>5. Append(x \o y, f) = (x \o y) \o <<f>>
        BY <4>2, <4>4
      <4>6. (x \o y) \o <<f>> = x \o (y \o <<f>>)
        BY <4>2, <4>3
      <4> QED
        BY <4>3, <4>5, <4>6
    <3> QED
      BY <1>9, <3>1, <3>2, <3>3 DEF y, f
  <2>8. files'[s].open
    <3>1. files[s].open
      BY <1>1 DEF Readable
    <3>2. TakesNext(s) /\ files \in [Source -> [open : BOOLEAN, next : Nat]]
      BY DEF Typed
    <3>3. CASE MustLoad(s) /\ ~AtEnd(s)
      <4> DEFINE next == files[s].next + 1
      <4>1. files' = [files EXCEPT ![s].next = next]
        BY <3>2, <3>3 DEF TakesNext
      <4> HIDE DEF next
      <4> QED
        BY <3>1, <3>2, <4>1
    <3>4. CASE ~(MustLoad(s) /\ ~AtEnd(s))
      BY <3>1, <3>2, <3>4 DEF TakesNext
    <3> QED
      BY <3>3, <3>4
  <2>9. CASE HasNext(b, at)
    <3>1. left = [g EXCEPT !.number = 7]
      BY <1>11, <2>9 DEF AfterField
    <3> HIDE DEF g, b, at, e, d
    <3>2. left \in Support /\ left.message = b /\ left.number = 7 /\ left.file = s
          /\ left.sections = g.sections /\ left.bitmap = g.bitmap
      BY <1>11, <3>1 DEF Support
    <3> HIDE DEF left
    <3>3. From(left) = at
      BY <1>11, <3>2 DEF From, First
    <3>4. Gathered(b, From(left), left)
      BY <1>6, <3>2, <3>3 DEF Gathered
    <3>5. Contents(s)' = FirstFields(s, d) \o FieldsUpTo(b, From(left))
      BY <2>7, <3>3
    <3>6. Leaves(s, left, k)
      BY <2>8, <3>2, <3>4, <3>5 DEF Leaves, b, d
    <3> QED
      BY <1>3, <2>2, <2>3, <3>2, <3>6, ToldAfter
  <2>10. CASE ~HasNext(b, at)
    <3>1. left = [g EXCEPT !.message = Null, !.number = 0, !.sections = [n \in 0..7 |-> Null]]
      BY <1>11, <2>10 DEF AfterField, Finish
    <3>2. at = Len(Of(b))
      <4> HIDE DEF at, b
      <4> QED
        BY <1>7, <1>8, <2>10 DEF HasNext
    <3>3. left \in Support /\ left.file = s /\ left.message = Null
      <4> DEFINE none == [n \in 0..7 |-> Null]
      <4>1. none \in [0..7 -> Ref]
        BY DEF Ref
      <4> HIDE DEF none, g
      <4> QED
        BY <1>11, <3>1, <4>1 DEF Support, none
    <3> HIDE DEF left
    <3>4. FieldsUpTo(b, at) = FieldsOf(b)
      <4> HIDE DEF at, b
      <4> QED
        BY <1>4, <1>5, <1>7, <3>2, UpToAll
    <3>5. Contents(s)' = FirstFields(s, k)
      BY <2>5, <2>7, <3>4
    <3>6. Leaves(s, left, k)
      BY <3>3, <3>5 DEF Leaves
    <3> QED
      BY <1>3, <2>2, <2>3, <3>3, <3>6, ToldAfter
  <2> QED
    BY <2>9, <2>10
<1> QED
  BY <1>6, <1>13

\* At the end of the file nothing is added, and all fields were returned.
LEMMA ToldEnd ==
  ASSUME Entries, Typed, NEW s \in Source, Sole(s), Told(s), EndOfFile(s)
  PROVE  Told(s)'
<1> DEFINE gm == Entry(s)
<1>1. gm \in Support /\ gm.file = s
  BY EntryTyped
<1>2. MustLoad(s) /\ AtEnd(s)
  <2>1. CASE MustLoad(s) /\ ~AtEnd(s)
    <3> DEFINE b == <<s, files[s].next>>
    <3>1. Loaded(s) = [gm EXCEPT !.message = b] /\ Loaded(s).message = Null
      BY <2>1 DEF Loaded, EndOfFile
    <3>2. files[s].next \in Nat
      BY DEF Typed
    <3>3. b \in Source \X Nat
      BY <3>2
    <3> HIDE DEF b, gm
    <3>4. Loaded(s).message = b
      BY <1>1, <3>1 DEF Support
    <3> QED
      BY <3>1, <3>3, <3>4, NullAssumption
  <2>2. CASE ~MustLoad(s)
    BY <2>2 DEF Loaded, EndOfFile, MustLoad
  <2> QED
    BY <2>1, <2>2
<1>3. /\ supports' = SetEntry(s, gm) /\ files' = files /\ stream' = stream /\ out' = out
      /\ last' = [last EXCEPT ![s] = "end"] /\ DOMAIN last = Source /\ last[s] # "reset"
  BY <1>2 DEF EndOfFile, ReturnsNull, TakesNext, Readable, Typed
<1>4. last'[s] = "end"
  BY <1>3
<1>5. files[s].next = Len(stream[s]) + 1
  <2>1. files[s].next \in 1..(Len(stream[s]) + 1) /\ Len(stream[s]) \in Nat /\ files[s].next > Len(stream[s])
    BY <1>2, StreamsAssumption DEF Typed, AtEnd, Sourced
  <2> QED
    BY <2>1
<1>6. Contents(s) = FirstFields(s, files[s].next - 1)
  <2>1. Settled(s)
    BY <1>2, SoleEntry
  <2> QED
    BY <1>3, <2>1 DEF Told
<1> HIDE DEF gm
<1>7. \A i \in DOMAIN supports' : supports'[i].file = s => supports'[i].message = Null
  <2>1. gm.message = Null
    BY <1>2 DEF MustLoad, gm
  <2>2. \A i \in DOMAIN supports' : supports'[i].file = s => supports'[i] = gm
    BY <1>1, <1>3, OneEntrySet
  <2> QED
    BY <2>1, <2>2
<1>8. Settled(s)'
  BY <1>7 DEF Settled
<1>9. FirstFields(s, files[s].next - 1)' = FirstFields(s, files[s].next - 1)
  BY <1>3 DEF FirstFields, FieldsOf, EndingAt, FieldAt, Latest, SectionsUpTo, Own, Of
<1>10. Contents(s)' = Contents(s)
  BY <1>3 DEF Contents
<1>11. files'[s].next = Len(stream'[s]) + 1
  BY <1>3, <1>5
<1> QED
  BY <1>4, <1>6, <1>7, <1>8, <1>9, <1>10, <1>11 DEF Told

\* What all the reads of a source leave to its entry.
LEMMA ReadOne ==
  ASSUME Entries, Typed, NEW s \in Source,
         \/ EndOfFile(s) \/ ReadEdition1(s) \/ ReadField(s)
         \/ ReadInvalidSection(s) \/ ReadMissingBitmap(s) \/ ReadUnfinished(s)
  PROVE  /\ Readable(s) /\ TakesNext(s) /\ stream' = stream
         /\ \A r \in Source : r # s => files'[r] = files[r] /\ out'[r] = out[r] /\ last'[r] = last[r] /\ SameEntries(r)
         /\ Sole(s) => Sole(s)'
<1>1. \E gm : /\ gm.file = s /\ gm \in Support /\ supports' = SetEntry(s, gm)
              /\ (\E handle : Returns(s, gm, handle)) \/ (\E how : ReturnsNull(s, gm, how))
  <2>1. CASE EndOfFile(s)
    BY <2>1, EntryTyped DEF EndOfFile, ReturnsNull
  <2>2. CASE ReadEdition1(s)
    <3> DEFINE gm == Loaded(s)
               left == [gm EXCEPT !.message = Null]
    <3>1. gm \in Support /\ gm.file = s
      BY LoadedTyped, LoadedEntry
    <3>2. Returns(s, left, Whole(gm.message))
      BY <2>2 DEF ReadEdition1, HandOver
    <3> HIDE DEF gm
    <3>3. left \in Support /\ left.file = s
      BY <3>1 DEF Support
    <3> HIDE DEF left
    <3> QED
      BY <3>2, <3>3 DEF Returns
  <2>3. CASE ReadField(s) \/ ReadInvalidSection(s) \/ ReadMissingBitmap(s) \/ ReadUnfinished(s)
    <3> DEFINE gm == Loaded(s)
               walk == Walk(gm)
               g == walk.gm
    <3>1. gm \in Support /\ gm.file = s /\ Placed(gm) /\ gm.message # Null /\ Sourced
      BY <2>3, LoadedTyped, LoadedEntry
      DEF ReadField, ReadInvalidSection, ReadMissingBitmap, ReadUnfinished, InEdition, Typed
    <3>2. PICK w : /\ Walked(gm, w)
                   /\ g = [gm EXCEPT !.sections = w.sections, !.lens = w.lens,
                                     !.bitmap = w.bitmap, !.bitmapLen = w.bitmapLen]
      <4> HIDE DEF gm
      <4> QED
        BY <3>1, WalkTyped
    <3>3. /\ g \in Support
          /\ walk.status = "field" => AfterField(g, walk.at) \in Support
      <4> HIDE DEF gm
      <4> QED
        BY <3>1, WalkedTyped
    <3>4. g.file = s
      <4> HIDE DEF gm
      <4> QED
        BY <3>1, <3>2 DEF Support
    <3> HIDE DEF g
    <3>5. AfterField(g, walk.at).file = s
      BY <3>3, <3>4 DEF AfterField, Finish, Support
    <3>6. [g EXCEPT !.freed = (s # Null)] \in Support /\ [g EXCEPT !.freed = (s # Null)].file = s
      BY <3>3, <3>4 DEF Support
    <3>7. CASE ReadField(s)
      <4> DEFINE left == AfterField(g, walk.at)
      <4>1. walk.status = "field" /\ Returns(s, left, Build(g))
        BY <3>7 DEF ReadField, g
      <4>2. left \in Support /\ left.file = s
        BY <3>3, <3>5, <4>1
      <4> HIDE DEF left, walk
      <4> QED
        BY <4>1, <4>2 DEF Returns
    <3>8. CASE ReadInvalidSection(s)
      BY <3>3, <3>4, <3>8 DEF ReadInvalidSection, ReturnsNull, g
    <3>9. CASE ReadMissingBitmap(s)
      <4> DEFINE left == [g EXCEPT !.freed = (s # Null)]
      <4>1. ReturnsNull(s, left, "null")
        BY <3>9 DEF ReadMissingBitmap, g
      <4>2. left \in Support /\ left.file = s
        BY <3>6
      <4> HIDE DEF left
      <4> QED
        BY <4>1, <4>2 DEF ReturnsNull
    <3>10. CASE ReadUnfinished(s)
      BY <3>3, <3>4, <3>10 DEF ReadUnfinished, Returns, g
    <3> QED
      BY <2>3, <3>7, <3>8, <3>9, <3>10
  <2> QED
    BY <2>1, <2>2, <2>3
<1>2. PICK gm : /\ gm.file = s /\ gm \in Support /\ supports' = SetEntry(s, gm)
                /\ (\E handle : Returns(s, gm, handle)) \/ (\E how : ReturnsNull(s, gm, how))
  BY <1>1
<1>3. Readable(s)
  BY DEF EndOfFile, ReadEdition1, ReadField, ReadInvalidSection, ReadMissingBitmap, ReadUnfinished, InEdition
<1>4. TakesNext(s) /\ stream' = stream
  BY <1>2 DEF Returns, ReturnsNull
<1>5. (\A r \in Source : r # s => SameEntries(r)) /\ (Sole(s) => Sole(s)')
  BY <1>2, OneEntrySet
<1>6. \A r \in Source : r # s => files'[r] = files[r] /\ out'[r] = out[r] /\ last'[r] = last[r]
  <2>1. DOMAIN files = Source /\ DOMAIN out = Source /\ DOMAIN last = Source
    BY DEF Typed
  <2>2. \A r \in Source : r # s => files'[r] = files[r]
    BY <1>4, <2>1 DEF TakesNext
  <2>3. \A r \in Source : r # s => out'[r] = out[r] /\ last'[r] = last[r]
    BY <1>2, <2>1 DEF Returns, ReturnsNull
  <2> QED
    BY <2>2, <2>3
<1> QED
  BY <1>3, <1>4, <1>5, <1>6

\* A source that is opened, rewound or closed has nothing in progress.
LEMMA ToldRestart ==
  ASSUME Entries, Typed, NEW s \in Source, NEW open \in BOOLEAN, Settled(s), Restart(s, open)
  PROVE  Told(s)'
<1>1. /\ files' = [files EXCEPT ![s] = [open |-> open, next |-> 1]] /\ out' = [out EXCEPT ![s] = <<>>]
      /\ last' = [last EXCEPT ![s] = "none"] /\ stream' = stream /\ supports' = supports
      /\ DOMAIN files = Source /\ DOMAIN out = Source /\ DOMAIN last = Source
  BY DEF Restart, Typed
<1>2. files'[s].next = 1 /\ out'[s] = <<>> /\ last'[s] = "none"
  BY <1>1
<1>3. Settled(s)' /\ \A i \in DOMAIN supports' : supports'[i].file = s => supports'[i].message = Null
  BY <1>1 DEF Settled
<1>4. FirstFields(s, 0)' = <<>>
  <2> DEFINE none == [i \in 1..0 |-> FieldsOf(<<s, i>>)']
  <2>1. none = <<>>
    OBVIOUS
  <2> HIDE DEF none
  <2>2. FlattenSeq(none) = <<>>
    BY <2>1, FlattenEmpty
  <2> QED
    BY <2>2 DEF FirstFields, none
<1>5. Contents(s)' = <<>>
  <2>1. Contents(s)' = [i \in DOMAIN out'[s] |-> out'[s][i].content]
    BY DEF Contents
  <2> QED
    BY <1>2, <2>1
<1>6. files'[s].next - 1 = 0
  BY <1>2
<1>7. Contents(s)' = FirstFields(s, files[s].next - 1)'
  BY <1>4, <1>5, <1>6
<1> QED
  BY <1>2, <1>3, <1>7 DEF Told

\* The memory reader and a file that is reset do not have messages both.
MemoryNow == stream[Null] # <<>> => \A f \in Resettable : stream[f] = <<>>

\* The reader does not change the messages.
LEMMA SameStream == ASSUME [Next]_vars PROVE stream' = stream
  BY DEF Next, vars, Open, Rewind, Close, Restart, ResetFile, EndOfFile, ReadEdition1, ReadField,
         ReadInvalidSection, ReadMissingBitmap, ReadUnfinished, Returns, ReturnsNull

\* Every step keeps what was told.
LEMMA AllToldStep ==
  ASSUME MemoryNow, Entries, Typed, AllTold, [Next]_vars
  PROVE  AllTold'
<1>1. stream' = stream
  BY DEF Next, vars, Open, Rewind, Close, Restart, ResetFile, EndOfFile, ReadEdition1, ReadField,
         ReadInvalidSection, ReadMissingBitmap, ReadUnfinished, Returns, ReturnsNull
<1>2. \A s : WellFormed(s)' <=> WellFormed(s)
  BY <1>1 DEF WellFormed, WellFormedMessage, SectionsUpTo, Own, Of
<1>3. SUFFICES ASSUME NEW s \in Source
      PROVE  IF stream[s] = <<>> THEN Quiet(s)'
             ELSE Sole(s)' /\ (WellFormed(s) => Told(s)')
  BY <1>1, <1>2 DEF AllTold
<1>4. ASSUME files'[s] = files[s], out'[s] = out[s], last'[s] = last[s], SameEntries(s)
      PROVE  IF stream[s] = <<>> THEN Quiet(s)'
             ELSE Sole(s)' /\ (WellFormed(s) => Told(s)')
  <2>1. /\ Sole(s) => Sole(s)'
        /\ Told(s) => Told(s)'
        /\ Quiet(s) => Quiet(s)'
    BY <1>1, <1>4, SourceTold
  <2> QED
    BY <2>1 DEF AllTold
<1>5. ASSUME NEW r \in Source,
             \/ EndOfFile(r) \/ ReadEdition1(r) \/ ReadField(r)
             \/ ReadInvalidSection(r) \/ ReadMissingBitmap(r) \/ ReadUnfinished(r)
      PROVE  IF stream[s] = <<>> THEN Quiet(s)'
             ELSE Sole(s)' /\ (WellFormed(s) => Told(s)')
  <2>1. /\ Readable(r) /\ TakesNext(r) /\ stream' = stream
        /\ \A q \in Source : q # r => files'[q] = files[q] /\ out'[q] = out[q] /\ last'[q] = last[q] /\ SameEntries(q)
        /\ Sole(r) => Sole(r)'
    BY <1>5, ReadOne
  <2>2. CASE s # r
    BY <1>4, <2>1, <2>2
  <2>3. CASE s = r
    <3>1. stream[s] # <<>> /\ Sole(s) /\ Sole(s)'
      BY <2>1, <2>3 DEF AllTold, Quiet, Readable
    <3>2. ASSUME WellFormed(s) PROVE Told(s)'
      <4>1. Told(s)
        BY <3>1, <3>2 DEF AllTold
      <4>2. CASE EndOfFile(s)
        BY <3>1, <4>1, <4>2, ToldEnd
      <4>3. CASE ReadEdition1(s)
        BY <3>1, <4>1, <4>3, ToldEdition1
      <4>4. ASSUME InEdition(s, 2)
            PROVE  Walk(Loaded(s)).status = "field" /\ (ReadField(s) => Told(s)')
        BY <2>1, <2>3, <3>1, <3>2, <4>1, <4>4, ToldEdition2
      <4>5. CASE ReadField(s)
        BY <4>4, <4>5 DEF ReadField
      <4>6. CASE ReadInvalidSection(s) \/ ReadMissingBitmap(s) \/ ReadUnfinished(s)
        BY <4>4, <4>6 DEF ReadInvalidSection, ReadMissingBitmap, ReadUnfinished
      <4> QED
        BY <1>5, <2>3, <4>2, <4>3, <4>5, <4>6
    <3> QED
      BY <3>1, <3>2
  <2> QED
    BY <2>2, <2>3
<1>6. ASSUME NEW r \in Source, Open(r) \/ Rewind(r) \/ Close(r)
      PROVE  IF stream[s] = <<>> THEN Quiet(s)'
             ELSE Sole(s)' /\ (WellFormed(s) => Told(s)')
  <2>1. PICK open \in BOOLEAN : Restart(r, open)
    BY <1>6 DEF Open, Rewind, Close
  <2>2. DOMAIN files = Source /\ DOMAIN out = Source /\ DOMAIN last = Source
    BY DEF Typed
  <2>3. CASE s # r
    <3>1. files'[s] = files[s] /\ out'[s] = out[s] /\ last'[s] = last[s]
      BY <2>1, <2>2, <2>3 DEF Restart
    <3>2. SameEntries(s)
      BY <2>1 DEF Restart, SameEntries
    <3> QED
      BY <1>4, <3>1, <3>2
  <2>4. CASE s = r
    <3>1. stream[s] # <<>>
      BY <1>6, <2>4 DEF AllTold, Quiet, Open, Rewind, Close
    <3>2. Sole(s) /\ Sole(s)'
      BY <2>1, <3>1 DEF AllTold, Restart, Sole
    <3>3. ASSUME WellFormed(s) PROVE Told(s)'
      <4>1. Settled(s)
        BY <1>6, <2>4, <3>1, <3>3 DEF AllTold, Told, Open, Rewind, Close
      <4> QED
        BY <2>1, <2>4, <4>1, ToldRestart
    <3> QED
      BY <3>1, <3>2, <3>3
  <2> QED
    BY <2>3, <2>4
<1>7. ASSUME NEW f \in Source, ResetFile(f)
      PROVE  IF stream[s] = <<>> THEN Quiet(s)'
             ELSE Sole(s)' /\ (WellFormed(s) => Told(s)')
  <2>1. /\ f \in Resettable /\ HasSupport(f) /\ files' = files /\ out' = out
        /\ last' = [last EXCEPT ![f] = "reset"] /\ DOMAIN last = Source
        /\ supports' = [i \in DOMAIN supports |->
                          IF supports[i].file = f THEN [supports[i] EXCEPT !.file = Null] ELSE supports[i]]
    BY <1>7 DEF ResetFile, Typed
  <2>2. f # Null /\ stream[f] # <<>>
    BY <2>1, StreamsAssumption DEF AllTold, Quiet, Sourced
  <2>3. stream[Null] = <<>>
    BY <2>1, <2>2 DEF MemoryNow
  <2>4. ASSUME NEW i \in DOMAIN supports
        PROVE  /\ i \in DOMAIN supports'
               /\ supports[i].file = f => supports'[i].file = Null
               /\ supports[i].file # f => supports'[i] = supports[i]
    <3> DEFINE gm == supports[i]
    <3>1. gm \in Support /\ supports'[i] = IF gm.file = f THEN [gm EXCEPT !.file = Null] ELSE gm
      BY <2>1 DEF Typed
    <3> HIDE DEF gm
    <3>2. /\ gm.file = f => supports'[i].file = Null
          /\ gm.file # f => supports'[i] = gm
      BY <3>1 DEF Support
    <3>3. i \in DOMAIN supports'
      BY <2>1
    <3> QED
      BY <3>2, <3>3 DEF gm
  <2>5. DOMAIN supports' = DOMAIN supports
    BY <2>1
  <2>6. CASE s = f
    <3>1. \A i \in DOMAIN supports' : supports'[i].file # s
      BY <2>2, <2>4, <2>5, <2>6
    <3>2. Sole(s)'
      BY <3>1 DEF Sole
    <3>3. ASSUME WellFormed(s) PROVE Told(s)'
      <4>1. Told(s)
        BY <2>2, <2>6, <3>3 DEF AllTold
      <4>2. IsPrefix(Contents(s), Expected(s))
        BY <4>1, ToldPrefix
      <4>3. Contents(s)' = Contents(s)
        BY <2>1 DEF Contents
      <4>4. Expected(s)' = Expected(s)
        BY <1>1 DEF Expected, FieldsOf, EndingAt, FieldAt, Latest, SectionsUpTo, Own, Of
      <4>5. last'[s] = "reset"
        BY <2>1, <2>6
      <4>6. Settled(s)'
        BY <3>1 DEF Settled
      <4> QED
        BY <4>2, <4>3, <4>4, <4>5, <4>6 DEF Told
    <3> QED
      BY <2>2, <2>6, <3>2, <3>3
  <2>7. CASE s = Null
    <3>1. Quiet(s)
      BY <2>3, <2>7 DEF AllTold
    <3>2. Quiet(s)'
      BY <2>1, <2>2, <2>7, <3>1 DEF Quiet
    <3> QED
      BY <2>3, <2>7, <3>2
  <2>8. CASE s # f /\ s # Null
    <3>1. SameEntries(s)
      BY <2>4, <2>5, <2>8 DEF SameEntries
    <3>2. files'[s] = files[s] /\ out'[s] = out[s] /\ last'[s] = last[s]
      BY <2>1, <2>8
    <3> QED
      BY <1>4, <3>1, <3>2
  <2> QED
    BY <2>6, <2>7, <2>8
<1>8. CASE UNCHANGED vars
  BY <1>4, <1>8 DEF vars, SameEntries
<1> QED
  BY <1>5, <1>6, <1>7, <1>8 DEF Next

\* At the start nothing was told.
LEMMA InitAllTold == ASSUME Started PROVE AllTold
<1> SUFFICES ASSUME NEW s \in Source PROVE IF stream[s] = <<>> THEN Quiet(s) ELSE Sole(s) /\ Told(s)
  BY DEF AllTold
<1>1. /\ supports = <<>> /\ files[s] = [open |-> FALSE, next |-> 1]
      /\ out[s] = <<>> /\ last[s] = "none"
  BY DEF Started
<1>2. DOMAIN supports = {}
  BY <1>1
<1>3. Quiet(s) /\ Sole(s) /\ Settled(s)
  BY <1>1, <1>2 DEF Quiet, Sole, Settled, HasSupport
<1>4. FirstFields(s, 0) = <<>>
  <2> DEFINE none == [i \in 1..0 |-> FieldsOf(<<s, i>>)]
  <2>1. none = <<>>
    OBVIOUS
  <2> HIDE DEF none
  <2>2. FlattenSeq(none) = <<>>
    BY <2>1, FlattenEmpty
  <2> QED
    BY <2>2 DEF FirstFields, none
<1>5. Contents(s) = <<>>
  <2>1. Contents(s) = [i \in DOMAIN out[s] |-> out[s][i].content]
    BY DEF Contents
  <2> QED
    BY <1>1, <2>1
<1>6. files[s].next - 1 = 0
  BY <1>1
<1>7. Contents(s) = FirstFields(s, files[s].next - 1)
  BY <1>4, <1>5, <1>6
<1>8. Told(s)
  BY <1>1, <1>2, <1>3, <1>7 DEF Told
<1> QED
  BY <1>3, <1>8

\* What was told is in order.
LEMMA ToldFields == ASSUME Entries, Typed, AllTold PROVE FieldsInOrder
<1> SUFFICES ASSUME NEW s \in Source, WellFormed(s)
             PROVE  /\ IsPrefix(Contents(s), Expected(s))
                    /\ last[s] = "end" => Contents(s) = Expected(s)
  BY DEF FieldsInOrder
<1>1. CASE stream[s] = <<>>
  <2>1. out[s] = <<>> /\ last[s] = "none"
    BY <1>1 DEF AllTold, Quiet
  <2>2. Contents(s) = <<>>
    <3>1. Contents(s) = [i \in DOMAIN out[s] |-> out[s][i].content]
      BY DEF Contents
    <3> QED
      BY <2>1, <3>1
  <2>3. Expected(s) = <<>>
    <3> DEFINE all == [k \in DOMAIN stream[s] |-> FieldsOf(<<s, k>>)]
    <3>1. all = <<>>
      BY <1>1
    <3> HIDE DEF all
    <3>2. FlattenSeq(all) = <<>>
      BY <3>1, FlattenEmpty
    <3> QED
      BY <3>2 DEF Expected, all
  <2> DEFINE x == Contents(s)
             y == Expected(s)
  <2>4. x \in Seq(Content) /\ y = x
    BY <2>2, <2>3
  <2> HIDE DEF x, y
  <2>5. Continues(Content, x, y)
    BY <2>4, ContinuesItself
  <2>6. IsPrefix(x, y)
    BY <2>4, <2>5, PrefixOf
  <2> QED
    BY <2>1, <2>6 DEF x, y
<1>2. CASE stream[s] # <<>>
  BY <1>2, ToldPrefix DEF AllTold
<1> QED
  BY <1>1, <1>2

\* The fields of any number of well-formed messages come back one by one and in
\* order, with their own and inherited sections, however the reads of several
\* sources are interleaved and their files rewound, closed, opened and reset,
\* when the memory reader is not used next to files that are reset: it would go
\* on with the entry a reset disowned.
THEOREM FieldsInOrderCorrect == ASSUME MemoryApart PROVE Spec => []FieldsInOrder
<1> DEFINE Inv == Entries /\ Typed /\ MemoryNow /\ AllTold
<1>1. Init => Inv
  BY StreamsAssumption, InitTyped, InitAllTold DEF Init, MemoryApart, MemoryNow, Sourced
<1>2. Inv /\ [Next]_vars => Inv'
  BY EntriesStep, TypedStep, SameStream, AllToldStep DEF MemoryNow
<1>3. Inv => FieldsInOrder
  BY ToldFields
<1> QED
  BY <1>1, <1>2, <1>3, PTL DEF Spec

-----------------------------------------------------------------------------
(* The length of what is built *)

\* Some message of the source gives a bitmap; the numbers its sections have.
HasBitmap(s) == \E b \in MessagesOf(s) : GivesBitmap(b)
Used(s) == UNION {Numbers(b, Len(Of(b))) : b \in MessagesOf(s)}

\* What an entry keeps from one message to the next.
Carried(s, w) ==
    /\ w.lens[0] = HeaderLen
    /\ \A n \in 1..7 : w.lens[n] # 0 => n \in Used(s)
    /\ w.bitmap # Null => HasBitmap(s)

IsLength(b, n, len) == \E i \in 1..Len(Of(b)) : Of(b)[i].num = n /\ len = Of(b)[i].len

\* The lengths are those of sections of the message, and the sections up to the
\* e-th are there.
Measured(b, e, w) ==
    /\ \A n \in 1..7 : w.sections[n] # Null => IsLength(b, n, w.lens[n])
    /\ \A n \in Numbers(b, e) : w.sections[n] # Null
    /\ Own(b, SectionsUpTo(b, e, 6)) # {} => IsLength(b, 6, w.bitmapLen)

\* A message of the source that has fields is a block.
LEMMA MessageBlock ==
  ASSUME Sourced, NEW s \in Source, NEW b \in MessagesOf(s)
  PROVE  IsBlock(b) /\ b[1] = s /\ stream[b[1]][b[2]].edition = 2
<1>1. PICK k \in DOMAIN stream[s] : b = <<s, k>> /\ stream[s][k].edition = 2
  BY DEF MessagesOf
<1>2. stream[s] \in Seq(Message)
  BY StreamsAssumption DEF Sourced
<1>3. k \in Nat /\ k \in 1..Len(stream[s])
  BY <1>2
<1> QED
  BY <1>1, <1>3 DEF IsBlock

\* What is measured up to a section is measured up to those before it.
LEMMA MeasuredBefore ==
  ASSUME NEW b, NEW e \in Nat, NEW d \in 0..e, NEW w, Measured(b, e, w)
  PROVE  Measured(b, d, w)
<1>1. Numbers(b, d) \subseteq Numbers(b, e)
  BY DEF Numbers
<1>2. Own(b, SectionsUpTo(b, d, 6)) \subseteq Own(b, SectionsUpTo(b, e, 6))
  BY DEF Own, SectionsUpTo
<1> QED
  BY <1>1, <1>2 DEF Measured

\* The section that is looked at gives its length to its number, or has the
\* bitmap that the message gave before.
LEMMA MeasuredNext ==
  ASSUME Sourced, NEW s \in Source, Uniform(s), NEW b \in MessagesOf(s),
         NEW j \in 1..Len(Of(b)), NEW w \in WalkRecord, w.status = "walking",
         Carried(s, w), Measured(b, j - 1, w), Of(b)[j].num \in 1..7
  PROVE  Carried(s, Visit(b, w, j)) /\ Measured(b, j, Visit(b, w, j))
         /\ Visit(b, w, j).sections[0] = w.sections[0]
<1> DEFINE v == Visit(b, w, j)
           sec == Of(b)[j]
           num == sec.num
           inherited == num = 6 /\ sec.inherits
<1>1. IsBlock(b)
  BY MessageBlock
<1>2. Of(b) \in Seq(Section) /\ Len(Of(b)) \in Nat /\ sec \in Section
  BY <1>1, BlockSections
<1>3. sec.len \in Nat /\ sec.inherits \in BOOLEAN
  BY <1>2 DEF Section
<1>4. v \in WalkRecord /\ Turned(b, w, j, v)
  BY <1>1, VisitTurns
<1>5. <<b, j>> # Null
  <2>1. <<b, j>> \in (Source \X Nat) \X Nat
    BY <1>1, <1>2 DEF IsBlock
  <2> QED
    BY <2>1, NullAssumption
<1> HIDE DEF v
<1>6. /\ \A n \in 0..7 : n # num => v.sections[n] = w.sections[n] /\ v.lens[n] = w.lens[n]
      /\ IF inherited /\ w.bitmap # Null
         THEN v.sections[6] = w.bitmap /\ v.lens[6] = w.bitmapLen
         ELSE v.sections[num] = <<b, j>> /\ v.lens[num] = sec.len
      /\ IF num = 6 /\ ~sec.inherits
         THEN v.bitmap = <<b, j>> /\ v.bitmapLen = sec.len
         ELSE v.bitmap = w.bitmap /\ v.bitmapLen = w.bitmapLen
  BY <1>4 DEF Turned
<1>7. num \in Used(s)
  <2>1. num \in Numbers(b, Len(Of(b)))
    BY <1>2 DEF Numbers
  <2> QED
    BY <2>1 DEF Used
<1>8. ASSUME inherited, w.bitmap # Null PROVE IsLength(b, 6, w.bitmapLen)
  <2>1. PICK c \in MessagesOf(s) : GivesBitmap(c)
    BY <1>8 DEF Carried, HasBitmap
  <2>2. Own(b, SectionsUpTo(b, j, 6)) # {}
    BY <1>2, <1>8, <2>1 DEF Uniform
  <2>3. Own(b, SectionsUpTo(b, j, 6)) \subseteq Own(b, SectionsUpTo(b, j - 1, 6))
    <3> SUFFICES ASSUME NEW i \in 1..j, Of(b)[i].num = 6, ~Of(b)[i].inherits PROVE i \in 1..(j - 1)
      BY DEF Own, SectionsUpTo
    <3>1. i # j
      BY <1>8
    <3> QED
      BY <3>1
  <2> QED
    BY <2>2, <2>3 DEF Measured
<1>9. IsLength(b, num, v.lens[num]) /\ v.sections[num] # Null
  BY <1>5, <1>6, <1>8 DEF IsLength
<1>10. Carried(s, v)
  <2>1. v.lens[0] = w.lens[0]
    BY <1>6
  <2>2. \A n \in 1..7 : v.lens[n] # 0 => n \in Used(s)
    BY <1>6, <1>7, SMTT(30) DEF Carried
  <2>3. ASSUME num = 6, ~sec.inherits PROVE HasBitmap(s)
    <3>1. j \in Own(b, SectionsUpTo(b, Len(Of(b)), 6))
      BY <2>3 DEF Own, SectionsUpTo
    <3> QED
      BY <3>1 DEF HasBitmap, GivesBitmap
  <2>4. v.bitmap # Null => HasBitmap(s)
    BY <1>6, <2>3 DEF Carried
  <2> QED
    BY <2>1, <2>2, <2>4 DEF Carried
<1>11. Measured(b, j, v)
  <2>1. ASSUME NEW n \in 1..7, v.sections[n] # Null PROVE IsLength(b, n, v.lens[n])
    <3>1. CASE n = num
      BY <1>9, <3>1
    <3>2. CASE n # num
      <4>1. n \in 0..7
        OBVIOUS
      <4>2. v.sections[n] = w.sections[n] /\ v.lens[n] = w.lens[n]
        BY <1>6, <3>2, <4>1
      <4> QED
        BY <2>1, <4>2 DEF Measured
    <3> QED
      BY <3>1, <3>2
  <2>2. ASSUME NEW n \in Numbers(b, j) PROVE v.sections[n] # Null
    <3>1. n \in 1..7 /\ (n = num \/ n \in Numbers(b, j - 1))
      BY DEF Numbers
    <3>2. CASE n = num
      BY <1>9, <3>2
    <3>3. CASE n # num
      <4>1. n \in 0..7
        BY <3>1
      <4> QED
        BY <1>6, <3>1, <3>3, <4>1 DEF Measured
    <3> QED
      BY <3>2, <3>3
  <2>3. ASSUME Own(b, SectionsUpTo(b, j, 6)) # {} PROVE IsLength(b, 6, v.bitmapLen)
    <3>1. CASE num = 6 /\ ~sec.inherits
      BY <1>6, <3>1 DEF IsLength
    <3>2. CASE ~(num = 6 /\ ~sec.inherits)
      <4>1. v.bitmapLen = w.bitmapLen
        BY <1>6, <3>2
      <4>2. PICK i \in 1..j : Of(b)[i].num = 6 /\ ~Of(b)[i].inherits
        BY <2>3 DEF Own, SectionsUpTo
      <4>3. i \in 1..(j - 1)
        BY <3>2, <4>2
      <4>4. Own(b, SectionsUpTo(b, j - 1, 6)) # {}
        BY <4>2, <4>3 DEF Own, SectionsUpTo
      <4> QED
        BY <4>1, <4>4 DEF Measured
    <3> QED
      BY <3>1, <3>2
  <2> QED
    BY <2>1, <2>2, <2>3 DEF Measured
<1>12. v.sections[0] = w.sections[0]
  BY <1>6
<1> QED
  BY <1>10, <1>11, <1>12 DEF v

\* After k turns: what was measured where the walk started, where it is, or
\* where it stopped.
Measuring(s, gm, k, w) ==
    LET b == gm.message
    IN  /\ w \in WalkRecord /\ Carried(s, w) /\ Measured(b, From(gm), w)
        /\ w.sections[0] = First(gm)[0]
        /\ w.status = "walking" => Measured(b, From(gm) + k, w)
        /\ w.status = "field" => w.at \in 1..Len(Of(b)) /\ Of(b)[w.at].num = 7 /\ Measured(b, w.at, w)

\* What is Measured stays so with the next section.
LEMMA MeasuringNext ==
  ASSUME Sourced, NEW s \in Source, Uniform(s), NEW gm \in Support, gm.message \in MessagesOf(s),
         From(gm) \in Nat, NEW k \in Nat, From(gm) + (k + 1) \in 1..Len(Of(gm.message)), NEW w,
         Measuring(s, gm, k, w)
  PROVE  Measuring(s, gm, k + 1, Visit(gm.message, w, From(gm) + (k + 1)))
<1> DEFINE b == gm.message
           e == From(gm)
           j == e + (k + 1)
           v == Visit(b, w, j)
<1>1. w \in WalkRecord /\ Carried(s, w) /\ Measured(b, e, w) /\ w.sections[0] = First(gm)[0]
  BY DEF Measuring
<1>2. v \in WalkRecord /\ Turned(b, w, j, v) /\ IsBlock(b) /\ Len(Of(b)) \in Nat
  BY <1>1, MessageBlock, VisitTurns, BlockSections
<1>3. CASE w.status # "walking"
  <2>1. v = w
    BY <1>2, <1>3 DEF Turned
  <2> QED
    BY <1>3, <2>1 DEF Measuring
<1>4. CASE w.status = "walking" /\ Of(b)[j].num \notin 1..7
  <2>1. v = [w EXCEPT !.status = "invalid"]
    BY <1>2, <1>4 DEF Turned
  <2>2. /\ v.status = "invalid" /\ v.sections = w.sections /\ v.lens = w.lens
        /\ v.bitmap = w.bitmap /\ v.bitmapLen = w.bitmapLen
    BY <1>1, <2>1 DEF WalkRecord
  <2> HIDE DEF v
  <2>3. Carried(s, v) /\ Measured(b, e, v)
    BY <1>1, <2>2 DEF Carried, Measured
  <2>4. Measuring(s, gm, k + 1, v)
    BY <1>1, <1>2, <2>2, <2>3 DEF Measuring
  <2> QED
    BY <2>4 DEF v
<1>5. CASE w.status = "walking" /\ Of(b)[j].num \in 1..7
  <2>1. j - 1 = e + k /\ Measured(b, j - 1, w)
    BY <1>5 DEF Measuring
  <2>2. Carried(s, v) /\ Measured(b, j, v) /\ v.sections[0] = w.sections[0]
    BY <1>1, <1>5, <2>1, MeasuredNext
  <2>3. v.at = j /\ (v.status = "field" => Of(b)[j].num = 7)
    BY <1>2, <1>5 DEF Turned
  <2> HIDE DEF v
  <2>4. Measured(b, e, v)
    BY <2>2, MeasuredBefore
  <2>5. Measuring(s, gm, k + 1, v)
    BY <1>1, <1>2, <2>2, <2>3, <2>4 DEF Measuring
  <2> QED
    BY <2>5 DEF v
<1> QED
  BY <1>3, <1>4, <1>5

\* The walk ends with what was measured by its last turn.
LEMMA WalkMeasures ==
  ASSUME Sourced, NEW s \in Source, Uniform(s), NEW gm \in Support, Placed(gm),
         gm.message \in MessagesOf(s), gm.message # Null, Measuring(s, gm, 0, Start(gm))
  PROVE  LET walk == Walk(gm)
             b == gm.message
         IN  /\ Carried(s, walk.gm) /\ Measured(b, From(gm), walk.gm) /\ walk.gm.sections[0] = First(gm)[0]
             /\ walk.status = "field" =>
                   walk.at \in 1..Len(Of(b)) /\ Of(b)[walk.at].num = 7 /\ Measured(b, walk.at, walk.gm)
<1> DEFINE n == Steps(gm)
           b == gm.message
<1>1. n \in Nat /\ From(gm) \in Nat /\ From(gm) + n = Len(Of(b)) /\ Len(Of(b)) \in Nat
  BY StartsAt
<1>2. PICK H : WalkedThrough(gm, H)
  BY WalkSteps
<1> HIDE DEF n
<1> DEFINE S == {k \in Nat : Measuring(s, gm, k, H[k])}
<1>3. 0 \in S
  BY <1>2 DEF WalkedThrough
<1>4. ASSUME NEW k \in 0..(n - 1), k \in S PROVE k + 1 \in S
  <2>1. k + 1 \in 1..n /\ (k + 1) - 1 = k /\ k + 1 \in Nat /\ k \in Nat
    BY <1>1
  <2>2. From(gm) + (k + 1) \in 1..Len(Of(b))
    BY <1>1, <2>1
  <2>3. H[k + 1] = Visit(b, H[k], From(gm) + (k + 1))
    BY <1>2, <2>1 DEF WalkedThrough, n
  <2>4. Measuring(s, gm, k + 1, H[k + 1])
    BY <1>1, <1>4, <2>1, <2>2, <2>3, MeasuringNext
  <2> QED
    BY <2>1, <2>4
<1> HIDE DEF S
<1>5. \A k \in 0..n : k \in S
  BY <1>1, <1>3, <1>4, Induction
<1>6. n \in 0..n
  BY <1>1
<1> DEFINE w == H[n]
<1>7. Measuring(s, gm, n, w)
  BY <1>5, <1>6 DEF S
<1>8. Walk(gm) = [gm |-> [gm EXCEPT !.sections = w.sections, !.lens = w.lens,
                                    !.bitmap = w.bitmap, !.bitmapLen = w.bitmapLen],
                  status |-> w.status, at |-> w.at]
  BY <1>2 DEF WalkedThrough, n
<1> HIDE DEF w
<1> DEFINE g == [gm EXCEPT !.sections = w.sections, !.lens = w.lens,
                           !.bitmap = w.bitmap, !.bitmapLen = w.bitmapLen]
<1>9. g.sections = w.sections /\ g.lens = w.lens /\ g.bitmap = w.bitmap /\ g.bitmapLen = w.bitmapLen
  BY DEF Support
<1>10. Walk(gm).gm = g /\ Walk(gm).status = w.status /\ Walk(gm).at = w.at
  BY <1>8
<1> HIDE DEF g
<1>11. /\ Carried(s, g) <=> Carried(s, w)
       /\ \A e : Measured(b, e, g) <=> Measured(b, e, w)
  BY <1>9 DEF Carried, Measured
<1> QED
  BY <1>7, <1>9, <1>10, <1>11 DEF Measuring

\* A sum of lengths is one of numbers.
LEMMA SumLensTo ==
  ASSUME NEW n \in Nat, NEW w PROVE SumLens([i \in 1..n |-> w[i]]) = SumTo(w, n)
  BY DEF SumLens, SumTo

\* When the last section of a field was seen the lengths in the entry are those
\* of the sections it has, each the length of another section of the message.
LEMMA BuiltWhole ==
  ASSUME Sourced, NEW s \in Source, Uniform(s), NEW b \in MessagesOf(s),
         NEW g \in Support, g.message = b, Carried(s, g), g.sections[0] # Null,
         NEW at \in 1..Len(Of(b)), Of(b)[at].num = 7, Measured(b, at, g)
  PROVE  Build(g).declared = Build(g).written
<1> DEFINE size == Len(Of(b))
<1>1. IsBlock(b) /\ Of(b) \in Seq(Section) /\ size \in Nat /\ DOMAIN Of(b) = 1..size
  BY MessageBlock, BlockSections
<1>2. g.lens \in [0..7 -> Nat]
  BY SupportTypes
<1>3. ASSUME NEW i \in 1..size PROVE Of(b)[i].len \in Nat
  <2>1. Of(b)[i] \in Section
    BY <1>1
  <2> QED
    BY <2>1 DEF Section
<1>4. ASSUME NEW n \in 1..7, g.sections[n] = Null PROVE g.lens[n] = 0
  <2>1. SUFFICES ASSUME g.lens[n] # 0 PROVE FALSE
    OBVIOUS
  <2>2. PICK c \in MessagesOf(s) : n \in Numbers(c, Len(Of(c)))
    BY <2>1 DEF Carried, Used
  <2>3. n \in Numbers(b, at)
    BY <1>1, <2>2 DEF Uniform
  <2> QED
    BY <1>4, <2>3 DEF Measured
<1> DEFINE lens == [n \in 1..8 |-> g.lens[n - 1]]
           there == [n \in 1..8 |-> IF n - 1 \in Present(g) THEN g.lens[n - 1] ELSE 0]
<1>5. there = lens
  <2>1. ASSUME NEW n \in 1..8, n - 1 \notin Present(g) PROVE g.lens[n - 1] = 0
    <3>1. n - 1 \in 0..7 /\ g.sections[n - 1] = Null
      BY <2>1 DEF Present
    <3>2. n - 1 # 0
      BY <3>1
    <3>3. n - 1 \in 1..7
      BY <3>1, <3>2
    <3> QED
      BY <1>4, <3>1, <3>3
  <2> QED
    BY <2>1
<1>6. \A n \in 1..8 : lens[n] \in Nat
  BY <1>2, SMTT(30)
\* Where each length comes from: the header, or a section of the message.
<1> DEFINE all == [k \in 1..(size + 1) |-> IF k = 1 THEN HeaderLen ELSE Of(b)[k - 1].len]
           from(n) == CHOOSE i \in 1..size : Of(b)[i].num = n /\ g.lens[n] = Of(b)[i].len
           pick == [n \in 1..8 |-> IF n = 1 THEN 1
                                   ELSE IF g.sections[n - 1] = Null THEN 0 ELSE from(n - 1) + 1]
<1>7. ASSUME NEW n \in 1..7, g.sections[n] # Null
      PROVE  from(n) \in 1..size /\ Of(b)[from(n)].num = n /\ g.lens[n] = Of(b)[from(n)].len
  BY <1>7 DEF Measured, IsLength
<1> HIDE DEF from
<1>8. ASSUME NEW n \in 1..8
      PROVE  /\ n = 1 => pick[n] = 1
             /\ n # 1 /\ g.sections[n - 1] = Null => pick[n] = 0
             /\ n # 1 /\ g.sections[n - 1] # Null =>
                   /\ pick[n] = from(n - 1) + 1 /\ from(n - 1) \in 1..size
                   /\ Of(b)[from(n - 1)].num = n - 1 /\ g.lens[n - 1] = Of(b)[from(n - 1)].len
             /\ n # 1 => n - 1 \in 1..7
  <2>1. n # 1 => n - 1 \in 1..7
    OBVIOUS
  <2>2. ASSUME n # 1, g.sections[n - 1] # Null
        PROVE  /\ pick[n] = from(n - 1) + 1 /\ from(n - 1) \in 1..size
               /\ Of(b)[from(n - 1)].num = n - 1 /\ g.lens[n - 1] = Of(b)[from(n - 1)].len
    <3>1. from(n - 1) \in 1..size /\ Of(b)[from(n - 1)].num = n - 1 /\ g.lens[n - 1] = Of(b)[from(n - 1)].len
      BY <1>7, <2>1, <2>2
    <3> QED
      BY <2>2, <3>1
  <2>3. n = 1 => pick[n] = 1
    OBVIOUS
  <2>4. n # 1 /\ g.sections[n - 1] = Null => pick[n] = 0
    OBVIOUS
  <2> QED
    BY <2>1, <2>2, <2>3, <2>4
<1> HIDE DEF pick
<1>9. ASSUME NEW n \in 1..8 PROVE pick[n] \in 0..(size + 1)
  <2>1. CASE n = 1
    BY <1>1, <1>8, <2>1
  <2>2. CASE n # 1 /\ g.sections[n - 1] = Null
    <3>1. pick[n] = 0
      BY <1>8, <2>2
    <3> QED
      BY <1>1, <3>1
  <2>3. CASE n # 1 /\ g.sections[n - 1] # Null
    <3>1. pick[n] = from(n - 1) + 1 /\ from(n - 1) \in 1..size
      BY <1>8, <2>3
    <3> QED
      BY <1>1, <3>1
  <2> QED
    BY <2>1, <2>2, <2>3
<1>10. ASSUME NEW n \in 1..8, NEW m \in 1..8, pick[n] = pick[m], pick[n] # 0 PROVE n = m
  \* An index beyond 1 is that of a section, which has one number.
  <2>1. ASSUME NEW k \in 1..8, pick[k] # 0
        PROVE  IF k = 1 THEN pick[k] = 1
               ELSE pick[k] - 1 \in 1..size /\ Of(b)[pick[k] - 1].num = k - 1
    <3>1. CASE k = 1
      BY <1>8, <3>1
    <3>2. CASE k # 1
      <4>1. pick[k] = from(k - 1) + 1 /\ from(k - 1) \in 1..size /\ Of(b)[from(k - 1)].num = k - 1
        BY <1>8, <2>1, <3>2
      <4>2. pick[k] - 1 = from(k - 1)
        BY <1>1, <4>1
      <4> QED
        BY <3>2, <4>1, <4>2
    <3> QED
      BY <3>1, <3>2
  <2>2. CASE n = 1 \/ m = 1
    BY <1>1, <1>10, <2>1, <2>2, SMTT(30)
  <2>3. CASE n # 1 /\ m # 1
    <3>1. n - 1 = m - 1
      BY <1>10, <2>1, <2>3
    <3> QED
      BY <3>1
  <2> QED
    BY <2>2, <2>3
<1>11. \A k \in 1..(size + 1) : all[k] \in Nat
  BY <1>1, <1>3 DEF HeaderLen
<1>12. ASSUME NEW n \in 1..8 PROVE lens[n] = IF pick[n] = 0 THEN 0 ELSE all[pick[n]]
  <2>1. CASE n = 1
    <3>1. lens[n] = HeaderLen /\ pick[n] = 1 /\ all[1] = HeaderLen
      BY <1>1, <1>8, <2>1 DEF Carried
    <3> QED
      BY <3>1
  <2>2. CASE n # 1 /\ g.sections[n - 1] = Null
    BY <1>4, <1>8, <2>2
  <2>3. CASE n # 1 /\ g.sections[n - 1] # Null
    <3>1. pick[n] = from(n - 1) + 1 /\ from(n - 1) \in 1..size /\ g.lens[n - 1] = Of(b)[from(n - 1)].len
      BY <1>8, <2>3
    <3>2. from(n - 1) + 1 \in 1..(size + 1) /\ from(n - 1) + 1 # 1 /\ (from(n - 1) + 1) - 1 = from(n - 1)
      BY <1>1, <3>1
    <3>3. all[from(n - 1) + 1] = Of(b)[from(n - 1)].len
      BY <3>2
    <3> QED
      BY <1>8, <2>3, <3>1, <3>2, <3>3
  <2> QED
    BY <2>1, <2>2, <2>3
<1> DEFINE own == [k \in 1..size |-> Of(b)[k].len]
<1>13. SumTo(all, size + 1) = HeaderLen + SumTo(own, size)
  <2> DEFINE header == [k \in 1..1 |-> HeaderLen]
  <2>1. /\ \A k \in 1..1 : header[k] \in Int /\ all[k] = header[k]
        /\ \A k \in 1..size : own[k] \in Int /\ all[1 + k] = own[k]
    <3>1. ASSUME NEW k \in 1..1 PROVE header[k] \in Int /\ all[k] = header[k]
      <4>1. k = 1 /\ k \in 1..(size + 1)
        BY <1>1
      <4> QED
        BY <4>1 DEF HeaderLen
    <3>2. ASSUME NEW k \in 1..size PROVE own[k] \in Int /\ all[1 + k] = own[k]
      <4>1. 1 + k \in 1..(size + 1) /\ 1 + k # 1 /\ (1 + k) - 1 = k
        BY <1>1
      <4>2. all[1 + k] = Of(b)[k].len /\ own[k] = Of(b)[k].len
        BY <4>1
      <4> QED
        BY <1>3, <4>2
    <3> QED
      BY <3>1, <3>2
  <2>2. header[1] = HeaderLen /\ 1 \in 1..1 /\ HeaderLen \in Int /\ 1 - 1 = 0
    BY DEF HeaderLen
  <2> HIDE DEF header, own, all
  <2>3. SumTo(all, 1 + size) = SumTo(header, 1) + SumTo(own, size)
    BY <1>1, <2>1, SumBehind
  <2>4. SumTo(header, 1) = HeaderLen
    <3>1. /\ SumTo(header, 0) = 0
          /\ \A k \in 1..1 : SumTo(header, k) = SumTo(header, k - 1) + header[k]
      <4>1. 1 \in Nat /\ \A k \in 1..1 : header[k] \in Int
        BY <2>1
      <4> QED
        BY <4>1, SumSteps
    <3> QED
      BY <2>2, <3>1
  <2>5. 1 + size = size + 1
    BY <1>1
  <2> QED
    BY <2>3, <2>4, <2>5
<1>14. SumTo(lens, 8) <= SumTo(all, size + 1)
  <2> HIDE DEF lens, all
  <2>1. size + 1 \in Nat /\ 8 \in Nat
    BY <1>1
  <2>2. \A n \in 1..8 : pick[n] \in 0..(size + 1)
    BY <1>9
  <2>3. \A n, m \in 1..8 : pick[n] = pick[m] /\ pick[n] # 0 => n = m
    BY <1>10
  <2>4. \A n \in 1..8 : lens[n] = IF pick[n] = 0 THEN 0 ELSE all[pick[n]]
    BY <1>12
  <2> HIDE DEF size
  <2> QED
    BY <1>11, <2>1, <2>2, <2>3, <2>4, SumPicked
<1>15. SumLens(lens) = SumTo(lens, 8) /\ MessageLength(b) = HeaderLen + SumTo(own, size) + EndLen
  <2>1. SumLens(lens) = SumTo(lens, 8)
    <3>1. lens = [i \in 1..8 |-> lens[i]]
      OBVIOUS
    <3> HIDE DEF lens
    <3> QED
      BY <3>1, SumLensTo
  <2>2. SumLens(own) = SumTo(own, size)
    <3>1. own = [i \in 1..size |-> own[i]]
      OBVIOUS
    <3> HIDE DEF own
    <3> QED
      BY <1>1, <3>1, SumLensTo
  <2>3. MessageLength(b) = HeaderLen + SumLens(own) + EndLen
    BY <1>1 DEF MessageLength
  <2> QED
    BY <2>1, <2>2, <2>3
<1>16. SumTo(lens, 8) \in Int /\ SumTo(own, size) \in Int
  <2>1. \A n \in 1..8 : lens[n] \in Int
    BY <1>6, SMTT(30)
  <2>2. \A k \in 1..size : own[k] \in Int
    BY <1>3
  <2> HIDE DEF lens, own
  <2>3. 8 \in 0..8 /\ size \in 0..size /\ 8 \in Nat
    BY <1>1
  <2> QED
    BY <1>1, <2>1, <2>2, <2>3, SumSteps
<1>17. Build(g).declared = BuiltLength(g, MessageLength(b)) /\ Build(g).written = SumLens(there) + EndLen
  BY DEF Build, Written
<1>18. BuiltLength(g, MessageLength(b)) = SumLens(lens) + EndLen
  <2>1. ~(MessageLength(b) < SumLens(lens) + EndLen)
    BY <1>13, <1>14, <1>15, <1>16 DEF HeaderLen, EndLen
  <2>2. BuiltLength(g, MessageLength(b)) =
          IF MessageLength(b) < SumLens(lens) + EndLen THEN MessageLength(b) ELSE SumLens(lens) + EndLen
    BY DEF BuiltLength
  <2> QED
    BY <2>1, <2>2
<1> HIDE DEF lens, there
<1> QED
  BY <1>5, <1>17, <1>18

\* The walk over a message that ends with a section 7 does not run out of it.
LEMMA WalkEnds ==
  ASSUME Sourced, NEW gm \in Support, Placed(gm), gm.message # Null,
         stream[gm.message[1]][gm.message[2]].edition = 2, WellFormedMessage(gm.message)
  PROVE  Walk(gm).status # "walking"
<1> DEFINE b == gm.message
           n == Steps(gm)
           size == Len(Of(b))
<1>1. IsBlock(b) /\ size \in Nat /\ size # 0 /\ Of(b)[size].num = 7
  <2>1. IsBlock(b) /\ Of(b) \in Seq(Section)
    BY BlockSections DEF Placed
  <2>2. Of(b) # <<>> /\ Of(b)[size].num = 7
    BY DEF WellFormedMessage
  <2> QED
    BY <2>1, <2>2
<1>2. n \in 1..size /\ From(gm) \in Nat /\ From(gm) + n = size
  <2>1. /\ From(gm) \in 0..size /\ n \in Nat /\ From(gm) + n = size
        /\ gm.number = 0 => From(gm) = 0
        /\ gm.number = 7 => From(gm) \in 1..(size - 1)
    BY StartsAt
  <2>2. gm.number \in {0, 7}
    BY SupportTypes
  <2> HIDE DEF n, size
  <2> QED
    BY <1>1, <2>1, <2>2
<1>3. PICK H : WalkedThrough(gm, H)
  BY WalkSteps
<1> DEFINE w == H[n - 1]
           v == H[n]
<1>4. Walk(gm).status = v.status /\ v = Visit(b, w, size)
  <2>1. Walk(gm).status = v.status
    BY <1>3 DEF WalkedThrough
  <2>2. n \in 1..n /\ \A k \in 1..n : H[k] = Visit(b, H[k - 1], From(gm) + k)
    BY <1>2, <1>3 DEF WalkedThrough
  <2> QED
    BY <1>2, <2>1, <2>2
<1>5. w \in WalkRecord
  <2>1. n - 1 \in 0..n
    BY <1>1, <1>2
  <2>2. Walked(gm, w)
    BY <1>3, <2>1, WalkedEach
  <2> QED
    BY <2>2 DEF Walked
<1>6. Turned(b, w, size, v)
  <2>1. size \in 1..size
    BY <1>1
  <2> HIDE DEF w, v
  <2>2. Turned(b, w, size, Visit(b, w, size))
    BY <1>1, <1>5, <2>1, VisitTurns
  <2> QED
    BY <1>4, <2>2
<1> HIDE DEF w, v
<1>7. w.status = "walking" => v.status = "field"
  BY <1>1, <1>6 DEF Turned
<1>8. w.status # "walking" => v.status # "walking"
  BY <1>6 DEF Turned
<1> QED
  BY <1>4, <1>7, <1>8

-----------------------------------------------------------------------------
(* The lengths in the entries *)

\* The lengths and the bitmap in an entry of the source are those of the fields
\* it returned, and of the one it is in.
Weighed(s, gm) ==
    /\ Carried(s, gm)
    /\ gm.message # Null => gm.message \in MessagesOf(s) /\ Measured(gm.message, From(gm), gm)
    /\ gm.number = 7 => gm.sections[0] # Null

\* A handle has the length it declares, and one that will free its message
\* block has a block that no entry goes on with.
HandleWhole(s, h) ==
    /\ Uniform(s) => h.declared = h.written
    /\ h.block # Null => stream[h.block[1]][h.block[2]].edition # 2 \/ ~WellFormedMessage(h.block)

AllWeighed ==
    \A s \in Source :
        /\ Uniform(s) /\ stream[s] # <<>> =>
              \A i \in DOMAIN supports : supports[i].file = s => Weighed(s, supports[i])
        /\ \A i \in DOMAIN out[s] : HandleWhole(s, out[s][i])

\* What is said of the messages stays said.
LEMMA SameMessages ==
  ASSUME stream' = stream
  PROVE  /\ \A s : Uniform(s)' <=> Uniform(s)
         /\ \A b : WellFormedMessage(b)' <=> WellFormedMessage(b)
<1>1. \A b : Of(b)' = Of(b)
  BY DEF Of
<1>2. \A b, e, n : SectionsUpTo(b, e, n)' = SectionsUpTo(b, e, n)
  BY <1>1 DEF SectionsUpTo
<1>3. \A b, I : Own(b, I)' = Own(b, I)
  BY <1>1 DEF Own
<1>4. \A s : MessagesOf(s)' = MessagesOf(s)
  BY DEF MessagesOf
<1>5. \A b, e : Numbers(b, e)' = Numbers(b, e)
  BY <1>1 DEF Numbers
<1>6. \A b : GivesBitmap(b)' <=> GivesBitmap(b)
  BY <1>1, <1>2, <1>3 DEF GivesBitmap
<1>7. \A s : Uniform(s)' <=> Uniform(s)
  BY <1>1, <1>2, <1>3, <1>4, <1>5, <1>6 DEF Uniform
<1>8. \A b : WellFormedMessage(b)' <=> WellFormedMessage(b)
  BY <1>1, <1>2, <1>3 DEF WellFormedMessage
<1> QED
  BY <1>7, <1>8

\* A handle that was returned stays whole.
LEMMA SameHandle ==
  ASSUME stream' = stream, NEW s, NEW h, NEW i, out'[s][i] = h, HandleWhole(s, h)
  PROVE  HandleWhole(s, out[s][i])'
  BY SameMessages DEF HandleWhole

\* An entry that no read touched weighs the same.
LEMMA SameWeight ==
  ASSUME stream' = stream, NEW s, NEW gm, NEW i, supports'[i] = gm, Weighed(s, gm)
  PROVE  Weighed(s, supports[i])'
<1>1. \A b : Of(b)' = Of(b)
  BY DEF Of
<1>2. \A b, e, n : SectionsUpTo(b, e, n)' = SectionsUpTo(b, e, n)
  BY <1>1 DEF SectionsUpTo
<1>3. \A b, I : Own(b, I)' = Own(b, I)
  BY <1>1 DEF Own
<1>4. MessagesOf(s)' = MessagesOf(s)
  BY DEF MessagesOf
<1>5. \A b, e : Numbers(b, e)' = Numbers(b, e)
  BY <1>1 DEF Numbers
<1>6. HasBitmap(s)' <=> HasBitmap(s)
  BY <1>1, <1>2, <1>3, <1>4 DEF HasBitmap, GivesBitmap
<1>7. Used(s)' = Used(s)
  BY <1>1, <1>4, <1>5 DEF Used
<1>8. Carried(s, supports[i])' <=> Carried(s, gm)
  BY <1>6, <1>7 DEF Carried
<1>9. From(supports[i])' = From(gm)
  BY DEF From, First
<1>10. \A b, n, len : IsLength(b, n, len)' <=> IsLength(b, n, len)
  BY <1>1 DEF IsLength
<1>11. \A b, e : Measured(b, e, supports[i])' <=> Measured(b, e, gm)
  BY <1>2, <1>3, <1>5, <1>10 DEF Measured
<1> QED
  BY <1>4, <1>8, <1>9, <1>11 DEF Weighed

\* A new entry has the length of section 0 only.
LEMMA NewWeighed == ASSUME NEW s \in Source PROVE Weighed(s, NewSupport(s))
  BY DEF Weighed, Carried, NewSupport, HeaderLen

\* The entry a read works on is weighed.
LEMMA EntryWeighed ==
  ASSUME Entries, Typed, NEW s \in Source, \A i \in DOMAIN supports : supports[i].file = s => Weighed(s, supports[i])
  PROVE  Weighed(s, Entry(s))
<1> DEFINE all == Supported(s)
           k == FirstOf(all, s)
<1>1. k \in DOMAIN all /\ Entry(s).file = s /\ Entry(s) = all[k]
  BY EntryFound DEF Entry
<1> HIDE DEF k
<1>2. CASE HasSupport(s)
  BY <1>1, <1>2 DEF Supported
<1>3. CASE ~HasSupport(s)
  <2> DEFINE new == NewSupport(s)
  <2>1. all = Append(supports, new) /\ supports \in Seq(Support) /\ new \in Support
    BY <1>3, NewTyped DEF Supported, Typed
  <2> HIDE DEF new, all
  <2>2. all[k] = new \/ (k \in DOMAIN supports /\ all[k] = supports[k])
    BY <1>1, <2>1
  <2> QED
    BY <1>1, <2>2, NewWeighed DEF new
<1> QED
  BY <1>2, <1>3

\* So is the entry with the next message, when that is of edition 2.
LEMMA LoadedWeighed ==
  ASSUME Entries, Typed, NEW s \in Source, InEdition(s, 2),
         \A i \in DOMAIN supports : supports[i].file = s => Weighed(s, supports[i])
  PROVE  Weighed(s, Loaded(s))
<1>1. Entry(s) \in Support /\ Entered(Entry(s)) /\ Weighed(s, Entry(s))
  BY EntryTyped, EntryWeighed
<1>2. CASE MustLoad(s) /\ ~AtEnd(s)
  <2> DEFINE b == <<s, files[s].next>>
             gm == Loaded(s)
  <2>1. gm = [Entry(s) EXCEPT !.message = b]
    BY <1>2 DEF Loaded
  <2>2. Entry(s).number = 0 /\ \A n \in 1..7 : Entry(s).sections[n] = Null
    BY <1>1, <1>2 DEF MustLoad, Entered
  <2>3. stream[s][files[s].next].edition = 2 /\ files[s].next \in DOMAIN stream[s]
    <3>1. files[s].next \in 1..(Len(stream[s]) + 1) /\ ~(files[s].next > Len(stream[s]))
      BY <1>2 DEF Typed, AtEnd
    <3>2. stream[s] \in Seq(Message)
      BY StreamsAssumption DEF Typed, Sourced
    <3>3. gm.message = b
      <4> HIDE DEF b, gm
      <4> QED
        BY <1>1, <2>1 DEF Support
    <3> QED
      BY <3>1, <3>2, <3>3 DEF InEdition, EditionOf
  <2>4. b \in MessagesOf(s)
    BY <2>3 DEF MessagesOf
  <2> HIDE DEF b
  <2>5. gm.message = b /\ gm.number = 0 /\ gm.sections = Entry(s).sections /\ gm.lens = Entry(s).lens
        /\ gm.bitmap = Entry(s).bitmap /\ gm.bitmapLen = Entry(s).bitmapLen
    BY <1>1, <2>1, <2>2 DEF Support
  <2> HIDE DEF gm
  <2>6. From(gm) = 0
    <3>1. gm.sections \in [0..7 -> Ref]
      BY <1>1, <2>5, SupportTypes
    <3> DEFINE ref == <<b, 0>>
    <3>2. First(gm) = [gm.sections EXCEPT ![0] = ref]
      BY <2>5 DEF First
    <3> HIDE DEF ref
    <3>3. First(gm)[0] = ref
      BY <3>1, <3>2
    <3> QED
      BY <2>5, <3>3 DEF From, ref
  <2>7. Numbers(b, 0) = {} /\ Own(b, SectionsUpTo(b, 0, 6)) = {}
    BY DEF Numbers, Own, SectionsUpTo
  <2>8. Measured(b, 0, gm)
    BY <2>2, <2>5, <2>7 DEF Measured
  <2>9. Carried(s, gm)
    BY <1>1, <2>5 DEF Weighed, Carried
  <2>10. Weighed(s, gm)
    BY <2>4, <2>5, <2>6, <2>8, <2>9 DEF Weighed
  <2> QED
    BY <2>10 DEF gm
<1>3. CASE ~(MustLoad(s) /\ ~AtEnd(s))
  BY <1>1, <1>3 DEF Loaded
<1> QED
  BY <1>2, <1>3

\* A walk starts with what is measured.
LEMMA MeasuringStarts ==
  ASSUME Sourced, NEW s \in Source, NEW gm \in Support, Placed(gm), gm.message # Null, Weighed(s, gm)
  PROVE  Measuring(s, gm, 0, Start(gm)) /\ First(gm)[0] # Null
<1> DEFINE b == gm.message
           e == From(gm)
<1>1. Start(gm) \in WalkRecord /\ e \in Nat /\ gm.sections \in [0..7 -> Ref] /\ b \in Source \X Nat
  BY StartsAt, SupportTypes DEF Placed, IsBlock
<1>2. First(gm)[0] # Null /\ \A n \in 1..7 : First(gm)[n] = gm.sections[n]
  <2>1. CASE gm.number = 0
    <3> DEFINE ref == <<b, 0>>
    <3>1. First(gm) = [gm.sections EXCEPT ![0] = ref]
      BY <2>1 DEF First
    <3>2. ref \in (Source \X Nat) \X Nat
      BY <1>1
    <3> HIDE DEF ref
    <3>3. First(gm)[0] = ref /\ \A n \in 1..7 : First(gm)[n] = gm.sections[n]
      BY <1>1, <3>1
    <3> QED
      BY <3>2, <3>3, NullAssumption
  <2>2. CASE gm.number = 7
    BY <2>2 DEF First, Weighed
  <2> QED
    BY <2>1, <2>2, SupportTypes
<1> DEFINE w == Start(gm)
<1>3. /\ w.sections = First(gm) /\ w.lens = gm.lens /\ w.bitmap = gm.bitmap /\ w.bitmapLen = gm.bitmapLen
      /\ w.status = "walking"
  BY DEF Start
<1> HIDE DEF w, e
<1>4. Carried(s, w)
  BY <1>3 DEF Carried, Weighed
<1>5. Measured(b, e, w)
  <2>1. Measured(b, e, gm)
    BY DEF Weighed, e
  <2>2. \A n \in Numbers(b, e) : n \in 1..7
    BY DEF Numbers
  <2>3. \A n \in 1..7 : w.sections[n] = gm.sections[n] /\ w.lens[n] = gm.lens[n]
    BY <1>2, <1>3
  <2> HIDE DEF b
  <2> QED
    BY <1>3, <2>1, <2>2, <2>3 DEF Measured
<1>6. e + 0 = e
  BY <1>1
<1>7. Measuring(s, gm, 0, w)
  BY <1>1, <1>3, <1>4, <1>5, <1>6 DEF Measuring, w, e
<1> QED
  BY <1>2, <1>7 DEF w

\* What a walk over a weighed entry leaves of it, with or without a message to go on with.
LEMMA WalkWeighs ==
  ASSUME Sourced, NEW s \in Source, Uniform(s), NEW gm \in Support, Placed(gm), gm.message # Null,
         Weighed(s, gm)
  PROVE  LET walk == Walk(gm)
         IN  /\ walk.status # "field" => Weighed(s, walk.gm) /\ Weighed(s, [walk.gm EXCEPT !.freed = (s # Null)])
             /\ walk.status = "field" =>
                   Weighed(s, AfterField(walk.gm, walk.at)) /\ Build(walk.gm).declared = Build(walk.gm).written
<1> DEFINE walk == Walk(gm)
           g == walk.gm
           at == walk.at
           b == gm.message
<1>1. b \in MessagesOf(s)
  BY DEF Weighed
<1>2. Measuring(s, gm, 0, Start(gm)) /\ First(gm)[0] # Null
  BY MeasuringStarts
<1>3. /\ Carried(s, g) /\ Measured(b, From(gm), g) /\ g.sections[0] = First(gm)[0]
      /\ walk.status = "field" => at \in 1..Len(Of(b)) /\ Of(b)[at].num = 7 /\ Measured(b, at, g)
  BY <1>1, <1>2, WalkMeasures
<1>4. PICK w : /\ Walked(gm, w) /\ walk.status = w.status /\ at = w.at
               /\ g = [gm EXCEPT !.sections = w.sections, !.lens = w.lens,
                                 !.bitmap = w.bitmap, !.bitmapLen = w.bitmapLen]
  BY WalkTyped
<1>5. g \in Support
  BY WalkedTyped
<1>6. /\ g.message = b /\ g.number = gm.number
      /\ IF walk.status = "field" THEN g.sections[7] = <<b, at>> ELSE g.sections[7] = gm.sections[7]
  <2>1. g.message = b /\ g.number = gm.number /\ g.sections = w.sections
    BY <1>4 DEF Support
  <2> QED
    BY <1>4, <2>1 DEF Walked
<1>7. gm.number \in {0, 7} /\ g.sections[0] # Null
  BY <1>2, <1>3, SupportTypes
<1>8. gm.number = 0 => From(gm) = 0
  BY StartsAt
<1> HIDE DEF walk
<1>9. ASSUME walk.status # "field" PROVE Weighed(s, g) /\ Weighed(s, [g EXCEPT !.freed = (s # Null)])
  <2> HIDE DEF g
  <2>1. From(g) = From(gm)
    <3>1. CASE gm.number = 0
      <4> DEFINE ref == <<b, 0>>
      <4>1. First(g) = [g.sections EXCEPT ![0] = ref] /\ g.sections \in [0..7 -> Ref]
        BY <1>5, <1>6, <3>1, SupportTypes DEF First
      <4> HIDE DEF ref
      <4>2. First(g)[0] = ref
        BY <4>1
      <4>3. From(g) = 0
        BY <1>6, <3>1, <4>2 DEF From, ref
      <4> QED
        BY <1>8, <3>1, <4>3
    <3>2. CASE gm.number = 7
      BY <1>6, <1>9, <3>2 DEF From, First
    <3> QED
      BY <1>7, <3>1, <3>2
  <2>2. Weighed(s, g)
    BY <1>1, <1>3, <1>6, <1>7, <2>1 DEF Weighed
  <2> DEFINE left == [g EXCEPT !.freed = (s # Null)]
  <2>3. /\ left.message = g.message /\ left.number = g.number /\ left.sections = g.sections
        /\ left.lens = g.lens /\ left.bitmap = g.bitmap /\ left.bitmapLen = g.bitmapLen
    BY <1>5 DEF Support
  <2> HIDE DEF left
  <2>4. Weighed(s, left)
    BY <2>2, <2>3 DEF Weighed, Carried, Measured, From, First
  <2> QED
    BY <2>2, <2>4 DEF left
<1>10. ASSUME walk.status = "field" PROVE Weighed(s, AfterField(g, at)) /\ Build(g).declared = Build(g).written
  <2>1. Build(g).declared = Build(g).written
    <3> HIDE DEF g, at, b
    <3> QED
      BY <1>1, <1>3, <1>5, <1>6, <1>7, <1>10, BuiltWhole
  <2>2. CASE HasNext(b, at)
    <3> DEFINE left == [g EXCEPT !.number = 7]
    <3>1. AfterField(g, at) = left
      BY <1>6, <2>2 DEF AfterField
    <3> HIDE DEF g, at
    <3>2. /\ left.message = g.message /\ left.number = 7 /\ left.sections = g.sections
          /\ left.lens = g.lens /\ left.bitmap = g.bitmap /\ left.bitmapLen = g.bitmapLen
      BY <1>5 DEF Support
    <3> HIDE DEF left, b
    <3>3. From(left) = at
      BY <1>6, <1>10, <3>2 DEF From, First
    <3>4. Carried(s, left) /\ Measured(b, at, left)
      BY <1>3, <1>10, <3>2 DEF Carried, Measured
    <3> QED
      BY <1>1, <1>6, <1>7, <2>1, <3>1, <3>2, <3>3, <3>4 DEF Weighed, b
  <2>3. CASE ~HasNext(b, at)
    <3> DEFINE none == [n \in 0..7 |-> Null]
               left == [g EXCEPT !.message = Null, !.number = 0, !.sections = none]
    <3>1. AfterField(g, at) = left
      BY <1>6, <2>3 DEF AfterField, Finish
    <3> HIDE DEF g, at, none
    <3>2. left.message = Null /\ left.number = 0 /\ left.lens = g.lens /\ left.bitmap = g.bitmap
      BY <1>5 DEF Support
    <3> HIDE DEF left
    <3>3. Carried(s, left)
      BY <1>3, <3>2 DEF Carried
    <3> QED
      BY <2>1, <3>1, <3>2, <3>3 DEF Weighed
  <2> QED
    BY <2>1, <2>2, <2>3
<1> QED
  BY <1>9, <1>10 DEF walk

\* After a read, from the entry it leaves and the handle it returns.
LEMMA WeighedAfter ==
  ASSUME Entries, Typed, AllWeighed, NEW s \in Source, Sole(s), NEW left \in Support, left.file = s,
         Uniform(s) => Weighed(s, left), NEW how, NEW handle, HandleWhole(s, handle),
         Returns(s, left, handle) \/ ReturnsNull(s, left, how)
  PROVE  /\ Uniform(s)' => \A i \in DOMAIN supports' : supports'[i].file = s => Weighed(s, supports[i])'
         /\ \A i \in DOMAIN out'[s] : HandleWhole(s, out[s][i])'
<1>1. supports' = SetEntry(s, left) /\ stream' = stream
  BY DEF Returns, ReturnsNull
<1>2. ASSUME Uniform(s)', NEW i \in DOMAIN supports', supports'[i].file = s PROVE Weighed(s, supports[i])'
  <2>1. Uniform(s)
    BY <1>1, <1>2, SameMessages
  <2>2. supports'[i] = left
    BY <1>1, <1>2, OneEntrySet
  <2> QED
    BY <1>1, <2>1, <2>2, SameWeight
<1>3. \A i \in DOMAIN out'[s] : HandleWhole(s, out'[s][i])
  <2>1. PICK S : out \in [Source -> Seq(S)]
    BY DEF Typed
  <2>2. CASE Returns(s, left, handle)
    <3> DEFINE hs == out[s]
    <3>1. out'[s] = Append(hs, handle) /\ hs \in Seq(S)
      BY <2>1, <2>2 DEF Returns
    <3>2. \A i \in DOMAIN hs : HandleWhole(s, hs[i])
      BY DEF AllWeighed
    <3> HIDE DEF hs
    <3>3. \A i \in DOMAIN out'[s] : (i \in DOMAIN hs /\ out'[s][i] = hs[i]) \/ out'[s][i] = handle
      BY <3>1
    <3> QED
      BY <3>2, <3>3
  <2>3. CASE ReturnsNull(s, left, how)
    BY <2>3 DEF ReturnsNull, AllWeighed
  <2> QED
    BY <2>2, <2>3
<1>4. ASSUME NEW i \in DOMAIN out'[s] PROVE HandleWhole(s, out[s][i])'
  BY <1>1, <1>3, SameHandle
<1> QED
  BY <1>2, <1>4

\* Every read of a source keeps it for that source.
LEMMA WeighedRead ==
  ASSUME Entries, Typed, AllWeighed, NEW s \in Source, Sole(s), stream[s] # <<>>,
         \/ EndOfFile(s) \/ ReadEdition1(s) \/ ReadField(s)
         \/ ReadInvalidSection(s) \/ ReadMissingBitmap(s) \/ ReadUnfinished(s)
  PROVE  /\ Uniform(s)' => \A i \in DOMAIN supports' : supports'[i].file = s => Weighed(s, supports[i])'
         /\ \A i \in DOMAIN out'[s] : HandleWhole(s, out[s][i])'
<1>1. ASSUME Uniform(s) PROVE \A i \in DOMAIN supports : supports[i].file = s => Weighed(s, supports[i])
  BY <1>1 DEF AllWeighed
\* A handle for the reads that return none.
<1> DEFINE none == [declared |-> 0, written |-> 0, block |-> Null]
<1>2. HandleWhole(s, none)
  BY DEF HandleWhole
<1>3. CASE EndOfFile(s)
  <2> DEFINE left == Entry(s)
  <2>1. left \in Support /\ left.file = s /\ ReturnsNull(s, left, "end")
    BY <1>3, EntryTyped DEF EndOfFile
  <2>2. Uniform(s) => Weighed(s, left)
    BY <1>1, EntryWeighed
  <2> HIDE DEF left, none
  <2> QED
    BY <1>2, <2>1, <2>2, WeighedAfter
<1>4. CASE ReadEdition1(s)
  <2> DEFINE gm == Loaded(s)
             left == [gm EXCEPT !.message = Null]
             handle == Whole(gm.message)
  <2>1. gm \in Support /\ gm.file = s /\ gm.number = 0 /\ Returns(s, left, handle) /\ EditionOf(s) = 1
    BY <1>4, LoadedTyped, LoadedEntry DEF ReadEdition1, InEdition, HandOver
  <2>2. HandleWhole(s, handle)
    BY <2>1 DEF HandleWhole, Whole, EditionOf
  <2>3. Uniform(s) => Carried(s, gm)
    <3>1. Entry(s) \in Support /\ (Uniform(s) => Carried(s, Entry(s)))
      BY <1>1, EntryTyped, EntryWeighed DEF Weighed
    <3>2. gm.lens = Entry(s).lens /\ gm.bitmap = Entry(s).bitmap
      <4> DEFINE next == <<s, files[s].next>>
      <4>1. gm = [Entry(s) EXCEPT !.message = next] \/ gm = Entry(s)
        BY DEF Loaded
      <4> HIDE DEF gm, next
      <4> QED
        BY <3>1, <4>1 DEF Support
    <3> HIDE DEF gm
    <3> QED
      BY <3>1, <3>2 DEF Carried
  <2> HIDE DEF gm, handle
  <2>4. left \in Support /\ left.file = s /\ left.message = Null /\ left.number = 0
        /\ left.lens = gm.lens /\ left.bitmap = gm.bitmap
    BY <2>1 DEF Support
  <2> HIDE DEF left
  <2>5. Uniform(s) => Weighed(s, left)
    BY <2>3, <2>4 DEF Weighed, Carried
  <2> QED
    BY <2>1, <2>2, <2>4, <2>5, WeighedAfter
<1>5. CASE ReadField(s) \/ ReadInvalidSection(s) \/ ReadMissingBitmap(s) \/ ReadUnfinished(s)
  <2> DEFINE gm == Loaded(s)
             walk == Walk(gm)
             g == walk.gm
             freed == [g EXCEPT !.freed = (s # Null)]
             after == AfterField(g, walk.at)
  <2>1. InEdition(s, 2)
    BY <1>5 DEF ReadField, ReadInvalidSection, ReadMissingBitmap, ReadUnfinished
  <2>2. /\ gm \in Support /\ gm.file = s /\ Placed(gm) /\ gm.message # Null /\ Sourced
        /\ stream[gm.message[1]][gm.message[2]].edition = 2
    BY <2>1, LoadedTyped, LoadedEntry DEF InEdition, EditionOf, Typed
  <2>3. Uniform(s) => Weighed(s, gm)
    BY <1>1, <2>1, LoadedWeighed
  <2>4. /\ g \in Support /\ (walk.status = "field" => after \in Support)
    <3> HIDE DEF gm
    <3> QED
      BY <2>2, WalkedTyped
  <2>5. ASSUME Uniform(s)
        PROVE  /\ walk.status # "field" => Weighed(s, g) /\ Weighed(s, freed)
               /\ walk.status = "field" => Weighed(s, after) /\ Build(g).declared = Build(g).written
    <3> HIDE DEF gm
    <3> QED
      BY <2>2, <2>3, <2>5, WalkWeighs
  <2>6. g.file = s
    <3> HIDE DEF gm
    <3>1. PICK w : g = [gm EXCEPT !.sections = w.sections, !.lens = w.lens,
                                  !.bitmap = w.bitmap, !.bitmapLen = w.bitmapLen]
      BY <2>2, WalkTyped
    <3> QED
      BY <2>2, <3>1 DEF Support
  <2>7. walk.status = "walking" => ~WellFormedMessage(gm.message)
    <3> HIDE DEF gm
    <3> QED
      BY <2>2, WalkEnds
  <2>8. freed \in Support /\ freed.file = s /\ after.file = s
    <3> HIDE DEF g
    <3>1. freed \in Support /\ freed.file = s
      BY <2>4, <2>6 DEF Support
    <3>2. after.file = s
      BY <2>4, <2>6 DEF AfterField, Finish, Support
    <3> QED
      BY <3>1, <3>2
  <2>9. CASE ReadField(s)
    <3> DEFINE handle == Build(g)
    <3>1. walk.status = "field" /\ Returns(s, after, handle)
      BY <2>9 DEF ReadField
    <3>2. HandleWhole(s, handle)
      <4>1. handle.block = Null
        BY DEF Build
      <4> HIDE DEF handle, walk
      <4> QED
        BY <2>5, <3>1, <4>1 DEF HandleWhole, handle
    <3> HIDE DEF handle, after, g, walk
    <3> QED
      BY <2>4, <2>5, <2>8, <3>1, <3>2, WeighedAfter
  <2>10. CASE ReadInvalidSection(s)
    <3>1. walk.status = "invalid" /\ ReturnsNull(s, g, "null")
      BY <2>10 DEF ReadInvalidSection
    <3> HIDE DEF none, g, walk, freed, after
    <3> QED
      BY <1>2, <2>4, <2>5, <2>6, <3>1, WeighedAfter
  <2>11. CASE ReadMissingBitmap(s)
    <3>1. walk.status = "no bitmap" /\ ReturnsNull(s, freed, "null")
      BY <2>11 DEF ReadMissingBitmap
    <3> HIDE DEF none, g, walk, freed, after
    <3> QED
      BY <1>2, <2>5, <2>8, <3>1, WeighedAfter
  <2>12. CASE ReadUnfinished(s)
    <3> DEFINE handle == Whole(gm.message)
    <3>1. walk.status = "walking" /\ Returns(s, g, handle)
      BY <2>12 DEF ReadUnfinished
    <3>2. HandleWhole(s, handle)
      BY <2>7, <3>1 DEF HandleWhole, Whole
    <3> HIDE DEF handle, g, walk, freed, after
    <3> QED
      BY <2>4, <2>5, <2>6, <3>1, <3>2, WeighedAfter
  <2> QED
    BY <1>5, <2>9, <2>10, <2>11, <2>12
<1> QED
  BY <1>3, <1>4, <1>5

\* Every step keeps it, for entries and for handles.
LEMMA AllWeighedStep ==
  ASSUME MemoryNow, Entries, Typed, AllTold, AllWeighed, [Next]_vars
  PROVE  AllWeighed'
<1>1. stream' = stream
  BY DEF Next, vars, Open, Rewind, Close, Restart, ResetFile, EndOfFile, ReadEdition1, ReadField,
         ReadInvalidSection, ReadMissingBitmap, ReadUnfinished, Returns, ReturnsNull
<1> DEFINE EntriesOf(s) == Uniform(s)' /\ stream[s] # <<>> =>
             \A i \in DOMAIN supports' : supports'[i].file = s => Weighed(s, supports[i])'
           HandlesOf(s) == \A i \in DOMAIN out'[s] : HandleWhole(s, out[s][i])'
<1>2. SUFFICES ASSUME NEW s \in Source PROVE EntriesOf(s) /\ HandlesOf(s)
  BY <1>1 DEF AllWeighed
<1>3. ASSUME out'[s] = out[s] PROVE HandlesOf(s)
  <2> SUFFICES ASSUME NEW i \in DOMAIN out'[s] PROVE HandleWhole(s, out[s][i])'
    OBVIOUS
  <2>1. HandleWhole(s, out[s][i]) /\ out'[s][i] = out[s][i]
    BY <1>3 DEF AllWeighed
  <2> QED
    BY <1>1, <2>1, SameHandle
<1>4. ASSUME \A i \in DOMAIN supports' : supports'[i].file = s => i \in DOMAIN supports /\ supports[i] = supports'[i]
      PROVE  EntriesOf(s)
  <2> SUFFICES ASSUME Uniform(s)', stream[s] # <<>>, NEW i \in DOMAIN supports', supports'[i].file = s
               PROVE  Weighed(s, supports[i])'
    OBVIOUS
  <2>1. Uniform(s)
    BY <1>1, SameMessages
  <2>2. supports'[i] = supports[i] /\ Weighed(s, supports[i])
    BY <1>4, <2>1 DEF AllWeighed
  <2> QED
    BY <1>1, <2>2, SameWeight
<1>5. ASSUME NEW r \in Source,
             \/ EndOfFile(r) \/ ReadEdition1(r) \/ ReadField(r)
             \/ ReadInvalidSection(r) \/ ReadMissingBitmap(r) \/ ReadUnfinished(r)
      PROVE  EntriesOf(s) /\ HandlesOf(s)
  <2>1. /\ Readable(r)
        /\ \A q \in Source : q # r => out'[q] = out[q] /\ SameEntries(q)
    BY <1>5, ReadOne
  <2>2. CASE s # r
    BY <1>3, <1>4, <2>1, <2>2 DEF SameEntries
  <2>3. CASE s = r
    <3>1. stream[s] # <<>> /\ Sole(s)
      BY <2>1, <2>3 DEF AllTold, Quiet, Readable
    <3> QED
      BY <1>5, <2>3, <3>1, WeighedRead
  <2> QED
    BY <2>2, <2>3
<1>6. ASSUME NEW r \in Source, Open(r) \/ Rewind(r) \/ Close(r) PROVE EntriesOf(s) /\ HandlesOf(s)
  <2>1. PICK open \in BOOLEAN : Restart(r, open)
    BY <1>6 DEF Open, Rewind, Close
  <2>2. supports' = supports /\ out' = [out EXCEPT ![r] = <<>>] /\ DOMAIN out = Source
    BY <2>1 DEF Restart, Typed
  <2>3. EntriesOf(s)
    BY <1>4, <2>2
  <2>4. CASE s = r
    BY <2>2, <2>3, <2>4
  <2>5. CASE s # r
    BY <1>3, <2>2, <2>3, <2>5
  <2> QED
    BY <2>4, <2>5
<1>7. ASSUME NEW f \in Source, ResetFile(f) PROVE EntriesOf(s) /\ HandlesOf(s)
  <2>1. /\ f \in Resettable /\ HasSupport(f) /\ out' = out
        /\ supports' = [i \in DOMAIN supports |->
                          IF supports[i].file = f THEN [supports[i] EXCEPT !.file = Null] ELSE supports[i]]
    BY <1>7 DEF ResetFile
  <2>2. f # Null /\ stream[f] # <<>>
    BY <2>1, StreamsAssumption DEF AllTold, Quiet, Sourced
  <2>3. stream[Null] = <<>>
    BY <2>1, <2>2 DEF MemoryNow
  <2>4. HandlesOf(s)
    BY <1>3, <2>1
  <2>5. CASE s = Null
    BY <2>3, <2>4, <2>5
  <2>6. CASE s # Null
    <3>1. ASSUME NEW i \in DOMAIN supports', supports'[i].file = s
          PROVE  i \in DOMAIN supports /\ supports[i] = supports'[i]
      <4> DEFINE gm == supports[i]
      <4>1. i \in DOMAIN supports /\ gm \in Support
        BY <2>1 DEF Typed
      <4>2. supports'[i] = IF gm.file = f THEN [gm EXCEPT !.file = Null] ELSE gm
        BY <2>1, <4>1
      <4> HIDE DEF gm
      <4>3. gm.file = f => supports'[i].file = Null
        BY <4>1, <4>2 DEF Support
      <4> QED
        BY <2>6, <3>1, <4>1, <4>2, <4>3 DEF gm
    <3> QED
      BY <1>4, <2>4, <3>1
  <2> QED
    BY <2>5, <2>6
<1>8. CASE UNCHANGED vars
  BY <1>3, <1>4, <1>8 DEF vars
<1> QED
  BY <1>5, <1>6, <1>7, <1>8 DEF Next

\* The length that the section 0 of a field declares is that of its bytes, for
\* messages whose fields have the same sections, and a handle that frees a message
\* block frees one that no entry goes on with, however reads of several sources,
\* of damaged messages too, are interleaved and their files rewound and reset.
THEOREM HandlesAreWholeCorrect == ASSUME MemoryApart PROVE Spec => []HandlesAreWhole
<1> DEFINE Inv == Entries /\ Typed /\ MemoryNow /\ AllTold /\ AllWeighed
<1>1. Init => Inv
  <2>1. Init => AllWeighed
    BY DEF Init, Started, AllWeighed
  <2>2. Init => MemoryNow
    BY StreamsAssumption DEF Init, MemoryApart, MemoryNow, Sourced
  <2> QED
    BY <2>1, <2>2, StreamsAssumption, InitTyped, InitAllTold DEF Init, Sourced
<1>2. Inv /\ [Next]_vars => Inv'
  BY EntriesStep, TypedStep, SameStream, AllToldStep, AllWeighedStep DEF MemoryNow
<1>3. Inv => HandlesAreWhole
  <2> SUFFICES ASSUME Inv, NEW s \in Source, NEW i \in DOMAIN out[s]
               PROVE  LET b == out[s][i].block
                      IN  /\ Uniform(s) => out[s][i].declared = out[s][i].written
                          /\ b # Null /\ WellFormedMessage(b) => \A j \in DOMAIN supports : supports[j].message # b
    BY DEF HandlesAreWhole
  <2> DEFINE b == out[s][i].block
  <2>1. HandleWhole(s, out[s][i])
    BY DEF AllWeighed
  <2>2. ASSUME b # Null, WellFormedMessage(b), NEW j \in DOMAIN supports PROVE supports[j].message # b
    <3>1. stream[b[1]][b[2]].edition # 2
      BY <2>1, <2>2 DEF HandleWhole
    <3> QED
      BY <2>2, <3>1 DEF Entries, Entered
  <2> QED
    BY <2>1, <2>2 DEF HandleWhole
<1> QED
  BY <1>1, <1>2, <1>3, PTL DEF Spec

-----------------------------------------------------------------------------
(* What is written comes back: the sections of a handle and their names *)

\* The sections that handles have.
Piece == UNION {{h[i] : i \in DOMAIN h} : h \in Handles}

\* A list of sections that ends a field.
Closed(secs) == secs \in Seq(Piece) /\ secs # <<>> /\ secs[Len(secs)].num = 7

\* The names of the field that ends at section e: for each number the last one.
NameAt(secs, e) ==
    [n \in {secs[i].num : i \in 1..e} |-> secs[Max({i \in 1..e : secs[i].num = n})].id]

NameEnding(secs, j) == IF secs[j].num = 7 THEN <<NameAt(secs, j)>> ELSE <<>>

\* Those of the fields of a list of sections up to e, and of k messages.
NamesUpTo(secs, e) == FlattenSeq([j \in 1..e |-> NameEnding(secs, j)])
NamesIn(secs) == NamesUpTo(secs, Len(secs))
NamesFirst(ms, k) == FlattenSeq([i \in 1..k |-> NamesIn(ms[i].sections)])

Names == {NameAt(secs, e) : secs \in Seq(Piece), e \in Nat}

\* What OneField says of each section.
LEMMA PieceParts == ASSUME NEW p \in Piece PROVE p.num \in 1..7 /\ p.len \in Nat /\ p.inherits = FALSE
<1>1. PICK h \in Handles : p \in {h[i] : i \in DOMAIN h}
  BY DEF Piece
<1>2. PICK i \in DOMAIN h : p = h[i]
  BY <1>1
<1>3. OneField(h)
  BY HandlesAssumption
<1> QED
  BY <1>2, <1>3 DEF OneField

\* A handle ends a field.
LEMMA HandleParts ==
  ASSUME NEW h \in Handles
  PROVE  /\ h \in Seq(Piece) /\ Len(h) \in Nat \ {0} /\ DOMAIN h = 1..Len(h) /\ Closed(h)
         /\ \A i \in 1..Len(h) : h[i].num \in 1..7
         /\ \A i, j \in 1..Len(h) : i < j => h[i].num < h[j].num
         /\ (1..7) \ {2} \subseteq {h[i].num : i \in 1..Len(h)}
<1>1. OneField(h)
  BY HandlesAssumption
<1>2. h \in Seq(Piece)
  <2>1. {h[i] : i \in DOMAIN h} \subseteq Piece
    BY DEF Piece
  <2> DEFINE own == {h[i] : i \in DOMAIN h}
  <2>2. h \in Seq(own)
    BY <1>1 DEF OneField
  <2>3. own \subseteq Piece
    BY <2>1
  <2> HIDE DEF own
  <2>4. Len(h) \in Nat /\ h \in [1..Len(h) -> own]
    BY <2>2
  <2>5. h \in [1..Len(h) -> Piece]
    BY <2>3, <2>4
  <2> QED
    BY <2>4, <2>5
<1>3. Len(h) \in Nat /\ DOMAIN h = 1..Len(h)
  BY <1>2
<1>4. /\ \A i \in 1..Len(h) : h[i].num \in 1..7
      /\ \A i, j \in 1..Len(h) : i < j => h[i].num < h[j].num
      /\ (1..7) \ {2} \subseteq {h[i].num : i \in 1..Len(h)}
  BY <1>1, <1>3 DEF OneField
<1>5. PICK k \in 1..Len(h) : h[k].num = 7
  BY <1>4
<1>6. ASSUME k < Len(h) PROVE FALSE
  <2>1. Len(h) \in 1..Len(h) /\ k \in 1..Len(h)
    BY <1>3
  <2>2. h[k].num < h[Len(h)].num /\ h[Len(h)].num \in 1..7
    BY <1>4, <1>6, <2>1
  <2> QED
    BY <1>5, <2>2
<1>7. Len(h) # 0 /\ h # <<>>
  BY <1>3, <1>5
<1>8. k = Len(h)
  <2>1. k \in 1..Len(h)
    BY <1>5
  <2>2. \A m \in Nat : \A j \in 1..m : ~(j < m) => j = m
    OBVIOUS
  <2> QED
    BY <1>3, <1>6, <2>1, <2>2
<1> QED
  BY <1>2, <1>3, <1>4, <1>5, <1>7, <1>8 DEF Closed

\* One section more: the names of the field it ends, if it ends one, come last.
LEMMA NamesNext ==
  ASSUME NEW secs \in Seq(Piece), NEW e \in Nat
  PROVE  /\ NamesUpTo(secs, 0) = <<>>
         /\ NamesUpTo(secs, e) \in Seq(Names)
         /\ NameEnding(secs, e + 1) \in Seq(Names)
         /\ NamesUpTo(secs, e + 1) = NamesUpTo(secs, e) \o NameEnding(secs, e + 1)
<1>1. ASSUME NEW j \in Nat PROVE NameEnding(secs, j) \in Seq(Names)
  <2>1. NameAt(secs, j) \in Names
    BY DEF Names
  <2>2. <<NameAt(secs, j)>> \in Seq(Names) /\ <<>> \in Seq(Names)
    BY <2>1
  <2> QED
    BY <2>2 DEF NameEnding
<1> DEFINE q == [j \in 1..(e + 1) |-> NameEnding(secs, j)]
           r == [j \in 1..e |-> NameEnding(secs, j)]
<1>2. q \in [1..(e + 1) -> Seq(Names)] /\ r \in [1..e -> Seq(Names)]
  <2>1. \A j \in 1..(e + 1) : NameEnding(secs, j) \in Seq(Names)
    BY <1>1
  <2>2. \A j \in 1..e : NameEnding(secs, j) \in Seq(Names)
    BY <1>1
  <2> QED
    BY <2>1, <2>2
<1>3. (\A j \in 1..e : r[j] = q[j]) /\ q[e + 1] = NameEnding(secs, e + 1)
  OBVIOUS
<1>4. NamesUpTo(secs, e) = FlattenSeq(r) /\ NamesUpTo(secs, e + 1) = FlattenSeq(q)
  BY DEF NamesUpTo
<1> HIDE DEF q, r
<1>5. FlattenSeq(r) \in Seq(Names) /\ FlattenSeq(q) = FlattenSeq(r) \o q[e + 1]
  BY <1>2, <1>3, FlattenAnother
<1>6. NamesUpTo(secs, 0) = <<>>
  <2> DEFINE none == [j \in 1..0 |-> NameEnding(secs, j)]
  <2>1. none = <<>>
    OBVIOUS
  <2> HIDE DEF none
  <2>2. FlattenSeq(none) = <<>>
    BY <2>1, FlattenEmpty
  <2> QED
    BY <2>2 DEF NamesUpTo, none
<1>7. NameEnding(secs, e + 1) \in Seq(Names)
  <2>1. e + 1 \in Nat
    OBVIOUS
  <2> QED
    BY <1>1, <2>1
<1> QED
  BY <1>3, <1>4, <1>5, <1>6, <1>7

\* One message more: the names of its fields come last.
LEMMA NamesMore ==
  ASSUME NEW k \in Nat, NEW ms, \A i \in 1..(k + 1) : ms[i].sections \in Seq(Piece)
  PROVE  /\ NamesFirst(ms, 0) = <<>>
         /\ NamesFirst(ms, k) \in Seq(Names)
         /\ NamesIn(ms[k + 1].sections) \in Seq(Names)
         /\ NamesFirst(ms, k + 1) = NamesFirst(ms, k) \o NamesIn(ms[k + 1].sections)
<1>1. ASSUME NEW i \in 1..(k + 1) PROVE NamesIn(ms[i].sections) \in Seq(Names)
  <2> DEFINE secs == ms[i].sections
  <2>1. secs \in Seq(Piece) /\ Len(secs) \in Nat
    OBVIOUS
  <2> HIDE DEF secs
  <2>2. NamesUpTo(secs, Len(secs)) \in Seq(Names)
    BY <2>1, NamesNext
  <2> QED
    BY <2>2 DEF NamesIn, secs
<1> DEFINE q == [i \in 1..(k + 1) |-> NamesIn(ms[i].sections)]
           r == [i \in 1..k |-> NamesIn(ms[i].sections)]
<1>2. q \in [1..(k + 1) -> Seq(Names)]
  BY <1>1
<1>3. r \in [1..k -> Seq(Names)]
  <2>1. \A i \in 1..k : i \in 1..(k + 1)
    OBVIOUS
  <2> QED
    BY <1>1, <2>1
<1>4. (\A i \in 1..k : r[i] = q[i]) /\ q[k + 1] = NamesIn(ms[k + 1].sections)
  OBVIOUS
<1>5. NamesFirst(ms, k) = FlattenSeq(r) /\ NamesFirst(ms, k + 1) = FlattenSeq(q)
  BY DEF NamesFirst
<1> HIDE DEF q, r
<1>6. FlattenSeq(r) \in Seq(Names) /\ FlattenSeq(q) = FlattenSeq(r) \o q[k + 1]
  BY <1>2, <1>3, <1>4, FlattenAnother
<1>7. NamesFirst(ms, 0) = <<>>
  <2> DEFINE none == [i \in 1..0 |-> NamesIn(ms[i].sections)]
  <2>1. none = <<>>
    OBVIOUS
  <2> HIDE DEF none
  <2>2. FlattenSeq(none) = <<>>
    BY <2>1, FlattenEmpty
  <2> QED
    BY <2>2 DEF NamesFirst, none
<1>8. NamesIn(ms[k + 1].sections) \in Seq(Names)
  <2>1. k + 1 \in 1..(k + 1)
    OBVIOUS
  <2> QED
    BY <1>1, <2>1
<1> QED
  BY <1>4, <1>5, <1>6, <1>7, <1>8

\* The names up to e are said by the sections up to e.
LEMMA NamesSame ==
  ASSUME NEW e \in Nat, NEW secs, NEW more, \A i \in 1..e : more[i] = secs[i]
  PROVE  NamesUpTo(more, e) = NamesUpTo(secs, e) /\ NameAt(more, e) = NameAt(secs, e)
<1>1. ASSUME NEW j \in 0..e PROVE NameAt(more, j) = NameAt(secs, j)
  <2>1. \A i \in 1..j : more[i] = secs[i]
    OBVIOUS
  <2>2. {more[i].num : i \in 1..j} = {secs[i].num : i \in 1..j}
    BY <2>1
  <2>3. ASSUME NEW n \in {secs[i].num : i \in 1..j}
        PROVE  more[Max({i \in 1..j : more[i].num = n})].id = secs[Max({i \in 1..j : secs[i].num = n})].id
    <3> DEFINE all == {i \in 1..j : secs[i].num = n}
    <3>1. {i \in 1..j : more[i].num = n} = all
      BY <2>1
    <3>2. all \in SUBSET (1..j) /\ all # {} /\ j \in Nat
      OBVIOUS
    <3> HIDE DEF all
    <3>3. Max(all) \in 1..j
      BY <3>2, MaxOf
    <3> QED
      BY <2>1, <3>1, <3>3 DEF all
  <2> QED
    BY <2>2, <2>3 DEF NameAt
<1>2. \A j \in 1..e : NameEnding(more, j) = NameEnding(secs, j)
  <2> SUFFICES ASSUME NEW j \in 1..e PROVE NameEnding(more, j) = NameEnding(secs, j)
    OBVIOUS
  <2>1. j \in 0..e /\ more[j] = secs[j]
    OBVIOUS
  <2> QED
    BY <1>1, <2>1 DEF NameEnding
<1>3. [j \in 1..e |-> NameEnding(more, j)] = [j \in 1..e |-> NameEnding(secs, j)]
  BY <1>2
<1>4. e \in 0..e
  OBVIOUS
<1> QED
  BY <1>1, <1>3, <1>4 DEF NamesUpTo

\* Sections that end no field add no names.
LEMMA NamesQuiet ==
  ASSUME NEW secs \in Seq(Piece), NEW e \in Nat, NEW m \in Nat, e <= m,
         \A j \in (e + 1)..m : secs[j].num # 7
  PROVE  NamesUpTo(secs, m) = NamesUpTo(secs, e)
<1> DEFINE same == {d \in Nat : NamesUpTo(secs, e + d) = NamesUpTo(secs, e)}
           n == m - e
<1>1. 0 \in same /\ n \in Nat /\ e + n = m
  OBVIOUS
<1>2. ASSUME NEW d \in 0..(n - 1), d \in same PROVE d + 1 \in same
  <2>1. e + d \in Nat /\ e + (d + 1) = (e + d) + 1 /\ (e + d) + 1 \in (e + 1)..m
    BY <1>1
  <2>2. /\ NamesUpTo(secs, (e + d) + 1) = NamesUpTo(secs, e + d) \o NameEnding(secs, (e + d) + 1)
        /\ NamesUpTo(secs, e + d) \in Seq(Names)
    BY <2>1, NamesNext
  <2>3. NameEnding(secs, (e + d) + 1) = <<>>
    BY <2>1 DEF NameEnding
  <2> DEFINE x == NamesUpTo(secs, e + d)
  <2>4. x \in Seq(Names)
    BY <2>2
  <2> HIDE DEF x
  <2>5. x \o <<>> = x
    BY <2>4
  <2>6. NamesUpTo(secs, e + (d + 1)) = NamesUpTo(secs, e + d)
    BY <2>1, <2>2, <2>3, <2>5 DEF x
  <2> QED
    BY <1>2, <2>6
<1> HIDE DEF same, n
<1>3. \A d \in 0..n : d \in same
  BY <1>1, <1>2, Induction
<1>4. n \in 0..n
  BY <1>1
<1>5. NamesUpTo(secs, e + n) = NamesUpTo(secs, e)
  BY <1>3, <1>4 DEF same
<1> QED
  BY <1>1, <1>5

\* The sum is the same in both modules.
LEMMA TotalSum == ASSUME NEW n, NEW w PROVE Writer!Total([i \in 1..n |-> w[i]]) = SumTo(w, n)
  BY DEF Writer!Total, Writer!FoldLeft, Writer!MapThenFoldSet, Writer!Max, SumTo, FoldLeft, MapThenFoldSet, Max

\* The lengths of sections add up.
LEMMA LensOf ==
  ASSUME NEW secs \in Seq(Piece), NEW lens, lens = [i \in 1..Len(secs) |-> secs[i].len]
  PROVE  /\ Len(secs) \in Nat /\ \A i \in 1..Len(secs) : lens[i] \in Nat /\ lens[i] = secs[i].len
         /\ Writer!Lens(secs) = SumTo(lens, Len(secs))
         /\ Writer!Lens(secs) \in Nat
<1>1. Len(secs) \in Nat /\ DOMAIN secs = 1..Len(secs) /\ \A i \in 1..Len(secs) : secs[i] \in Piece
  OBVIOUS
<1>2. \A i \in 1..Len(secs) : lens[i] \in Nat /\ lens[i] = secs[i].len
  BY <1>1, PieceParts
<1>3. Writer!Lens(secs) = SumTo(lens, Len(secs))
  <2>1. Writer!Lens(secs) = Writer!Total(lens)
    BY <1>1 DEF Writer!Lens
  <2>2. lens = [i \in 1..Len(secs) |-> lens[i]]
    BY <1>2
  <2> QED
    BY <2>1, <2>2, TotalSum, Zenon
<1>4. SumTo(lens, Len(secs)) \in Nat
  <2> DEFINE n == Len(secs)
  <2>1. n \in Nat /\ n \in 0..n /\ \A k \in 1..n : lens[k] \in Nat
    BY <1>1, <1>2
  <2> HIDE DEF n
  <2>2. SumTo(lens, n) \in Nat
    BY <2>1, SumGrows
  <2> QED
    BY <2>2 DEF n
<1> QED
  BY <1>1, <1>2, <1>3, <1>4

\* The numbers z are the first a of x, and then the first b of y.
Behind(z, x, a, y, b) ==
    /\ a \in Nat /\ b \in Nat
    /\ \A k \in 1..a : z[k] = x[k]
    /\ \A k \in 1..b : z[a + k] = y[k]
    /\ \A k \in 1..a : x[k] \in Int
    /\ \A k \in 1..b : y[k] \in Int

\* The sum of both is the sum of their sums.
LEMMA SumsBehind ==
  ASSUME NEW z, NEW x, NEW a, NEW y, NEW b, Behind(z, x, a, y, b)
  PROVE  SumTo(z, a + b) = SumTo(x, a) + SumTo(y, b)
  BY SumBehind DEF Behind

\* The lengths of two lists of sections, one behind the other.
LEMMA LensBoth ==
  ASSUME NEW secs \in Seq(Piece), NEW part \in Seq(Piece)
  PROVE  Writer!Lens(secs \o part) = Writer!Lens(secs) + Writer!Lens(part)
<1> DEFINE size == Len(secs)
           rest == Len(part)
           ours == [i \in 1..Len(secs) |-> secs[i].len]
           theirs == [i \in 1..Len(part) |-> part[i].len]
           more == secs \o part
           both == [i \in 1..Len(more) |-> more[i].len]
<1>1. /\ more \in Seq(Piece) /\ Len(more) = size + rest /\ size \in Nat /\ rest \in Nat
      /\ \A i \in 1..size : more[i] = secs[i]
      /\ \A i \in 1..rest : more[size + i] = part[i]
  BY Concatenated
<1>2. /\ Writer!Lens(secs) = SumTo(ours, size) /\ Writer!Lens(part) = SumTo(theirs, rest)
      /\ Writer!Lens(more) = SumTo(both, size + rest)
      /\ \A i \in 1..size : ours[i] \in Nat /\ ours[i] = secs[i].len
      /\ \A i \in 1..rest : theirs[i] \in Nat /\ theirs[i] = part[i].len
      /\ \A i \in 1..(size + rest) : both[i] = more[i].len
  <2>1. Writer!Lens(secs) = SumTo(ours, size) /\ \A i \in 1..size : ours[i] \in Nat /\ ours[i] = secs[i].len
    <3> HIDE DEF more, both, theirs
    <3> QED
      BY LensOf
  <2>2. Writer!Lens(part) = SumTo(theirs, rest) /\ \A i \in 1..rest : theirs[i] \in Nat /\ theirs[i] = part[i].len
    <3> HIDE DEF more, both, ours
    <3> QED
      BY LensOf
  <2>3. Writer!Lens(more) = SumTo(both, Len(more)) /\ \A i \in 1..Len(more) : both[i] = more[i].len
    <3> HIDE DEF more, theirs, ours
    <3> QED
      BY <1>1, LensOf
  <2> HIDE DEF more, both, theirs, ours
  <2> QED
    BY <1>1, <2>1, <2>2, <2>3
<1> HIDE DEF more, both, theirs, ours, size, rest
<1>3. (\A k \in 1..size : both[k] = ours[k]) /\ \A k \in 1..rest : both[size + k] = theirs[k]
  <2>1. \A k \in 1..size : k \in 1..(size + rest)
    BY <1>1
  <2>2. \A k \in 1..rest : size + k \in 1..(size + rest)
    BY <1>1
  <2> QED
    BY <1>1, <1>2, <2>1, <2>2
<1>4. (\A k \in 1..size : ours[k] \in Int) /\ \A k \in 1..rest : theirs[k] \in Int
  BY <1>2
<1>5. SumTo(both, size + rest) = SumTo(ours, size) + SumTo(theirs, rest)
  <2>1. size \in Nat /\ rest \in Nat
    BY <1>1
  <2>2. \A k \in 1..size : both[k] = ours[k]
    BY <1>3
  <2>3. \A k \in 1..rest : both[size + k] = theirs[k]
    BY <1>3
  <2>4. \A k \in 1..size : ours[k] \in Int
    BY <1>4
  <2>5. \A k \in 1..rest : theirs[k] \in Int
    BY <1>4
  <2>6. Behind(both, ours, size, theirs, rest)
    BY <2>1, <2>2, <2>3, <2>4, <2>5 DEF Behind
  <2> QED
    BY <2>6, SumsBehind
<1> QED
  BY <1>2, <1>5 DEF more

\* Where the section of a number is; there is one only.
LEMMA PlaceFound ==
  ASSUME NEW h \in Handles, NEW n, Writer!HasSection(h, n)
  PROVE  /\ Writer!PlaceOf(h, n) \in 1..Len(h) /\ h[Writer!PlaceOf(h, n)].num = n
         /\ \A i \in 1..Len(h) : h[i].num = n => i = Writer!PlaceOf(h, n)
<1>1. DOMAIN h = 1..Len(h) /\ Len(h) \in Nat
  BY HandleParts
<1>2. \E i \in 1..Len(h) : h[i].num = n
  BY <1>1 DEF Writer!HasSection
<1>3. Writer!PlaceOf(h, n) \in 1..Len(h) /\ h[Writer!PlaceOf(h, n)].num = n
  BY <1>1, <1>2 DEF Writer!PlaceOf
<1> DEFINE p == Writer!PlaceOf(h, n)
<1>4. ASSUME NEW i \in 1..Len(h), h[i].num = n PROVE i = p
  <2> HIDE DEF p
  <2>1. p \in 1..Len(h) /\ h[p].num = n
    BY <1>3 DEF p
  <2>2. \A a, b \in 1..Len(h) : a < b => h[a].num < h[b].num
    BY HandleParts
  <2>3. h[i].num \in 1..7
    BY HandleParts
  <2>4. ~(i < p)
    BY <1>4, <2>1, <2>2, <2>3
  <2>5. ~(p < i)
    BY <1>4, <2>1, <2>2, <2>3
  <2> QED
    BY <1>1, <2>1, <2>4, <2>5
<1> QED
  BY <1>3, <1>4

\* A whole message has one field, with the names of its sections.
LEMMA NamesWhole ==
  ASSUME NEW h \in Handles
  PROVE  /\ NamesIn(h) = <<NameAt(h, Len(h))>>
         /\ NameAt(h, Len(h)) = Writer!FieldOf(Writer!NoField, h, 0)
<1> DEFINE n == Len(h)
           m == n - 1
<1>1. /\ h \in Seq(Piece) /\ n \in Nat \ {0} /\ DOMAIN h = 1..n /\ h[n].num = 7
      /\ \A i \in 1..n : h[i].num \in 1..7
      /\ \A i, j \in 1..n : i < j => h[i].num < h[j].num
  BY HandleParts DEF Closed
<1>2. m \in Nat /\ 0 <= m /\ n = m + 1 /\ \A j \in (0 + 1)..m : j \in 1..n /\ j < n
  BY <1>1
<1>3. NamesIn(h) = <<NameAt(h, n)>>
  <2>1. n \in 1..n
    BY <1>1
  <2> HIDE DEF n, m
  <2>2. \A j \in (0 + 1)..m : h[j].num # 7
    BY <1>1, <1>2, <2>1
  <2>3. NamesUpTo(h, m) = NamesUpTo(h, 0)
    BY <1>1, <1>2, <2>2, NamesQuiet
  <2>4. NamesUpTo(h, 0) = <<>> /\ NamesUpTo(h, m + 1) = NamesUpTo(h, m) \o NameEnding(h, m + 1)
        /\ NameEnding(h, m + 1) \in Seq(Names)
    BY <1>1, <1>2, NamesNext
  <2>5. NameEnding(h, m + 1) = <<NameAt(h, n)>>
    BY <1>1, <1>2 DEF NameEnding
  <2> DEFINE x == <<NameAt(h, n)>>
  <2>6. x \in Seq(Names)
    BY <2>4, <2>5
  <2>7. NamesUpTo(h, n) = <<>> \o x
    BY <1>2, <2>3, <2>4, <2>5
  <2>8. <<>> \o x = x
    <3> HIDE DEF x
    <3> QED
      BY <2>6
  <2> QED
    BY <2>7, <2>8 DEF NamesIn, n
<1>4. NameAt(h, n) = Writer!FieldOf(Writer!NoField, h, 0)
  <2> DEFINE new == {k \in {h[i].num : i \in DOMAIN h} : k >= 0}
             all == {h[i].num : i \in 1..n}
  <2>1. new = all
    BY <1>1
  <2>2. Writer!FieldOf(Writer!NoField, h, 0) = [k \in new |-> h[Writer!PlaceOf(h, k)].id]
    <3>1. {k \in DOMAIN Writer!NoField : k < 0} = {}
      BY DEF Writer!NoField
    <3> DEFINE kept == {k \in DOMAIN Writer!NoField : k < 0}
    <3>2. Writer!FieldOf(Writer!NoField, h, 0) =
             [k \in kept \cup new |-> IF k \in new THEN h[Writer!PlaceOf(h, k)].id ELSE Writer!NoField[k]]
      BY DEF Writer!FieldOf
    <3>3. kept \cup new = new
      BY <3>1
    <3> HIDE DEF new, kept
    <3> QED
      BY <3>2, <3>3
  <2>3. ASSUME NEW k \in all PROVE Max({i \in 1..n : h[i].num = k}) = Writer!PlaceOf(h, k)
    <3> DEFINE same == {i \in 1..n : h[i].num = k}
    <3>1. Writer!HasSection(h, k)
      BY <1>1, <2>3 DEF Writer!HasSection
    <3>2. same = {Writer!PlaceOf(h, k)}
      BY <3>1, PlaceFound
    <3>3. same \in SUBSET (1..n) /\ same # {} /\ n \in Nat
      BY <1>1, <3>2
    <3> HIDE DEF same, n
    <3>4. Max(same) \in same
      BY <3>3, MaxOf
    <3> QED
      BY <3>2, <3>4 DEF same
  <2>4. NameAt(h, n) = [k \in all |-> h[Max({i \in 1..n : h[i].num = k})].id]
    BY DEF NameAt
  <2> HIDE DEF new, all, n
  <2> QED
    BY <2>1, <2>2, <2>3, <2>4
<1> QED
  BY <1>3, <1>4

\* A field appended from one of its sections on.
Appended(h, start) == h \in Handles /\ start \in 2..7 /\ Writer!HasSection(h, start)

\* The part of it: the sections from that one on, up to a section 7.
PartOf(h, start, part) ==
    /\ part \in Seq(Piece) /\ Len(part) \in Nat \ {0} /\ part[Len(part)].num = 7
    /\ \A j \in 1..(Len(part) - 1) : part[j].num # 7
    /\ \A j \in 1..Len(part) :
          /\ part[j].num >= start
          /\ Writer!PlaceOf(h, part[j].num) \in 1..Len(h)
          /\ part[j] = h[Writer!PlaceOf(h, part[j].num)]
    /\ \A i, j \in 1..Len(part) : part[i].num = part[j].num => i = j
    /\ \A i \in 1..Len(h) : h[i].num >= start => \E j \in 1..Len(part) : part[j].num = h[i].num

\* grib_get_partial_message copies just that part.
LEMMA PartialParts ==
  ASSUME NEW h, NEW start, Appended(h, start), NEW part, part = Writer!Partial(h, start)
  PROVE  PartOf(h, start, part)
<1> DEFINE size == Len(h)
           p == Writer!PlaceOf(h, start)
           long == size - p + 1
<1>1. /\ h \in Handles /\ start \in 2..7 /\ h \in Seq(Piece) /\ size \in Nat \ {0}
      /\ h[size].num = 7 /\ DOMAIN h = 1..size
      /\ \A i \in 1..size : h[i].num \in 1..7 /\ h[i] \in Piece
      /\ \A i, j \in 1..size : i < j => h[i].num < h[j].num
  BY HandleParts DEF Appended, Closed
<1>2. p \in 1..size /\ h[p].num = start
  BY PlaceFound DEF Appended
<1>3. /\ part \in Seq(Piece) /\ Len(part) = long /\ long \in Nat \ {0}
      /\ \A j \in 1..long : part[j] = h[p + j - 1] /\ p + j - 1 \in 1..size
  <2>1. part = SubSeq(h, p, size)
    BY DEF Writer!Partial
  <2> HIDE DEF p, size
  <2>2. p \in Int /\ size \in Int /\ p <= size /\ long \in Nat \ {0} /\ \A i \in p..size : i \in 1..size
    BY <1>1, <1>2
  <2>3. \A i \in p..size : h[i] \in Piece
    BY <1>1, <2>2
  <2>4. SubSeq(h, p, size) \in Seq(Piece) /\ Len(SubSeq(h, p, size)) = IF p <= size THEN size - p + 1 ELSE 0
    BY <2>2, <2>3, SubSeqProperties
  <2>5. \A i \in 1..size - p + 1 : SubSeq(h, p, size)[i] = h[p + i - 1]
    BY <2>2, <2>3, SubSeqProperties
  <2>6. \A j \in 1..long : p + j - 1 \in 1..size
    BY <1>2, <2>2
  <2> QED
    BY <2>1, <2>2, <2>4, <2>5, <2>6
<1> HIDE DEF p, size
<1>4. long = (size - p) + 1 /\ p \in Nat /\ size \in Nat /\ p + long - 1 = size
  BY <1>1, <1>2
<1> HIDE DEF long
<1>5. part[long].num = 7
  <2>1. long \in 1..long
    BY <1>3
  <2> QED
    BY <1>1, <1>3, <1>4, <2>1
<1>6. ASSUME NEW j \in 1..(long - 1) PROVE part[j].num # 7
  <2> DEFINE i == p + j - 1
  <2>1. j \in 1..long /\ i < size
    BY <1>3, <1>4
  <2>2. part[j] = h[i] /\ i \in 1..size /\ size \in 1..size
    BY <1>1, <1>3, <2>1
  <2> HIDE DEF i
  <2>3. h[i].num < h[size].num /\ h[i].num \in 1..7
    BY <1>1, <2>1, <2>2
  <2> QED
    BY <1>1, <2>2, <2>3
<1>7. ASSUME NEW j \in 1..long
      PROVE  /\ part[j].num >= start
             /\ Writer!PlaceOf(h, part[j].num) = p + j - 1
             /\ part[j] = h[p + j - 1] /\ p + j - 1 \in 1..size
  <2> DEFINE i == p + j - 1
  <2>1. part[j] = h[i] /\ i \in 1..size /\ (p = i \/ p < i)
    BY <1>2, <1>3, <1>4
  <2> HIDE DEF i
  <2>2. part[j].num >= start
    <3>1. CASE p = i
      BY <1>1, <1>2, <2>1, <3>1
    <3>2. CASE p < i
      <4>1. h[p].num < h[i].num /\ h[i].num \in 1..7 /\ h[p].num \in 1..7
        BY <1>1, <1>2, <2>1, <3>2
      <4> QED
        BY <1>2, <2>1, <4>1
    <3> QED
      BY <2>1, <3>1, <3>2
  <2>3. Writer!HasSection(h, part[j].num)
    BY <1>1, <2>1 DEF Writer!HasSection
  <2>4. i = Writer!PlaceOf(h, part[j].num)
    BY <1>1, <2>1, <2>3, PlaceFound DEF size
  <2> QED
    BY <2>1, <2>2, <2>4 DEF i
<1>8. ASSUME NEW i \in 1..long, NEW j \in 1..long, part[i].num = part[j].num PROVE i = j
  <2>1. p + i - 1 = p + j - 1
    BY <1>7, <1>8
  <2> QED
    BY <1>4, <2>1
<1>9. ASSUME NEW i \in 1..size, h[i].num >= start
      PROVE  \E j \in 1..long : part[j].num = h[i].num
  <2>1. ~(i < p)
    <3> SUFFICES ASSUME i < p PROVE FALSE
      OBVIOUS
    <3>1. h[i].num < h[p].num /\ h[i].num \in 1..7
      BY <1>1, <1>2
    <3> QED
      BY <1>1, <1>2, <1>9, <3>1
  <2> DEFINE j == i - p + 1
  <2>2. j \in 1..long /\ p + j - 1 = i
    BY <1>4, <2>1
  <2> HIDE DEF j
  <2>3. part[j] = h[i]
    BY <1>3, <2>2
  <2> QED
    BY <2>2, <2>3
<1> QED
  BY <1>3, <1>5, <1>6, <1>7, <1>8, <1>9 DEF size, PartOf

\* A list of sections that ends a field names it last.
LEMMA NamesLast ==
  ASSUME NEW secs, Closed(secs)
  PROVE  /\ Len(secs) \in Nat \ {0}
         /\ NamesIn(secs) \in Seq(Names) /\ Len(NamesIn(secs)) \in Nat \ {0}
         /\ NamesIn(secs)[Len(NamesIn(secs))] = NameAt(secs, Len(secs))
<1> DEFINE size == Len(secs)
           m == size - 1
<1>1. secs \in Seq(Piece) /\ size \in Nat \ {0} /\ m \in Nat /\ m + 1 = size /\ secs[size].num = 7
  BY DEF Closed
<1> HIDE DEF m, size
<1>2. /\ NamesUpTo(secs, m) \in Seq(Names) /\ NameEnding(secs, size) \in Seq(Names)
      /\ NamesUpTo(secs, size) = NamesUpTo(secs, m) \o NameEnding(secs, size)
  BY <1>1, NamesNext
<1>3. NameEnding(secs, size) = <<NameAt(secs, size)>>
  BY <1>1 DEF NameEnding
<1> DEFINE first == NamesUpTo(secs, m)
           x == NameAt(secs, size)
<1>4. x \in Names
  BY <1>1 DEF Names
<1>5. first \in Seq(Names) /\ NamesIn(secs) = first \o <<x>>
  BY <1>2, <1>3 DEF NamesIn, size
<1> HIDE DEF first, x
<1>6. /\ first \o <<x>> \in Seq(Names) /\ Len(first \o <<x>>) = Len(first) + 1 /\ Len(first) \in Nat
      /\ (first \o <<x>>)[Len(first) + 1] = x
  BY <1>4, <1>5
<1> QED
  BY <1>1, <1>5, <1>6 DEF x, size

\* What sections become with a part of a field behind them.
GrowsInto(secs, h, start, more) ==
    Closed(secs) /\ Appended(h, start) /\ more = secs \o Writer!Partial(h, start)

\* The names of a field that is appended are its own from the start section on
\* and, before it, those of the field before.
LEMMA NameAppended ==
  ASSUME NEW secs, NEW h, NEW start, NEW more, GrowsInto(secs, h, start, more)
  PROVE  NameAt(more, Len(more)) = Writer!FieldOf(NameAt(secs, Len(secs)), h, start)
<1>0. PICK part : part = Writer!Partial(h, start)
  OBVIOUS
<1> DEFINE a == Len(secs)
           b == Len(part)
           all == {more[i].num : i \in 1..(a + b)}
           old == {secs[i].num : i \in 1..a}
           given == {h[i].num : i \in DOMAIN h}
           before == NameAt(secs, a)
           kept == {n \in DOMAIN before : n < start}
           new == {n \in given : n >= start}
<1>a. Closed(secs) /\ Appended(h, start) /\ more = secs \o part
  BY <1>0 DEF GrowsInto
<1>1. /\ secs \in Seq(Piece) /\ a \in Nat \ {0} /\ part \in Seq(Piece) /\ b \in Nat \ {0}
      /\ \A i \in 1..a : secs[i].num \in 1..7
      /\ \A j \in 1..b :
            /\ part[j].num >= start
            /\ Writer!PlaceOf(h, part[j].num) \in 1..Len(h)
            /\ part[j] = h[Writer!PlaceOf(h, part[j].num)]
      /\ \A i, j \in 1..b : part[i].num = part[j].num => i = j
      /\ \A i \in 1..Len(h) : h[i].num >= start => \E j \in 1..b : part[j].num = h[i].num
      /\ start \in 2..7
  <2>1. secs \in Seq(Piece) /\ a \in Nat \ {0}
    BY <1>a DEF Closed
  <2>2. \A i \in 1..a : secs[i] \in Piece
    BY <2>1
  <2>3. \A i \in 1..a : secs[i].num \in 1..7
    BY <2>2, PieceParts
  <2>4. start \in 2..7
    BY <1>a DEF Appended
  <2>5. PartOf(h, start, part)
    BY <1>0, <1>a, PartialParts
  <2> HIDE DEF a
  <2> QED
    BY <2>1, <2>3, <2>4, <2>5 DEF PartOf
<1>2. /\ DOMAIN h = 1..Len(h) /\ \A i \in 1..Len(h) : h[i].num \in 1..7
      /\ (1..7) \ {2} \subseteq given
  BY <1>a, HandleParts DEF Appended
<1>3. /\ more \in Seq(Piece) /\ Len(more) = a + b
      /\ \A i \in 1..a : more[i] = secs[i]
      /\ \A j \in 1..b : more[a + j] = part[j]
  BY <1>a, <1>1, Concatenated
<1>4. DOMAIN before = old /\ \A n \in old : before[n] = secs[Max({i \in 1..a : secs[i].num = n})].id
  BY DEF NameAt
<1> HIDE DEF a, b, before
<1>5. \A i \in 1..(a + b) : i \in 1..a \/ \E j \in 1..b : i = a + j
  <2> SUFFICES ASSUME NEW i \in 1..(a + b), i \notin 1..a PROVE \E j \in 1..b : i = a + j
    OBVIOUS
  <2>1. i - a \in 1..b /\ i = a + (i - a)
    BY <1>1
  <2> QED
    BY <2>1
<1>6. (\A i \in 1..a : i \in 1..(a + b)) /\ \A j \in 1..b : a + j \in 1..(a + b)
  BY <1>1
<1>7. ASSUME NEW n \in new PROVE \E j \in 1..b : part[j].num = n
  <2>1. PICK i \in 1..Len(h) : h[i].num = n /\ n >= start
    BY <1>2, <1>7
  <2> QED
    BY <1>1, <2>1
<1>8. \A j \in 1..b : part[j].num \in new
  BY <1>1, <1>2
<1>9. all = kept \cup new
  <2>1. ASSUME NEW n \in all PROVE n \in kept \cup new
    <3>1. PICK i \in 1..(a + b) : n = more[i].num
      BY <2>1
    <3>2. CASE i \in 1..a
      <4>1. n = secs[i].num /\ n \in old /\ n \in 1..7
        BY <1>1, <1>3, <3>1, <3>2
      <4>2. CASE n < start
        BY <1>4, <4>1, <4>2
      <4>3. CASE ~(n < start)
        <5>1. n >= start
          BY <1>1, <4>1, <4>3
        <5>2. CASE n = 2
          <6>1. start = 2
            BY <1>1, <5>1, <5>2
          <6> QED
            BY <1>a, <1>2, <5>1, <5>2, <6>1 DEF Appended, Writer!HasSection
        <5>3. CASE n # 2
          BY <1>2, <4>1, <5>1, <5>3
        <5> QED
          BY <5>2, <5>3
      <4> QED
        BY <4>2, <4>3
    <3>3. CASE i \notin 1..a
      <4>1. PICK j \in 1..b : i = a + j
        BY <1>5, <3>1, <3>3
      <4>2. n = part[j].num
        BY <1>3, <3>1, <4>1
      <4> QED
        BY <1>8, <4>2
    <3> QED
      BY <3>2, <3>3
  <2>2. ASSUME NEW n \in kept PROVE n \in all
    <3>1. PICK i \in 1..a : n = secs[i].num
      BY <1>4, <2>2
    <3>2. more[i] = secs[i] /\ i \in 1..(a + b)
      BY <1>3, <1>6
    <3> QED
      BY <3>1, <3>2
  <2>3. ASSUME NEW n \in new PROVE n \in all
    <3>1. PICK j \in 1..b : n = part[j].num
      BY <1>7, <2>3
    <3>2. more[a + j] = part[j] /\ a + j \in 1..(a + b)
      BY <1>3, <1>6
    <3> QED
      BY <3>1, <3>2
  <2> HIDE DEF all, kept, new
  <2> QED
    BY <2>1, <2>2, <2>3
<1>10. ASSUME NEW n \in all
       PROVE  more[Max({i \in 1..(a + b) : more[i].num = n})].id =
                 IF n \in new THEN h[Writer!PlaceOf(h, n)].id ELSE before[n]
  <2> DEFINE same == {i \in 1..(a + b) : more[i].num = n}
             there == {i \in 1..a : secs[i].num = n}
  <2>1. same \in SUBSET (1..(a + b)) /\ same # {} /\ a + b \in Nat
    <3>1. PICK i \in 1..(a + b) : n = more[i].num
      BY <1>10
    <3>2. i \in same
      BY <3>1
    <3>3. a + b \in Nat
      BY <1>1
    <3>4. same \in SUBSET (1..(a + b))
      OBVIOUS
    <3> QED
      BY <3>2, <3>3, <3>4
  <2>2. CASE n \in new
    <3>1. PICK j \in 1..b : part[j].num = n
      BY <1>7, <2>2
    <3>2. a + j \in same
      BY <1>3, <1>6, <3>1
    <3>3. ASSUME NEW i \in 1..(a + b), i \in same, a + j <= i PROVE i = a + j
      <4>1. PICK k \in 1..b : i = a + k
        BY <1>1, <1>5, <3>3
      <4>2. part[k].num = n
        BY <1>3, <3>3, <4>1
      <4> QED
        BY <1>1, <3>1, <4>1, <4>2
    <3> HIDE DEF same
    <3>4. Max(same) \in same /\ \A y \in same : y <= Max(same)
      BY <2>1, MaxOf
    <3>5. Max(same) = a + j
      <4>1. Max(same) \in 1..(a + b) /\ a + j <= Max(same) /\ Max(same) \in same
        BY <2>1, <3>2, <3>4
      <4> QED
        BY <3>3, <4>1
    <3>6. more[a + j] = h[Writer!PlaceOf(h, n)]
      <4>1. part[j] = h[Writer!PlaceOf(h, part[j].num)]
        BY <1>1
      <4> QED
        BY <1>3, <3>1, <4>1
    <3> QED
      BY <2>2, <3>5, <3>6 DEF same
  <2>3. CASE n \notin new
    <3>1. n \in old
      BY <1>4, <1>9, <1>10, <2>3
    <3>2. same = there
      <4>1. ASSUME NEW i \in same PROVE i \in there
        <5>1. i \in 1..(a + b) /\ more[i].num = n
          BY <4>1
        <5>2. ASSUME NEW j \in 1..b, i = a + j PROVE FALSE
          <6>1. part[j].num = n
            BY <1>3, <5>1, <5>2
          <6> QED
            BY <1>8, <2>3, <6>1
        <5>3. i \in 1..a
          BY <1>5, <5>1, <5>2
        <5> QED
          BY <1>3, <5>1, <5>3
      <4>2. ASSUME NEW i \in there PROVE i \in same
        BY <1>3, <1>6, <4>2
      <4> HIDE DEF same, there
      <4> QED
        BY <4>1, <4>2
    <3>3. there \in SUBSET (1..a) /\ there # {} /\ a \in Nat
      BY <1>1, <3>1
    <3>4. before[n] = secs[Max(there)].id
      BY <1>4, <3>1
    <3> HIDE DEF there, same
    <3>5. Max(there) \in there
      BY <3>3, MaxOf
    <3>6. more[Max(there)] = secs[Max(there)]
      BY <1>3, <3>3, <3>5
    <3> QED
      BY <2>3, <3>2, <3>4, <3>6 DEF same
  <2> QED
    BY <2>2, <2>3
<1>11. NameAt(more, a + b) = [n \in all |-> more[Max({i \in 1..(a + b) : more[i].num = n})].id]
  BY DEF NameAt
<1>12. Writer!FieldOf(before, h, start) =
          [n \in kept \cup new |-> IF n \in new THEN h[Writer!PlaceOf(h, n)].id ELSE before[n]]
  BY DEF Writer!FieldOf
<1> HIDE DEF all, kept, new
<1>13. NameAt(more, a + b) = Writer!FieldOf(before, h, start)
  BY <1>9, <1>10, <1>11, <1>12
<1> QED
  BY <1>3, <1>13 DEF a, before

\* So appending a field from a section on adds one field.
LEMMA NamesAppended ==
  ASSUME NEW secs, Closed(secs), NEW h, NEW start, Appended(h, start),
         NEW part, part = Writer!Partial(h, start)
  PROVE  /\ Closed(secs \o part)
         /\ NamesIn(secs \o part) = NamesIn(secs) \o <<Writer!FieldOf(NameAt(secs, Len(secs)), h, start)>>
         /\ Writer!FieldOf(NameAt(secs, Len(secs)), h, start) \in Names
<1> DEFINE a == Len(secs)
           b == Len(part)
           whole == secs \o part
           n == a + b
           m == n - 1
           x == NameAt(whole, n)
<1>1. /\ secs \in Seq(Piece) /\ a \in Nat \ {0} /\ part \in Seq(Piece) /\ b \in Nat \ {0}
      /\ part[b].num = 7 /\ \A j \in 1..(b - 1) : part[j].num # 7
  BY PartialParts DEF Closed, PartOf
<1>2. /\ whole \in Seq(Piece) /\ Len(whole) = n
      /\ \A i \in 1..a : whole[i] = secs[i]
      /\ \A j \in 1..b : whole[a + j] = part[j]
  <2> HIDE DEF m, x, n, whole, a, b
  <2>1. secs \in Seq(Piece) /\ part \in Seq(Piece)
    BY <1>1
  <2>2. /\ secs \o part \in Seq(Piece) /\ Len(secs \o part) = Len(secs) + Len(part)
        /\ \A i \in 1..Len(secs) : (secs \o part)[i] = secs[i]
        /\ \A j \in 1..Len(part) : (secs \o part)[Len(secs) + j] = part[j]
    BY <2>1, Concatenated
  <2> QED
    BY <2>2, Zenon DEF whole, a, b, n
<1>3. n \in Nat \ {0} /\ m \in Nat /\ n = m + 1 /\ a <= m /\ a \in Nat /\ b \in 1..b
  BY <1>1
<1>4. x = Writer!FieldOf(NameAt(secs, a), h, start)
  <2>0. whole = secs \o part
    OBVIOUS
  <2>1. n = Len(whole) /\ a = Len(secs)
    BY <1>2
  <2> HIDE DEF a, b, whole, n, m
  <2>2. NameAt(whole, Len(whole)) = Writer!FieldOf(NameAt(secs, Len(secs)), h, start)
    <3>1. GrowsInto(secs, h, start, whole)
      BY <2>0 DEF GrowsInto
    <3> QED
      BY <3>1, NameAppended
  <2> QED
    BY <2>1, <2>2
<1> HIDE DEF a, b, whole
<1>5. whole[n].num = 7
  <2> HIDE DEF m, n, x
  <2>1. whole[a + b] = part[b]
    BY <1>2, <1>3
  <2> QED
    BY <1>1, <2>1 DEF n
<1>6. \A j \in (a + 1)..m : whole[j].num # 7
  <2> SUFFICES ASSUME NEW j \in (a + 1)..m PROVE whole[j].num # 7
    OBVIOUS
  <2> DEFINE k == j - a
  <2>1. k \in 1..(b - 1) /\ k \in 1..b /\ j = a + k
    BY <1>1
  <2> HIDE DEF k, m, n, x
  <2>2. part[k].num # 7
    BY <1>1, <2>1
  <2>3. whole[j] = part[k]
    BY <1>2, <2>1
  <2> QED
    BY <2>2, <2>3
<1> HIDE DEF n, m
<1>7. NamesUpTo(whole, m) = NamesUpTo(whole, a)
  BY <1>2, <1>3, <1>6, NamesQuiet
<1>8. NamesUpTo(whole, a) = NamesUpTo(secs, a)
  BY <1>2, <1>3, NamesSame
<1>9. NamesUpTo(whole, n) = NamesUpTo(whole, m) \o NameEnding(whole, n)
  BY <1>2, <1>3, NamesNext
<1>10. NameEnding(whole, n) = <<x>> /\ x \in Names
  BY <1>2, <1>3, <1>5 DEF NameEnding, Names
<1>11. NamesIn(whole) = NamesIn(secs) \o <<x>>
  BY <1>2, <1>7, <1>8, <1>9, <1>10 DEF NamesIn, a
<1>12. Closed(whole)
  <2>1. whole # <<>>
    BY <1>2, <1>3
  <2> QED
    BY <1>2, <1>5, <2>1 DEF Closed
<1> QED
  BY <1>4, <1>10, <1>11, <1>12 DEF whole, a

-----------------------------------------------------------------------------
(* The buffer of the handle, and the names of the fields in it *)

\* A message of the buffer, and a buffer whose messages end with a field.
Packed == [at : Nat, sections : Seq(Piece), copied : Nat, declared : Nat]
Good(ms) == ms \in Seq(Packed) /\ \A i \in 1..Len(ms) : Closed(ms[i].sections)

SizesOf(ms) == [i \in 1..Len(ms) |-> Writer!Room(ms[i])]

\* Messages tile u octets; the last one starts at o and has l of them.
Tiling(ms, u, o, l) ==
    /\ u = SumTo(SizesOf(ms), Len(ms))
    /\ \A i \in 1..(Len(ms) - 1) : ms[i + 1].at = ms[i].at + Writer!Room(ms[i])
    /\ ms # <<>> => /\ o = ms[Len(ms)].at
                    /\ l = Writer!Room(ms[Len(ms)])
                    /\ u = o + l

\* The writer's state: its fields are those of its messages.
WritesWell ==
    /\ Good(messages) /\ ulength \in Nat /\ offset \in Nat /\ length \in Nat
    /\ Tiling(messages, ulength, offset, length)
    /\ fields = NamesFirst(messages, Len(messages))

\* A message grows by the lengths of the sections it gets.
LEMMA SizeOf ==
  ASSUME NEW secs \in Seq(Piece)
  PROVE  /\ Writer!Size(secs) \in Nat
         /\ \A part \in Seq(Piece) : Writer!Size(secs \o part) = Writer!Size(secs) + Writer!Lens(part)
<1>1. Writer!Lens(secs) \in Nat
  BY LensOf
<1>2. ASSUME NEW part \in Seq(Piece)
      PROVE  Writer!Size(secs \o part) = Writer!Size(secs) + Writer!Lens(part)
  <2>1. Writer!Lens(part) \in Nat
    BY LensOf
  <2>2. Writer!Lens(secs \o part) = Writer!Lens(secs) + Writer!Lens(part)
    BY LensBoth
  <2> QED
    BY <1>1, <2>1, <2>2 DEF Writer!Size
<1> QED
  BY <1>1, <1>2 DEF Writer!Size

\* What Good says of each message.
LEMMA GoodParts ==
  ASSUME NEW ms, Good(ms)
  PROVE  /\ Len(ms) \in Nat /\ DOMAIN ms = 1..Len(ms)
         /\ \A i \in 1..Len(ms) : /\ ms[i] \in Packed /\ ms[i].at \in Nat /\ ms[i].declared \in Nat
                                  /\ ms[i].sections \in Seq(Piece) /\ Closed(ms[i].sections)
                                  /\ Writer!Size(ms[i].sections) \in Nat /\ ms[i].copied \in Nat
                                  /\ Writer!Room(ms[i]) = Writer!Size(ms[i].sections) + ms[i].copied
                                  /\ Writer!Room(ms[i]) \in Nat
                                  /\ SizesOf(ms)[i] = Writer!Room(ms[i])
<1>1. Len(ms) \in Nat /\ DOMAIN ms = 1..Len(ms) /\ \A i \in 1..Len(ms) : ms[i] \in Packed /\ Closed(ms[i].sections)
  BY DEF Good
<1>2. ASSUME NEW i \in 1..Len(ms)
      PROVE  /\ ms[i].at \in Nat /\ ms[i].declared \in Nat /\ ms[i].sections \in Seq(Piece)
             /\ Writer!Size(ms[i].sections) \in Nat /\ ms[i].copied \in Nat
             /\ Writer!Room(ms[i]) = Writer!Size(ms[i].sections) + ms[i].copied
             /\ Writer!Room(ms[i]) \in Nat
             /\ SizesOf(ms)[i] = Writer!Room(ms[i])
  <2>1. /\ ms[i].at \in Nat /\ ms[i].declared \in Nat /\ ms[i].sections \in Seq(Piece)
        /\ ms[i].copied \in Nat
    BY <1>1 DEF Packed
  <2>2. Writer!Size(ms[i].sections) \in Nat
    BY <2>1, SizeOf
  <2>3. Writer!Room(ms[i]) = Writer!Size(ms[i].sections) + ms[i].copied
    BY DEF Writer!Room
  <2>4. Writer!Room(ms[i]) \in Nat
    BY <2>1, <2>2, <2>3
  <2> QED
    BY <2>1, <2>2, <2>3, <2>4 DEF SizesOf
<1> QED
  BY <1>1, <1>2

\* Tiling is what the run checks as Tiled.
LEMMA TiledWell == ASSUME WritesWell PROVE Writer!Tiled
<1>1. DOMAIN messages = 1..Len(messages) /\ Len(messages) \in Nat
  BY GoodParts DEF WritesWell
<1>2. Writer!Total([i \in DOMAIN messages |-> Writer!Room(messages[i])]) = SumTo(SizesOf(messages), Len(messages))
  <2> DEFINE w == SizesOf(messages)
             size == Len(messages)
  <2>1. [i \in DOMAIN messages |-> Writer!Room(messages[i])] = [i \in 1..size |-> w[i]]
    BY <1>1 DEF SizesOf
  <2> HIDE DEF w, size
  <2>2. Writer!Total([i \in 1..size |-> w[i]]) = SumTo(w, size)
    BY TotalSum
  <2> QED
    BY <2>1, <2>2 DEF w, size
<1>3. \A i \in DOMAIN messages : i < Len(messages) => i \in 1..(Len(messages) - 1)
  BY <1>1
<1> QED
  BY <1>2, <1>3 DEF WritesWell, Tiling, Writer!Tiled

\* The names of messages are said by the messages.
LEMMA NamesFirstSame ==
  ASSUME NEW size \in Nat, NEW ms, NEW more, \A i \in 1..size : more[i].sections = ms[i].sections
  PROVE  NamesFirst(more, size) = NamesFirst(ms, size)
<1>1. [i \in 1..size |-> NamesIn(more[i].sections)] = [i \in 1..size |-> NamesIn(ms[i].sections)]
  OBVIOUS
<1> QED
  BY <1>1 DEF NamesFirst

\* A message more.
LEMMA WholeWell ==
  ASSUME NEW ms, Good(ms), NEW u \in Nat, NEW o, NEW l, Tiling(ms, u, o, l),
         NEW m \in Packed, m.at = u, m.copied = 0, Closed(m.sections)
  PROVE  /\ Good(Append(ms, m))
         /\ Tiling(Append(ms, m), u + Writer!Size(m.sections), u, Writer!Size(m.sections))
         /\ NamesFirst(Append(ms, m), Len(Append(ms, m))) = NamesFirst(ms, Len(ms)) \o NamesIn(m.sections)
<1> DEFINE size == Len(ms)
           more == Append(ms, m)
           old == SizesOf(ms)
           new == SizesOf(more)
           added == Writer!Size(m.sections)
<1>1. /\ size \in Nat /\ DOMAIN ms = 1..size
      /\ \A i \in 1..size : /\ ms[i] \in Packed /\ ms[i].at \in Nat
                            /\ ms[i].sections \in Seq(Piece) /\ Closed(ms[i].sections)
                            /\ Writer!Room(ms[i]) \in Nat
                            /\ old[i] = Writer!Room(ms[i])
  BY GoodParts
<1>2. /\ more \in Seq(Packed) /\ Len(more) = size + 1
      /\ \A i \in 1..size : more[i] = ms[i]
      /\ more[size + 1] = m
  BY DEF Good
<1>3. added \in Nat /\ m.sections \in Seq(Piece) /\ Writer!Room(m) = added
  <2>1. m.sections \in Seq(Piece)
    BY DEF Packed
  <2>2. added \in Nat
    BY <2>1, SizeOf
  <2> QED
    BY <2>1, <2>2 DEF Writer!Room
<1>4. new = [i \in 1..(size + 1) |-> Writer!Room(more[i])]
  BY <1>2 DEF SizesOf
<1>5. more # <<>>
  BY <1>1, <1>2
<1> HIDE DEF size, more, old, new, added
<1>6. \A i \in 1..(size + 1) : i \in 1..size \/ i = size + 1
  BY <1>1
<1>7. Good(more)
  <2>1. \A i \in 1..(size + 1) : Closed(more[i].sections)
    BY <1>1, <1>2, <1>6
  <2> QED
    BY <1>2, <2>1 DEF Good
<1>8. (\A i \in 1..size : new[i] = old[i]) /\ new[size + 1] = added
  BY <1>1, <1>2, <1>3, <1>4
<1>9. SumTo(new, size + 1) = SumTo(old, size) + added
  <2>2. \A k \in 1..size : old[k] \in Int
    BY <1>1
  <2>1. \A k \in 1..(size + 1) : new[k] \in Int
    <3>1. \A k \in 1..size : new[k] \in Int
      BY <1>8, <2>2
    <3>2. new[size + 1] \in Int
      <4>1. \A k \in Nat : k \in Int
        OBVIOUS
      <4> QED
        BY <1>3, <1>8, <4>1
    <3> QED
      BY <1>6, <3>1, <3>2
  <2>3. SumTo(new, size) = SumTo(old, size)
    <3>1. \A k \in 1..size : new[k] \in Int
      BY <1>8, <2>2
    <3>2. Agree(new, old, size)
      BY <1>8 DEF Agree
    <3> QED
      BY <1>1, <3>1, <3>2, SumSame
  <2>4. size + 1 \in Nat /\ size + 1 \in 1..(size + 1) /\ (size + 1) - 1 = size
    BY <1>1
  <2> DEFINE next == size + 1
  <2>5. next \in Nat /\ next \in 1..next /\ next - 1 = size /\ \A k \in 1..next : new[k] \in Int
    BY <2>1, <2>4
  <2> HIDE DEF next
  <2>6. SumTo(new, next) = SumTo(new, next - 1) + new[next]
    BY <2>5, SumSteps
  <2> QED
    BY <1>8, <2>3, <2>5, <2>6 DEF next
<1>10. u = SumTo(old, size)
  BY DEF Tiling, old, size
<1>11. ASSUME NEW i \in 1..((size + 1) - 1)
       PROVE  more[i + 1].at = more[i].at + Writer!Room(more[i])
  <2>1. i \in 1..size /\ more[i] = ms[i]
    BY <1>1, <1>2
  <2>2. CASE i = size
    <3>1. more[i + 1] = m /\ ms # <<>>
      BY <1>1, <1>2, <2>2
    <3>2. u = o + l /\ o = ms[size].at /\ l = Writer!Room(ms[size])
      BY <3>1 DEF Tiling, size
    <3> QED
      BY <2>1, <2>2, <3>1, <3>2
  <2>3. CASE i # size
    <3>1. i \in 1..(size - 1) /\ i + 1 \in 1..size
      BY <1>1, <2>1, <2>3
    <3>2. ms[i + 1].at = ms[i].at + Writer!Room(ms[i])
      BY <3>1 DEF Tiling, size
    <3> QED
      BY <1>2, <2>1, <3>1, <3>2
  <2> QED
    BY <2>2, <2>3
<1>12. Tiling(more, u + added, u, added)
  BY <1>2, <1>3, <1>9, <1>10, <1>11 DEF Tiling, new
<1>13. NamesFirst(more, size + 1) = NamesFirst(ms, size) \o NamesIn(m.sections)
  <2>1. \A i \in 1..size : more[i].sections = ms[i].sections
    BY <1>2
  <2>2. NamesFirst(more, size) = NamesFirst(ms, size)
    BY <1>1, <2>1, NamesFirstSame
  <2>3. \A i \in 1..(size + 1) : more[i].sections \in Seq(Piece)
    BY <1>1, <1>2, <1>3, <1>6
  <2>4. NamesFirst(more, size + 1) = NamesFirst(more, size) \o NamesIn(more[size + 1].sections)
    BY <1>1, <2>3, NamesMore
  <2> QED
    BY <1>2, <2>2, <2>4
<1> QED
  BY <1>2, <1>7, <1>12, <1>13 DEF more, size, added

\* A part more in the last message, and octets that are no section.
PartMore(ms, part, octets, more) ==
    /\ ms # <<>> /\ part \in Seq(Piece) /\ octets \in Nat /\ Closed(ms[Len(ms)].sections \o part)
    /\ more \in Seq(Packed) /\ Len(more) = Len(ms)
    /\ \A i \in 1..(Len(ms) - 1) : more[i] = ms[i]
    /\ more[Len(ms)].at = ms[Len(ms)].at
    /\ more[Len(ms)].sections = ms[Len(ms)].sections \o part
    /\ more[Len(ms)].copied = ms[Len(ms)].copied + octets

\* It leaves the buffer good, and tiled.
LEMMA PartialWell ==
  ASSUME NEW ms, Good(ms), NEW u \in Nat, NEW o \in Nat, NEW l \in Nat, Tiling(ms, u, o, l),
         NEW part, NEW octets, NEW more, PartMore(ms, part, octets, more)
  PROVE  /\ Good(more)
         /\ Tiling(more, u + (Writer!Lens(part) + octets), o, l + (Writer!Lens(part) + octets))
         /\ NamesFirst(more, Len(ms) - 1) = NamesFirst(ms, Len(ms) - 1)
<1> DEFINE size == Len(ms)
           m == size - 1
           old == SizesOf(ms)
           new == SizesOf(more)
           added == Writer!Lens(part) + octets
<1>0. /\ part \in Seq(Piece) /\ Closed(ms[size].sections \o part) /\ ms # <<>>
      /\ more \in Seq(Packed) /\ Len(more) = size
      /\ \A i \in 1..m : more[i] = ms[i]
      /\ more[size].at = ms[size].at /\ more[size].sections = ms[size].sections \o part
      /\ octets \in Nat /\ more[size].copied = ms[size].copied + octets
  BY DEF PartMore
<1>1. /\ size \in Nat /\ DOMAIN ms = 1..size
      /\ \A i \in 1..size : /\ ms[i] \in Packed /\ ms[i].at \in Nat
                            /\ ms[i].sections \in Seq(Piece) /\ Closed(ms[i].sections)
                            /\ Writer!Size(ms[i].sections) \in Nat /\ ms[i].copied \in Nat
                            /\ Writer!Room(ms[i]) = Writer!Size(ms[i].sections) + ms[i].copied
                            /\ Writer!Room(ms[i]) \in Nat
                            /\ old[i] = Writer!Room(ms[i])
  BY GoodParts
<1>2. size \in 1..size /\ m \in Nat /\ m + 1 = size
  <2>1. size # 0
    BY <1>0 DEF Good
  <2> QED
    BY <1>1, <2>1
<1>3. added \in Nat /\ Writer!Room(more[size]) = Writer!Room(ms[size]) + added
  <2> DEFINE p == Writer!Lens(part)
             q == Writer!Size(ms[size].sections)
             c == ms[size].copied
  <2>1. ms[size].sections \in Seq(Piece)
    BY <1>1, <1>2
  <2>2. q \in Nat /\ c \in Nat /\ Writer!Room(ms[size]) = q + c
    BY <1>1, <1>2
  <2>3. p \in Nat /\ octets \in Nat
    BY <1>0, LensOf
  <2>4. Writer!Size(more[size].sections) = q + p
    <3> HIDE DEF size
    <3> QED
      BY <1>0, <2>1, SizeOf
  <2>5. Writer!Room(more[size]) = (q + p) + (c + octets)
    BY <1>0, <2>4 DEF Writer!Room
  <2> HIDE DEF p, q, c
  <2>6. (q + p) + (c + octets) = (q + c) + (p + octets) /\ p + octets \in Nat
    BY <2>2, <2>3
  <2> QED
    BY <2>2, <2>5, <2>6 DEF p
<1>4. /\ Len(more) = size /\ \A i \in 1..m : more[i] = ms[i]
      /\ more[size].at = ms[size].at /\ more[size].sections = ms[size].sections \o part
      /\ Closed(more[size].sections)
  BY <1>0
<1>5. new = [i \in 1..size |-> Writer!Room(more[i])]
  BY <1>4 DEF SizesOf
<1>6. more # <<>>
  BY <1>0, <1>2, <1>4
<1> HIDE DEF size, m, old, new, added
<1>7. \A i \in 1..size : i \in 1..m \/ i = size
  BY <1>1, <1>2
<1>8. Good(more)
  <2>1. \A i \in 1..size : Closed(more[i].sections)
    BY <1>1, <1>4, <1>7
  <2> QED
    BY <1>0, <1>4, <2>1 DEF Good
<1>9. (\A i \in (1..size) \ {size} : new[i] = old[i]) /\ new[size] = old[size] + added
  <2>1. ASSUME NEW i \in (1..size) \ {size} PROVE new[i] = old[i]
    <3>1. i \in 1..m
      BY <1>7
    <3>2. more[i] = ms[i]
      BY <1>4, <3>1
    <3> QED
      BY <1>1, <1>5, <3>2
  <2>2. new[size] = Writer!Room(more[size]) /\ old[size] = Writer!Room(ms[size])
    BY <1>1, <1>2, <1>4, <1>5
  <2> QED
    BY <1>3, <2>1, <2>2
<1>10. SumTo(new, size) = SumTo(old, size) + added /\ SumTo(old, size) \in Int
  <2>1. \A k \in 1..size : old[k] \in Int
    BY <1>1
  <2>2. \A k \in 1..size : new[k] \in Int
    <3>1. \A k \in 1..size : k = size \/ k \in (1..size) \ {size}
      OBVIOUS
    <3>2. new[size] \in Int
      <4>1. new[size] = old[size] + added /\ old[size] \in Int /\ added \in Int
        BY <1>2, <1>3, <1>9, <2>1
      <4> QED
        BY <4>1
    <3> QED
      BY <1>9, <2>1, <3>1, <3>2
  <2>3. SumTo(new, size) = SumTo(old, size) + (new[size] - old[size])
    <3>1. size \in Nat /\ size \in 1..size
      BY <1>1, <1>2
    <3>2. \A k \in (1..size) \ {size} : new[k] = old[k]
      BY <1>9
    <3> QED
      BY <2>1, <2>2, <3>1, <3>2, SumChanged
  <2>4. SumTo(old, size) \in Int
    BY DEF Tiling, old, size
  <2> QED
    BY <1>2, <1>3, <1>9, <2>1, <2>3, <2>4
<1>11. u = SumTo(old, size) /\ o = ms[size].at /\ l = Writer!Room(ms[size]) /\ u = o + l
  BY <1>0 DEF Tiling, old, size
<1>12. ASSUME NEW i \in 1..m
       PROVE  more[i + 1].at = more[i].at + Writer!Room(more[i])
  <2>1. i \in 1..(size - 1) /\ more[i] = ms[i] /\ i + 1 \in 1..size
    BY <1>2, <1>4
  <2>2. ms[i + 1].at = ms[i].at + Writer!Room(ms[i])
    BY <2>1 DEF Tiling, size
  <2>3. more[i + 1].at = ms[i + 1].at
    BY <1>4, <1>7, <2>1
  <2> QED
    BY <2>1, <2>2, <2>3
<1>13. Tiling(more, u + added, o, l + added)
  <2>1. \A i \in 1..(size - 1) : i \in 1..m
    BY <1>2
  <2>2. u + added = o + (l + added)
    BY <1>3, <1>11
  <2>3. l + added = Writer!Room(more[size])
    BY <1>3, <1>4, <1>11
  <2> QED
    BY <1>4, <1>10, <1>11, <1>12, <2>1, <2>2, <2>3 DEF Tiling, new
<1>14. NamesFirst(more, m) = NamesFirst(ms, m)
  <2>1. \A i \in 1..m : more[i].sections = ms[i].sections
    BY <1>4
  <2> QED
    BY <1>2, <2>1, NamesFirstSame
<1> QED
  BY <1>8, <1>13, <1>14 DEF size, m, added

\* The names of good messages are a sequence of names.
LEMMA NamesFirstTyped ==
  ASSUME NEW ms, Good(ms)
  PROVE  NamesFirst(ms, Len(ms)) \in Seq(Names) /\ NamesFirst(ms, 0) = <<>>
<1> DEFINE size == Len(ms)
           before == size - 1
<1>1. size \in Nat /\ \A i \in 1..size : ms[i].sections \in Seq(Piece)
  BY GoodParts
<1>2. NamesFirst(ms, 0) = <<>>
  <2> DEFINE none == [i \in 1..0 |-> NamesIn(ms[i].sections)]
  <2>1. none = <<>>
    OBVIOUS
  <2> HIDE DEF none
  <2>2. FlattenSeq(none) = <<>>
    BY <2>1, FlattenEmpty
  <2> QED
    BY <2>2 DEF NamesFirst, none
<1>3. CASE size = 0
  <2> DEFINE z == NamesFirst(ms, 0)
  <2>1. z = <<>>
    BY <1>2
  <2> HIDE DEF z
  <2>2. z \in Seq(Names)
    BY <2>1
  <2> HIDE DEF size
  <2>3. NamesFirst(ms, size) = z
    BY <1>3 DEF z
  <2> QED
    BY <1>2, <2>2, <2>3 DEF size
<1>4. CASE size # 0
  <2>1. before \in Nat /\ before + 1 = size
    BY <1>1, <1>4
  <2> HIDE DEF before, size
  <2>2. /\ NamesFirst(ms, before) \in Seq(Names) /\ NamesIn(ms[before + 1].sections) \in Seq(Names)
        /\ NamesFirst(ms, before + 1) = NamesFirst(ms, before) \o NamesIn(ms[before + 1].sections)
    BY <1>1, <2>1, NamesMore
  <2> DEFINE x == NamesFirst(ms, before)
             y == NamesIn(ms[before + 1].sections)
             z == NamesFirst(ms, before + 1)
  <2>3. x \in Seq(Names) /\ y \in Seq(Names) /\ z = x \o y
    BY <2>2
  <2> HIDE DEF x, y, z
  <2>4. z \in Seq(Names)
    BY <2>3, ConcatProperties
  <2> QED
    BY <1>2, <2>1, <2>4 DEF z, size
<1> QED
  BY <1>3, <1>4

\* An empty buffer.
LEMMA EmptyWell == Good(<<>>) /\ Tiling(<<>>, 0, 0, 0) /\ NamesFirst(<<>>, Len(<<>>)) = <<>>
<1> DEFINE none == <<>>
<1>1. none \in Seq(Packed) /\ Len(none) = 0
  OBVIOUS
<1> HIDE DEF none
<1>2. Good(none)
  BY <1>1 DEF Good
<1>3. NamesFirst(none, 0) = <<>>
  BY <1>2, NamesFirstTyped
<1>4. SumTo(SizesOf(none), 0) = 0
  <2> DEFINE w == SizesOf(none)
  <2>1. \A k \in 1..0 : w[k] \in Int
    OBVIOUS
  <2> HIDE DEF w
  <2>2. SumTo(w, 0) = 0
    BY <2>1, SumSteps
  <2> QED
    BY <2>2 DEF w
<1>5. Tiling(none, 0, 0, 0)
  BY <1>1, <1>4 DEF Tiling, none
<1> QED
  BY <1>1, <1>2, <1>3, <1>5 DEF none

\* A whole message appended: its field comes last.
LEMMA WholeStep ==
  ASSUME WritesWell, NEW h \in Handles, NEW start, Writer!AppendWhole(h, start)
  PROVE  WritesWell'
<1> DEFINE m == [at |-> ulength, sections |-> h, copied |-> 0, declared |-> Writer!Size(h)]
           x == Writer!FieldOf(Writer!NoField, h, 0)
           size == Writer!Size(h)
<1>1. h \in Seq(Piece) /\ Closed(h) /\ size \in Nat
  BY HandleParts, SizeOf
<1>2. m \in Packed /\ m.at = ulength /\ m.copied = 0 /\ m.sections = h
  BY <1>1 DEF WritesWell, Packed
<1>3. /\ messages' = Append(messages, m) /\ offset' = ulength /\ length' = size
      /\ ulength' = ulength + size /\ fields' = Append(fields, x)
  BY DEF Writer!AppendWhole
<1>4. NamesIn(h) = <<x>> /\ NamesIn(h) \in Seq(Names)
  BY <1>1, NamesWhole, NamesLast
<1>5. /\ Good(messages) /\ ulength \in Nat /\ Tiling(messages, ulength, offset, length)
      /\ fields = NamesFirst(messages, Len(messages)) /\ fields \in Seq(Names)
  BY NamesFirstTyped DEF WritesWell
<1> HIDE DEF m, x, size
<1>6. /\ Good(Append(messages, m))
      /\ Tiling(Append(messages, m), ulength + Writer!Size(m.sections), ulength, Writer!Size(m.sections))
      /\ NamesFirst(Append(messages, m), Len(Append(messages, m)))
            = NamesFirst(messages, Len(messages)) \o NamesIn(m.sections)
  BY <1>1, <1>2, <1>5, WholeWell
<1>7. Good(messages') /\ Tiling(messages', ulength', offset', length')
  BY <1>2, <1>3, <1>6 DEF size
<1>8. NamesFirst(messages', Len(messages')) = fields \o <<x>>
  BY <1>2, <1>3, <1>4, <1>5, <1>6
<1>9. x \in Names
  BY <1>4
<1>10. fields' = fields \o <<x>>
  BY <1>3, <1>5, <1>9
<1>11. ulength' \in Nat /\ offset' \in Nat /\ length' \in Nat
  BY <1>1, <1>3, <1>5
<1> QED
  BY <1>7, <1>8, <1>10, <1>11 DEF WritesWell

\* A buffer that is not empty has a message.
LEMMA SomeMessage ==
  ASSUME WritesWell, ulength # 0
  PROVE  messages # <<>> /\ Len(messages) \in 1..Len(messages)
<1>1. Good(messages) /\ Tiling(messages, ulength, offset, length)
  BY DEF WritesWell
<1>2. ASSUME messages = <<>> PROVE FALSE
  <2> DEFINE w == SizesOf(messages)
  <2>1. Len(messages) = 0
    BY <1>2
  <2>2. \A k \in 1..0 : w[k] \in Int
    OBVIOUS
  <2>3. ulength = SumTo(w, 0)
    BY <1>1, <2>1 DEF Tiling
  <2> HIDE DEF w
  <2>4. SumTo(w, 0) = 0
    BY <2>2, SumSteps
  <2> QED
    BY <2>3, <2>4
<1>3. messages \in Seq(Packed)
  BY <1>1 DEF Good
<1>4. Len(messages) # 0
  BY <1>2, <1>3
<1> QED
  BY <1>2, <1>3, <1>4

\* The last message becomes n: it has a part more, and octets that are no section.
Grown(part, octets, n) ==
    /\ messages # <<>> /\ part \in Seq(Piece) /\ octets \in Nat
    /\ n \in Packed /\ n.at = messages[Len(messages)].at
    /\ n.sections = messages[Len(messages)].sections \o part /\ Closed(n.sections)
    /\ n.copied = messages[Len(messages)].copied + octets
    /\ Writer!Extend(n, (Writer!Lens(part) + octets) + 4)

\* What that leaves.
MadeLonger(part, octets) ==
    /\ PartMore(messages, part, octets, messages')
    /\ length' = length + (Writer!Lens(part) + octets)
    /\ ulength' = ulength + (Writer!Lens(part) + octets)
    /\ offset' = offset /\ length' \in Nat /\ ulength' \in Nat
    /\ Good(messages') /\ Tiling(messages', ulength', offset', length')
    /\ NamesFirst(messages', Len(messages) - 1) = NamesFirst(messages, Len(messages) - 1)

\* The 7777 of the last message is written over.
LEMMA ExtendStep ==
  ASSUME WritesWell, NEW part, NEW octets, NEW n, Grown(part, octets, n)
  PROVE  MadeLonger(part, octets)
<1> DEFINE added == Writer!Lens(part) + octets
           size == Len(messages)
<1>1. /\ Good(messages) /\ ulength \in Nat /\ offset \in Nat /\ length \in Nat
      /\ Tiling(messages, ulength, offset, length)
  BY DEF WritesWell
<1>2. /\ messages # <<>> /\ part \in Seq(Piece) /\ octets \in Nat
      /\ n \in Packed /\ n.at = messages[size].at
      /\ n.sections = messages[size].sections \o part /\ Closed(n.sections)
      /\ n.copied = messages[size].copied + octets
      /\ Writer!Extend(n, added + 4)
  BY DEF Grown
<1>3. added \in Nat
  <2>1. Writer!Lens(part) \in Nat /\ octets \in Nat
    BY <1>2, LensOf
  <2> DEFINE p == Writer!Lens(part)
  <2>2. p \in Nat /\ octets \in Nat
    BY <2>1
  <2> HIDE DEF p
  <2>3. p + octets \in Nat
    BY <2>2
  <2> QED
    BY <2>3 DEF p
<1>4. messages \in Seq(Packed) /\ size \in 1..size /\ DOMAIN messages = 1..size
  <2>1. messages \in Seq(Packed) /\ DOMAIN messages = 1..size /\ size \in Nat
    BY <1>1 DEF Good
  <2>2. size # 0
    BY <1>2, <2>1
  <2> QED
    BY <2>1, <2>2
<1> HIDE DEF added
<1>5. length' = length + added /\ ulength' = ulength + added /\ offset' = offset
  <2>1. /\ length' = Writer!GrownBy(added + 4) /\ ulength' = ulength + (added + 4) - 4
        /\ offset' = offset
    BY <1>2 DEF Writer!Extend
  <2>2. length' = (length + (added + 4)) - 4
    BY <1>1, <1>3, <2>1 DEF Writer!GrownBy
  <2>3. ulength' = (ulength + (added + 4)) - 4
    BY <1>1, <1>3, <2>1
  <2> QED
    BY <1>1, <1>3, <2>1, <2>2, <2>3
<1>6. length' \in Nat /\ ulength' \in Nat
  BY <1>1, <1>3, <1>5
<1>7. PICK d \in Nat : messages' = [messages EXCEPT ![size] = [n EXCEPT !.declared = d]]
  <2> DEFINE placed == Writer!LengthPosition = 8 * n.at + 64
             d == IF placed THEN length' ELSE n.declared
  <2>1. messages' = [messages EXCEPT ![size] = [n EXCEPT !.declared = d]]
    BY <1>2 DEF Writer!Extend
  <2>2. n.declared \in Nat
    BY <1>2 DEF Packed
  <2>3. d \in Nat
    <3> HIDE DEF placed
    <3> QED
      BY <1>6, <2>2
  <2> HIDE DEF d, size
  <2> QED
    BY <2>1, <2>3, Zenon
<1> DEFINE last1 == [n EXCEPT !.declared = d]
<1>8. /\ last1 \in Packed /\ last1.at = n.at /\ last1.sections = n.sections
      /\ last1.copied = n.copied
  BY <1>2, <1>7 DEF Packed
<1>9. messages' = [messages EXCEPT ![size] = last1]
  BY <1>7
<1> HIDE DEF last1
<1>10. /\ messages' \in Seq(Packed) /\ Len(messages') = size /\ messages'[size] = last1
       /\ \A i \in 1..(size - 1) : messages'[i] = messages[i]
  <2>1. messages' \in Seq(Packed) /\ Len(messages') = size
    BY <1>4, <1>8, <1>9, ExceptSeq DEF size
  <2>2. size \in Nat
    BY <1>4
  <2>3. ASSUME NEW k \in Nat PROVE \A i \in 1..(k - 1) : i \in 1..k /\ i # k
    OBVIOUS
  <2>4. \A i \in 1..(size - 1) : i \in 1..size /\ i # size
    BY <2>2, <2>3
  <2> QED
    BY <1>4, <1>9, <2>1, <2>4
<1>11. PartMore(messages, part, octets, messages')
  <2>1. Closed(messages[size].sections \o part)
    BY <1>2
  <2> QED
    BY <1>2, <1>8, <1>10, <2>1 DEF PartMore, size
<1> DEFINE ms == messages
           u == ulength
           o == offset
           l == length
           after == messages'
<1>12. /\ Good(ms) /\ Tiling(ms, u, o, l) /\ u \in Nat /\ o \in Nat /\ l \in Nat
       /\ PartMore(ms, part, octets, after)
  BY <1>1, <1>11
<1> HIDE DEF ms, u, o, l, after
<1>13. /\ Good(after)
       /\ Tiling(after, u + (Writer!Lens(part) + octets), o, l + (Writer!Lens(part) + octets))
       /\ NamesFirst(after, Len(ms) - 1) = NamesFirst(ms, Len(ms) - 1)
  BY <1>12, PartialWell
<1>14. /\ Good(messages') /\ Tiling(messages', ulength + added, offset, length + added)
       /\ NamesFirst(messages', Len(messages) - 1) = NamesFirst(messages, Len(messages) - 1)
  BY <1>13 DEF after, u, o, l, ms, added
<1>15. Tiling(messages', ulength', offset', length')
  BY <1>5, <1>14
<1> QED
  BY <1>5, <1>6, <1>11, <1>14, <1>15 DEF MadeLonger, added

\* A part appended: the field it makes with the one before comes last.
LEMMA PartialStep ==
  ASSUME WritesWell, NEW h \in Handles, NEW start \in Starts, Writer!AppendPartial(h, start)
  PROVE  WritesWell'
<1> DEFINE size == Len(messages)
           before == size - 1
           m == messages[size]
           part == Writer!Partial(h, start)
           more == m.sections \o part
           x == Writer!FieldOf(NameAt(m.sections, Len(m.sections)), h, start)
<1>1. /\ Good(messages) /\ ulength \in Nat /\ offset \in Nat /\ length \in Nat
      /\ Tiling(messages, ulength, offset, length)
      /\ fields = NamesFirst(messages, size) /\ fields \in Seq(Names)
  BY NamesFirstTyped DEF WritesWell
<1>2. /\ size \in Nat /\ messages \in Seq(Packed) /\ DOMAIN messages = 1..size
      /\ \A i \in 1..size : messages[i].sections \in Seq(Piece) /\ Closed(messages[i].sections)
  BY <1>1, GoodParts DEF Good
<1>3. messages # <<>> /\ size \in 1..size
  <2>1. ulength # 0
    BY DEF Writer!AppendPartial, Writer!WholeMessage
  <2> QED
    BY <2>1, SomeMessage
<1>4. Appended(h, start)
  BY HandlesAssumption DEF Appended, Writer!AppendPartial, Writer!WholeMessage
<1>5. PartOf(h, start, part)
  BY <1>4, PartialParts
<1>6. part \in Seq(Piece) /\ Writer!Lens(part) \in Nat
  BY <1>5, LensOf DEF PartOf
<1>7. Closed(m.sections) /\ m \in Packed
  BY <1>2, <1>3
<1>8. /\ Writer!Extend([m EXCEPT !.sections = more], Writer!Lens(part) + 4)
      /\ fields' = Append(fields, Writer!FieldOf(fields[Len(fields)], h, start))
  BY DEF Writer!AppendPartial
<1> HIDE DEF size, before, m, part, more, x
<1>11. Closed(more) /\ NamesIn(more) = NamesIn(m.sections) \o <<x>> /\ x \in Names
  BY <1>4, <1>7, NamesAppended DEF part, more, x
<1>12. more \in Seq(Piece)
  BY <1>11 DEF Closed
<1> DEFINE n == [m EXCEPT !.sections = more]
<1>13. n \in Packed /\ n.sections = more /\ n.at = m.at /\ n.copied = m.copied + 0
  BY <1>7, <1>12 DEF Packed
<1>14. Writer!Lens(part) + 4 = (Writer!Lens(part) + 0) + 4
  BY <1>6
<1>15. Grown(part, 0, n)
  <2>1. n.at = messages[Len(messages)].at /\ n.sections = messages[Len(messages)].sections \o part
    BY <1>13 DEF m, more, size
  <2>2. n.copied = messages[Len(messages)].copied + 0 /\ Closed(n.sections)
    BY <1>11, <1>13 DEF m, size
  <2>3. Writer!Extend(n, (Writer!Lens(part) + 0) + 4)
    BY <1>8, <1>14
  <2> HIDE DEF n
  <2> QED
    BY <1>3, <1>6, <1>13, <2>1, <2>2, <2>3 DEF Grown
<1> HIDE DEF n
<1>9. MadeLonger(part, 0)
  BY <1>15, ExtendStep
<1>10. /\ length' = length + Writer!Lens(part) /\ ulength' = ulength + Writer!Lens(part)
       /\ offset' = offset /\ length' \in Nat /\ ulength' \in Nat
       /\ PartMore(messages, part, 0, messages')
       /\ Good(messages') /\ Tiling(messages', ulength', offset', length')
       /\ NamesFirst(messages', before) = NamesFirst(messages, before)
  <2>1. Writer!Lens(part) + 0 = Writer!Lens(part)
    BY <1>6
  <2> QED
    BY <1>9, <2>1 DEF MadeLonger, before, size
<1>16. /\ Len(messages') = size /\ messages'[size].sections = more
       /\ \A i \in 1..before : messages'[i] = messages[i]
  <2>1. PartMore(messages, part, 0, messages')
    BY <1>10
  <2> QED
    BY <2>1 DEF PartMore, size, before, more, m
<1>17. before \in Nat /\ before + 1 = size
  BY <1>2, <1>3 DEF before
<1>18. /\ NamesFirst(messages, before) \in Seq(Names)
       /\ fields = NamesFirst(messages, before) \o NamesIn(m.sections)
  <2>1. \A i \in 1..(before + 1) : messages[i].sections \in Seq(Piece)
    BY <1>2, <1>17
  <2> QED
    BY <1>1, <1>17, <2>1, NamesMore DEF m
<1>19. NamesFirst(messages', size) = NamesFirst(messages, before) \o NamesIn(more)
  <2> DEFINE after == messages'
  <2>1. \A i \in 1..(before + 1) : after[i].sections \in Seq(Piece)
    <3>1. \A i \in 1..(before + 1) : i \in 1..before \/ i = size
      BY <1>17
    <3>2. \A i \in 1..before : i \in 1..size
      BY <1>17
    <3> QED
      BY <1>2, <1>12, <1>16, <3>1, <3>2
  <2>2. after[size].sections = more /\ NamesFirst(after, before) = NamesFirst(messages, before)
    BY <1>10, <1>16
  <2> HIDE DEF after
  <2>3. NamesFirst(after, before + 1) = NamesFirst(after, before) \o NamesIn(after[before + 1].sections)
    BY <1>17, <2>1, NamesMore
  <2> QED
    BY <1>17, <2>2, <2>3 DEF after
<1>20. /\ Len(NamesIn(m.sections)) \in Nat \ {0} /\ NamesIn(m.sections) \in Seq(Names)
       /\ NamesIn(m.sections)[Len(NamesIn(m.sections))] = NameAt(m.sections, Len(m.sections))
  BY <1>7, NamesLast
<1> DEFINE first == NamesFirst(messages, before)
           own == NamesIn(m.sections)
<1>21. /\ first \in Seq(Names) /\ own \in Seq(Names) /\ fields = first \o own /\ Len(own) \in Nat \ {0}
       /\ NamesFirst(messages', size) = first \o (own \o <<x>>)
       /\ own[Len(own)] = NameAt(m.sections, Len(m.sections))
  BY <1>11, <1>18, <1>19, <1>20
<1> HIDE DEF first, own
<1>22. fields[Len(fields)] = own[Len(own)] /\ fields \in Seq(Names)
  BY <1>21
<1>23. fields' = Append(fields, x)
  BY <1>8, <1>21, <1>22 DEF x
<1>24. Append(fields, x) = first \o (own \o <<x>>)
  <2>1. Append(fields, x) = fields \o <<x>> /\ <<x>> \in Seq(Names)
    BY <1>11, <1>22
  <2>2. (first \o own) \o <<x>> = first \o (own \o <<x>>)
    BY <1>21, <2>1, ConcatAssociative
  <2> QED
    BY <1>21, <2>1, <2>2
<1>25. fields' = NamesFirst(messages', Len(messages'))
  BY <1>16, <1>21, <1>23, <1>24
<1> QED
  BY <1>1, <1>10, <1>25 DEF WritesWell

\* Octets copied into a message that had none.
LEMMA CopiedOctets ==
  ASSUME NEW m \in Packed, m.copied = 0, NEW o \in Nat
  PROVE  LET n == [m EXCEPT !.copied = o]
         IN  n \in Packed /\ n.at = m.at /\ n.sections = m.sections /\ n.copied = m.copied + o
  BY DEF Packed

\* Octets that are no section: the fields are those there were.
LEMMA FromStartStep ==
  ASSUME WritesWell, NEW h \in Handles, NEW start, Writer!AppendFromStart(h, start)
  PROVE  WritesWell'
<1> DEFINE size == Len(messages)
           before == size - 1
           m == messages[size]
           octets == Writer!Size(h) - 4
           none == <<>>
           n == [m EXCEPT !.copied = octets]
<1>1. /\ Good(messages) /\ ulength \in Nat /\ offset \in Nat /\ length \in Nat
      /\ fields = NamesFirst(messages, size)
  BY DEF WritesWell
<1>2. /\ size \in Nat /\ DOMAIN messages = 1..size
      /\ \A i \in 1..size : /\ messages[i] \in Packed
                            /\ messages[i].sections \in Seq(Piece) /\ Closed(messages[i].sections)
  BY <1>1, GoodParts
<1>3. messages # <<>> /\ size \in 1..size
  <2>1. ulength # 0
    BY DEF Writer!AppendFromStart, Writer!WholeMessage
  <2> QED
    BY <2>1, <1>2, SomeMessage
<1>4. m \in Packed /\ m.sections \in Seq(Piece) /\ Closed(m.sections) /\ m.copied = 0
  BY <1>2, <1>3 DEF Writer!AppendFromStart
<1>5. octets \in Nat /\ octets + 4 = Writer!Size(h)
  <2> DEFINE lens == Writer!Lens(h)
  <2>1. h \in Seq(Piece)
    BY HandleParts
  <2>2. lens \in Nat
    BY <2>1, LensOf
  <2>3. Writer!Size(h) = (16 + lens) + 4
    BY <2>2 DEF Writer!Size
  <2> HIDE DEF lens
  <2>4. Writer!Size(h) - 4 \in Nat /\ (Writer!Size(h) - 4) + 4 = Writer!Size(h)
    BY <2>2, <2>3
  <2> QED
    BY <2>4
<1>6. Writer!Extend(n, Writer!Size(h)) /\ fields' = fields
  BY DEF Writer!AppendFromStart
<1>7. none \in Seq(Piece) /\ Writer!Lens(none) = 0 /\ m.sections \o none = m.sections
  <2>1. none \in Seq(Piece)
    OBVIOUS
  <2>2. m.sections \o none = m.sections
    BY <1>4
  <2> DEFINE secs == m.sections
             a == Writer!Lens(secs)
             b == Writer!Lens(none)
  <2>3. secs \o none = secs /\ secs \in Seq(Piece)
    BY <1>4, <2>2
  <2> HIDE DEF secs, none
  <2>4. a \in Nat /\ b \in Nat /\ Writer!Lens(secs \o none) = a + b
    BY <2>1, <2>3, LensOf, LensBoth
  <2>5. a = a + b
    BY <2>3, <2>4
  <2> HIDE DEF a, b
  <2>6. b = 0
    BY <2>4, <2>5
  <2> QED
    BY <2>1, <2>3, <2>6 DEF b, secs
<1> HIDE DEF octets, none
<1>8. n \in Packed /\ n.at = m.at /\ n.sections = m.sections /\ n.copied = m.copied + octets
  BY <1>4, <1>5, CopiedOctets
<1>9. Writer!Extend(n, (Writer!Lens(none) + octets) + 4)
  <2>1. (Writer!Lens(none) + octets) + 4 = Writer!Size(h)
    BY <1>5, <1>7
  <2> QED
    BY <1>6, <2>1
<1> HIDE DEF n
<1>10. Grown(none, octets, n)
  BY <1>3, <1>4, <1>5, <1>7, <1>8, <1>9 DEF Grown, m, size
<1>11. MadeLonger(none, octets)
  BY <1>10, ExtendStep
<1>12. /\ PartMore(messages, none, octets, messages') /\ Good(messages')
       /\ Tiling(messages', ulength', offset', length')
       /\ ulength' \in Nat /\ offset' \in Nat /\ length' \in Nat
  BY <1>1, <1>11 DEF MadeLonger
<1>13. /\ Len(messages') = size /\ messages'[size].sections = messages[size].sections
       /\ \A i \in 1..before : messages'[i] = messages[i]
  BY <1>7, <1>12 DEF PartMore, m
<1>14. \A i \in 1..size : messages'[i].sections = messages[i].sections
  <2>1. \A i \in 1..size : i \in 1..before \/ i = size
    BY <1>3
  <2> QED
    BY <1>13, <2>1
<1>15. NamesFirst(messages', size) = NamesFirst(messages, size)
  BY <1>2, <1>14, NamesFirstSame
<1> QED
  BY <1>1, <1>6, <1>12, <1>13, <1>15 DEF WritesWell

\* Whatever the writer does, its fields are those of its messages.
LEMMA WriterStep == ASSUME WritesWell, Writer!Next \/ UNCHANGED mhVars PROVE WritesWell'
<1>1. ASSUME NEW h \in Handles, NEW start \in Starts, Writer!AppendWhole(h, start) PROVE WritesWell'
  BY <1>1, WholeStep
<1>2. ASSUME NEW h \in Handles, NEW start \in Starts, Writer!AppendPartial(h, start) PROVE WritesWell'
  BY <1>2, PartialStep
<1>5. ASSUME NEW h \in Handles, NEW start \in Starts, Writer!AppendFromStart(h, start) PROVE WritesWell'
  BY <1>5, FromStartStep
<1>6. ASSUME NEW h \in Handles, NEW start \in Starts, Writer!AppendCrashes(h, start) PROVE WritesWell'
  BY <1>6 DEF Writer!AppendCrashes, WritesWell
<1>3. CASE Writer!Renew
  <2>1. messages' = <<>> /\ ulength' = 0 /\ offset' = 0 /\ length' = 0 /\ fields' = <<>>
    BY <1>3 DEF Writer!Renew
  <2> QED
    BY <2>1, EmptyWell DEF WritesWell
<1>4. CASE UNCHANGED mhVars
  BY <1>4 DEF mhVars, WritesWell
<1> QED
  BY <1>1, <1>2, <1>3, <1>4, <1>5, <1>6 DEF Writer!Next

-----------------------------------------------------------------------------
(* The fields of a file that was written are the names that were appended *)

\* A file holds good messages, and its history says which.
Holds(f) ==
    /\ Good(written[f].messages)
    /\ stream[f] = Sent(written[f].messages)
    /\ written[f].fields = NamesFirst(written[f].messages, Len(written[f].messages))

\* The sections of the k-th message written.
SecsOf(f, k) == written[f].messages[k].sections

\* A section the writer has is one for the reader.
LEMMA SeenSection == ASSUME NEW p \in Piece PROVE Seen(p) \in Section
<1>1. p.num \in 1..7 /\ p.len \in Nat /\ p.inherits = FALSE
  BY PieceParts, Zenon
<1>2. Seen(p) = [num |-> p.num, len |-> p.len, inherits |-> FALSE]
  BY <1>1 DEF Seen
<1> DEFINE num == p.num
           len == p.len
<1>3. num \in Nat /\ len \in Nat
  BY <1>1
<1> HIDE DEF num, len
<1>4. [num |-> num, len |-> len, inherits |-> FALSE] \in Section
  BY <1>3 DEF Section
<1> QED
  BY <1>2, <1>4 DEF num, len

\* A message as the reader has it.
LEMMA SentParts ==
  ASSUME NEW ms, Good(ms)
  PROVE  /\ Sent(ms) \in Seq(Message) /\ Len(Sent(ms)) = Len(ms)
         /\ \A k \in 1..Len(ms) :
               /\ Sent(ms)[k].edition = 2
               /\ Sent(ms)[k].sections = [j \in 1..Len(ms[k].sections) |-> Seen(ms[k].sections[j])]
<1>1. /\ Len(ms) \in Nat /\ DOMAIN ms = 1..Len(ms)
      /\ \A k \in 1..Len(ms) : ms[k].sections \in Seq(Piece)
  BY GoodParts
<1> DEFINE M(k) == [edition |-> 2, sections |-> [j \in DOMAIN ms[k].sections |-> Seen(ms[k].sections[j])]]
<1>2. ASSUME NEW k \in 1..Len(ms)
      PROVE  /\ M(k) \in Message /\ M(k).edition = 2
             /\ M(k).sections = [j \in 1..Len(ms[k].sections) |-> Seen(ms[k].sections[j])]
  <2> DEFINE secs == ms[k].sections
             size == Len(secs)
             seen == [j \in 1..size |-> Seen(secs[j])]
  <2>1. secs \in Seq(Piece) /\ size \in Nat /\ DOMAIN secs = 1..size /\ \A j \in 1..size : secs[j] \in Piece
    BY <1>1
  <2>2. M(k).edition = 2 /\ M(k).sections = seen
    BY <2>1
  <2>3. \A j \in 1..size : Seen(secs[j]) \in Section
    <3> SUFFICES ASSUME NEW j \in 1..size PROVE Seen(secs[j]) \in Section
      OBVIOUS
    <3>1. secs[j] \in Piece
      BY <2>1
    <3> HIDE DEF secs
    <3> QED
      BY <3>1, SeenSection
  <2>4. seen \in Seq(Section)
    BY <2>1, <2>3
  <2>5. M(k) = [edition |-> 2, sections |-> seen]
    BY <2>1
  <2> HIDE DEF seen
  <2>6. [edition |-> 2, sections |-> seen] \in Message
    BY <2>4 DEF Message
  <2> QED
    BY <2>2, <2>5, <2>6 DEF seen
<1>3. Sent(ms) = [k \in 1..Len(ms) |-> M(k)]
  BY <1>1 DEF Sent
<1> HIDE DEF M
<1>4. Sent(ms) \in Seq(Message) /\ Len(Sent(ms)) = Len(ms)
  <2> DEFINE sent == Sent(ms)
             size == Len(ms)
  <2>1. \A k \in 1..size : sent[k] \in Message
    BY <1>2, <1>3
  <2>2. sent = [k \in 1..size |-> sent[k]]
    BY <1>3
  <2>3. size \in Nat
    BY <1>1
  <2> HIDE DEF sent, size
  <2>4. sent \in [1..size -> Message]
    BY <2>1, <2>2
  <2>5. sent \in Seq(Message) /\ Len(sent) = size
    BY <2>3, <2>4
  <2> QED
    BY <2>5 DEF sent, size
<1> QED
  BY <1>2, <1>3, <1>4

\* The same, of a block of the file.
HeldIn(f, k, b) ==
    /\ Len(stream[f]) = Len(written[f].messages) /\ Len(stream[f]) \in Nat
    /\ IsBlock(b) /\ b \in Source \X Nat /\ b[1] = f /\ b[2] = k
    /\ stream[b[1]][b[2]].edition = 2
    /\ Closed(SecsOf(f, k)) /\ SecsOf(f, k) \in Seq(Piece)
    /\ Len(SecsOf(f, k)) \in Nat \ {0}
    /\ Len(Of(b)) = Len(SecsOf(f, k)) /\ DOMAIN Of(b) = 1..Len(SecsOf(f, k))
    /\ \A j \in 1..Len(SecsOf(f, k)) :
          /\ Of(b)[j].num = SecsOf(f, k)[j].num /\ Of(b)[j].inherits = FALSE
          /\ Of(b)[j].num \in 1..7

\* A message of the file is one that was written.
LEMMA HeldBlock ==
  ASSUME NEW f \in File, Holds(f), NEW k \in 1..Len(written[f].messages), NEW b, b = <<f, k>>
  PROVE  HeldIn(f, k, b)
<1> DEFINE ms == written[f].messages
           secs == ms[k].sections
           size == Len(secs)
<1>1. Len(ms) \in Nat /\ secs \in Seq(Piece) /\ Closed(secs)
  BY GoodParts DEF Holds
<1>2. /\ Sent(ms) \in Seq(Message) /\ Len(Sent(ms)) = Len(ms)
      /\ Sent(ms)[k].edition = 2
      /\ Sent(ms)[k].sections = [j \in 1..size |-> Seen(secs[j])]
  BY SentParts DEF Holds
<1>3. stream[f] = Sent(ms)
  BY DEF Holds
<1>4. b[1] = f /\ b[2] = k /\ f \in Source /\ b \in Source \X Nat
  BY <1>1 DEF Source
<1>5. Of(b) = [j \in 1..size |-> Seen(secs[j])]
  BY <1>2, <1>3, <1>4 DEF Of
<1>6. size \in Nat \ {0} /\ \A j \in 1..size : secs[j] \in Piece
  <2>1. size \in Nat \ {0}
    BY <1>1, NamesLast
  <2> QED
    BY <1>1, <2>1
<1>7. ASSUME NEW j \in 1..size
      PROVE  Of(b)[j].num = secs[j].num /\ Of(b)[j].inherits = FALSE /\ Of(b)[j].num \in 1..7
  <2>1. Of(b)[j] = Seen(secs[j])
    BY <1>5
  <2> DEFINE p == secs[j]
  <2>2. p \in Piece
    BY <1>6
  <2> HIDE DEF p
  <2>3. p.num \in 1..7 /\ p.inherits = FALSE
    BY <2>2, PieceParts
  <2>4. Seen(p).num = p.num /\ Seen(p).inherits = p.inherits
    BY DEF Seen
  <2> QED
    BY <2>1, <2>3, <2>4 DEF p
<1>8. Len(Of(b)) = size /\ DOMAIN Of(b) = 1..size
  BY <1>5, <1>6
<1>9. SecsOf(f, k) = secs
  BY DEF SecsOf
<1>10. IsBlock(b)
  BY <1>1, <1>2, <1>3, <1>4 DEF IsBlock
<1> HIDE DEF secs, size, ms
<1>11. Len(stream[f]) = Len(ms) /\ Len(stream[f]) \in Nat /\ stream[b[1]][b[2]].edition = 2
  BY <1>1, <1>2, <1>3, <1>4
<1> QED
  BY <1>1, <1>4, <1>6, <1>7, <1>8, <1>9, <1>10, <1>11 DEF ms, size, HeldIn

\* What is written is well-formed.
LEMMA HeldWell == ASSUME NEW f \in File, Holds(f) PROVE WellFormed(f)
<1> SUFFICES ASSUME NEW k \in DOMAIN stream[f] PROVE WellFormedMessage(<<f, k>>)
  BY DEF WellFormed
<1> DEFINE b == <<f, k>>
           secs == SecsOf(f, k)
<1>1. k \in 1..Len(written[f].messages)
  <2>1. /\ Sent(written[f].messages) \in Seq(Message)
        /\ Len(Sent(written[f].messages)) = Len(written[f].messages)
    BY SentParts DEF Holds
  <2>2. k \in DOMAIN Sent(written[f].messages)
    BY DEF Holds
  <2> QED
    BY <2>1, <2>2
<1>2. /\ Closed(secs) /\ Len(secs) \in Nat \ {0}
      /\ Len(Of(b)) = Len(secs) /\ DOMAIN Of(b) = 1..Len(secs)
      /\ \A j \in 1..Len(secs) : Of(b)[j].num = secs[j].num /\ Of(b)[j].inherits = FALSE /\ Of(b)[j].num \in 1..7
  <2>1. HeldIn(f, k, b)
    BY <1>1, HeldBlock
  <2> HIDE DEF b
  <2> QED
    BY <2>1 DEF HeldIn
<1>3. secs[Len(secs)].num = 7 /\ Len(secs) \in 1..Len(secs)
  BY <1>2 DEF Closed
<1>4. Of(b) # <<>> /\ Of(b)[Len(Of(b))].num = 7
  <2>1. Of(b)[Len(Of(b))].num = 7
    BY <1>2, <1>3
  <2>2. Of(b) # <<>>
    BY <1>2
  <2> QED
    BY <2>1, <2>2
<1> HIDE DEF b, secs
<1>5. WellFormedMessage(b)
  BY <1>2, <1>4 DEF WellFormedMessage
<1> QED
  BY <1>5 DEF b

\* The names of a field of the file are those that were appended.
LEMMA HeldName ==
  ASSUME NEW f \in File, Holds(f), NEW k \in 1..Len(written[f].messages), NEW b, b = <<f, k>>,
         NEW e \in 1..Len(SecsOf(f, k))
  PROVE  Named(FieldAt(b, e)) = NameAt(SecsOf(f, k), e)
<1> DEFINE secs == SecsOf(f, k)
           all == {secs[i].num : i \in 1..e}
           content == FieldAt(b, e)
<1>1. /\ b[1] = f /\ b[2] = k /\ Len(secs) \in Nat
      /\ \A j \in 1..Len(secs) : /\ Of(b)[j].num = secs[j].num /\ Of(b)[j].inherits = FALSE
                                 /\ Of(b)[j].num \in 1..7
  <2>1. HeldIn(f, k, b)
    BY HeldBlock
  <2> HIDE DEF all, content
  <2> QED
    BY <2>1 DEF HeldIn
<1>2. e \in Nat /\ \A i \in 1..e : /\ Of(b)[i].num = secs[i].num /\ Of(b)[i].inherits = FALSE
                                   /\ secs[i].num \in 1..7
  <2> DEFINE size == Len(secs)
  <2>1. e \in 1..size /\ size \in Nat
    BY <1>1
  <2>2. \A j \in 1..size : /\ Of(b)[j].num = secs[j].num /\ Of(b)[j].inherits = FALSE
                            /\ Of(b)[j].num \in 1..7
    BY <1>1
  <2> HIDE DEF secs, size
  <2>3. e \in Nat /\ \A i \in 1..e : i \in 1..size
    BY <2>1
  <2> QED
    BY <2>2, <2>3
<1> HIDE DEF secs
<1>3. {Of(b)[i].num : i \in 1..e} = all
  BY <1>2
<1>4. DOMAIN content = {0} \cup all /\ DOMAIN content \ {0} = all
  <2>1. DOMAIN content = {0} \cup all
    BY <1>3 DEF FieldAt
  <2>2. 0 \notin all
    BY <1>2
  <2> HIDE DEF all, content
  <2> QED
    BY <2>1, <2>2
<1>5. ASSUME NEW n \in all
      PROVE  /\ content[n][1] = b
             /\ content[n][2] = Max({i \in 1..e : secs[i].num = n})
  <2> DEFINE same == {i \in 1..e : secs[i].num = n}
  <2>1. SectionsUpTo(b, e, n) = same
    BY <1>2 DEF SectionsUpTo
  <2>2. Own(b, same) = same
    BY <1>2 DEF Own
  <2>3. Latest(b, e, n) = <<b, Max(same)>>
    <3> HIDE DEF same
    <3> QED
      BY <2>1, <2>2 DEF Latest
  <2>4. n # 0 /\ n \in {0} \cup {Of(b)[i].num : i \in 1..e}
    BY <1>2, <1>3
  <2>5. content[n] = Latest(b, e, n)
    BY <2>4 DEF FieldAt
  <2> HIDE DEF same, content
  <2> QED
    BY <2>3, <2>5 DEF same
<1>6. Named(content) =
         [n \in DOMAIN content \ {0} |->
            written[content[n][1][1]].messages[content[n][1][2]].sections[content[n][2]].id]
  BY DEF Named
<1>7. NameAt(secs, e) = [n \in all |-> secs[Max({i \in 1..e : secs[i].num = n})].id]
  BY DEF NameAt
<1> HIDE DEF all, content
<1>8. ASSUME NEW n \in all
      PROVE  written[content[n][1][1]].messages[content[n][1][2]].sections[content[n][2]].id
                = secs[Max({i \in 1..e : secs[i].num = n})].id
  BY <1>1, <1>5 DEF secs, SecsOf
<1>9. Named(content) = NameAt(secs, e)
  BY <1>4, <1>6, <1>7, <1>8
<1> QED
  BY <1>9 DEF content, secs

\* Fields and names, one by one.
Matches(x, y) ==
    /\ x \in Seq(Content) /\ y \in Seq(Names) /\ Len(x) = Len(y)
    /\ \A i \in 1..Len(x) : Named(x[i]) = y[i]

\* No fields, no names.
LEMMA MatchesNone == Matches(<<>>, <<>>)
<1> DEFINE none == <<>>
<1>1. none \in Seq(Content) /\ none \in Seq(Names) /\ Len(none) = 0
  OBVIOUS
<1> HIDE DEF none
<1>2. Matches(none, none)
  BY <1>1 DEF Matches
<1> QED
  BY <1>2 DEF none

\* Fields and names, one behind the other.
LEMMA MatchesBoth ==
  ASSUME NEW x, NEW y, Matches(x, y), NEW p, NEW q, Matches(p, q)
  PROVE  Matches(x \o p, y \o q)
<1> DEFINE a == Len(x)
           c == Len(p)
           more == x \o p
           same == y \o q
<1>1. /\ x \in Seq(Content) /\ y \in Seq(Names) /\ Len(y) = a
      /\ p \in Seq(Content) /\ q \in Seq(Names) /\ Len(q) = c
      /\ \A i \in 1..a : Named(x[i]) = y[i]
      /\ \A i \in 1..c : Named(p[i]) = q[i]
  BY DEF Matches
<1>2. /\ more \in Seq(Content) /\ Len(more) = a + c /\ a \in Nat /\ c \in Nat
      /\ \A i \in 1..a : more[i] = x[i]
      /\ \A i \in 1..c : more[a + i] = p[i]
  BY <1>1, Concatenated
<1>3. /\ same \in Seq(Names) /\ Len(same) = a + c
      /\ \A i \in 1..a : same[i] = y[i]
      /\ \A i \in 1..c : same[a + i] = q[i]
  <2>1. /\ same \in Seq(Names) /\ Len(same) = Len(y) + Len(q)
        /\ \A i \in 1..Len(y) : same[i] = y[i]
        /\ \A i \in 1..Len(q) : same[Len(y) + i] = q[i]
    <3>1. y \in Seq(Names) /\ q \in Seq(Names)
      BY <1>1
    <3> QED
      BY <3>1, Concatenated
  <2> HIDE DEF a, c, more, same
  <2> QED
    BY <1>1, <2>1
<1> HIDE DEF a, c, more, same
<1>4. ASSUME NEW i \in 1..(a + c) PROVE Named(more[i]) = same[i]
  <2>1. CASE i \in 1..a
    BY <1>1, <1>2, <1>3, <2>1
  <2>2. CASE i \notin 1..a
    <3> DEFINE j == i - a
    <3>1. j \in 1..c /\ i = a + j
      BY <1>2, <2>2
    <3> HIDE DEF j
    <3> QED
      BY <1>1, <1>2, <1>3, <3>1
  <2> QED
    BY <2>1, <2>2
<1> QED
  BY <1>2, <1>3, <1>4 DEF Matches, more, same

\* The fields of a message of the file up to a section, and the names.
LEMMA UpToMatches ==
  ASSUME NEW f \in File, Holds(f), NEW k \in 1..Len(written[f].messages), NEW b, b = <<f, k>>
  PROVE  Matches(FieldsOf(b), NamesIn(SecsOf(f, k)))
<1> DEFINE secs == SecsOf(f, k)
           size == Len(secs)
           same == {e \in Nat : Matches(FieldsUpTo(b, e), NamesUpTo(secs, e))}
<1>1. HeldIn(f, k, b)
  BY HeldBlock
<1>2. b \in Source \X Nat /\ secs \in Seq(Piece) /\ size \in Nat
      /\ \A j \in 1..size : Of(b)[j].num = secs[j].num
  BY <1>1 DEF HeldIn
<1>3. 0 \in same
  <2>1. FieldsUpTo(b, 0) = <<>>
    BY <1>2, UpToNext
  <2>2. NamesUpTo(secs, 0) = <<>>
    BY <1>2, NamesNext
  <2> QED
    BY <2>1, <2>2, MatchesNone
<1>4. ASSUME NEW e \in 0..(size - 1), e \in same PROVE e + 1 \in same
  <2> DEFINE j == e + 1
  <2>1. e \in Nat /\ j \in Nat /\ j \in 1..size /\ Matches(FieldsUpTo(b, e), NamesUpTo(secs, e))
    BY <1>2, <1>4
  <2>2. FieldsUpTo(b, j) = FieldsUpTo(b, e) \o EndingAt(b, j) /\ EndingAt(b, j) \in Seq(Content)
    BY <1>2, <2>1, UpToNext
  <2>3. NamesUpTo(secs, j) = NamesUpTo(secs, e) \o NameEnding(secs, j) /\ NameEnding(secs, j) \in Seq(Names)
    BY <1>2, <2>1, NamesNext
  <2> HIDE DEF j, secs
  <2>4. Matches(EndingAt(b, j), NameEnding(secs, j))
    <3>1. CASE secs[j].num = 7
      <4> DEFINE c == FieldAt(b, j)
                 n == NameAt(secs, j)
      <4>1. EndingAt(b, j) = <<c>> /\ NameEnding(secs, j) = <<n>>
        BY <1>2, <2>1, <3>1 DEF EndingAt, NameEnding
      <4>2. Named(c) = n
        BY <2>1, HeldName DEF secs
      <4>3. <<c>> \in Seq(Content) /\ <<n>> \in Seq(Names)
        BY <2>2, <2>3, <4>1
      <4> HIDE DEF c, n
      <4>4. Len(<<c>>) = 1 /\ Len(<<n>>) = 1 /\ <<c>>[1] = c /\ <<n>>[1] = n
        OBVIOUS
      <4>5. Matches(<<c>>, <<n>>)
        BY <4>2, <4>3, <4>4 DEF Matches
      <4> QED
        BY <4>1, <4>5
    <3>2. CASE secs[j].num # 7
      <4>1. EndingAt(b, j) = <<>> /\ NameEnding(secs, j) = <<>>
        BY <1>2, <2>1, <3>2 DEF EndingAt, NameEnding
      <4> QED
        BY <4>1, MatchesNone
    <3> QED
      BY <3>1, <3>2
  <2>5. Matches(FieldsUpTo(b, j), NamesUpTo(secs, j))
    BY <2>1, <2>2, <2>3, <2>4, MatchesBoth
  <2> QED
    BY <2>1, <2>5 DEF j
<1> HIDE DEF same, size
<1>5. \A e \in 0..size : e \in same
  BY <1>2, <1>3, <1>4, Induction
<1>6. Matches(FieldsUpTo(b, size), NamesUpTo(secs, size))
  <2>1. size \in 0..size
    BY <1>2
  <2> QED
    BY <1>5, <2>1 DEF same
<1>7. FieldsOf(b) = FieldsUpTo(b, Len(Of(b)))
  <2>1. DOMAIN Of(b) = 1..Len(Of(b)) /\ stream[b[1]][b[2]].edition = 2
    BY <1>1 DEF HeldIn
  <2> QED
    BY <2>1 DEF FieldsOf, FieldsUpTo
<1>8. Len(Of(b)) = size
  BY <1>1 DEF HeldIn, size
<1> QED
  BY <1>6, <1>7, <1>8 DEF NamesIn, size, secs

\* The fields of the file, and the names of all its messages.
LEMMA FirstMatches ==
  ASSUME Sourced, NEW f \in File, Holds(f)
  PROVE  Matches(Expected(f), written[f].fields)
<1> DEFINE ms == written[f].messages
           size == Len(ms)
           same == {k \in Nat : Matches(FirstFields(f, k), NamesFirst(ms, k))}
<1>1. /\ Good(ms) /\ stream[f] = Sent(ms) /\ written[f].fields = NamesFirst(ms, size)
      /\ f \in Source
  BY DEF Holds, Source
<1>2. size \in Nat /\ \A k \in 1..size : ms[k].sections \in Seq(Piece)
  BY <1>1, GoodParts
<1>3. Len(stream[f]) = size /\ DOMAIN stream[f] = 1..size
  <2>1. Sent(ms) \in Seq(Message) /\ Len(Sent(ms)) = size
    BY <1>1, SentParts
  <2> HIDE DEF ms
  <2> QED
    BY <1>1, <2>1
<1>4. Expected(f) = FirstFields(f, size)
  BY <1>3 DEF Expected, FirstFields
<1>5. 0 \in same
  <2>1. FirstFields(f, 0) = <<>>
    <3> DEFINE none == [i \in 1..0 |-> FieldsOf(<<f, i>>)]
    <3>1. none = <<>>
      OBVIOUS
    <3> HIDE DEF none
    <3>2. FlattenSeq(none) = <<>>
      BY <3>1, FlattenEmpty
    <3> QED
      BY <3>2 DEF FirstFields, none
  <2>2. NamesFirst(ms, 0) = <<>>
    BY <1>1, NamesFirstTyped
  <2> QED
    BY <2>1, <2>2, MatchesNone
<1>6. ASSUME NEW k \in 0..(size - 1), k \in same PROVE k + 1 \in same
  <2> DEFINE j == k + 1
             b == <<f, j>>
  <2>1. k \in Nat /\ j \in Nat /\ j \in 1..size /\ Matches(FirstFields(f, k), NamesFirst(ms, k))
    BY <1>2, <1>6
  <2>2. FirstFields(f, j) = FirstFields(f, k) \o FieldsOf(b)
    <3>1. k \in 0..(Len(stream[f]) - 1)
      BY <1>3, <1>6
    <3> QED
      BY <1>1, <3>1, FirstNext
  <2>3. NamesFirst(ms, j) = NamesFirst(ms, k) \o NamesIn(ms[j].sections)
    <3>1. \A i \in 1..(k + 1) : ms[i].sections \in Seq(Piece)
      BY <1>2, <1>6
    <3> HIDE DEF ms
    <3> QED
      BY <2>1, <3>1, NamesMore
  <2> HIDE DEF j
  <2>4. Matches(FieldsOf(b), NamesIn(SecsOf(f, j)))
    BY <2>1, UpToMatches
  <2>5. SecsOf(f, j) = ms[j].sections
    BY DEF SecsOf
  <2> HIDE DEF ms, b
  <2>6. Matches(FirstFields(f, j), NamesFirst(ms, j))
    BY <2>1, <2>2, <2>3, <2>4, <2>5, MatchesBoth
  <2> QED
    BY <2>1, <2>6 DEF j
<1> HIDE DEF same, size, ms
<1>7. \A k \in 0..size : k \in same
  BY <1>2, <1>5, <1>6, Induction
<1>8. size \in 0..size
  BY <1>2
<1> QED
  BY <1>1, <1>4, <1>7, <1>8 DEF same

\* A prefix, said number by number.
LEMMA PrefixParts ==
  ASSUME NEW n \in Nat, NEW x, DOMAIN x = 1..n, Len(x) = n, NEW m \in Nat, NEW y, DOMAIN y = 1..m, Len(y) = m
  PROVE  IsPrefix(x, y) <=> n <= m /\ \A i \in 1..n : x[i] = y[i]
<1> DEFINE S == {x[i] : i \in 1..n}
           T == {y[i] : i \in 1..m}
<1>1. /\ SubSeq(x, 1, n) \in Seq(S) /\ Len(SubSeq(x, 1, n)) = n
      /\ \A i \in 1..n : SubSeq(x, 1, n)[i] = x[i]
  <2>1. \A i \in 1..n : x[i] \in S
    OBVIOUS
  <2> HIDE DEF S
  <2>2. /\ SubSeq(x, 1, n) \in Seq(S) /\ Len(SubSeq(x, 1, n)) = IF 1 <= n THEN n - 1 + 1 ELSE 0
        /\ \A i \in 1..n - 1 + 1 : SubSeq(x, 1, n)[i] = x[1 + i - 1]
    BY <2>1, SubSeqProperties
  <2> QED
    BY <2>2
<1>2. ASSUME n <= m
      PROVE  /\ SubSeq(y, 1, n) \in Seq(T) /\ Len(SubSeq(y, 1, n)) = n
             /\ \A i \in 1..n : SubSeq(y, 1, n)[i] = y[i]
  <2>1. \A i \in 1..n : y[i] \in T
    BY <1>2
  <2> HIDE DEF T
  <2>2. /\ SubSeq(y, 1, n) \in Seq(T) /\ Len(SubSeq(y, 1, n)) = IF 1 <= n THEN n - 1 + 1 ELSE 0
        /\ \A i \in 1..n - 1 + 1 : SubSeq(y, 1, n)[i] = y[1 + i - 1]
    BY <2>1, SubSeqProperties
  <2> QED
    BY <2>2
<1> HIDE DEF S, T
<1>3. IsPrefix(x, y) <=> n <= m /\ SubSeq(x, 1, n) = SubSeq(y, 1, n)
  BY DEF IsPrefix
<1>4. ASSUME n <= m, \A i \in 1..n : x[i] = y[i] PROVE SubSeq(x, 1, n) = SubSeq(y, 1, n)
  <2> DEFINE p == SubSeq(x, 1, n)
             q == SubSeq(y, 1, n)
  <2>1. p \in Seq(S) /\ q \in Seq(T) /\ Len(p) = n /\ Len(q) = n /\ \A i \in 1..n : p[i] = q[i]
    BY <1>1, <1>2, <1>4
  <2> HIDE DEF p, q
  <2>2. p = [i \in 1..n |-> p[i]] /\ q = [i \in 1..n |-> q[i]]
    BY <2>1
  <2> QED
    BY <2>1, <2>2 DEF p, q
<1>5. ASSUME n <= m, SubSeq(x, 1, n) = SubSeq(y, 1, n) PROVE \A i \in 1..n : x[i] = y[i]
  BY <1>1, <1>2, <1>5
<1> QED
  BY <1>3, <1>4, <1>5

\* So the handles of the file have those names.
LEMMA HeldFields ==
  ASSUME Sourced, FieldsInOrder, NEW f \in File, Holds(f), \E S : out[f] \in Seq(S)
  PROVE  /\ IsPrefix([i \in DOMAIN out[f] |-> Named(out[f][i].content)], written[f].fields)
         /\ last[f] = "end" => Len(out[f]) = Len(written[f].fields)
<1> DEFINE size == Len(out[f])
           names == written[f].fields
           m == Len(names)
           c == Contents(f)
           x == Expected(f)
           y == [i \in DOMAIN out[f] |-> Named(out[f][i].content)]
<1>1. size \in Nat /\ DOMAIN out[f] = 1..size
  OBVIOUS
<1>2. c = [i \in 1..size |-> out[f][i].content]
  BY <1>1 DEF Contents
<1>3. DOMAIN c = 1..size /\ Len(c) = size
  BY <1>1, <1>2
<1>4. Matches(x, names)
  BY FirstMatches
<1>5. m \in Nat /\ DOMAIN names = 1..m /\ DOMAIN x = 1..m /\ Len(x) = m
      /\ \A i \in 1..m : Named(x[i]) = names[i]
  BY <1>4 DEF Matches
<1>6. IsPrefix(c, x) /\ (last[f] = "end" => c = x)
  BY HeldWell DEF FieldsInOrder, Source
<1>7. y = [i \in 1..size |-> Named(c[i])] /\ DOMAIN y = 1..size /\ Len(y) = size
  BY <1>1, <1>2
<1> HIDE DEF size, names, m, c, x, y
<1>8. size <= m /\ \A i \in 1..size : c[i] = x[i]
  BY <1>1, <1>3, <1>5, <1>6, PrefixParts
<1>9. \A i \in 1..size : i \in 1..m /\ y[i] = names[i]
  BY <1>1, <1>5, <1>7, <1>8
<1>10. IsPrefix(y, names)
  BY <1>1, <1>5, <1>7, <1>8, <1>9, PrefixParts DEF m
<1>11. last[f] = "end" => size = m
  BY <1>3, <1>5, <1>6
<1> QED
  BY <1>10, <1>11 DEF y, names, size, m

\* Whether it is well-formed is said by its own messages.
LEMMA SourceWell == ASSUME NEW s \in Source, stream'[s] = stream[s] PROVE WellFormed(s)' <=> WellFormed(s)
<1>1. \A k : Of(<<s, k>>)' = Of(<<s, k>>)
  BY DEF Of
<1>2. ASSUME NEW k PROVE WellFormedMessage(<<s, k>>)' <=> WellFormedMessage(<<s, k>>)
  <2>1. \A e : SectionsUpTo(<<s, k>>, e, 6)' = SectionsUpTo(<<s, k>>, e, 6)
    BY <1>1 DEF SectionsUpTo
  <2>2. \A e : Own(<<s, k>>, SectionsUpTo(<<s, k>>, e, 6))' = Own(<<s, k>>, SectionsUpTo(<<s, k>>, e, 6))
    BY <1>1, <2>1 DEF Own
  <2>3. stream'[<<s, k>>[1]][<<s, k>>[2]] = stream[<<s, k>>[1]][<<s, k>>[2]]
    OBVIOUS
  <2> QED
    BY <1>1, <2>2, <2>3 DEF WellFormedMessage
<1> QED
  BY <1>2 DEF WellFormed

-----------------------------------------------------------------------------
(* The writer and the reader *)

\* Every file holds what its history says, if the buffer was intact, and there is
\* no memory reader.
Kept ==
    /\ DOMAIN written = File /\ stream[Null] = <<>>
    /\ \A f \in File : /\ written[f].intact \in BOOLEAN
                        /\ (written[f].messages = <<>> => written[f].intact /\ stream[f] = <<>>)
                        /\ (written[f].intact => Holds(f))

RoundTrip == Entries /\ Typed /\ AllTold /\ WritesWell /\ Kept

\* A file that was not written holds no messages.
LEMMA EmptyHeld == Sent(<<>>) = <<>> /\ Good(<<>>) /\ NamesFirst(<<>>, Len(<<>>)) = <<>>
<1>1. Sent(<<>>) = <<>>
  BY DEF Sent
<1> QED
  BY <1>1, EmptyWell

\* Before anything was appended.
LEMMA RoundTripInit == ASSUME RTInit PROVE RoundTrip
<1>1. /\ messages = <<>> /\ ulength = 0 /\ offset = 0 /\ length = 0 /\ fields = <<>>
      /\ stream = Nothing /\ Started
      /\ written = [f \in File |-> [messages |-> <<>>, fields |-> <<>>, intact |-> TRUE]]
  BY DEF RTInit, Writer!Init
<1>2. Sourced
  <2>1. \A s \in Source : <<>> \in Seq(Message)
    OBVIOUS
  <2> QED
    BY <1>1, <2>1 DEF Sourced, Nothing
<1>3. Entries /\ Typed /\ AllTold
  BY <1>1, <1>2, InitTyped, InitAllTold
<1>4. WritesWell
  BY <1>1, EmptyWell DEF WritesWell
<1>5. ASSUME NEW f \in File PROVE Holds(f) /\ written[f].intact = TRUE /\ stream[f] = <<>>
  <2>1. written[f].messages = <<>> /\ written[f].fields = <<>> /\ written[f].intact = TRUE
    BY <1>1
  <2>2. stream[f] = <<>>
    BY <1>1 DEF Nothing, Source
  <2> QED
    BY <2>1, <2>2, EmptyHeld DEF Holds
<1>6. DOMAIN written = File /\ stream[Null] = <<>>
  BY <1>1 DEF Nothing, Source
<1> QED
  BY <1>3, <1>4, <1>5, <1>6 DEF RoundTrip, Kept

\* A step of the reader, or of the writer before it writes.
LEMMA RoundTripStep ==
  ASSUME RoundTrip, [Next]_vars, Writer!Next \/ UNCHANGED mhVars, UNCHANGED written
  PROVE  RoundTrip'
<1>1. Entries /\ Typed /\ AllTold /\ WritesWell /\ Kept
  BY DEF RoundTrip
<1>2. stream' = stream
  BY SameStream
<1>3. MemoryNow
  BY <1>1 DEF Kept, MemoryNow
<1>4. Entries' /\ Typed' /\ AllTold'
  BY <1>1, <1>3, EntriesStep, TypedStep, AllToldStep
<1>5. WritesWell'
  BY <1>1, WriterStep
<1>6. Kept'
  BY <1>1, <1>2 DEF Kept, Holds
<1> QED
  BY <1>4, <1>5, <1>6 DEF RoundTrip

\* A file is written: nothing of it was read before.
LEMMA WriteStep ==
  ASSUME RoundTrip, NEW f \in File, WriteFile(f)
  PROVE  RoundTrip'
<1>1. Entries /\ Typed /\ AllTold /\ WritesWell /\ Kept
  BY DEF RoundTrip
<1>0. PICK found \in IF Writer!Intact THEN {Sent(messages)} ELSE Garbage :
          stream' = [stream EXCEPT ![f] = found]
  BY DEF WriteFile
<1>2. /\ messages # <<>> /\ written[f].messages = <<>>
      /\ stream' = [stream EXCEPT ![f] = found]
      /\ written' = [written EXCEPT ![f] = [messages |-> messages, fields |-> fields, intact |-> Writer!Intact]]
      /\ UNCHANGED mhVars /\ files' = files /\ supports' = supports /\ out' = out /\ last' = last
  BY <1>0 DEF WriteFile
<1>18. stream[f] = <<>>
  BY <1>1, <1>2 DEF Kept
<1>3. f \in Source /\ f # Null /\ DOMAIN stream = Source /\ DOMAIN written = File
  BY <1>1, StreamsAssumption DEF Source, Typed, Sourced, Kept
<1>4. /\ Sent(messages) \in Seq(Message) /\ Len(Sent(messages)) = Len(messages)
      /\ Good(messages) /\ fields = NamesFirst(messages, Len(messages))
  BY <1>1, SentParts DEF WritesWell
<1>19. found \in Seq(Message) /\ (Writer!Intact => found = Sent(messages))
  <2>1. CASE Writer!Intact
    BY <1>0, <1>4, <2>1
  <2>2. CASE ~Writer!Intact
    BY <1>0, <2>2, GarbageAssumption
  <2> QED
    BY <2>1, <2>2
<1>5. stream'[f] = found /\ \A s \in Source : s # f => stream'[s] = stream[s]
  BY <1>2, <1>3
<1>6. Sourced'
  BY <1>1, <1>2, <1>19 DEF Typed, Sourced
<1>8. Quiet(f)
  BY <1>1, <1>3, <1>18 DEF AllTold
\* A message in progress is of another source.
<1>9. ASSUME NEW b, IsBlock(b)
      PROVE  b[1] \in Source /\ b[1] # f /\ stream'[b[1]] = stream[b[1]] /\ Of(b)' = Of(b) /\ IsBlock(b)'
  <2>1. b[1] \in Source /\ b[2] \in 1..Len(stream[b[1]]) /\ b \in Source \X Nat
    BY <1>9 DEF IsBlock
  <2>2. b[1] # f
    <3> SUFFICES ASSUME b[1] = f PROVE FALSE
      OBVIOUS
    <3>1. Len(stream[f]) = 0
      BY <1>18
    <3> QED
      BY <2>1, <3>1
  <2>3. stream'[b[1]] = stream[b[1]]
    BY <1>5, <2>1, <2>2
  <2> QED
    BY <2>1, <2>2, <2>3 DEF Of, IsBlock
<1>10. ASSUME NEW i \in DOMAIN supports
       PROVE  /\ Placed(supports[i]) /\ Entered(supports[i])
              /\ Placed(supports[i])' /\ Entered(supports[i])'
  <2> DEFINE gm == supports[i]
  <2>1. gm' = gm /\ Placed(gm) /\ Entered(gm)
    BY <1>1, <1>2 DEF Typed, Entries
  <2>2. gm.message # Null => IsBlock(gm.message)
    BY <2>1 DEF Placed
  <2>3. Entered(supports[i])'
    <3>1. CASE gm.message = Null
      BY <2>1, <3>1 DEF Entered
    <3>2. CASE gm.message # Null
      <4>1. stream'[gm.message[1]] = stream[gm.message[1]]
        BY <1>9, <2>2, <3>2
      <4> QED
        BY <2>1, <3>2, <4>1 DEF Entered
    <3> QED
      BY <3>1, <3>2
  <2>4. Placed(supports[i])'
    <3>1. CASE gm.message = Null
      BY <2>1, <3>1 DEF Placed
    <3>2. CASE gm.message # Null
      <4>1. PICK b : b = gm.message
        OBVIOUS
      <4>2. IsBlock(b) /\ Of(b)' = Of(b) /\ IsBlock(b)'
        BY <1>9, <2>2, <3>2, <4>1 DEF IsBlock
      <4>3. supports[i]' = supports[i] /\ supports[i].message = b
        BY <2>1, <4>1
      <4>4. ASSUME supports[i].number = 7
            PROVE  \E j \in 1..(Len(Of(b)') - 1) : supports[i].sections[7] = <<b, j>>
        <5>1. PICK j \in 1..(Len(Of(b)) - 1) : supports[i].sections[7] = <<b, j>>
          BY <2>1, <4>1, <4>4 DEF Placed, Of
        <5>2. j \in 1..(Len(Of(b)') - 1)
          BY <4>2, <5>1
        <5> QED
          BY <5>1, <5>2
      <4> QED
        BY <3>2, <4>2, <4>3, <4>4 DEF Placed, Of, IsBlock
    <3> QED
      BY <3>1, <3>2
  <2> QED
    BY <2>1, <2>3, <2>4
<1>11. Entries'
  BY <1>1, <1>2, <1>10 DEF Entries
<1>12. \A s \in Source : files[s].next \in 1..(Len(stream'[s]) + 1)
  <2> SUFFICES ASSUME NEW s \in Source PROVE files[s].next \in 1..(Len(stream'[s]) + 1)
    OBVIOUS
  <2>1. files[s].next \in 1..(Len(stream[s]) + 1)
    BY <1>1 DEF Typed
  <2>2. CASE s = f
    <3>1. Len(stream[s]) = 0
      BY <1>18, <2>2
    <3>2. Len(stream'[s]) \in Nat
      BY <1>6 DEF Sourced
    <3> QED
      BY <2>1, <3>1, <3>2
  <2>3. CASE s # f
    BY <1>5, <2>1, <2>3
  <2> QED
    BY <2>2, <2>3
<1>13. Typed'
  BY <1>1, <1>2, <1>6, <1>10, <1>12 DEF Typed
<1>14. ASSUME NEW s \in Source
       PROVE  IF stream'[s] = <<>> THEN Quiet(s)' ELSE Sole(s)' /\ (WellFormed(s)' => Told(s)')
  <2>1. CASE s = f
    <3>1. \A i \in DOMAIN supports : supports[i].file # f
      BY <1>3, <1>8 DEF Quiet, HasSupport
    <3>2. Sole(f)' /\ Settled(f)' /\ \A i \in DOMAIN supports' : supports'[i].file # f
      BY <1>2, <3>1 DEF Sole, Settled
    <3>3. files'[f].next - 1 = 0 /\ out'[f] = <<>> /\ last'[f] = "none"
      <4>1. files[f].next \in 1..(Len(stream[f]) + 1) /\ Len(stream[f]) = 0
        BY <1>1, <1>3, <1>18 DEF Typed
      <4> QED
        BY <1>2, <1>8, <4>1 DEF Quiet
    <3>4. FirstFields(f, 0)' = <<>>
      <4> DEFINE none == [i \in 1..0 |-> FieldsOf(<<f, i>>)']
      <4>1. none = <<>>
        OBVIOUS
      <4> HIDE DEF none
      <4>2. FlattenSeq(none) = <<>>
        BY <4>1, FlattenEmpty
      <4> QED
        BY <4>2 DEF FirstFields, none
    <3>5. Contents(f)' = <<>>
      <4>1. Contents(f)' = [i \in DOMAIN out'[f] |-> out'[f][i].content]
        BY DEF Contents
      <4> QED
        BY <3>3, <4>1
    <3>6. Contents(f)' = FirstFields(f, files[f].next - 1)'
      BY <3>3, <3>4, <3>5
    <3>7. Told(f)'
      BY <3>2, <3>3, <3>6 DEF Told
    <3>8. CASE found = <<>>
      <4>1. Quiet(f)'
        BY <1>2, <1>8, <3>1 DEF Quiet, HasSupport
      <4> QED
        BY <1>5, <2>1, <3>8, <4>1
    <3>9. CASE found # <<>>
      BY <1>5, <2>1, <3>2, <3>7, <3>9
    <3> QED
      BY <3>8, <3>9
  <2>2. CASE s # f
    <3>1. stream'[s] = stream[s]
      BY <1>5, <2>2
    <3>2. SameEntries(s)
      BY <1>2 DEF SameEntries
    <3>3. files'[s] = files[s] /\ out'[s] = out[s] /\ last'[s] = last[s]
      BY <1>2
    <3>4. /\ Sole(s) => Sole(s)'
          /\ Told(s) => Told(s)'
          /\ Quiet(s) => Quiet(s)'
      BY <3>1, <3>2, <3>3, SourceTold
    <3>5. WellFormed(s)' <=> WellFormed(s)
      BY <3>1, SourceWell
    <3> QED
      BY <1>1, <3>1, <3>4, <3>5 DEF AllTold
  <2> QED
    BY <2>1, <2>2
<1>15. AllTold'
  BY <1>14 DEF AllTold
<1>16. WritesWell'
  BY <1>1, <1>2, WriterStep
<1>17. Kept'
  <2>1. stream'[Null] = <<>>
    BY <1>1, <1>3, <1>5 DEF Kept, Source
  <2>2. DOMAIN written' = File
    BY <1>2, <1>3
  <2>3. ASSUME NEW g \in File
        PROVE  /\ written'[g].intact \in BOOLEAN
               /\ (written'[g].messages = <<>> => written'[g].intact /\ stream'[g] = <<>>)
               /\ (written'[g].intact => Holds(g)')
    <3>1. CASE g = f
      <4>1. /\ written'[g].messages = messages /\ written'[g].fields = fields
            /\ written'[g].intact = Writer!Intact
        BY <1>2, <1>3, <3>1
      <4>2. Writer!Intact \in BOOLEAN
        BY DEF Writer!Intact
      <4>3. Writer!Intact => Holds(g)'
        BY <1>4, <1>5, <1>19, <3>1, <4>1 DEF Holds
      <4> QED
        BY <1>2, <4>1, <4>2, <4>3
    <3>2. CASE g # f
      <4>1. /\ written'[g] = written[g] /\ stream'[g] = stream[g]
            /\ written[g].intact \in BOOLEAN
            /\ (written[g].messages = <<>> => written[g].intact /\ stream[g] = <<>>)
            /\ (written[g].intact => Holds(g))
        BY <1>1, <1>2, <1>3, <1>5, <3>2 DEF Kept, Source
      <4> QED
        BY <4>1 DEF Holds
    <3> QED
      BY <3>1, <3>2
  <2> QED
    BY <2>1, <2>2, <2>3 DEF Kept
<1> QED
  BY <1>11, <1>13, <1>15, <1>16, <1>17 DEF RoundTrip

\* What is appended to a multi-field handle, as whole messages or from a section
\* on, and written to a file, comes back from handles read from that file, field
\* by field and in order, whatever is appended, written and read in between; and
\* the messages of the handle tile its buffer.
THEOREM FieldsComeBackCorrect == RTSpec => []FieldsComeBack
<1>1. RTInit => RoundTrip
  BY RoundTripInit
<1>2. RoundTrip /\ [RTNext]_rtVars => RoundTrip'
  <2> SUFFICES ASSUME RoundTrip, [RTNext]_rtVars PROVE RoundTrip'
    OBVIOUS
  <2>1. CASE Write
    BY <2>1, RoundTripStep DEF Write
  <2>2. ASSUME NEW f \in File, WriteFile(f) PROVE RoundTrip'
    BY <2>2, WriteStep
  <2>3. CASE Read
    BY <2>3, RoundTripStep DEF Read
  <2>4. CASE UNCHANGED rtVars
    BY <2>4, RoundTripStep DEF rtVars
  <2> QED
    BY <2>1, <2>2, <2>3, <2>4 DEF RTNext
<1>3. RoundTrip => FieldsComeBack
  <2> SUFFICES ASSUME RoundTrip PROVE FieldsComeBack
    OBVIOUS
  <2>1. Writer!Tiled
    BY TiledWell DEF RoundTrip
  <2>2. FieldsInOrder /\ Sourced
    BY ToldFields DEF RoundTrip, Typed
  <2>3. ASSUME NEW f \in File, written[f].intact
        PROVE  /\ IsPrefix([i \in DOMAIN out[f] |-> Named(out[f][i].content)], written[f].fields)
               /\ last[f] = "end" => Len(out[f]) = Len(written[f].fields)
    <3>1. Holds(f)
      BY <2>3 DEF RoundTrip, Kept
    <3>2. \E S : out[f] \in Seq(S)
      BY DEF RoundTrip, Typed, Source
    <3> QED
      BY <2>2, <3>1, <3>2, HeldFields
  <2> QED
    BY <2>1, <2>3 DEF FieldsComeBack
<1> QED
  BY <1>1, <1>2, <1>3, PTL DEF RTSpec
=============================================================================
