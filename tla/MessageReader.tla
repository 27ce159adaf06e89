---------------------------- MODULE MessageReader ----------------------------
(* grib_io.cc: how messages are found in a stream and how long they are; the
   readers of a FILE that threads share; counting the messages of a file.

   A file is a sequence of cells of four octets.  A cell has what its octets
   spell (magic) and what they mean where a reader expects the head of a
   message or a section (ed, len); any cell can be met as either, as data may
   spell a magic.  Lengths count cells.  In a GRIB 1 message the head is
   followed by sections 1 to 3, whose length is in the first of their cells,
   and section 4; in a BUFR 0 or 1 message the length in the head is that of
   sections 1 and 2, and sections 3 and 4 follow.  The head of a GRIB 2 message
   and the superblock of an HDF5 file are one cell each.

   Left out: messages whose declared length is less than what was read of them
   (the unsigned difference wraps), I/O errors, reading from memory and from
   the stream of a callback (both cannot seek), GTS, TAF and METAR.  *)
EXTENDS Integers, Sequences, FiniteSets, FiniteSetsExt

CONSTANTS File,        \* the files that are read: their cells, and the start and size
                       \* of the intact messages they were made of
          Thread,      \* the threads that share the FILE
          Null,
          FirstBuffer, \* the size of a program's first buffer
          FastBuffer,  \* the buffer of the fast readers, 64 octets
          TmpSize,     \* sizeof(tmp) in read_PSEUDO
          Flag, Unit   \* 0x800000 and 120 in the length of a large GRIB 1 message

Magics == {"GRIB", "BUFR", "PSEUDO", "HDF5", "WRAP"}
Cells == [magic : Magics \cup {"7777", "none"}, ed : Nat, len : Nat]

\* A file has a message that declares no length.
ZeroLength(f) ==
    \E p \in DOMAIN f : p + 1 \in DOMAIN f /\ f[p].magic \in {"GRIB", "HDF5", "WRAP"} /\ f[p + 1].len = 0

\* It has a GRIB 1 message whose length counts units.
HasLarge(f) ==
    \E p \in DOMAIN f :
        p + 1 \in DOMAIN f /\ f[p].magic = "GRIB" /\ f[p + 1].ed = 1 /\ f[p + 1].len >= Flag

\* Its HDF5 and WRAP messages fit into the buffer of the fast readers.
StoredFit(f) ==
    \A p \in DOMAIN f :
        f[p].magic \in {"HDF5", "WRAP"} /\ p + 1 \in DOMAIN f => f[p + 1].len <= FastBuffer

\* It has a GRIB 1 message whose length does not cover the sections read for the
\* headers.
HasShort(f) ==
    \E p \in DOMAIN f :
        /\ f[p].magic = "GRIB" /\ p + 1 \in DOMAIN f /\ f[p + 1].ed = 1
        /\ f[p + 1].len < 3 + (IF p + 2 \in DOMAIN f THEN f[p + 2].len ELSE 0)

ASSUME FileAssumption == \A f \in File : f.cells \in Seq(Cells)
ASSUME NullAssumption == Null \notin Cells \cup Nat
ASSUME ThreadAssumption == Thread # {}
ASSUME SizeAssumption == {FirstBuffer, FastBuffer, TmpSize, Flag, Unit} \subseteq Nat \ {0}

\* The length of a large message counts one unit at least.
ASSUME LargeAssumption ==
    \A f \in File : \A p \in DOMAIN f.cells :
        f.cells[p].ed = 1 /\ f.cells[p].len >= Flag => f.cells[p].len % Flag \in Nat \ {0}

VARIABLES file,    \* the file that is read
          pos,     \* its position: the next cell
          call,    \* per thread: where its reading loop is
          got,     \* the messages returned, in the order of their reads, and
          errors,  \* the errors, until the FILE was raced for
          raced    \* a FILE was put back after another thread moved it

vars == <<file, pos, call, got, errors, raced>>

-----------------------------------------------------------------------------
(* Reading one message *)

\* How a reader allocates: malloc, a buffer of n cells, or none (fast).
Malloc == [buffer |-> Null, fast |-> FALSE, headers |-> FALSE]
Buffer(n) == [Malloc EXCEPT !.buffer = n]
Fast == [Malloc EXCEPT !.buffer = FastBuffer, !.fast = TRUE]
HeadersOnly == [Malloc EXCEPT !.headers = TRUE]

Cell(f, p) == IF p <= Len(f) THEN f[p] ELSE Null

\* What a read returns, where it started and where it leaves the FILE.
Result(err, p, start, size) == [err |-> err, pos |-> p, start |-> start, size |-> size]

\* The reads of a header ran into the end of the file.
Cut(f, q) == Result("end", Len(f) + 1, q, 0)

\* Mutant: the position is left where a message that is cut off would end.
ReadTheRestPast(f, q, i, length, how, check7777) ==
    LET ends == q + length - 1
    IN  IF length = 0 THEN Result("small", q + i, q, 0)
        ELSE IF ~how.fast /\ how.buffer # Null /\ how.buffer < length
            THEN Result("small", q + i, q, length)
        ELSE IF ends > Len(f) THEN Result("end", ends + 1, q, length)
        ELSE IF check7777 /\ ~how.headers /\ f[ends].magic # "7777"
            THEN Result("wrong", ends + 1, q, length)
        ELSE Result("ok", ends + 1, q, length)

\* The rest of a message of the given length at q, of which i cells were read.
ReadTheRest(f, q, i, length, how, check7777) ==
    LET ends == q + length - 1
    IN  IF length = 0 THEN Result("small", q + i, q, 0)
        ELSE IF ~how.fast /\ how.buffer # Null /\ how.buffer < length
            THEN Result("small", q + i, q, length)
        ELSE IF ends > Len(f) THEN Result("end", Len(f) + 1, q, length)
        ELSE IF check7777 /\ ~how.headers /\ f[ends].magic # "7777"
            THEN Result("wrong", ends + 1, q, length)
        ELSE Result("ok", ends + 1, q, length)

\* Mutants: the position stays where the read ended; it is put back to the
\* magic and not behind it.
BackKept(r) == r
BackToMagic(r) == IF r.err = "ok" THEN r ELSE [r EXCEPT !.pos = r.start]

\* After an error GRIB and BUFR go on right behind the magic.
Back(r) == IF r.err = "ok" THEN r ELSE [r EXCEPT !.pos = r.start + 1]

\* The length of a message whose head has Flag, from the length of section 4.
LargeLength(coded, sec4) ==
    IF sec4 < Unit THEN (coded % Flag) * Unit - sec4 + 1 ELSE coded

\* What is encoded as total length and as length of section 4.
CodedLength(total, sec4, gribex) ==
    LET units == (total - 1 + Unit - 1) \div Unit
    IN  IF (total < Flag \/ ~gribex) /\ total < 2 * Flag - 1 THEN <<total, sec4>>
        ELSE <<Flag + units, units * Unit - (total - 1)>>

\* Sections 1 to 3 are read one after the other, up to the length of section 4.
Sections(f, q) == IF Cell(f, q + 2) = Null THEN Null ELSE Cell(f, q + 2).len

Section4(f, q) == IF Sections(f, q) = Null THEN Null ELSE Cell(f, q + 2 + Sections(f, q))

\* The length is as coded, also that of a large message, and the seek stops
\* before the last octet.
Grib1Headers(f, q, coded, how) ==
    LET i == 3 + Sections(f, q)
        r == ReadTheRest(f, q, i, i, how, TRUE)
    IN  IF Section4(f, q) = Null THEN Cut(f, q)
        ELSE IF r.err = "ok" THEN [r EXCEPT !.pos = Min({q + coded - 1, Len(f) + 1})]
        ELSE Back(r)

Grib1Large(f, q, coded, how) ==
    IF Section4(f, q) = Null THEN Cut(f, q)
    ELSE Back(ReadTheRest(f, q, 3 + Sections(f, q), LargeLength(coded, Section4(f, q).len), how, TRUE))

ReadGrib(f, q, how) ==
    LET head == Cell(f, q + 1)
    IN  IF head = Null THEN Cut(f, q)
        ELSE IF head.ed = 1 /\ how.headers THEN Grib1Headers(f, q, head.len, how)
        ELSE IF head.ed = 1 /\ head.len >= Flag THEN Grib1Large(f, q, head.len, how)
        ELSE IF head.ed \in 1..3 THEN Back(ReadTheRest(f, q, 2, head.len, how, TRUE))
        ELSE Back(Result("edition", q + 2, q, 0))

\* Editions 0 and 1: the length is the sum of those of the sections.
OldBufr(f, q, head, how) ==
    LET sec3 == Cell(f, q + 1 + head.len)
        sec4 == Cell(f, q + 1 + head.len + sec3.len)
    IN  IF sec3 = Null THEN Cut(f, q)
        ELSE IF sec3.len = 0 THEN Result("invalid", q + 2 + head.len, q, 0)
        ELSE IF sec4 = Null THEN Cut(f, q)
        ELSE Back(ReadTheRest(f, q, 2 + head.len + sec3.len,
                              1 + head.len + sec3.len + sec4.len + 1, how, TRUE))

ReadBufr(f, q, how) ==
    LET head == Cell(f, q + 1)
    IN  IF head = Null THEN Cut(f, q)
        ELSE IF head.len = 0 THEN Result("invalid", q + 2, q, 0)
        ELSE IF head.ed \in {0, 1} THEN OldBufr(f, q, head, how)
        ELSE IF head.ed \in 2..4 THEN Back(ReadTheRest(f, q, 2, head.len, how, TRUE))
        ELSE Back(Result("edition", q + 2, q, 0))

\* BUDG, DIAG and TIDE: sections 1 and 4.
ReadPseudo(f, q, how) ==
    LET sec1 == Cell(f, q + 1)
        sec4 == Cell(f, q + 1 + sec1.len)
    IN  IF sec1 = Null THEN Cut(f, q)
        ELSE IF sec1.len >= TmpSize THEN Result("internal", q + 2, q, 0)
        ELSE IF sec4 = Null THEN Cut(f, q)
        ELSE ReadTheRest(f, q, 2 + sec1.len, 1 + sec1.len + sec4.len + 1, how, TRUE)

\* HDF5 and WRAP always store the message.
Stored(how) == [how EXCEPT !.fast = FALSE]

ReadHdf5(f, q, how) ==
    LET super == Cell(f, q + 1)
    IN  IF super = Null THEN Cut(f, q)
        ELSE IF super.ed > 3 THEN Result("unsupported", q + 2, q, 0)
        ELSE ReadTheRest(f, q, 2, super.len, Stored(how), FALSE)

ReadWrap(f, q, how) ==
    LET head == Cell(f, q + 1)
    IN  IF head = Null THEN Cut(f, q)
        ELSE ReadTheRest(f, q, 2, head.len, Stored(how), TRUE)

ReadAt(f, q, how) ==
    CASE f[q].magic = "GRIB"   -> ReadGrib(f, q, how)
      [] f[q].magic = "BUFR"   -> ReadBufr(f, q, how)
      [] f[q].magic = "PSEUDO" -> ReadPseudo(f, q, how)
      [] f[q].magic = "HDF5"   -> ReadHdf5(f, q, how)
      [] f[q].magic = "WRAP"   -> ReadWrap(f, q, how)

\* An intact message is one that a reader which allocates reads where it starts.
ASSUME IntactAssumption ==
    \A f \in File : \A m \in f.intact :
        /\ m.start \in DOMAIN f.cells /\ f.cells[m.start].magic \in Magics
        /\ ReadAt(f.cells, m.start, Malloc).err = "ok"

\* The next cell that spells a magic is the start of a message.
ReadAny(f, p, how) ==
    LET starts == {q \in p..Len(f) : f[q].magic \in Magics}
        r      == ReadAt(f, Min(starts), how)
    IN  IF starts = {} THEN Result("end", Len(f) + 1, 0, 0)
        ELSE IF r.err = "end" THEN [r EXCEPT !.err = "premature"]
        ELSE r

-----------------------------------------------------------------------------
(* Counting and listing the messages of a file *)

\* The offset that is returned: HDF5 and WRAP set none.
Offset(f, r) == IF f[r.start].magic \in {"HDF5", "WRAP"} THEN 0 ELSE r.start

\* Mutant: the stop at the first error is forgotten.
ProductsOn(f, how) ==
    LET from[p \in 1..(Len(f) + 1)] ==
            LET r == ReadAny(f, p, how)
            IN  IF r.err = "end" THEN [err |-> "end", list |-> <<>>]
                ELSE IF r.err # "ok" THEN from[r.pos]
                ELSE [from[r.pos] EXCEPT !.list = <<[off |-> Offset(f, r), size |-> r.size]>> \o @]
    IN  from[1]

\* The messages that a reader finds up to its first error, and that error.
Products(f, how) ==
    LET from[p \in 1..(Len(f) + 1)] ==
            LET r == ReadAny(f, p, how)
            IN  IF r.err # "ok" THEN [err |-> r.err, list |-> <<>>]
                ELSE [from[r.pos] EXCEPT !.list = <<[off |-> Offset(f, r), size |-> r.size]>> \o @]
    IN  from[1]

\* codes_extract_offsets: the messages are counted, then read again.  As the
\* count fails on the first invalid message, strict mode makes no difference.
ExtractOffsets(f) ==
    LET found == Products(f, Fast)
    IN  IF found.err # "end" THEN [err |-> found.err, list |-> <<>>]
        ELSE IF found.list = <<>> THEN [err |-> "invalid", list |-> <<>>]
        ELSE [err |-> "ok", list |-> found.list]

-----------------------------------------------------------------------------
(* Threads that read one FILE to its end *)

Idle(buffer) == [at |-> "idle", buffer |-> buffer, saved |-> 0, wanted |-> 0, moved |-> FALSE]

Init ==
    /\ file \in File
    /\ pos = 1
    /\ call \in [Thread -> {Idle(Null), Idle(FirstBuffer)}]
    /\ got = <<>>
    /\ errors = {}
    /\ raced = FALSE

\* The FILE is moved under another thread, between its ftello and its fseeko.
Moved(t, mine) ==
    [u \in Thread |-> IF u = t THEN mine
                      ELSE IF call[u].at \in {"read", "restore"} THEN [call[u] EXCEPT !.moved = TRUE]
                      ELSE call[u]]

\* grib_read_any_from_file keeps the position, outside the mutex.
Tell(t) ==
    /\ call[t].at = "idle" /\ call[t].buffer # Null
    /\ call' = [call EXCEPT ![t].at = "read", ![t].saved = pos]
    /\ UNCHANGED <<file, pos, got, errors, raced>>

MayRead(t) == call[t].at = "read" \/ (call[t].at = "idle" /\ call[t].buffer = Null)

How(t) == IF call[t].buffer = Null THEN Malloc ELSE Buffer(call[t].buffer)

Returned(r) == [off |-> Offset(file.cells, r), size |-> r.size, ends |-> r.pos]

\* read_any, under the mutex.  A program goes on after an error, to the end of
\* the file; one whose buffer was too small is told so after a Restore.
Read(t) ==
    /\ MayRead(t)
    /\ \E r \in {ReadAny(file.cells, pos, How(t))} :
          /\ pos' = r.pos
          /\ \/ /\ r.err = "small" /\ call[t].buffer # Null
                /\ call' = Moved(t, [call[t] EXCEPT !.at = "restore", !.wanted = r.size])
                /\ UNCHANGED <<got, errors>>
             \/ /\ r.err = "ok"
                /\ call' = Moved(t, Idle(call[t].buffer))
                /\ got' = IF raced THEN got ELSE Append(got, Returned(r))
                /\ UNCHANGED errors
             \/ /\ r.err = "end"
                /\ call' = Moved(t, [Idle(call[t].buffer) EXCEPT !.at = "done"])
                /\ UNCHANGED <<got, errors>>
             \/ /\ r.err \notin {"ok", "end"} /\ (r.err = "small" => call[t].buffer = Null)
                /\ call' = Moved(t, Idle(call[t].buffer))
                /\ errors' = IF raced THEN errors
                             ELSE errors \cup {[err |-> r.err, start |-> r.start, pos |-> r.pos]}
                /\ UNCHANGED got
    /\ UNCHANGED <<file, raced>>

Restored(t) == call[t].saved

\* The buffer was too small: back to where the call began.  The program calls
\* again with a buffer of the size it was told, or gives up if that is no more.
\* From the first race on, what is returned is not kept.
Restore(t) ==
    /\ call[t].at = "restore"
    /\ pos' = Restored(t)
    /\ call' = Moved(t, IF call[t].wanted > call[t].buffer THEN Idle(call[t].wanted)
                        ELSE [Idle(call[t].buffer) EXCEPT !.at = "stuck"])
    /\ raced' = (raced \/ call[t].moved)
    /\ got' = IF raced' THEN <<>> ELSE got
    /\ errors' = IF raced' THEN {} ELSE errors
    /\ UNCHANGED file

Next == \E t \in Thread : Tell(t) \/ Read(t) \/ Restore(t)

Fairness == \A t \in Thread : WF_vars(Tell(t) \/ Read(t) \/ Restore(t))

Spec == Init /\ [][Next]_vars /\ Fairness

-----------------------------------------------------------------------------
(* Properties *)

AllDone == \A t \in Thread : call[t].at = "done"

AllStopped == \A t \in Thread : call[t].at \in {"done", "stuck"}

First(g) == g.ends - g.size

(* The position is in the file or at its end, and a position that will be put
   back is not ahead of it unless another thread moved it. *)
TypeOK ==
    /\ pos \in 1..(Len(file.cells) + 1)
    /\ \A t \in Thread :
          /\ call[t].at \in {"idle", "read", "restore", "done", "stuck"}
          /\ call[t].buffer = Null => call[t].at \in {"idle", "done"}
          /\ call[t].buffer = Null \/ call[t].buffer \in Nat
          /\ ~call[t].moved /\ call[t].at \in {"read", "restore"} => call[t].saved \in 1..pos

\* An error that GRIB and BUFR do not put back, or of a kind that never is.
NotPutBack(e) ==
    e.err \in {"premature", "invalid"} \/ file.cells[e.start].magic \notin {"GRIB", "BUFR"}

(* "Each thread gets its own message": the messages are returned in the order
   of the file and do not overlap, whichever thread reads the next one; unless
   a FILE was put back, for a buffer that was too small, after another thread
   moved it.  At the end every intact message was returned, or lies in one that
   was: also behind damaged ones, whose declared length is wrong, whose 7777 is
   missing or whose edition is unknown; but for those that a header cut off by
   the end of the file, or a damaged message of another kind, swallowed. *)
EachMessageOnce ==
    ~raced =>
        /\ \A i, j \in DOMAIN got : i < j => got[i].ends <= First(got[j])
        /\ AllStopped /\ (\E t \in Thread : call[t].at = "done") =>
               \A m \in file.intact :
                   \/ \E i \in DOMAIN got : First(got[i]) <= m.start /\ m.start < got[i].ends
                   \/ \E e \in errors : NotPutBack(e) /\ e.start < m.start /\ m.start < e.pos

(* The list of offsets and sizes, made with the readers that skip the contents,
   is that of the messages the other readers return; there is none if they
   return an error.  Reading headers only finds them at the same places.  Files
   with HDF5 and WRAP messages that do not fit into the buffer of the fast
   readers are the exception, and for headers only large GRIB 1 messages and
   those that declare less than their headers. *)
OffsetsAgree ==
    AllDone /\ ~raced /\ StoredFit(file.cells) =>
        LET listed  == ExtractOffsets(file.cells)
            headers == Products(file.cells, HeadersOnly)
        IN  IF errors # {} THEN listed.err \in {e.err : e \in errors}
            ELSE /\ listed.list = [i \in DOMAIN got |-> [off |-> got[i].off, size |-> got[i].size]]
                 /\ HasLarge(file.cells) \/ HasShort(file.cells) \/
                    [i \in DOMAIN headers.list |-> headers.list[i].off] =
                        [i \in DOMAIN got |-> got[i].off]

(* A program that reads to the end and goes on after errors comes to the end,
   although other threads put the FILE back: each error but a buffer that is
   too small moves on, and each of those comes with the size that is needed.
   A message whose length is zero has none: it is excepted. *)
EveryLoopEnds == ~ZeroLength(file.cells) => <>AllDone
=============================================================================
