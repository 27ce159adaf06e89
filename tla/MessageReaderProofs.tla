------------------------- MODULE MessageReaderProofs -------------------------
(* That a FILE is read without losing or repeating a message.  First, what a
   read of any file does: it starts at the next magic, moves on, and not behind
   the end (ReadAnyPast, from one lemma per kind of message).  Then what threads
   that share the FILE keep, until one puts it back behind another: what was
   returned lies before the position (Order), an intact message before it was
   returned, swallowed, or will be read again (NoneLost), and nobody goes back
   from the end (AtTheEnd).  Last, that the readers which list the messages find
   those: at each position all readers return the same (ReadAnyAgrees), the
   lists follow from position to position (Listing), and what the threads
   returned is what is listed before the next message (Sight).  *)
EXTENDS MessageReader, SequenceLemmas, TLAPS

-----------------------------------------------------------------------------
(* Where a read starts and where it leaves the FILE *)

\* A reader that stores messages, in a buffer or not.
Plain(how) == DOMAIN how = {"buffer", "fast", "headers"} /\ how.fast = FALSE /\ how.headers = FALSE

\* A read that found a magic at q moves on, not behind the end of the file; if
\* it succeeds it leaves the FILE behind the message.
Sound(f, q, r) ==
    /\ r.start = q /\ r.size \in Nat
    /\ r.pos \in (q + 1)..(Len(f) + 1)
    /\ r.err = "ok" => r.pos = q + r.size

\* A reader with a buffer fails where one that allocates does not only if the
\* buffer is too small.
Like(r, r0) == r0.err = "ok" => r.err \in {"ok", "small"}

LEMMA CellThere ==
  ASSUME NEW f \in Seq(Cells), NEW p \in Nat \ {0}, Cell(f, p) # Null
  PROVE  p \in DOMAIN f /\ Cell(f, p) = f[p] /\ f[p].len \in Nat /\ f[p].ed \in Nat /\ p <= Len(f)
<1>1. p <= Len(f) /\ Cell(f, p) = f[p]
  BY DEF Cell
<1>2. f[p] \in Cells
  BY <1>1
<1> QED
  BY <1>1, <1>2 DEF Cells

LEMMA RestSound ==
  ASSUME NEW f \in Seq(Cells), NEW q \in DOMAIN f, NEW i \in Nat \ {0}, q + i <= Len(f) + 1,
         NEW length \in Nat, NEW check \in BOOLEAN,
         NEW how, Plain(how), NEW how0, Plain(how0), how0.buffer = Null
  PROVE  LET r  == ReadTheRest(f, q, i, length, how, check)
             r0 == ReadTheRest(f, q, i, length, how0, check)
         IN  Sound(f, q, r) /\ Like(r, r0) /\ r.err \in {"small", "end", "wrong", "ok"}
  BY DEF ReadTheRest, Result, Sound, Like, Plain

LEMMA BackSound ==
  ASSUME NEW f \in Seq(Cells), NEW q \in DOMAIN f, NEW r, NEW r0, Sound(f, q, r), Like(r, r0),
         r.err \in {"small", "end", "wrong", "ok", "edition"},
         DOMAIN r = {"err", "pos", "start", "size"}, DOMAIN r0 = DOMAIN r
  PROVE  /\ Sound(f, q, Back(r)) /\ Like(Back(r), Back(r0)) /\ Back(r).err = r.err
         /\ r.err # "ok" => Back(r).pos = q + 1
  BY DEF Back, Sound, Like

\* What the readers of one kind of message have in common: an error of GRIB and
\* BUFR puts the FILE back behind the magic, but for those of NotPutBack.
Good(f, q, r, r0) ==
    /\ Sound(f, q, r) /\ Like(r, r0)
    /\ DOMAIN r = {"err", "pos", "start", "size"}
    /\ f[q].magic \in {"GRIB", "BUFR"} /\ r.err \notin {"ok", "end", "invalid"} => r.pos = q + 1

LEMMA RestDomain ==
  ASSUME NEW f, NEW q, NEW i, NEW length, NEW how, NEW check
  PROVE  DOMAIN ReadTheRest(f, q, i, length, how, check) = {"err", "pos", "start", "size"}
  BY DEF ReadTheRest, Result

\* The rest of a message of GRIB or BUFR.
LEMMA RestGood ==
  ASSUME NEW f \in Seq(Cells), NEW q \in DOMAIN f, NEW i \in Nat \ {0}, q + i <= Len(f) + 1,
         NEW length \in Nat,
         NEW how, Plain(how), NEW how0, Plain(how0), how0.buffer = Null
  PROVE  Good(f, q, Back(ReadTheRest(f, q, i, length, how, TRUE)),
              Back(ReadTheRest(f, q, i, length, how0, TRUE)))
<1> DEFINE r == ReadTheRest(f, q, i, length, how, TRUE)
           r0 == ReadTheRest(f, q, i, length, how0, TRUE)
<1>1. Sound(f, q, r) /\ Like(r, r0) /\ r.err \in {"small", "end", "wrong", "ok"}
  BY RestSound
<1>2. DOMAIN r = {"err", "pos", "start", "size"} /\ DOMAIN r0 = DOMAIN r
  BY RestDomain
<1> HIDE DEF r, r0
<1>3. /\ Sound(f, q, Back(r)) /\ Like(Back(r), Back(r0)) /\ Back(r).err = r.err
      /\ r.err # "ok" => Back(r).pos = q + 1
  BY <1>1, <1>2, BackSound
<1>4. DOMAIN Back(r) = DOMAIN r
  BY DEF Back
<1> QED
  BY <1>2, <1>3, <1>4 DEF Good, r, r0

LEMMA CutGood ==
  ASSUME NEW f \in Seq(Cells), NEW q \in DOMAIN f PROVE Good(f, q, Cut(f, q), Cut(f, q))
  BY DEF Good, Cut, Result, Sound, Like

\* An error before the length is known.
LEMMA ErrorGood ==
  ASSUME NEW f \in Seq(Cells), NEW q \in DOMAIN f, NEW err \in {"edition", "invalid", "internal", "unsupported"},
         NEW p \in (q + 1)..(Len(f) + 1), f[q].magic \in {"GRIB", "BUFR"} => err = "invalid" \/ p = q + 1
  PROVE  Good(f, q, Result(err, p, q, 0), Result(err, p, q, 0))
  BY DEF Good, Result, Sound, Like

LEMMA EditionGood ==
  ASSUME NEW f \in Seq(Cells), NEW q \in DOMAIN f, NEW p
  PROVE  Good(f, q, Back(Result("edition", p, q, 0)), Back(Result("edition", p, q, 0)))
<1>1. Back(Result("edition", p, q, 0)) = Result("edition", q + 1, q, 0)
  BY DEF Back, Result
<1> QED
  BY <1>1, ErrorGood

LEMMA GribGood ==
  ASSUME NEW g \in File, NEW q \in DOMAIN g.cells,
         NEW how, Plain(how), NEW how0, Plain(how0), how0.buffer = Null
  PROVE  Good(g.cells, q, ReadGrib(g.cells, q, how), ReadGrib(g.cells, q, how0))
<1> DEFINE f == g.cells
           head == Cell(f, q + 1)
<1>0. f \in Seq(Cells) /\ \A p \in DOMAIN f : f[p].ed = 1 /\ f[p].len >= Flag => f[p].len % Flag \in Nat \ {0}
  BY FileAssumption, LargeAssumption
<1>1. Flag \in Nat \ {0} /\ Unit \in Nat \ {0}
  BY SizeAssumption
<1>2. CASE head = Null
  BY <1>0, <1>2, CutGood DEF ReadGrib
<1>3. ASSUME head # Null
      PROVE  q + 1 \in DOMAIN f /\ head = f[q + 1] /\ head.len \in Nat /\ head.ed \in Nat /\ q + 1 <= Len(f)
  BY <1>0, <1>3, CellThere
<1>4. CASE head # Null /\ head.ed = 1 /\ head.len >= Flag
  <2> DEFINE sec4 == Section4(f, q)
             i == 3 + Sections(f, q)
             length == LargeLength(head.len, sec4.len)
  <2>1. /\ ReadGrib(f, q, how) = Grib1Large(f, q, head.len, how)
        /\ ReadGrib(f, q, how0) = Grib1Large(f, q, head.len, how0)
    BY <1>4 DEF ReadGrib, Plain
  <2>2. CASE sec4 = Null
    BY <1>0, <2>1, <2>2, CutGood DEF Grib1Large
  <2>3. CASE sec4 # Null
    <3>1. Sections(f, q) # Null /\ Cell(f, q + 2) # Null /\ Sections(f, q) = Cell(f, q + 2).len
      BY <2>3 DEF Section4, Sections
    <3>2. Sections(f, q) \in Nat
      BY <1>0, <3>1, CellThere
    <3>3. sec4 = Cell(f, q + 2 + Sections(f, q))
      BY <3>1 DEF Section4
    <3>4. q + 2 + Sections(f, q) <= Len(f) /\ sec4.len \in Nat
      BY <1>0, <2>3, <3>2, <3>3, CellThere
    <3>5. head.len % Flag \in Nat \ {0}
      BY <1>0, <1>3, <1>4
    <3>6. (head.len % Flag) * Unit >= Unit /\ (head.len % Flag) * Unit \in Nat
      BY <1>1, <3>5
    <3>7. length \in Nat
      BY <1>3, <1>4, <3>4, <3>6, <1>1 DEF LargeLength
    <3> HIDE DEF length, sec4
    <3>8. i \in Nat \ {0} /\ q + i <= Len(f) + 1
      BY <3>2, <3>4
    <3> HIDE DEF i
    <3>9. Good(f, q, Back(ReadTheRest(f, q, i, length, how, TRUE)), Back(ReadTheRest(f, q, i, length, how0, TRUE)))
      BY <1>0, <3>7, <3>8, RestGood
    <3> QED
      BY <2>1, <2>3, <3>9 DEF Grib1Large, i, length, sec4
  <2> QED
    BY <2>2, <2>3
<1>5. CASE head # Null /\ head.ed \in 1..3 /\ ~(head.ed = 1 /\ head.len >= Flag)
  <2>1. /\ ReadGrib(f, q, how) = Back(ReadTheRest(f, q, 2, head.len, how, TRUE))
        /\ ReadGrib(f, q, how0) = Back(ReadTheRest(f, q, 2, head.len, how0, TRUE))
    BY <1>5 DEF ReadGrib, Plain
  <2> DEFINE length == head.len
  <2>2. q + 2 <= Len(f) + 1 /\ length \in Nat /\ 2 \in Nat \ {0}
    BY <1>3, <1>5, <1>0
  <2> HIDE DEF length
  <2>3. Good(f, q, Back(ReadTheRest(f, q, 2, length, how, TRUE)), Back(ReadTheRest(f, q, 2, length, how0, TRUE)))
    BY <1>0, <2>2, RestGood
  <2> QED
    BY <2>1, <2>3 DEF length
<1>6. CASE head # Null /\ ~(head.ed \in 1..3)
  <2>a. head.ed # 1
    BY <1>3, <1>6
  <2>1. /\ ReadGrib(f, q, how) = Back(Result("edition", q + 2, q, 0))
        /\ ReadGrib(f, q, how0) = Back(Result("edition", q + 2, q, 0))
    BY <1>6, <2>a, Zenon DEF ReadGrib
  <2> QED
    BY <1>0, <2>1, EditionGood
<1> QED
  BY <1>2, <1>4, <1>5, <1>6

LEMMA BufrGood ==
  ASSUME NEW f \in Seq(Cells), NEW q \in DOMAIN f,
         NEW how, Plain(how), NEW how0, Plain(how0), how0.buffer = Null
  PROVE  Good(f, q, ReadBufr(f, q, how), ReadBufr(f, q, how0))
<1> DEFINE head == Cell(f, q + 1)
<1>1. CASE head = Null
  BY <1>1, CutGood DEF ReadBufr
<1>2. ASSUME head # Null PROVE head.len \in Nat /\ head.ed \in Nat /\ q + 1 <= Len(f)
  BY <1>2, CellThere
<1>3. CASE head # Null /\ head.len = 0
  <2>1. Good(f, q, Result("invalid", q + 2, q, 0), Result("invalid", q + 2, q, 0))
    BY <1>2, <1>3, ErrorGood
  <2> QED
    BY <1>3, <2>1 DEF ReadBufr
<1>4. CASE head # Null /\ head.len # 0 /\ head.ed \in {0, 1}
  <2> DEFINE sec3 == Cell(f, q + 1 + head.len)
             sec4 == Cell(f, q + 1 + head.len + sec3.len)
             i == 2 + head.len + sec3.len
             length == 1 + head.len + sec3.len + sec4.len + 1
  <2>1. ReadBufr(f, q, how) = OldBufr(f, q, head, how) /\ ReadBufr(f, q, how0) = OldBufr(f, q, head, how0)
    BY <1>4 DEF ReadBufr
  <2>2. CASE sec3 = Null
    BY <2>1, <2>2, CutGood DEF OldBufr
  <2>3. ASSUME sec3 # Null PROVE sec3.len \in Nat /\ q + 1 + head.len <= Len(f)
    BY <1>2, <1>4, <2>3, CellThere
  <2>4. CASE sec3 # Null /\ sec3.len = 0
    <3> DEFINE r == Result("invalid", q + 2 + head.len, q, 0)
    <3>1. q + 2 + head.len \in (q + 1)..(Len(f) + 1)
      BY <1>2, <1>4, <2>3, <2>4
    <3>2. Good(f, q, r, r)
      BY <3>1, ErrorGood
    <3>3. OldBufr(f, q, head, how) = r /\ OldBufr(f, q, head, how0) = r
      BY <2>4 DEF OldBufr
    <3> QED
      BY <2>1, <3>2, <3>3
  <2>5. CASE sec3 # Null /\ sec3.len # 0 /\ sec4 = Null
    BY <2>1, <2>5, CutGood DEF OldBufr
  <2>6. CASE sec3 # Null /\ sec3.len # 0 /\ sec4 # Null
    <3>1. sec4.len \in Nat /\ q + 1 + head.len + sec3.len <= Len(f)
      BY <1>2, <1>4, <2>3, <2>6, CellThere
    <3> DEFINE l1 == head.len
               l3 == sec3.len
               l4 == sec4.len
    <3>a. l1 \in Nat /\ l3 \in Nat /\ l4 \in Nat /\ q + 1 + l1 + l3 <= Len(f)
      BY <1>2, <1>4, <2>3, <2>6, <3>1
    <3> HIDE DEF l1, l3, l4
    <3>b. 2 + l1 + l3 \in Nat \ {0} /\ q + (2 + l1 + l3) <= Len(f) + 1 /\ 1 + l1 + l3 + l4 + 1 \in Nat
      BY <3>a
    <3>2. i \in Nat \ {0} /\ q + i <= Len(f) + 1 /\ length \in Nat
      BY <3>b DEF l1, l3, l4
    <3>3. /\ OldBufr(f, q, head, how) = Back(ReadTheRest(f, q, i, length, how, TRUE))
          /\ OldBufr(f, q, head, how0) = Back(ReadTheRest(f, q, i, length, how0, TRUE))
      BY <2>6 DEF OldBufr
    <3> HIDE DEF i, length
    <3> QED
      BY <2>1, <3>2, <3>3, RestGood
  <2> QED
    BY <2>2, <2>4, <2>5, <2>6
<1>5. CASE head # Null /\ head.len # 0 /\ head.ed \in 2..4
  <2>a. head.ed \notin {0, 1}
    BY <1>2, <1>5
  <2>1. /\ ReadBufr(f, q, how) = Back(ReadTheRest(f, q, 2, head.len, how, TRUE))
        /\ ReadBufr(f, q, how0) = Back(ReadTheRest(f, q, 2, head.len, how0, TRUE))
    BY <1>5, <2>a, Zenon DEF ReadBufr
  <2> DEFINE length == head.len
  <2>2. q + 2 <= Len(f) + 1 /\ length \in Nat /\ 2 \in Nat \ {0}
    BY <1>2, <1>5
  <2> HIDE DEF length
  <2>3. Good(f, q, Back(ReadTheRest(f, q, 2, length, how, TRUE)), Back(ReadTheRest(f, q, 2, length, how0, TRUE)))
    BY <2>2, RestGood
  <2> QED
    BY <2>1, <2>3 DEF length
<1>6. CASE head # Null /\ head.len # 0 /\ head.ed \notin {0, 1} /\ head.ed \notin 2..4
  <2>1. /\ ReadBufr(f, q, how) = Back(Result("edition", q + 2, q, 0))
        /\ ReadBufr(f, q, how0) = Back(Result("edition", q + 2, q, 0))
    BY <1>2, <1>6 DEF ReadBufr
  <2> QED
    BY <2>1, EditionGood
<1> QED
  BY <1>1, <1>3, <1>4, <1>5, <1>6

\* The rest of a message of another kind.
LEMMA OtherRestGood ==
  ASSUME NEW f \in Seq(Cells), NEW q \in DOMAIN f, f[q].magic \notin {"GRIB", "BUFR"},
         NEW i \in Nat \ {0}, q + i <= Len(f) + 1, NEW length \in Nat, NEW check \in BOOLEAN,
         NEW how, Plain(how), NEW how0, Plain(how0), how0.buffer = Null
  PROVE  Good(f, q, ReadTheRest(f, q, i, length, how, check), ReadTheRest(f, q, i, length, how0, check))
  BY RestSound, RestDomain DEF Good

LEMMA PseudoGood ==
  ASSUME NEW f \in Seq(Cells), NEW q \in DOMAIN f, f[q].magic \notin {"GRIB", "BUFR"},
         NEW how, Plain(how), NEW how0, Plain(how0), how0.buffer = Null
  PROVE  Good(f, q, ReadPseudo(f, q, how), ReadPseudo(f, q, how0))
<1> DEFINE sec1 == Cell(f, q + 1)
           sec4 == Cell(f, q + 1 + sec1.len)
           i == 2 + sec1.len
           length == 1 + sec1.len + sec4.len + 1
<1>1. CASE sec1 = Null
  BY <1>1, CutGood DEF ReadPseudo
<1>2. ASSUME sec1 # Null PROVE sec1.len \in Nat /\ q + 1 <= Len(f)
  BY <1>2, CellThere
<1>3. CASE sec1 # Null /\ sec1.len >= TmpSize
  <2>1. Good(f, q, Result("internal", q + 2, q, 0), Result("internal", q + 2, q, 0))
    BY <1>2, <1>3, ErrorGood
  <2> QED
    BY <1>3, <2>1 DEF ReadPseudo
<1>4. CASE sec1 # Null /\ ~(sec1.len >= TmpSize) /\ sec4 = Null
  BY <1>4, CutGood DEF ReadPseudo
<1>5. CASE sec1 # Null /\ ~(sec1.len >= TmpSize) /\ sec4 # Null
  <2>1. sec4.len \in Nat /\ q + 1 + sec1.len <= Len(f)
    BY <1>2, <1>5, CellThere
  <2>2. i \in Nat \ {0} /\ q + i <= Len(f) + 1 /\ length \in Nat
    BY <1>2, <1>5, <2>1, SMTT(30)
  <2>3. /\ ReadPseudo(f, q, how) = ReadTheRest(f, q, i, length, how, TRUE)
        /\ ReadPseudo(f, q, how0) = ReadTheRest(f, q, i, length, how0, TRUE)
    BY <1>5 DEF ReadPseudo
  <2> HIDE DEF i, length
  <2> QED
    BY <2>2, <2>3, OtherRestGood
<1> QED
  BY <1>1, <1>3, <1>4, <1>5

LEMMA StoredPlain == ASSUME NEW how, Plain(how) PROVE Plain(Stored(how)) /\ Stored(how).buffer = how.buffer
  BY DEF Plain, Stored

LEMMA Hdf5Good ==
  ASSUME NEW f \in Seq(Cells), NEW q \in DOMAIN f, f[q].magic \notin {"GRIB", "BUFR"},
         NEW how, Plain(how), NEW how0, Plain(how0), how0.buffer = Null
  PROVE  Good(f, q, ReadHdf5(f, q, how), ReadHdf5(f, q, how0))
<1> DEFINE super == Cell(f, q + 1)
<1>1. CASE super = Null
  BY <1>1, CutGood DEF ReadHdf5
<1>2. ASSUME super # Null PROVE super.len \in Nat /\ q + 1 <= Len(f)
  BY <1>2, CellThere
<1>3. CASE super # Null /\ super.ed > 3
  <2>1. Good(f, q, Result("unsupported", q + 2, q, 0), Result("unsupported", q + 2, q, 0))
    BY <1>2, <1>3, ErrorGood
  <2> QED
    BY <1>3, <2>1 DEF ReadHdf5
<1>4. CASE super # Null /\ ~(super.ed > 3)
  <2>1. /\ ReadHdf5(f, q, how) = ReadTheRest(f, q, 2, super.len, Stored(how), FALSE)
        /\ ReadHdf5(f, q, how0) = ReadTheRest(f, q, 2, super.len, Stored(how0), FALSE)
    BY <1>4 DEF ReadHdf5
  <2> DEFINE length == super.len
  <2>2. q + 2 <= Len(f) + 1 /\ length \in Nat /\ 2 \in Nat \ {0}
    BY <1>2, <1>4
  <2> HIDE DEF length
  <2>3. Plain(Stored(how)) /\ Plain(Stored(how0)) /\ Stored(how0).buffer = Null
    BY StoredPlain
  <2>4. Good(f, q, ReadTheRest(f, q, 2, length, Stored(how), FALSE),
                   ReadTheRest(f, q, 2, length, Stored(how0), FALSE))
    BY <2>2, <2>3, OtherRestGood
  <2> QED
    BY <2>1, <2>4 DEF length
<1> QED
  BY <1>1, <1>3, <1>4

LEMMA WrapGood ==
  ASSUME NEW f \in Seq(Cells), NEW q \in DOMAIN f, f[q].magic \notin {"GRIB", "BUFR"},
         NEW how, Plain(how), NEW how0, Plain(how0), how0.buffer = Null
  PROVE  Good(f, q, ReadWrap(f, q, how), ReadWrap(f, q, how0))
<1> DEFINE head == Cell(f, q + 1)
<1>1. CASE head = Null
  BY <1>1, CutGood DEF ReadWrap
<1>2. CASE head # Null
  <2>1. /\ ReadWrap(f, q, how) = ReadTheRest(f, q, 2, head.len, Stored(how), TRUE)
        /\ ReadWrap(f, q, how0) = ReadTheRest(f, q, 2, head.len, Stored(how0), TRUE)
    BY <1>2 DEF ReadWrap
  <2> DEFINE length == head.len
  <2>2. q + 2 <= Len(f) + 1 /\ length \in Nat /\ 2 \in Nat \ {0}
    BY <1>2, CellThere
  <2> HIDE DEF length
  <2>3. Plain(Stored(how)) /\ Plain(Stored(how0)) /\ Stored(how0).buffer = Null
    BY StoredPlain
  <2>4. Good(f, q, ReadTheRest(f, q, 2, length, Stored(how), TRUE),
                   ReadTheRest(f, q, 2, length, Stored(how0), TRUE))
    BY <2>2, <2>3, OtherRestGood
  <2> QED
    BY <2>1, <2>4 DEF length
<1> QED
  BY <1>1, <1>2

LEMMA ReadAtGood ==
  ASSUME NEW g \in File, NEW q \in DOMAIN g.cells, g.cells[q].magic \in Magics,
         NEW how, Plain(how), NEW how0, Plain(how0), how0.buffer = Null
  PROVE  Good(g.cells, q, ReadAt(g.cells, q, how), ReadAt(g.cells, q, how0))
<1> DEFINE f == g.cells
<1>1. f \in Seq(Cells)
  BY FileAssumption
<1>2. CASE f[q].magic = "GRIB"
  BY <1>2, GribGood DEF ReadAt
<1>3. CASE f[q].magic = "BUFR"
  BY <1>1, <1>3, BufrGood DEF ReadAt
<1>4. CASE f[q].magic = "PSEUDO"
  BY <1>1, <1>4, PseudoGood DEF ReadAt
<1>5. CASE f[q].magic = "HDF5"
  BY <1>1, <1>5, Hdf5Good DEF ReadAt
<1>6. CASE f[q].magic = "WRAP"
  BY <1>1, <1>6, WrapGood DEF ReadAt
<1> QED
  BY <1>2, <1>3, <1>4, <1>5, <1>6 DEF Magics

\* What a read from p returns: there is no magic, or the first one is read.
Past(f, p, how0, r) ==
    \/ /\ \A q \in p..Len(f) : f[q].magic \notin Magics
       /\ r.err = "end" /\ r.pos = Len(f) + 1
    \/ /\ r.err # "end"
       /\ r.start \in p..Len(f) /\ f[r.start].magic \in Magics
       /\ \A q \in p..(r.start - 1) : f[q].magic \notin Magics
       /\ r.size \in Nat /\ r.pos \in (r.start + 1)..(Len(f) + 1)
       /\ r.err = "ok" => r.pos = r.start + r.size
       /\ ReadAt(f, r.start, how0).err = "ok" => r.err \in {"ok", "small"}
       /\ \/ r.err \in {"ok", "premature", "invalid"} \/ r.pos = r.start + 1
          \/ f[r.start].magic \notin {"GRIB", "BUFR"}

LEMMA ReadAnyPast ==
  ASSUME NEW g \in File, NEW p \in 1..(Len(g.cells) + 1),
         NEW how, Plain(how), NEW how0, Plain(how0), how0.buffer = Null
  PROVE  LET r == ReadAny(g.cells, p, how)
         IN  /\ Past(g.cells, p, how0, r)
             /\ r.err # "end" /\ ReadAt(g.cells, r.start, how).err = "ok" => r.err = "ok"
<1> DEFINE f == g.cells
           starts == {q \in p..Len(f) : f[q].magic \in Magics}
           q == Min(starts)
           r == ReadAt(f, q, how)
           r0 == ReadAt(f, q, how0)
           r1 == ReadAny(f, p, how)
<1>1. Len(f) \in Nat /\ DOMAIN f = 1..Len(f)
  BY FileAssumption
<1>2. CASE starts = {}
  BY <1>2 DEF Past, ReadAny, Result
<1>3. CASE starts # {}
  <2>1. q \in starts /\ \A m \in starts : q <= m
    <3>1. starts \in SUBSET Nat
      BY <1>1
    <3> HIDE DEF starts
    <3> QED
      BY <1>3, <3>1, MinOf
  <2>2. r1 = IF r.err = "end" THEN [r EXCEPT !.err = "premature"] ELSE r
    BY <1>3 DEF ReadAny
  <2> HIDE DEF q
  <2>3. q \in p..Len(f) /\ f[q].magic \in Magics /\ q \in DOMAIN f
    BY <1>1, <2>1
  <2>4. \A m \in p..(q - 1) : f[m].magic \notin Magics
    <3> SUFFICES ASSUME NEW m \in p..(q - 1), f[m].magic \in Magics PROVE FALSE
      OBVIOUS
    <3> QED
      BY <1>1, <2>1, <2>3
  <2>5. Good(f, q, r, r0)
    BY <2>3, ReadAtGood
  <2> HIDE DEF r, r0, r1
  <2>6. /\ r1.start = r.start /\ r1.pos = r.pos /\ r1.size = r.size
        /\ r1.err = IF r.err = "end" THEN "premature" ELSE r.err
    BY <2>2, <2>5 DEF Good
  <2> HIDE DEF starts, f
  <2>7. Past(f, p, how0, r1)
    BY <2>3, <2>4, <2>5, <2>6 DEF Past, Good, Sound, Like, r0
  <2>8. r1.start = q
    BY <2>5, <2>6 DEF Good, Sound
  <2>9. ReadAt(f, r1.start, how).err = "ok" => r1.err = "ok"
    BY <2>6, <2>8 DEF r
  <2> QED
    BY <2>7, <2>9 DEF r1, f
<1> QED
  BY <1>2, <1>3

-----------------------------------------------------------------------------
(* Types *)

Calls == [at : {"idle", "read", "restore", "done", "stuck"}, buffer : Nat \cup {Null},
          saved : Nat, wanted : Nat, moved : BOOLEAN]
Messages == [off : Nat, size : Nat, ends : Nat]

AtCall(c) == c.at \in {"read", "restore"}

Types ==
    /\ file \in File /\ pos \in 1..(Len(file.cells) + 1)
    /\ call \in [Thread -> Calls]
    /\ \A t \in Thread :
          /\ call[t].buffer = Null => call[t].at \in {"idle", "done"}
          /\ AtCall(call[t]) => /\ call[t].saved \in 1..(Len(file.cells) + 1)
                                /\ call[t].moved \/ call[t].saved <= pos
    /\ got \in Seq(Messages)

\* The calls of the other threads after one that moved the FILE.
LEMMA MovedCalls ==
  ASSUME call \in [Thread -> Calls], NEW t \in Thread, NEW mine \in Calls, call' = Moved(t, mine)
  PROVE  /\ call' \in [Thread -> Calls]
         /\ call'[t] = mine
         /\ \A u \in Thread : u # t =>
               /\ call'[u].at = call[u].at /\ call'[u].saved = call[u].saved
               /\ call'[u].buffer = call[u].buffer
               /\ AtCall(call[u]) => call'[u].moved
  BY DEF Moved, Calls, AtCall

LEMMA IdleCalls ==
  ASSUME NEW b \in Nat \cup {Null}
  PROVE  /\ Idle(b) \in Calls /\ Idle(b).at = "idle" /\ Idle(b).buffer = b
         /\ [Idle(b) EXCEPT !.at = "done"] \in Calls /\ [Idle(b) EXCEPT !.at = "stuck"] \in Calls
         /\ [Idle(b) EXCEPT !.at = "done"].at = "done" /\ [Idle(b) EXCEPT !.at = "stuck"].at = "stuck"
         /\ [Idle(b) EXCEPT !.at = "done"].buffer = b /\ [Idle(b) EXCEPT !.at = "stuck"].buffer = b
  BY DEF Idle, Calls

LEMMA HowPlain ==
  ASSUME NEW t \in Thread PROVE Plain(How(t)) /\ Plain(Malloc) /\ Malloc.buffer = Null
  BY DEF How, Plain, Malloc, Buffer

\* The four ways a read ends, with what is known of its result.
LEMMA ReadCases ==
  ASSUME Types, NEW t \in Thread, Read(t)
  PROVE  \E r :
          /\ Past(file.cells, pos, Malloc, r) /\ pos' = r.pos
          /\ r.err # "end" /\ ReadAt(file.cells, r.start, How(t)).err = "ok" => r.err = "ok"
          /\ UNCHANGED <<file, raced>>
          /\ \/ /\ r.err = "small" /\ call[t].buffer # Null /\ call[t].at = "read"
                /\ call' = Moved(t, [call[t] EXCEPT !.at = "restore", !.wanted = r.size])
                /\ UNCHANGED <<got, errors>>
             \/ /\ r.err = "ok"
                /\ call' = Moved(t, Idle(call[t].buffer))
                /\ got' = IF raced THEN got ELSE Append(got, Returned(r))
                /\ UNCHANGED errors
             \/ /\ r.err = "end"
                /\ call' = Moved(t, [Idle(call[t].buffer) EXCEPT !.at = "done"])
                /\ UNCHANGED <<got, errors>>
             \/ /\ r.err \notin {"ok", "end"} /\ (r.err = "small" => call[t].buffer = Null)
                /\ call' = Moved(t, Idle(call[t].buffer))
                /\ errors' = IF raced THEN errors
                             ELSE errors \cup {[err |-> r.err, start |-> r.start, pos |-> r.pos]}
                /\ UNCHANGED got
<1> DEFINE r == ReadAny(file.cells, pos, How(t))
<1>1. /\ Past(file.cells, pos, Malloc, r)
      /\ r.err # "end" /\ ReadAt(file.cells, r.start, How(t)).err = "ok" => r.err = "ok"
  BY HowPlain, ReadAnyPast DEF Types
<1>2. call[t].buffer # Null => call[t].at = "read"
  BY DEF Read, MayRead
<1> HIDE DEF r
<1> QED
  BY <1>1, <1>2 DEF Read, r

LEMMA TypesStep == ASSUME Types, [Next]_vars PROVE Types'
<1>0. Len(file.cells) \in Nat
  BY FileAssumption DEF Types
<1>1. ASSUME NEW t \in Thread, Tell(t) PROVE Types'
  <2>1. call' \in [Thread -> Calls]
    <3> DEFINE mine == [call[t] EXCEPT !.at = "read", !.saved = pos]
    <3>1. mine \in Calls
      <4>1. pos \in Nat /\ call[t] \in Calls
        BY <1>0 DEF Types
      <4> QED
        BY <4>1 DEF Calls
    <3>2. call' = [call EXCEPT ![t] = mine]
      BY <1>1 DEF Tell, Types, Calls
    <3> HIDE DEF mine
    <3> QED
      BY <3>1, <3>2 DEF Types
  <2>2. /\ call'[t].at = "read" /\ call'[t].saved = pos /\ call'[t].buffer = call[t].buffer
        /\ call[t].buffer # Null
        /\ \A u \in Thread : u # t => call'[u] = call[u]
    BY <1>1 DEF Tell, Types, Calls
  <2> QED
    BY <1>0, <1>1, <2>1, <2>2 DEF Tell, Types, AtCall
<1>2. ASSUME NEW t \in Thread, Read(t) PROVE Types'
  <2>1. PICK r :
          /\ Past(file.cells, pos, Malloc, r) /\ pos' = r.pos
          /\ UNCHANGED <<file, raced>>
          /\ \/ /\ r.err = "small" /\ call[t].buffer # Null /\ call[t].at = "read"
                /\ call' = Moved(t, [call[t] EXCEPT !.at = "restore", !.wanted = r.size])
                /\ UNCHANGED got
             \/ /\ r.err = "ok"
                /\ call' = Moved(t, Idle(call[t].buffer))
                /\ got' = IF raced THEN got ELSE Append(got, Returned(r))
             \/ /\ call' = Moved(t, [Idle(call[t].buffer) EXCEPT !.at = "done"])
                /\ UNCHANGED got
             \/ /\ call' = Moved(t, Idle(call[t].buffer))
                /\ UNCHANGED got
    BY <1>2, ReadCases
  <2>2. r.pos \in pos..(Len(file.cells) + 1) /\ (r.err # "end" => r.start \in Nat /\ r.size \in Nat)
    BY <1>0, <2>1 DEF Past, Types
  <2>3. call[t].buffer \in Nat \cup {Null}
    BY DEF Types, Calls
  <2>4. got' \in Seq(Messages)
    <3>1. r.err = "ok" => Returned(r) \in Messages
      BY <2>2 DEF Returned, Messages, Offset, Types
    <3> QED
      BY <2>1, <3>1 DEF Types
  <2>5. ASSUME NEW mine \in Calls, call' = Moved(t, mine),
               mine.buffer = Null => mine.at \in {"idle", "done"},
               AtCall(mine) => mine.saved = call[t].saved /\ mine.moved = call[t].moved /\ AtCall(call[t])
        PROVE  Types'
    <3>1. /\ call' \in [Thread -> Calls]
          /\ call'[t] = mine
          /\ \A u \in Thread : u # t =>
                /\ call'[u].at = call[u].at /\ call'[u].saved = call[u].saved
                /\ call'[u].buffer = call[u].buffer
                /\ AtCall(call[u]) => call'[u].moved
      BY <2>5, MovedCalls DEF Types
    <3>2. \A u \in Thread : call[u].saved \in Nat
      BY DEF Types, Calls
    <3>3. file' = file /\ pos' \in pos..(Len(file.cells) + 1) /\ pos \in 1..(Len(file.cells) + 1)
      BY <2>1, <2>2 DEF Types
    <3>4. ASSUME NEW u \in Thread
          PROVE  /\ call'[u].buffer = Null => call'[u].at \in {"idle", "done"}
                 /\ AtCall(call'[u]) => /\ call'[u].saved \in 1..(Len(file.cells) + 1)
                                        /\ call'[u].moved \/ call'[u].saved <= pos'
      <4>1. /\ call[u].buffer = Null => call[u].at \in {"idle", "done"}
            /\ AtCall(call[u]) => /\ call[u].saved \in 1..(Len(file.cells) + 1)
                                  /\ call[u].moved \/ call[u].saved <= pos
        BY DEF Types
      <4>2. CASE u # t
        BY <3>1, <4>1, <4>2 DEF AtCall
      <4>3. CASE u = t /\ AtCall(mine)
        BY <1>0, <2>5, <3>1, <3>2, <3>3, <4>1, <4>3 DEF AtCall
      <4>4. CASE u = t /\ ~AtCall(mine)
        BY <2>5, <3>1, <4>4
      <4> QED
        BY <4>2, <4>3, <4>4
    <3> QED
      BY <1>0, <2>4, <3>1, <3>3, <3>4 DEF Types
  <2>6. CASE r.err = "small" /\ call[t].buffer # Null /\ call[t].at = "read"
             /\ call' = Moved(t, [call[t] EXCEPT !.at = "restore", !.wanted = r.size])
    <3> DEFINE mine == [call[t] EXCEPT !.at = "restore", !.wanted = r.size]
    <3>1. mine \in Calls /\ mine.saved = call[t].saved /\ mine.moved = call[t].moved /\ mine.buffer = call[t].buffer
      BY <2>2, <2>6 DEF Types, Calls
    <3> HIDE DEF mine
    <3> QED
      BY <2>5, <2>6, <3>1 DEF mine, AtCall
  <2>7. CASE call' = Moved(t, Idle(call[t].buffer))
    <3> DEFINE mine == Idle(call[t].buffer)
    <3>1. mine \in Calls /\ mine.at = "idle"
      BY <2>3, IdleCalls
    <3> HIDE DEF mine
    <3> QED
      BY <2>5, <2>7, <3>1 DEF mine, AtCall
  <2>8. CASE call' = Moved(t, [Idle(call[t].buffer) EXCEPT !.at = "done"])
    <3> DEFINE mine == [Idle(call[t].buffer) EXCEPT !.at = "done"]
    <3>1. mine \in Calls /\ mine.at = "done"
      BY <2>3, IdleCalls
    <3> HIDE DEF mine
    <3> QED
      BY <2>5, <2>8, <3>1 DEF mine, AtCall
  <2> QED
    BY <2>1, <2>6, <2>7, <2>8
<1>3. ASSUME NEW t \in Thread, Restore(t) PROVE Types'
  <2> DEFINE mine == IF call[t].wanted > call[t].buffer THEN Idle(call[t].wanted)
                     ELSE [Idle(call[t].buffer) EXCEPT !.at = "stuck"]
  <2>1. call[t].buffer \in Nat \cup {Null} /\ call[t].wanted \in Nat
    BY DEF Types, Calls
  <2>2. call[t].at = "restore" /\ call[t].buffer # Null /\ call[t].saved \in 1..(Len(file.cells) + 1)
    BY <1>3 DEF Restore, Types, AtCall
  <2>3. mine \in Calls /\ mine.at \in {"idle", "stuck"} /\ mine.buffer \in Nat \cup {Null}
        /\ (mine.buffer = Null => mine.at = "idle")
    BY <2>1, <2>2, IdleCalls
  <2>4. call' = Moved(t, mine) /\ pos' = call[t].saved /\ UNCHANGED file
    BY <1>3 DEF Restore, Restored
  <2> HIDE DEF mine
  <2>5. /\ call' \in [Thread -> Calls]
        /\ call'[t] = mine
        /\ \A u \in Thread : u # t =>
              /\ call'[u].at = call[u].at /\ call'[u].saved = call[u].saved
              /\ call'[u].buffer = call[u].buffer
              /\ AtCall(call[u]) => call'[u].moved
    BY <2>3, <2>4, MovedCalls DEF Types
  <2>6. got' \in Seq(Messages)
    BY <1>3 DEF Restore, Types
  <2> QED
    BY <2>2, <2>3, <2>4, <2>5, <2>6 DEF Types, AtCall
<1>4. CASE UNCHANGED vars
  BY <1>4 DEF vars, Types, AtCall
<1> QED
  BY <1>1, <1>2, <1>3, <1>4 DEF Next

LEMMA InitTypes == ASSUME Init PROVE Types
<1>1. Len(file.cells) \in Nat
  BY FileAssumption DEF Init
<1>2. \A b \in {Null, FirstBuffer} : Idle(b) \in Calls /\ Idle(b).at = "idle"
  BY IdleCalls, SizeAssumption
<1>3. call \in [Thread -> Calls] /\ \A t \in Thread : call[t].at = "idle"
  BY <1>2 DEF Init
<1> QED
  BY <1>1, <1>3 DEF Init, Types, AtCall

(* The position stays in the file, and a position that will be put back is not
   ahead of it unless another thread moved the FILE, whatever the file holds. *)
THEOREM TypeCorrect == Spec => []TypeOK
<1>1. Init => Types
  BY InitTypes
<1>2. Types /\ [Next]_vars => Types'
  BY TypesStep
<1>3. Types => TypeOK
  <2> SUFFICES ASSUME Types PROVE TypeOK
    OBVIOUS
  <2>1. ASSUME NEW t \in Thread
        PROVE  /\ call[t].at \in {"idle", "read", "restore", "done", "stuck"}
               /\ call[t].buffer = Null \/ call[t].buffer \in Nat
    BY DEF Types, Calls
  <2> QED
    BY <2>1 DEF Types, TypeOK, AtCall
<1> QED
  BY <1>1, <1>2, <1>3, PTL DEF Spec

-----------------------------------------------------------------------------
(* Each message once *)

Covered(m) ==
    \/ \E i \in DOMAIN got : First(got[i]) <= m.start /\ m.start < got[i].ends
    \/ \E e \in errors : NotPutBack(e) /\ e.start < m.start /\ m.start < e.pos

\* A thread that was told its buffer is too small will go back to the message,
\* or the FILE was raced for.
Waiting(m) == \E t \in Thread : call[t].at = "restore" /\ (call[t].moved \/ call[t].saved <= m.start)

\* Nothing that was returned lies behind the position, or behind one that will
\* be put back.
Order ==
    /\ \A i, j \in DOMAIN got : i < j => got[i].ends <= First(got[j])
    /\ \A i \in DOMAIN got :
          /\ got[i].ends <= pos
          /\ \A t \in Thread : AtCall(call[t]) /\ ~call[t].moved => got[i].ends <= call[t].saved

\* No intact message before the position is lost.
NoneLost == \A m \in file.intact : m.start < pos => Covered(m) \/ Waiting(m)

\* When a thread came to the end, no other will go back behind it.
AtTheEnd ==
    (\E t \in Thread : call[t].at = "done") =>
        /\ pos = Len(file.cells) + 1
        /\ \A t \in Thread : AtCall(call[t]) => call[t].moved \/ call[t].saved = pos

Kept == ~raced => Order /\ NoneLost /\ AtTheEnd

LEMMA TellKeeps == ASSUME Types, Kept, NEW t \in Thread, Tell(t) PROVE Kept'
<1> SUFFICES ASSUME ~raced' PROVE Order' /\ NoneLost' /\ AtTheEnd'
  BY DEF Kept
<1>1. Order /\ NoneLost /\ AtTheEnd
  BY DEF Kept, Tell
<1>2. /\ call[t].at = "idle" /\ call'[t].at = "read" /\ call'[t].saved = pos
      /\ \A u \in Thread : u # t => call'[u] = call[u]
      /\ UNCHANGED <<file, pos, got, errors>>
  BY DEF Tell, Types, Calls
<1>3. \A u \in Thread : call[u].at = "restore" => call'[u] = call[u]
  BY <1>2
<1>4. Order'
  BY <1>1, <1>2 DEF Order, AtCall, First
<1>5. NoneLost'
  BY <1>1, <1>2, <1>3 DEF NoneLost, Covered, Waiting, NotPutBack, First
<1>6. AtTheEnd'
  BY <1>1, <1>2 DEF AtTheEnd, AtCall
<1> QED
  BY <1>4, <1>5, <1>6

LEMMA RestoreKeeps == ASSUME Types, Kept, NEW t \in Thread, Restore(t) PROVE Kept'
<1> SUFFICES ASSUME ~raced' PROVE Order' /\ NoneLost' /\ AtTheEnd'
  BY DEF Kept
<1>1. ~raced /\ ~call[t].moved /\ call[t].at = "restore" /\ pos' = call[t].saved
      /\ UNCHANGED <<file, got, errors>>
  BY DEF Restore, Restored
<1>2. Order /\ NoneLost /\ AtTheEnd
  BY <1>1 DEF Kept
<1> DEFINE mine == IF call[t].wanted > call[t].buffer THEN Idle(call[t].wanted)
                   ELSE [Idle(call[t].buffer) EXCEPT !.at = "stuck"]
<1>3. mine \in Calls /\ mine.at \in {"idle", "stuck"}
  BY <1>1, IdleCalls, ZenonT(40) DEF Types, Calls
<1>4. call' = Moved(t, mine)
  BY DEF Restore
<1> HIDE DEF mine
<1>5. /\ call'[t].at \in {"idle", "stuck"}
      /\ \A u \in Thread : u # t =>
            /\ call'[u].at = call[u].at /\ call'[u].saved = call[u].saved
            /\ AtCall(call[u]) => call'[u].moved
  BY <1>3, <1>4, MovedCalls DEF Types
<1>6. \A u \in Thread : AtCall(call'[u]) => u # t /\ call'[u].moved
  BY <1>5 DEF AtCall
<1>7. Order'
  <2>1. \A i \in DOMAIN got : got[i].ends <= call[t].saved
    BY <1>1, <1>2 DEF Order, AtCall
  <2> QED
    BY <1>1, <1>2, <1>6, <2>1 DEF Order, First
<1>8. NoneLost'
  <2> SUFFICES ASSUME NEW m \in file.intact, m.start < call[t].saved PROVE Covered(m)' \/ Waiting(m)'
    BY <1>1 DEF NoneLost
  <2>1. Covered(m) <=> Covered(m)'
    BY <1>1 DEF Covered, NotPutBack, First
  <2>2. m.start < pos /\ ~(call[t].saved <= m.start)
    <3>1. m.start \in Nat
      BY IntactAssumption, FileAssumption DEF Types
    <3> QED
      BY <1>1, <3>1, FileAssumption DEF Types, AtCall
  <2>3. Covered(m) \/ Waiting(m)
    BY <1>2, <2>2 DEF NoneLost
  <2>4. Waiting(m) => Waiting(m)'
    BY <1>1, <1>5, <2>2 DEF Waiting, AtCall
  <2> QED
    BY <2>1, <2>3, <2>4
<1>9. AtTheEnd'
  <2>1. (\E u \in Thread : call'[u].at = "done") => \E u \in Thread : call[u].at = "done"
    BY <1>5
  <2> QED
    BY <1>1, <1>2, <1>6, <2>1 DEF AtTheEnd, AtCall
<1> QED
  BY <1>7, <1>8, <1>9

LEMMA ReadKeeps == ASSUME Types, Kept, NEW t \in Thread, Read(t) PROVE Kept'
<1> SUFFICES ASSUME ~raced' PROVE Order' /\ NoneLost' /\ AtTheEnd'
  BY DEF Kept
<1> DEFINE f == file.cells
<1>1. PICK r :
        /\ Past(f, pos, Malloc, r) /\ pos' = r.pos
        /\ UNCHANGED <<file, raced>>
        /\ \/ /\ r.err = "small" /\ call[t].buffer # Null /\ call[t].at = "read"
              /\ call' = Moved(t, [call[t] EXCEPT !.at = "restore", !.wanted = r.size])
              /\ UNCHANGED <<got, errors>>
           \/ /\ r.err = "ok"
              /\ call' = Moved(t, Idle(call[t].buffer))
              /\ got' = IF raced THEN got ELSE Append(got, Returned(r))
              /\ UNCHANGED errors
           \/ /\ r.err = "end"
              /\ call' = Moved(t, [Idle(call[t].buffer) EXCEPT !.at = "done"])
              /\ UNCHANGED <<got, errors>>
           \/ /\ r.err \notin {"ok", "end"} /\ (r.err = "small" => call[t].buffer = Null)
              /\ call' = Moved(t, Idle(call[t].buffer))
              /\ errors' = IF raced THEN errors
                           ELSE errors \cup {[err |-> r.err, start |-> r.start, pos |-> r.pos]}
              /\ UNCHANGED got
        /\ r.err # "end" /\ ReadAt(f, r.start, How(t)).err = "ok" => r.err = "ok"
  BY ReadCases
<1>2. ~raced /\ Order /\ NoneLost /\ AtTheEnd
  BY <1>1 DEF Kept
<1>3. Len(f) \in Nat /\ DOMAIN f = 1..Len(f) /\ pos \in 1..(Len(f) + 1)
  BY FileAssumption DEF Types
<1>4. r.pos \in pos..(Len(f) + 1)
  BY <1>1, <1>3 DEF Past
\* The thread and the others.
<1>5. \E mine \in Calls :
        /\ call' = Moved(t, mine)
        /\ AtCall(mine) => /\ r.err = "small" /\ call[t].at = "read" /\ mine.at = "restore"
                           /\ mine.saved = call[t].saved /\ mine.moved = call[t].moved
        /\ r.err = "small" /\ call[t].buffer # Null => mine.at = "restore"
        /\ mine.at = "done" => r.err = "end"
  <2>1. call[t] \in Calls /\ call[t].buffer \in Nat \cup {Null}
    BY DEF Types, Calls
  <2>2. Idle(call[t].buffer) \in Calls /\ Idle(call[t].buffer).at = "idle"
        /\ [Idle(call[t].buffer) EXCEPT !.at = "done"] \in Calls
        /\ [Idle(call[t].buffer) EXCEPT !.at = "done"].at = "done"
    BY <2>1, IdleCalls
  <2>3. CASE r.err = "small" /\ call[t].buffer # Null
    <3> DEFINE mine == [call[t] EXCEPT !.at = "restore", !.wanted = r.size]
    <3>1. r.size \in Nat
      BY <1>1, <2>3 DEF Past
    <3>2. mine \in Calls /\ mine.at = "restore" /\ mine.saved = call[t].saved /\ mine.moved = call[t].moved
      BY <2>1, <3>1 DEF Calls
    <3>3. call' = Moved(t, mine) /\ call[t].at = "read"
      BY <1>1, <2>3
    <3> HIDE DEF mine
    <3> QED
      BY <2>3, <3>2, <3>3
  <2>4. CASE r.err = "end"
    <3>1. call' = Moved(t, [Idle(call[t].buffer) EXCEPT !.at = "done"])
      BY <1>1, <2>4
    <3> QED
      BY <2>2, <2>4, <3>1 DEF AtCall
  <2>5. CASE ~(r.err = "small" /\ call[t].buffer # Null) /\ r.err # "end"
    <3>1. call' = Moved(t, Idle(call[t].buffer))
      BY <1>1, <2>5
    <3> QED
      BY <2>2, <2>5, <3>1 DEF AtCall
  <2> QED
    BY <2>3, <2>4, <2>5
<1>6. /\ \A u \in Thread : u # t =>
            /\ call'[u].at = call[u].at /\ call'[u].saved = call[u].saved
            /\ AtCall(call[u]) => call'[u].moved
      /\ AtCall(call'[t]) => /\ r.err = "small" /\ call[t].at = "read" /\ call'[t].at = "restore"
                             /\ call'[t].saved = call[t].saved /\ call'[t].moved = call[t].moved
      /\ r.err = "small" /\ call[t].buffer # Null => call'[t].at = "restore"
      /\ call'[t].at = "done" => r.err = "end"
  BY <1>5, MovedCalls DEF Types
<1>7. \/ UNCHANGED got
      \/ r.err = "ok" /\ got' = Append(got, Returned(r))
  BY <1>1, <1>2
<1>8. got \in Seq(Messages) /\ (r.err = "ok" => Returned(r) \in Messages)
  <2>1. r.err = "ok" => r.start \in Nat /\ r.size \in Nat /\ r.pos \in Nat
    BY <1>1, <1>3, <1>4 DEF Past
  <2> QED
    BY <2>1 DEF Types, Returned, Messages, Offset
<1>9. r.err = "ok" => First(Returned(r)) = r.start /\ Returned(r).ends = r.pos /\ r.start >= pos
  BY <1>1, <1>3 DEF Past, First, Returned
<1> HIDE DEF f
<1>10. Order'
  <2>1. \A i \in DOMAIN got : got[i] \in Messages
    BY <1>8
  <2>2. \A u \in Thread : AtCall(call'[u]) /\ ~call'[u].moved => u = t /\ r.err = "small"
    BY <1>6 DEF AtCall
  <2>3. CASE UNCHANGED got
    <3>1. \A i \in DOMAIN got : got[i].ends <= r.pos
      BY <1>2, <1>3, <1>4, <2>1 DEF Order, Messages
    <3>2. ASSUME NEW i \in DOMAIN got, NEW u \in Thread, AtCall(call'[u]), ~call'[u].moved
          PROVE  got[i].ends <= call'[u].saved
      BY <1>2, <1>6, <2>2, <3>2 DEF Order, AtCall
    <3> QED
      BY <1>1, <1>2, <2>3, <3>1, <3>2 DEF Order, First
  <2>4. CASE r.err = "ok" /\ got' = Append(got, Returned(r))
    <3> DEFINE n == Len(got) + 1
    <3>1. /\ DOMAIN got = 1..Len(got) /\ Len(got) \in Nat /\ DOMAIN got' = 1..n
          /\ got'[n] = Returned(r)
          /\ \A i \in DOMAIN got : got'[i] = got[i]
      BY <1>8, <2>4
    <3>2. \A i \in DOMAIN got' : i \in DOMAIN got \/ i = n
      BY <3>1
    <3>3. \A i \in DOMAIN got : got[i].ends <= r.start /\ got[i].ends <= r.pos
      <4>1. ASSUME NEW i \in DOMAIN got PROVE got[i].ends \in Nat /\ got[i].ends <= pos
        BY <1>2, <2>1 DEF Order, Messages
      <4>2. r.start \in Nat /\ r.pos \in Nat /\ pos <= r.start /\ pos <= r.pos
        BY <1>1, <1>3, <1>4, <2>4 DEF Past
      <4> QED
        BY <1>3, <4>1, <4>2
    <3>4. r.pos <= r.pos
      BY <1>3, <1>4
    <3>5. \A i, j \in DOMAIN got' : i < j => got'[i].ends <= First(got'[j])
      <4> SUFFICES ASSUME NEW i \in DOMAIN got', NEW j \in DOMAIN got', i < j
                   PROVE  got'[i].ends <= First(got'[j])
        OBVIOUS
      <4>1. i \in DOMAIN got
        BY <3>1
      <4>2. CASE j = n
        BY <1>9, <2>4, <3>1, <3>3, <4>1, <4>2
      <4>3. CASE j \in DOMAIN got
        BY <1>2, <3>1, <4>1, <4>3 DEF Order, First
      <4> QED
        BY <3>2, <4>2, <4>3
    <3>6. \A i \in DOMAIN got' : got'[i].ends <= pos'
      BY <1>1, <1>9, <2>4, <3>1, <3>2, <3>3, <3>4
    <3>7. \A u \in Thread : ~(AtCall(call'[u]) /\ ~call'[u].moved)
      BY <2>2, <2>4
    <3>8. \A i, j \in DOMAIN got' : i < j => got'[i].ends <= First(got[j])'
      BY <3>5 DEF First
    <3> QED
      BY <3>6, <3>7, <3>8 DEF Order, AtCall
  <2> QED
    BY <1>7, <2>3, <2>4
<1>11. NoneLost'
  <2> SUFFICES ASSUME NEW m \in file.intact, m.start < r.pos PROVE Covered(m)' \/ Waiting(m)'
    BY <1>1 DEF NoneLost
  <2>1. m.start \in DOMAIN f /\ f[m.start].magic \in Magics /\ ReadAt(f, m.start, Malloc).err = "ok"
    BY IntactAssumption DEF Types, f
  <2>2. Covered(m) => Covered(m)'
    <3>1. \A i \in DOMAIN got : i \in DOMAIN got' /\ got'[i] = got[i]
      BY <1>7, <1>8
    <3>2. errors \subseteq errors' /\ file' = file
      BY <1>1
    <3> QED
      BY <3>1, <3>2 DEF Covered, NotPutBack, First
  <2>3. Waiting(m) => Waiting(m)'
    <3>1. call[t].at # "restore"
      BY DEF Read, MayRead
    <3> QED
      BY <1>6, <3>1 DEF Waiting, AtCall
  <2>4. CASE m.start < pos
    BY <1>2, <2>2, <2>3, <2>4 DEF NoneLost
  <2>5. CASE ~(m.start < pos)
    <3>1. r.err # "end" /\ r.start \in pos..Len(f) /\ r.start <= m.start
      <4>1. m.start \in pos..Len(f)
        BY <1>3, <2>1, <2>5
      <4>2. r.err # "end" /\ r.start \in pos..Len(f) /\ \A q \in pos..(r.start - 1) : f[q].magic \notin Magics
        BY <1>1, <2>1, <4>1 DEF Past
      <4> QED
        BY <1>3, <2>1, <4>1, <4>2
    <3>2. r.pos \in Nat /\ r.start \in Nat /\ m.start \in Nat
      BY <1>3, <1>4, <2>1, <3>1
    <3>3. CASE r.err = "ok"
      <4>1. got' = Append(got, Returned(r))
        BY <1>1, <1>2, <3>3
      <4>2. Len(got) + 1 \in DOMAIN got' /\ got'[Len(got) + 1] = Returned(r)
        BY <1>8, <3>3, <4>1
      <4>3. First(Returned(r)) <= m.start /\ m.start < Returned(r).ends
        BY <1>9, <3>1, <3>3
      <4> QED
        BY <4>2, <4>3 DEF Covered, First
    <3>4. CASE r.err = "small" /\ call[t].buffer # Null
      <4>1. call'[t].at = "restore" /\ call'[t].saved = call[t].saved /\ call'[t].moved = call[t].moved
            /\ AtCall(call[t])
        BY <1>6, <3>4 DEF AtCall
      <4>2. call[t].moved \/ call[t].saved <= m.start
        <5>1. call[t].moved \/ call[t].saved <= pos
          BY <4>1 DEF Types
        <5>2. call[t].saved \in Nat
          BY DEF Types, Calls
        <5> QED
          BY <1>3, <2>5, <3>2, <5>1, <5>2
      <4> QED
        BY <4>1, <4>2 DEF Waiting
    <3>5. CASE r.err # "ok" /\ ~(r.err = "small" /\ call[t].buffer # Null)
      <4> DEFINE e == [err |-> r.err, start |-> r.start, pos |-> r.pos]
      <4>1. e \in errors'
        BY <1>1, <1>2, <3>1, <3>5
      <4>2. r.start # m.start
        <5> SUFFICES ASSUME r.start = m.start PROVE FALSE
          OBVIOUS
        <5>1. r.err = "small" /\ call[t].buffer = Null
          BY <1>1, <2>1, <3>1, <3>5 DEF Past
        <5>2. How(t) = Malloc
          BY <5>1 DEF How
        <5> QED
          BY <1>1, <2>1, <3>1, <3>5, <5>2
      <4>3. r.start < m.start /\ m.start < r.pos /\ r.pos # r.start + 1
        BY <3>1, <3>2, <4>2
      <4>4. r.err \in {"premature", "invalid"} \/ f[r.start].magic \notin {"GRIB", "BUFR"}
        BY <1>1, <3>1, <3>5, <4>3 DEF Past
      <4>5. NotPutBack(e)'
        BY <1>1, <4>4 DEF NotPutBack, f
      <4> QED
        BY <4>1, <4>3, <4>5 DEF Covered
    <3> QED
      BY <3>3, <3>4, <3>5
  <2> QED
    BY <2>4, <2>5
<1>12. AtTheEnd'
  <2> SUFFICES ASSUME NEW u \in Thread, call'[u].at = "done"
               PROVE  /\ r.pos = Len(f) + 1
                      /\ \A v \in Thread : AtCall(call'[v]) => call'[v].moved \/ call'[v].saved = r.pos
    BY <1>1 DEF AtTheEnd, f
  <2>1. r.err = "end" /\ r.pos = Len(f) + 1
    <3>1. CASE u = t
      BY <1>1, <1>6, <3>1 DEF Past
    <3>2. CASE u # t
      <4>1. pos = Len(f) + 1
        BY <1>2, <1>6, <3>2 DEF AtTheEnd, f
      <4> QED
        BY <1>1, <1>3, <4>1 DEF Past
    <3> QED
      BY <3>1, <3>2
  <2>2. \A v \in Thread : AtCall(call'[v]) => call'[v].moved
    BY <1>6, <2>1 DEF AtCall
  <2> QED
    BY <2>1, <2>2
<1> QED
  BY <1>10, <1>11, <1>12

LEMMA KeptStep == ASSUME Types, Kept, [Next]_vars PROVE Kept'
<1>1. CASE UNCHANGED vars
  BY <1>1 DEF vars, Kept, Order, NoneLost, AtTheEnd, Covered, Waiting, NotPutBack, First, AtCall
<1> QED
  BY <1>1, TellKeeps, RestoreKeeps, ReadKeeps DEF Next

LEMMA InitKept == ASSUME Init PROVE Kept
<1>1. \A t \in Thread : call[t].at = "idle"
  BY DEF Init, Idle
<1>2. Order /\ AtTheEnd
  BY <1>1 DEF Init, Order, AtTheEnd, AtCall
<1>3. NoneLost
  <2>1. \A m \in file.intact : m.start \in 1..Len(file.cells)
    BY IntactAssumption, FileAssumption DEF Init
  <2>2. Len(file.cells) \in Nat /\ pos = 1
    BY FileAssumption DEF Init
  <2> QED
    BY <2>1, <2>2 DEF NoneLost
<1> QED
  BY <1>2, <1>3 DEF Kept

(* Threads that share a FILE get each intact message once and in the order of
   the file, none is lost behind a damaged one, and none twice, until a FILE was
   put back behind another thread: for all files, threads and buffers. *)
THEOREM EachMessageOnceCorrect == Spec => []EachMessageOnce
<1>1. Init => Types /\ Kept
  BY InitTypes, InitKept
<1>2. Types /\ Kept /\ [Next]_vars => Types' /\ Kept'
  BY TypesStep, KeptStep
<1>3. Types /\ Kept => EachMessageOnce
  <2> SUFFICES ASSUME Types, Kept, ~raced PROVE EachMessageOnce
    BY DEF EachMessageOnce
  <2>1. Order /\ NoneLost /\ AtTheEnd
    BY DEF Kept
  <2>2. ASSUME AllStopped, \E t \in Thread : call[t].at = "done", NEW m \in file.intact
        PROVE  Covered(m)
    <3>1. pos = Len(file.cells) + 1 /\ Len(file.cells) \in Nat
      BY <2>1, <2>2, FileAssumption DEF AtTheEnd, Types
    <3>2. m.start \in 1..Len(file.cells)
      BY IntactAssumption, FileAssumption DEF Types
    <3>3. ~Waiting(m)
      BY <2>2 DEF AllStopped, Waiting
    <3> QED
      BY <2>1, <3>1, <3>2, <3>3 DEF NoneLost
  <2> QED
    BY <2>1, <2>2 DEF EachMessageOnce, Order, Covered
<1> QED
  BY <1>1, <1>2, <1>3, PTL DEF Spec

-----------------------------------------------------------------------------
(* What the readers have in common, whatever they do with the contents *)

\* How the readers of this file allocate.
Storing == {Malloc, Fast} \cup {Buffer(n) : n \in Nat}
Hows == Storing \cup {HeadersOnly}

\* A GRIB 1 message at q, which is read otherwise for headers only.
Edition1(f, q) == f[q].magic = "GRIB" /\ Cell(f, q + 1) # Null /\ Cell(f, q + 1).ed = 1

HowsAt(f, q) == IF Edition1(f, q) THEN Storing ELSE Hows

\* What differs between the readers: only the rest of the message is read with
\* the buffer they have.
Unread(f, q, e) == e.err \notin {"ok", "small"} /\ \A how \in HowsAt(f, q) : ReadAt(f, q, how) = e

RestIs(f, q, i, length) ==
    \A how \in HowsAt(f, q) : ReadAt(f, q, how) = ReadTheRest(f, q, i, length, how, TRUE)

RestIsBack(f, q, i, length) ==
    \A how \in HowsAt(f, q) : ReadAt(f, q, how) = Back(ReadTheRest(f, q, i, length, how, TRUE))

RestIsStored(f, q, length, check) ==
    /\ q + 1 \in DOMAIN f /\ f[q].magic \in {"HDF5", "WRAP"} /\ length = f[q + 1].len
    /\ \A how \in HowsAt(f, q) : ReadAt(f, q, how) = ReadTheRest(f, q, 2, length, Stored(how), check)

Shape(f, q) ==
    \/ \E e : Unread(f, q, e)
    \/ \E i : \E length \in Nat : RestIs(f, q, i, length) \/ RestIsBack(f, q, i, length)
    \/ \E length \in Nat, check \in BOOLEAN : RestIsStored(f, q, length, check)

LEMMA CutUnread ==
  ASSUME NEW f, NEW q, \A how \in HowsAt(f, q) : ReadAt(f, q, how) = Cut(f, q)
  PROVE  Shape(f, q)
<1>1. Unread(f, q, Cut(f, q))
  BY DEF Unread, Cut, Result
<1> QED
  BY <1>1 DEF Shape

LEMMA ErrorUnread ==
  ASSUME NEW f, NEW q, NEW err \in {"edition", "invalid", "internal", "unsupported"}, NEW p,
         \/ \A how \in HowsAt(f, q) : ReadAt(f, q, how) = Result(err, p, q, 0)
         \/ \A how \in HowsAt(f, q) : ReadAt(f, q, how) = Back(Result(err, p, q, 0))
  PROVE  Shape(f, q)
<1>1. Result(err, p, q, 0).err = err /\ Back(Result(err, p, q, 0)).err = err
  BY DEF Result, Back
<1>2. Unread(f, q, Result(err, p, q, 0)) \/ Unread(f, q, Back(Result(err, p, q, 0)))
  BY <1>1 DEF Unread
<1> QED
  BY <1>2 DEF Shape

LEMMA HowHeaders ==
  ASSUME NEW f, NEW q, NEW how \in HowsAt(f, q)
  PROVE  how.headers /\ f[q].magic = "GRIB" /\ Cell(f, q + 1) # Null => Cell(f, q + 1).ed # 1
<1>1. ASSUME NEW h \in Storing PROVE ~h.headers
  <2>1. Malloc.headers = FALSE /\ Fast.headers = FALSE /\ \A n \in Nat : Buffer(n).headers = FALSE
    BY DEF Malloc, Fast, Buffer
  <2> QED
    BY <2>1 DEF Storing
<1> QED
  BY <1>1 DEF HowsAt, Edition1

LEMMA GribShape ==
  ASSUME NEW g \in File, NEW q \in DOMAIN g.cells, g.cells[q].magic = "GRIB"
  PROVE  Shape(g.cells, q)
<1> DEFINE f == g.cells
           head == Cell(f, q + 1)
<1>0. f \in Seq(Cells) /\ \A p \in DOMAIN f : f[p].ed = 1 /\ f[p].len >= Flag => f[p].len % Flag \in Nat \ {0}
  BY FileAssumption, LargeAssumption
<1>1. Flag \in Nat \ {0} /\ Unit \in Nat \ {0}
  BY SizeAssumption
<1>2. \A how \in HowsAt(f, q) : ReadAt(f, q, how) = ReadGrib(f, q, how)
  BY DEF ReadAt
<1>3. CASE head = Null
  <2>1. \A how \in HowsAt(f, q) : ReadAt(f, q, how) = Cut(f, q)
    BY <1>2, <1>3 DEF ReadGrib
  <2> QED
    BY <2>1, CutUnread
<1>4. ASSUME head # Null
      PROVE  q + 1 \in DOMAIN f /\ head = f[q + 1] /\ head.len \in Nat /\ head.ed \in Nat /\ q + 1 <= Len(f)
  BY <1>0, <1>4, CellThere
<1>5. ASSUME head # Null PROVE \A how \in HowsAt(f, q) : ~(head.ed = 1 /\ how.headers)
  BY <1>5, HowHeaders
<1>6. CASE head # Null /\ head.ed = 1 /\ head.len >= Flag
  <2> DEFINE sec4 == Section4(f, q)
             i == 3 + Sections(f, q)
             length == LargeLength(head.len, sec4.len)
  <2>1. \A how \in HowsAt(f, q) : ReadAt(f, q, how) = Grib1Large(f, q, head.len, how)
    BY <1>2, <1>5, <1>6 DEF ReadGrib
  <2>2. CASE sec4 = Null
    <3>1. \A how \in HowsAt(f, q) : ReadAt(f, q, how) = Cut(f, q)
      BY <2>1, <2>2 DEF Grib1Large
    <3> QED
      BY <3>1, CutUnread
  <2>3. CASE sec4 # Null
    <3>1. Sections(f, q) # Null /\ Cell(f, q + 2) # Null /\ Sections(f, q) = Cell(f, q + 2).len
      BY <2>3 DEF Section4, Sections
    <3>2. Sections(f, q) \in Nat
      BY <1>0, <3>1, CellThere
    <3>3. sec4 = Cell(f, q + 2 + Sections(f, q))
      BY <3>1 DEF Section4
    <3>4. sec4.len \in Nat
      BY <1>0, <2>3, <3>2, <3>3, CellThere
    <3>5. head.len % Flag \in Nat \ {0}
      BY <1>0, <1>4, <1>6
    <3>6. (head.len % Flag) * Unit >= Unit /\ (head.len % Flag) * Unit \in Nat
      BY <1>1, <3>5
    <3>7. length \in Nat
      BY <1>4, <1>6, <3>4, <3>6, <1>1 DEF LargeLength
    <3>8. \A how \in HowsAt(f, q) : ReadAt(f, q, how) = Back(ReadTheRest(f, q, i, length, how, TRUE))
      BY <2>1, <2>3 DEF Grib1Large
    <3> HIDE DEF length, sec4, i
    <3>9. RestIsBack(f, q, i, length)
      BY <3>8 DEF RestIsBack
    <3> QED
      BY <3>7, <3>9 DEF Shape
  <2> QED
    BY <2>2, <2>3
<1>7. CASE head # Null /\ head.ed \in 1..3 /\ ~(head.ed = 1 /\ head.len >= Flag)
  <2> DEFINE length == head.len
  <2>1. \A how \in HowsAt(f, q) : ReadAt(f, q, how) = Back(ReadTheRest(f, q, 2, length, how, TRUE))
    BY <1>2, <1>5, <1>7 DEF ReadGrib
  <2>2. length \in Nat
    BY <1>4, <1>7
  <2> HIDE DEF length
  <2>3. RestIsBack(f, q, 2, length)
    BY <2>1 DEF RestIsBack
  <2> QED
    BY <2>2, <2>3 DEF Shape
<1>8. CASE head # Null /\ ~(head.ed \in 1..3)
  <2>1. head.ed # 1
    BY <1>4, <1>8
  <2>2. \A how \in HowsAt(f, q) : ReadAt(f, q, how) = Back(Result("edition", q + 2, q, 0))
    BY <1>2, <1>8, <2>1 DEF ReadGrib
  <2> QED
    BY <2>2, ErrorUnread
<1> QED
  BY <1>3, <1>6, <1>7, <1>8

LEMMA BufrShape ==
  ASSUME NEW f \in Seq(Cells), NEW q \in DOMAIN f, f[q].magic = "BUFR" PROVE Shape(f, q)
<1> DEFINE head == Cell(f, q + 1)
<1>1. \A how \in HowsAt(f, q) : ReadAt(f, q, how) = ReadBufr(f, q, how)
  BY DEF ReadAt
<1>2. ASSUME head # Null PROVE head.len \in Nat /\ head.ed \in Nat
  BY <1>2, CellThere
<1>3. CASE head = Null
  <2>1. \A how \in HowsAt(f, q) : ReadAt(f, q, how) = Cut(f, q)
    BY <1>1, <1>3 DEF ReadBufr
  <2> QED
    BY <2>1, CutUnread
<1>4. CASE head # Null /\ head.len = 0
  <2>1. \A how \in HowsAt(f, q) : ReadAt(f, q, how) = Result("invalid", q + 2, q, 0)
    BY <1>1, <1>4 DEF ReadBufr
  <2> QED
    BY <2>1, ErrorUnread
<1>5. CASE head # Null /\ head.len # 0 /\ head.ed \in {0, 1}
  <2> DEFINE sec3 == Cell(f, q + 1 + head.len)
             sec4 == Cell(f, q + 1 + head.len + sec3.len)
             i == 2 + head.len + sec3.len
             length == 1 + head.len + sec3.len + sec4.len + 1
  <2>1. \A how \in HowsAt(f, q) : ReadAt(f, q, how) = OldBufr(f, q, head, how)
    BY <1>1, <1>5 DEF ReadBufr
  <2>2. CASE sec3 = Null
    <3>1. \A how \in HowsAt(f, q) : ReadAt(f, q, how) = Cut(f, q)
      BY <2>1, <2>2 DEF OldBufr
    <3> QED
      BY <3>1, CutUnread
  <2>3. ASSUME sec3 # Null PROVE sec3.len \in Nat
    BY <1>2, <1>5, <2>3, CellThere
  <2>4. CASE sec3 # Null /\ sec3.len = 0
    <3>1. \A how \in HowsAt(f, q) : ReadAt(f, q, how) = Result("invalid", q + 2 + head.len, q, 0)
      BY <2>1, <2>4 DEF OldBufr
    <3> QED
      BY <3>1, ErrorUnread
  <2>5. CASE sec3 # Null /\ sec3.len # 0 /\ sec4 = Null
    <3>1. \A how \in HowsAt(f, q) : ReadAt(f, q, how) = Cut(f, q)
      BY <2>1, <2>5 DEF OldBufr
    <3> QED
      BY <3>1, CutUnread
  <2>6. CASE sec3 # Null /\ sec3.len # 0 /\ sec4 # Null
    <3>1. sec4.len \in Nat
      BY <1>2, <1>5, <2>3, <2>6, CellThere
    <3>2. length \in Nat
      <4>1. head.len \in Nat /\ sec3.len \in Nat
        BY <1>2, <1>5, <2>3, <2>6
      <4> HIDE DEF head, sec3, sec4
      <4> QED
        BY <3>1, <4>1
    <3>3. \A how \in HowsAt(f, q) : ReadAt(f, q, how) = Back(ReadTheRest(f, q, i, length, how, TRUE))
      BY <2>1, <2>6 DEF OldBufr
    <3> HIDE DEF i, length
    <3>4. RestIsBack(f, q, i, length)
      BY <3>3 DEF RestIsBack
    <3> QED
      BY <3>2, <3>4 DEF Shape
  <2> QED
    BY <2>2, <2>4, <2>5, <2>6
<1>6. CASE head # Null /\ head.len # 0 /\ head.ed \in 2..4
  <2> DEFINE length == head.len
  <2>1. head.ed \notin {0, 1} /\ length \in Nat
    BY <1>2, <1>6
  <2>2. \A how \in HowsAt(f, q) : ReadAt(f, q, how) = Back(ReadTheRest(f, q, 2, length, how, TRUE))
    BY <1>1, <1>6, <2>1 DEF ReadBufr
  <2> HIDE DEF length
  <2>3. RestIsBack(f, q, 2, length)
    BY <2>2 DEF RestIsBack
  <2> QED
    BY <2>1, <2>3 DEF Shape
<1>7. CASE head # Null /\ head.len # 0 /\ head.ed \notin {0, 1} /\ head.ed \notin 2..4
  <2>1. \A how \in HowsAt(f, q) : ReadAt(f, q, how) = Back(Result("edition", q + 2, q, 0))
    BY <1>1, <1>7 DEF ReadBufr
  <2> QED
    BY <2>1, ErrorUnread
<1> QED
  BY <1>3, <1>4, <1>5, <1>6, <1>7

LEMMA PseudoShape ==
  ASSUME NEW f \in Seq(Cells), NEW q \in DOMAIN f, f[q].magic = "PSEUDO" PROVE Shape(f, q)
<1> DEFINE sec1 == Cell(f, q + 1)
           sec4 == Cell(f, q + 1 + sec1.len)
           i == 2 + sec1.len
           length == 1 + sec1.len + sec4.len + 1
<1>1. \A how \in HowsAt(f, q) : ReadAt(f, q, how) = ReadPseudo(f, q, how)
  BY DEF ReadAt
<1>2. CASE sec1 = Null
  <2>1. \A how \in HowsAt(f, q) : ReadAt(f, q, how) = Cut(f, q)
    BY <1>1, <1>2 DEF ReadPseudo
  <2> QED
    BY <2>1, CutUnread
<1>3. ASSUME sec1 # Null PROVE sec1.len \in Nat
  BY <1>3, CellThere
<1>4. CASE sec1 # Null /\ sec1.len >= TmpSize
  <2>1. \A how \in HowsAt(f, q) : ReadAt(f, q, how) = Result("internal", q + 2, q, 0)
    BY <1>1, <1>4 DEF ReadPseudo
  <2> QED
    BY <2>1, ErrorUnread
<1>5. CASE sec1 # Null /\ ~(sec1.len >= TmpSize) /\ sec4 = Null
  <2>1. \A how \in HowsAt(f, q) : ReadAt(f, q, how) = Cut(f, q)
    BY <1>1, <1>5 DEF ReadPseudo
  <2> QED
    BY <2>1, CutUnread
<1>6. CASE sec1 # Null /\ ~(sec1.len >= TmpSize) /\ sec4 # Null
  <2>1. sec4.len \in Nat
    BY <1>3, <1>6, CellThere
  <2>2. length \in Nat
    BY <1>3, <1>6, <2>1
  <2>3. \A how \in HowsAt(f, q) : ReadAt(f, q, how) = ReadTheRest(f, q, i, length, how, TRUE)
    BY <1>1, <1>6 DEF ReadPseudo
  <2> HIDE DEF i, length
  <2>4. RestIs(f, q, i, length)
    BY <2>3 DEF RestIs
  <2> QED
    BY <2>2, <2>4 DEF Shape
<1> QED
  BY <1>2, <1>4, <1>5, <1>6

LEMMA StoredShape ==
  ASSUME NEW f \in Seq(Cells), NEW q \in DOMAIN f, f[q].magic \in {"HDF5", "WRAP"} PROVE Shape(f, q)
<1> DEFINE head == Cell(f, q + 1)
           check == f[q].magic = "WRAP"
<1>1. \A how \in HowsAt(f, q) :
         ReadAt(f, q, how) = IF check THEN ReadWrap(f, q, how) ELSE ReadHdf5(f, q, how)
  BY DEF ReadAt
<1>2. CASE head = Null
  <2>1. \A how \in HowsAt(f, q) : ReadAt(f, q, how) = Cut(f, q)
    BY <1>1, <1>2 DEF ReadHdf5, ReadWrap
  <2> QED
    BY <2>1, CutUnread
<1>3. ASSUME head # Null PROVE head.len \in Nat /\ q + 1 \in DOMAIN f /\ head = f[q + 1]
  BY <1>3, CellThere
<1>4. CASE head # Null /\ ~check /\ head.ed > 3
  <2>1. \A how \in HowsAt(f, q) : ReadAt(f, q, how) = Result("unsupported", q + 2, q, 0)
    BY <1>1, <1>4 DEF ReadHdf5
  <2> QED
    BY <2>1, ErrorUnread
<1>5. CASE head # Null /\ (check \/ ~(head.ed > 3))
  <2> DEFINE length == head.len
  <2>1. \A how \in HowsAt(f, q) : ReadAt(f, q, how) = ReadTheRest(f, q, 2, length, Stored(how), check)
    <3>1. CASE check
      BY <1>1, <1>5, <3>1 DEF ReadWrap
    <3>2. CASE ~check
      BY <1>1, <1>5, <3>2 DEF ReadHdf5
    <3> QED
      BY <3>1, <3>2
  <2>2. length \in Nat /\ length = f[q + 1].len /\ q + 1 \in DOMAIN f /\ check \in BOOLEAN
    BY <1>3, <1>5
  <2> HIDE DEF length, check
  <2>3. RestIsStored(f, q, length, check)
    BY <2>1, <2>2 DEF RestIsStored
  <2> QED
    BY <2>2, <2>3 DEF Shape
<1> QED
  BY <1>2, <1>4, <1>5

LEMMA ReadShape ==
  ASSUME NEW g \in File, NEW q \in DOMAIN g.cells, g.cells[q].magic \in Magics
  PROVE  Shape(g.cells, q)
  BY FileAssumption, GribShape, BufrShape, PseudoShape, StoredShape DEF Magics

\* The reader that stores is the reader itself, but for the fast one.
LEMMA HowFields ==
  ASSUME NEW n \in Nat
  PROVE  /\ Malloc.fast = FALSE /\ Malloc.headers = FALSE /\ Malloc.buffer = Null
         /\ Buffer(n).fast = FALSE /\ Buffer(n).headers = FALSE
         /\ Fast.fast = TRUE /\ Fast.headers = FALSE
         /\ HeadersOnly.fast = FALSE /\ HeadersOnly.headers = TRUE /\ HeadersOnly.buffer = Null
  BY DEF Malloc, Buffer, Fast, HeadersOnly

LEMMA StoredFields ==
  ASSUME NEW n \in Nat
  PROVE  /\ Stored(Malloc).fast = FALSE /\ Stored(Malloc).headers = FALSE /\ Stored(Malloc).buffer = Null
         /\ Stored(Buffer(n)).fast = FALSE /\ Stored(Buffer(n)).headers = FALSE
         /\ Stored(Buffer(n)).buffer = Buffer(n).buffer
         /\ Stored(Fast).fast = FALSE /\ Stored(Fast).headers = FALSE /\ Stored(Fast).buffer = FastBuffer
         /\ Stored(HeadersOnly).fast = FALSE /\ Stored(HeadersOnly).headers = TRUE
         /\ Stored(HeadersOnly).buffer = Null
<1>1. Stored(Malloc).fast = FALSE /\ Stored(Malloc).headers = FALSE /\ Stored(Malloc).buffer = Null
  BY DEF Malloc, Stored
<1>2. /\ Stored(Buffer(n)).fast = FALSE /\ Stored(Buffer(n)).headers = FALSE
      /\ Stored(Buffer(n)).buffer = Buffer(n).buffer
  BY DEF Malloc, Buffer, Stored
<1>3. Stored(Fast).fast = FALSE /\ Stored(Fast).headers = FALSE /\ Stored(Fast).buffer = FastBuffer
  BY DEF Malloc, Fast, Stored
<1>4. /\ Stored(HeadersOnly).fast = FALSE /\ Stored(HeadersOnly).headers = TRUE
      /\ Stored(HeadersOnly).buffer = Null
  BY DEF Malloc, HeadersOnly, Stored
<1> QED
  BY <1>1, <1>2, <1>3, <1>4

\* What a read does depends on these fields only.
LEMMA RestSame ==
  ASSUME NEW f, NEW q, NEW i, NEW length, NEW check, NEW how, NEW how0,
         how.fast <=> how0.fast, how.headers <=> how0.headers, how.buffer = how0.buffer
  PROVE  ReadTheRest(f, q, i, length, how, check) = ReadTheRest(f, q, i, length, how0, check)
  BY DEF ReadTheRest

\* The readers agree on the rest of a message, but that a buffer may be too
\* small and that without its contents a message is not seen to be damaged.
LEMMA RestAgrees ==
  ASSUME NEW f, NEW q, NEW i, NEW length, NEW check, NEW n \in Nat
  PROVE  LET rest(how) == ReadTheRest(f, q, i, length, how, check)
         IN  /\ rest(Fast) = rest(Malloc)
             /\ rest(Buffer(n)) = rest(Malloc) \/ rest(Buffer(n)).err = "small"
             /\ rest(Malloc).err = "ok" => rest(HeadersOnly) = rest(Malloc)
  BY HowFields DEF ReadTheRest, Result

\* Nor does it depend on a buffer that is large enough.
LEMMA RestLarge ==
  ASSUME NEW f, NEW q, NEW i, NEW length, NEW check, NEW how, NEW how0,
         how.headers <=> how0.headers,
         how.fast \/ how.buffer = Null \/ ~(how.buffer < length),
         how0.fast \/ how0.buffer = Null \/ ~(how0.buffer < length)
  PROVE  ReadTheRest(f, q, i, length, how, check) = ReadTheRest(f, q, i, length, how0, check)
<1>1. CASE length = 0
  BY <1>1 DEF ReadTheRest
<1>2. CASE length # 0
  BY <1>2 DEF ReadTheRest
<1> QED
  BY <1>1, <1>2

LEMMA StoredAgrees ==
  ASSUME NEW f, NEW q, NEW length \in Nat, NEW check, NEW n \in Nat
  PROVE  LET rest(how) == ReadTheRest(f, q, 2, length, how, check)
         IN  /\ length <= FastBuffer => rest(Stored(Fast)) = rest(Malloc)
             /\ rest(Stored(Malloc)) = rest(Malloc)
             /\ rest(Stored(Buffer(n))) = rest(Buffer(n))
             /\ rest(Stored(HeadersOnly)) = rest(HeadersOnly)
<1>1. ASSUME length <= FastBuffer
      PROVE  ReadTheRest(f, q, 2, length, Stored(Fast), check) = ReadTheRest(f, q, 2, length, Malloc, check)
  <2>1. ~(FastBuffer < length)
    BY <1>1, SizeAssumption
  <2> DEFINE stored == Stored(Fast)
  <2>2. stored.fast = FALSE /\ stored.headers = FALSE /\ stored.buffer = FastBuffer
    BY StoredFields
  <2>3. Malloc.fast = FALSE /\ Malloc.headers = FALSE /\ Malloc.buffer = Null
    BY HowFields
  <2> HIDE DEF stored
  <2>4. ReadTheRest(f, q, 2, length, stored, check) = ReadTheRest(f, q, 2, length, Malloc, check)
    BY <2>1, <2>2, <2>3, RestLarge
  <2> QED
    BY <2>4 DEF stored
<1>2. ASSUME NEW how \in {Malloc, Buffer(n), HeadersOnly}
      PROVE  ReadTheRest(f, q, 2, length, Stored(how), check) = ReadTheRest(f, q, 2, length, how, check)
  <2> DEFINE stored == Stored(how)
  <2>1. (stored.fast <=> how.fast) /\ (stored.headers <=> how.headers) /\ stored.buffer = how.buffer
    <3>1. CASE how = Malloc
      BY <3>1, HowFields, StoredFields
    <3>2. CASE how = Buffer(n)
      BY <3>2, HowFields, StoredFields
    <3>3. CASE how = HeadersOnly
      BY <3>3, HowFields, StoredFields
    <3> QED
      BY <3>1, <3>2, <3>3
  <2> HIDE DEF stored
  <2>2. ReadTheRest(f, q, 2, length, stored, check) = ReadTheRest(f, q, 2, length, how, check)
    BY <2>1, RestSame
  <2> QED
    BY <2>2 DEF stored
<1> QED
  BY <1>1, <1>2

LEMMA RestOk ==
  ASSUME NEW f \in Seq(Cells), NEW q \in DOMAIN f, NEW i, NEW length \in Nat, NEW how, NEW check,
         ReadTheRest(f, q, i, length, how, check).err = "ok"
  PROVE  /\ length # 0 /\ q + length - 1 <= Len(f)
         /\ ReadTheRest(f, q, i, length, how, check) = Result("ok", q + length, q, length)
  BY DEF ReadTheRest, Result

LEMMA BackOk == ASSUME NEW r PROVE Back(r).err = "ok" => Back(r) = r
<1>1. CASE r.err = "ok"
  BY <1>1 DEF Back
<1>2. CASE r.err # "ok"
  <2>1. Back(r).err = r.err
    BY <1>2 DEF Back
  <2> QED
    BY <1>2, <2>1
<1> QED
  BY <1>1, <1>2
\* What is read at q, whatever the reader.
Agrees(f, q) ==
    /\ StoredFit(f) => ReadAt(f, q, Fast) = ReadAt(f, q, Malloc)
    /\ \A n \in Nat : ReadAt(f, q, Buffer(n)) = ReadAt(f, q, Malloc) \/ ReadAt(f, q, Buffer(n)).err = "small"
    /\ ~Edition1(f, q) =>
          /\ ReadAt(f, q, Malloc).err = "ok" => ReadAt(f, q, HeadersOnly) = ReadAt(f, q, Malloc)
          /\ ReadAt(f, q, HeadersOnly).err = "ok" => ReadAt(f, q, HeadersOnly).pos \in (q + 1)..(Len(f) + 1)

LEMMA HowsMember ==
  ASSUME NEW f, NEW q
  PROVE  /\ Malloc \in HowsAt(f, q) /\ Fast \in HowsAt(f, q) /\ \A n \in Nat : Buffer(n) \in HowsAt(f, q)
         /\ ~Edition1(f, q) => HeadersOnly \in HowsAt(f, q)
  BY DEF HowsAt, Hows, Storing

LEMMA UnreadAgrees == ASSUME NEW f, NEW q, NEW e, Unread(f, q, e) PROVE Agrees(f, q)
  BY HowsMember DEF Unread, Agrees

LEMMA RestMoves ==
  ASSUME NEW f \in Seq(Cells), NEW q \in DOMAIN f, NEW i, NEW length \in Nat, NEW how, NEW check,
         ReadTheRest(f, q, i, length, how, check).err = "ok"
  PROVE  ReadTheRest(f, q, i, length, how, check).pos \in (q + 1)..(Len(f) + 1)
<1>1. /\ length # 0 /\ q + length - 1 <= Len(f)
      /\ ReadTheRest(f, q, i, length, how, check) = Result("ok", q + length, q, length)
  BY RestOk
<1>2. Result("ok", q + length, q, length).pos = q + length
  BY DEF Result
<1> QED
  BY <1>1, <1>2

LEMMA RestShapeAgrees ==
  ASSUME NEW f \in Seq(Cells), NEW q \in DOMAIN f, NEW i, NEW length \in Nat, RestIs(f, q, i, length)
  PROVE  Agrees(f, q)
<1> DEFINE rest(how) == ReadTheRest(f, q, i, length, how, TRUE)
<1>1. \A how \in HowsAt(f, q) : ReadAt(f, q, how) = rest(how)
  BY DEF RestIs
<1>2. /\ rest(Fast) = rest(Malloc)
      /\ \A n \in Nat : rest(Buffer(n)) = rest(Malloc) \/ rest(Buffer(n)).err = "small"
      /\ rest(Malloc).err = "ok" => rest(HeadersOnly) = rest(Malloc)
  BY RestAgrees, 0 \in Nat
<1>3. rest(HeadersOnly).err = "ok" => rest(HeadersOnly).pos \in (q + 1)..(Len(f) + 1)
  BY RestMoves
<1> HIDE DEF rest
<1> QED
  BY <1>1, <1>2, <1>3, HowsMember DEF Agrees

LEMMA BackShapeAgrees ==
  ASSUME NEW f \in Seq(Cells), NEW q \in DOMAIN f, NEW i, NEW length \in Nat, RestIsBack(f, q, i, length)
  PROVE  Agrees(f, q)
<1> DEFINE rest(how) == ReadTheRest(f, q, i, length, how, TRUE)
<1>1. \A how \in HowsAt(f, q) : ReadAt(f, q, how) = Back(rest(how))
  BY DEF RestIsBack
<1>2. /\ rest(Fast) = rest(Malloc)
      /\ \A n \in Nat : rest(Buffer(n)) = rest(Malloc) \/ rest(Buffer(n)).err = "small"
      /\ rest(Malloc).err = "ok" => rest(HeadersOnly) = rest(Malloc)
  BY RestAgrees, 0 \in Nat
<1>3. rest(HeadersOnly).err = "ok" => rest(HeadersOnly).pos \in (q + 1)..(Len(f) + 1)
  BY RestMoves
<1> HIDE DEF rest
<1>4. \A how : /\ Back(rest(how)).err = "ok" => Back(rest(how)) = rest(how)
               /\ rest(how).err = "small" => Back(rest(how)).err = "small"
  BY BackOk DEF Back
<1> QED
  BY <1>1, <1>2, <1>3, <1>4, HowsMember DEF Agrees

LEMMA StoredShapeAgrees ==
  ASSUME NEW f \in Seq(Cells), NEW q \in DOMAIN f, NEW length \in Nat, NEW check, RestIsStored(f, q, length, check)
  PROVE  Agrees(f, q)
<1> DEFINE rest(how) == ReadTheRest(f, q, 2, length, how, check)
<1>1. \A how \in HowsAt(f, q) : ReadAt(f, q, how) = rest(Stored(how))
  BY DEF RestIsStored
<1>2. StoredFit(f) => length <= FastBuffer
  BY DEF StoredFit, RestIsStored
<1>3. /\ length <= FastBuffer => rest(Stored(Fast)) = rest(Malloc)
      /\ rest(Stored(Malloc)) = rest(Malloc)
      /\ \A n \in Nat : rest(Stored(Buffer(n))) = rest(Buffer(n))
      /\ rest(Stored(HeadersOnly)) = rest(HeadersOnly)
  BY StoredAgrees, 0 \in Nat
<1>4. /\ \A n \in Nat : rest(Buffer(n)) = rest(Malloc) \/ rest(Buffer(n)).err = "small"
      /\ rest(Malloc).err = "ok" => rest(HeadersOnly) = rest(Malloc)
  BY RestAgrees, 0 \in Nat
<1>5. rest(HeadersOnly).err = "ok" => rest(HeadersOnly).pos \in (q + 1)..(Len(f) + 1)
  BY RestMoves
<1> HIDE DEF rest
<1> QED
  BY <1>1, <1>2, <1>3, <1>4, <1>5, HowsMember DEF Agrees

LEMMA ReadAtAgrees ==
  ASSUME NEW g \in File, NEW q \in DOMAIN g.cells, g.cells[q].magic \in Magics
  PROVE  Agrees(g.cells, q)
<1>1. g.cells \in Seq(Cells)
  BY FileAssumption
<1>2. Shape(g.cells, q)
  BY ReadShape
<1> QED
  BY <1>1, <1>2, UnreadAgrees, RestShapeAgrees, BackShapeAgrees, StoredShapeAgrees DEF Shape

\* The position behind a message, or before its end marker.
NearlyAt(f, p, e) == p = e \/ (p = e - 1 /\ p \in DOMAIN f /\ f[p].magic = "7777")

\* A message that is read with its contents is in the file and has its end marker.
LEMMA RestMarked ==
  ASSUME NEW f \in Seq(Cells), NEW q \in DOMAIN f, NEW i, NEW length \in Nat, NEW how, ~how.headers,
         ReadTheRest(f, q, i, length, how, TRUE).err = "ok"
  PROVE  /\ q + length - 1 <= Len(f) /\ f[q + length - 1].magic = "7777"
         /\ ReadTheRest(f, q, i, length, how, TRUE) = Result("ok", q + length, q, length)
  BY DEF ReadTheRest, Result

\* A GRIB 1 message that is read for its headers only.
LEMMA Edition1Headers ==
  ASSUME NEW g \in File, NEW q \in DOMAIN g.cells, Edition1(g.cells, q), ~HasShort(g.cells)
  PROVE  LET f == g.cells
             h == ReadAt(f, q, HeadersOnly)
             m == ReadAt(f, q, Malloc)
         IN  /\ h.err = "ok" => h.pos \in (q + 1)..(Len(f) + 1)
             /\ ~HasLarge(f) /\ m.err = "ok" => h.err = "ok" /\ h.start = q /\ NearlyAt(f, h.pos, m.pos)
<1> DEFINE f == g.cells
           head == Cell(f, q + 1)
           h == ReadAt(f, q, HeadersOnly)
           m == ReadAt(f, q, Malloc)
           coded == head.len
           sections == Sections(f, q)
           i == 3 + sections
           r == ReadTheRest(f, q, i, i, HeadersOnly, TRUE)
           ends == Min({q + coded - 1, Len(f) + 1})
<1>1. f \in Seq(Cells) /\ Len(f) \in Nat /\ DOMAIN f = 1..Len(f) /\ q \in Nat \ {0}
  BY FileAssumption
<1>2. f[q].magic = "GRIB" /\ head # Null /\ head.ed = 1
  BY DEF Edition1
<1>3. q + 1 \in DOMAIN f /\ head = f[q + 1] /\ coded \in Nat
  BY <1>1, <1>2, CellThere
<1>4. HeadersOnly.headers /\ ~Malloc.headers
  BY HowFields, 0 \in Nat
<1>5. h = IF Section4(f, q) = Null THEN Cut(f, q)
          ELSE IF r.err = "ok" THEN [r EXCEPT !.pos = ends] ELSE Back(r)
  BY <1>2, <1>4 DEF ReadAt, ReadGrib, Grib1Headers
<1>6. coded >= 3 + (IF q + 2 \in DOMAIN f THEN f[q + 2].len ELSE 0)
  <2>1. ~(coded < 3 + (IF q + 2 \in DOMAIN f THEN f[q + 2].len ELSE 0))
    BY <1>2, <1>3 DEF HasShort
  <2>2. q + 2 \in DOMAIN f => f[q + 2].len \in Nat
    <3> SUFFICES ASSUME q + 2 \in DOMAIN f PROVE f[q + 2].len \in Nat
      OBVIOUS
    <3>1. f[q + 2] \in Cells
      BY <1>1
    <3> QED
      BY <3>1 DEF Cells
  <2> QED
    BY <1>3, <2>1, <2>2
<1>7. coded >= 3
  <2>1. q + 2 \in DOMAIN f => f[q + 2].len \in Nat
    <3> SUFFICES ASSUME q + 2 \in DOMAIN f PROVE f[q + 2].len \in Nat
      OBVIOUS
    <3>1. f[q + 2] \in Cells
      BY <1>1
    <3> QED
      BY <3>1 DEF Cells
  <2> QED
    BY <1>3, <1>6, <2>1
<1>8. ends \in {q + coded - 1, Len(f) + 1} /\ ends <= q + coded - 1 /\ ends <= Len(f) + 1
  <2> DEFINE both == {q + coded - 1, Len(f) + 1}
  <2>1. both \in SUBSET Nat /\ both # {}
    BY <1>1, <1>3, <1>7
  <2> HIDE DEF both
  <2>2. Min(both) \in both /\ \A e \in both : Min(both) <= e
    BY <2>1, MinOf
  <2> QED
    BY <2>2 DEF both
<1>9. h.err = "ok" => h.pos = ends
  <2>1. CASE Section4(f, q) = Null
    BY <1>5, <2>1 DEF Cut, Result
  <2>2. CASE Section4(f, q) # Null /\ r.err = "ok"
    <3>1. DOMAIN r = {"err", "pos", "start", "size"}
      BY RestDomain
    <3> HIDE DEF r, ends, h
    <3> QED
      BY <1>5, <2>2, <3>1
  <2>3. CASE Section4(f, q) # Null /\ r.err # "ok"
    <3>1. h = Back(r)
      BY <1>5, <2>3
    <3> HIDE DEF r, h
    <3> QED
      BY <2>3, <3>1, BackOk
  <2> QED
    BY <2>1, <2>2, <2>3
<1>10. h.err = "ok" => h.pos \in (q + 1)..(Len(f) + 1)
  BY <1>1, <1>3, <1>7, <1>8, <1>9
<1>11. ASSUME ~HasLarge(f), m.err = "ok" PROVE h.err = "ok" /\ h.start = q /\ NearlyAt(f, h.pos, m.pos)
  <2>1. ~(coded >= Flag)
    BY <1>2, <1>3, <1>11 DEF HasLarge
  <2>2. m = Back(ReadTheRest(f, q, 2, coded, Malloc, TRUE))
    <3>1. m = ReadGrib(f, q, Malloc)
      BY <1>2 DEF ReadAt
    <3>2. ~(head.ed = 1 /\ Malloc.headers) /\ ~(head.ed = 1 /\ coded >= Flag) /\ head.ed \in 1..3
      BY <1>2, <1>4, <2>1
    <3> HIDE DEF m
    <3> QED
      BY <1>2, <3>1, <3>2 DEF ReadGrib
  <2>3. m = ReadTheRest(f, q, 2, coded, Malloc, TRUE)
    BY <1>11, <2>2, BackOk
  <2>4. /\ q + coded - 1 <= Len(f) /\ m = Result("ok", q + coded, q, coded)
        /\ f[q + coded - 1].magic = "7777"
    <3>1. ReadTheRest(f, q, 2, coded, Malloc, TRUE).err = "ok"
      BY <1>11, <2>3
    <3>2. q \in DOMAIN f /\ f \in Seq(Cells) /\ coded \in Nat
      BY <1>1, <1>3
    <3> HIDE DEF m, head, coded, f
    <3> QED
      BY <1>4, <2>3, <3>1, <3>2, RestMarked
  <2>5. m.pos = q + coded
    BY <2>4 DEF Result
  <2>6. ends = q + coded - 1
    BY <1>1, <1>3, <1>8, <2>4
  <2>7. q + 2 \in DOMAIN f /\ f[q + 2] \in Cells /\ f[q + 2].len \in Nat
    <3>1. q + 2 \in DOMAIN f
      BY <1>1, <1>3, <1>7, <2>4
    <3>2. f[q + 2] \in Cells
      BY <1>1, <3>1
    <3> QED
      BY <3>1, <3>2 DEF Cells
  <2>8. Cell(f, q + 2) = f[q + 2] /\ Cell(f, q + 2) # Null /\ sections = f[q + 2].len
    <3>1. q + 2 <= Len(f)
      BY <1>1, <2>7
    <3> QED
      BY <2>7, <3>1, NullAssumption DEF Cell, Sections
  <2>9. sections \in Nat /\ coded >= 3 + sections
    BY <1>6, <2>7, <2>8
  <2>10. q + 2 + sections \in DOMAIN f /\ q + 2 + sections <= Len(f)
    <3>1. q \in Nat \ {0} /\ coded \in Nat /\ q + coded - 1 <= Len(f) /\ Len(f) \in Nat
      BY <1>1, <1>3, <2>4
    <3> HIDE DEF sections, coded, f
    <3>2. q + 2 + sections <= Len(f) /\ q + 2 + sections \in Nat \ {0}
      BY <2>9, <3>1
    <3> QED
      BY <1>1, <3>2
  <2> HIDE DEF sections
  <2>11. Section4(f, q) # Null
    <3>1. f[q + 2 + sections] \in Cells
      BY <1>1, <2>10
    <3>2. Cell(f, q + 2 + sections) # Null
      BY <2>10, <3>1, NullAssumption DEF Cell
    <3>3. Sections(f, q) = sections /\ sections # Null
      <4>1. sections = Sections(f, q)
        BY DEF sections
      <4> QED
        BY <2>9, <4>1, NullAssumption
    <3> QED
      BY <3>2, <3>3 DEF Section4
  <2>12. r = Result("ok", q + i, q, i)
    <3>1. i \in Nat /\ i # 0 /\ q + i - 1 <= Len(f)
      BY <1>1, <2>9, <2>10
    <3>2. HeadersOnly.buffer = Null
      BY HowFields, 0 \in Nat
    <3> HIDE DEF i
    <3> QED
      BY <1>1, <1>4, <3>1, <3>2 DEF ReadTheRest, Result
  <2> HIDE DEF r, h, ends
  <2>13. r.err = "ok" /\ r.start = q /\ DOMAIN r = {"err", "pos", "start", "size"}
    BY <2>12 DEF Result
  <2>14. h.err = "ok" /\ h.start = q /\ h.pos = ends
    BY <1>5, <2>11, <2>13
  <2>15. ends = m.pos - 1 /\ ends \in DOMAIN f /\ f[ends].magic = "7777"
    <3>1. m.pos - 1 = q + coded - 1 /\ q + coded - 1 \in 1..Len(f)
      BY <1>1, <1>3, <1>7, <2>4, <2>5
    <3> QED
      BY <1>1, <2>4, <2>6, <3>1
  <2> QED
    BY <2>14, <2>15 DEF NearlyAt
<1> QED
  BY <1>10, <1>11

\* What the readers return that look for a message from p on.
AnyAgrees(f, p) ==
    /\ StoredFit(f) => ReadAny(f, p, Fast) = ReadAny(f, p, Malloc)
    /\ \A n \in Nat :
          ReadAny(f, p, Buffer(n)) = ReadAny(f, p, Malloc) \/ ReadAny(f, p, Buffer(n)).err = "small"
    /\ ReadAny(f, p, Malloc).err = "end" => ReadAny(f, p, HeadersOnly).err = "end"
    /\ ReadAny(f, p, Malloc).err = "ok" =>
          /\ ReadAny(f, p, Malloc).pos \in (p + 1)..(Len(f) + 1)
          /\ ReadAny(f, p, Malloc).start \in DOMAIN f

HeadersAgree(f, p) ==
    LET h == ReadAny(f, p, HeadersOnly)
        m == ReadAny(f, p, Malloc)
    IN  /\ h.err = "ok" => h.pos \in (p + 1)..(Len(f) + 1)
        /\ ~HasLarge(f) /\ m.err = "ok" => h.err = "ok" /\ h.start = m.start /\ NearlyAt(f, h.pos, m.pos)

\* A file that ends in a header is the only other end.
Premature(r) == IF r.err = "end" THEN [r EXCEPT !.err = "premature"] ELSE r

LEMMA PrematureOk ==
  ASSUME NEW r
  PROVE  /\ Premature(r).err = "ok" => r.err = "ok"
         /\ r.err = "ok" => Premature(r) = r
         /\ r.err = "small" => Premature(r).err = "small"
<1>1. r.err = "end" => Premature(r) = [r EXCEPT !.err = "premature"]
  BY DEF Premature
<1>2. r.err # "end" => Premature(r) = r
  BY DEF Premature
<1>3. [r EXCEPT !.err = "premature"].err # "ok"
  OBVIOUS
<1> QED
  BY <1>1, <1>2, <1>3

LEMMA FirstMagic ==
  ASSUME NEW g \in File, NEW p \in 1..(Len(g.cells) + 1)
  PROVE  \/ \A how : ReadAny(g.cells, p, how) = Result("end", Len(g.cells) + 1, 0, 0)
         \/ \E q \in DOMAIN g.cells :
               /\ q >= p /\ g.cells[q].magic \in Magics
               /\ \A how : ReadAny(g.cells, p, how) = Premature(ReadAt(g.cells, q, how))
<1> DEFINE f == g.cells
           starts == {q \in p..Len(f) : f[q].magic \in Magics}
           q == Min(starts)
<1>1. Len(f) \in Nat /\ DOMAIN f = 1..Len(f)
  BY FileAssumption
<1>2. CASE starts = {}
  BY <1>2 DEF ReadAny
<1>3. CASE starts # {}
  <2>1. q \in starts
    <3>1. starts \in SUBSET Nat
      BY <1>1
    <3> HIDE DEF starts
    <3> QED
      BY <1>3, <3>1, MinOf
  <2>2. q \in DOMAIN f /\ q >= p /\ f[q].magic \in Magics
    <3> HIDE DEF q
    <3> QED
      BY <1>1, <2>1
  <2>3. \A how : ReadAny(f, p, how) = Premature(ReadAt(f, q, how))
    BY <1>3 DEF ReadAny, Premature
  <2> HIDE DEF q
  <2> QED
    BY <2>2, <2>3
<1> QED
  BY <1>2, <1>3

LEMMA ReadAnyAgrees ==
  ASSUME NEW g \in File, NEW p \in 1..(Len(g.cells) + 1)
  PROVE  AnyAgrees(g.cells, p) /\ (~HasShort(g.cells) => HeadersAgree(g.cells, p))
<1> DEFINE f == g.cells
<1>1. f \in Seq(Cells) /\ Len(f) \in Nat /\ DOMAIN f = 1..Len(f)
  BY FileAssumption
<1>2. CASE \A how : ReadAny(f, p, how) = Result("end", Len(f) + 1, 0, 0)
  <2>1. Result("end", Len(f) + 1, 0, 0).err = "end"
    BY DEF Result
  <2> QED
    BY <1>2, <2>1 DEF AnyAgrees, HeadersAgree
<1>3. ASSUME NEW q \in DOMAIN f, q >= p, f[q].magic \in Magics,
             \A how : ReadAny(f, p, how) = Premature(ReadAt(f, q, how))
      PROVE  AnyAgrees(f, p) /\ (~HasShort(f) => HeadersAgree(f, p))
  <2> DEFINE m == ReadAt(f, q, Malloc)
             h == ReadAt(f, q, HeadersOnly)
  <2>1. Plain(Malloc) /\ Malloc.buffer = Null
    BY DEF Plain, Malloc
  <2>2. Good(f, q, m, m)
    BY <1>3, <2>1, ReadAtGood
  <2>3. m.start = q /\ m.pos \in (q + 1)..(Len(f) + 1)
    BY <2>2 DEF Good, Sound
  <2>4. Agrees(f, q)
    BY <1>3, ReadAtAgrees
  <2>5. AnyAgrees(f, p)
    <3>1. \A n \in Nat : ReadAny(f, p, Buffer(n)) = ReadAny(f, p, Malloc) \/ ReadAny(f, p, Buffer(n)).err = "small"
      BY <1>3, <2>4, PrematureOk DEF Agrees
    <3>2. ReadAny(f, p, Malloc).err # "end"
      <4>1. CASE m.err = "end"
        <5>1. [m EXCEPT !.err = "premature"].err = "premature"
          BY <2>2 DEF Good
        <5> QED
          BY <1>3, <4>1, <5>1 DEF Premature
      <4>2. CASE m.err # "end"
        BY <1>3, <4>2 DEF Premature
      <4> QED
        BY <4>1, <4>2
    <3>3. ReadAny(f, p, Malloc).err = "ok" => ReadAny(f, p, Malloc) = m
      BY <1>3, PrematureOk
    <3>4. m.pos \in (p + 1)..(Len(f) + 1) /\ m.start \in DOMAIN f
      BY <1>1, <1>3, <2>3
    <3>5. StoredFit(f) => ReadAny(f, p, Fast) = ReadAny(f, p, Malloc)
      BY <1>3, <2>4 DEF Agrees
    <3> QED
      BY <3>1, <3>2, <3>3, <3>4, <3>5 DEF AnyAgrees
  <2>6. ASSUME ~HasShort(f) PROVE HeadersAgree(f, p)
    <3>1. /\ h.err = "ok" => h.pos \in (q + 1)..(Len(f) + 1)
          /\ ~HasLarge(f) /\ m.err = "ok" => h.err = "ok" /\ h.start = q /\ NearlyAt(f, h.pos, m.pos)
      <4>1. CASE Edition1(f, q)
        BY <2>6, <4>1, Edition1Headers
      <4>2. CASE ~Edition1(f, q)
        <5>1. m.err = "ok" => h = m
          BY <2>4, <4>2 DEF Agrees
        <5>2. h.err = "ok" => h.pos \in (q + 1)..(Len(f) + 1)
          BY <2>4, <4>2 DEF Agrees
        <5> HIDE DEF m, h
        <5> QED
          BY <2>3, <5>1, <5>2 DEF NearlyAt
      <4> QED
        BY <4>1, <4>2
    <3>2. \A r \in {m, h} : (Premature(r).err = "ok" => r.err = "ok") /\ (r.err = "ok" => Premature(r) = r)
      BY PrematureOk
    <3>3. ReadAny(f, p, HeadersOnly) = Premature(h) /\ ReadAny(f, p, Malloc) = Premature(m)
      BY <1>3
    <3>4. h.pos \in (q + 1)..(Len(f) + 1) => h.pos \in (p + 1)..(Len(f) + 1)
      BY <1>1, <1>3
    <3> HIDE DEF m, h
    <3> QED
      BY <2>3, <3>1, <3>2, <3>3, <3>4 DEF HeadersAgree
  <2> QED
    BY <2>5, <2>6
<1> QED
  BY <1>2, <1>3, FirstMagic

-----------------------------------------------------------------------------
(* The lists of offsets *)

\* The messages from each position on, as Products lists them.
From(f, how) ==
    CHOOSE F : F = [p \in 1..(Len(f) + 1) |->
        LET r == ReadAny(f, p, how)
        IN  IF r.err # "ok" THEN [err |-> r.err, list |-> <<>>]
            ELSE [F[r.pos] EXCEPT !.list = <<[off |-> Offset(f, r), size |-> r.size]>> \o @]]

Item(f, r) == [off |-> Offset(f, r), size |-> r.size]
Items(f, how) == {Item(f, ReadAny(f, p, how)) : p \in 1..(Len(f) + 1)}
Errors(f, how) == {ReadAny(f, p, how).err : p \in 1..(Len(f) + 1)}

\* What is listed from p on.
ListedAt(f, how, F, p) ==
    LET r == ReadAny(f, p, how)
    IN  IF r.err # "ok" THEN F[p] = [err |-> r.err, list |-> <<>>]
        ELSE F[p] = [err |-> F[r.pos].err, list |-> <<Item(f, r)>> \o F[r.pos].list]

Listing(f, how, F) ==
    /\ F \in [1..(Len(f) + 1) -> [err : Errors(f, how), list : Seq(Items(f, how))]]
    /\ \A p \in 1..(Len(f) + 1) : ListedAt(f, how, F, p)

MovesOn(f, how) ==
    \A p \in 1..(Len(f) + 1) :
        ReadAny(f, p, how).err = "ok" => ReadAny(f, p, how).pos \in (p + 1)..(Len(f) + 1)

LEMMA Relisted ==
  ASSUME NEW E, NEW L, NEW v \in [err : E, list : L], NEW l
  PROVE  [v EXCEPT !.list = l] = [err |-> v.err, list |-> l]
  OBVIOUS

\* There is such a function, and Products is its value at the first cell.
LEMMA FromListing ==
  ASSUME NEW f, Len(f) \in Nat, NEW how, MovesOn(f, how)
  PROVE  Products(f, how) = From(f, how)[1] /\ Listing(f, how, From(f, how))
<1> DEFINE n == Len(f) + 1
           Rd(p) == ReadAny(f, p, how)
           V == [err : Errors(f, how), list : Seq(Items(f, how))]
           stops == {p \in 1..n : Rd(p).err # "ok"}
           last == [p \in 1..n |-> [err |-> Rd(p).err, list |-> <<>>]]
           next == [p \in 1..n |-> Rd(p).pos]
           step == [x \in (1..n) \X V |->
                      [err |-> x[2].err, list |-> <<Item(f, Rd(x[1]))>> \o x[2].list]]
<1>1. n \in Nat /\ stops \in SUBSET (1..n)
  OBVIOUS
<1>2. \A p \in 1..n : Rd(p).err \in Errors(f, how) /\ Item(f, Rd(p)) \in Items(f, how)
  BY DEF Errors, Items
<1>3. last \in [1..n -> V]
  <2> SUFFICES ASSUME NEW p \in 1..n PROVE [err |-> Rd(p).err, list |-> <<>>] \in V
    OBVIOUS
  <2> QED
    BY <1>2
<1>4. step \in [(1..n) \X V -> V]
  <2> SUFFICES ASSUME NEW p \in 1..n, NEW v \in V
               PROVE  [err |-> v.err, list |-> <<Item(f, Rd(p))>> \o v.list] \in V
    OBVIOUS
  <2>1. <<Item(f, Rd(p))>> \o v.list \in Seq(Items(f, how))
    <3> DEFINE S == Items(f, how)
               item == Item(f, Rd(p))
               list == v.list
    <3>1. item \in S /\ list \in Seq(S)
      BY <1>2
    <3> HIDE DEF S, item, list
    <3>2. <<item>> \o list \in Seq(S)
      BY <3>1
    <3> QED
      BY <3>2 DEF S, item, list
  <2> QED
    BY <2>1
<1>5. \A p \in (1..n) \ stops : next[p] \in (p + 1)..n
  BY DEF MovesOn
<1> HIDE DEF n, V, stops, last, next, step
<1>a. PICK F \in [1..n -> V] : Recurs(n, stops, last, next, step, F)
  BY <1>1, <1>3, <1>4, <1>5, Backwards
<1>6. F \in [1..n -> V] /\ \A p \in 1..n : F[p] = IF p \in stops THEN last[p] ELSE step[<<p, F[next[p]]>>]
  BY <1>a DEF Recurs
<1>7. \A p \in 1..n : IF Rd(p).err # "ok" THEN F[p] = [err |-> Rd(p).err, list |-> <<>>]
                      ELSE /\ Rd(p).pos \in 1..n
                           /\ F[p] = [err |-> F[Rd(p).pos].err, list |-> <<Item(f, Rd(p))>> \o F[Rd(p).pos].list]
  <2> SUFFICES ASSUME NEW p \in 1..n
               PROVE  IF Rd(p).err # "ok" THEN F[p] = [err |-> Rd(p).err, list |-> <<>>]
                      ELSE /\ Rd(p).pos \in 1..n
                           /\ F[p] = [err |-> F[Rd(p).pos].err, list |-> <<Item(f, Rd(p))>> \o F[Rd(p).pos].list]
    OBVIOUS
  <2>1. CASE Rd(p).err # "ok"
    <3>1. p \in stops
      BY <2>1 DEF stops
    <3>2. F[p] = last[p]
      BY <1>6, <3>1
    <3> QED
      BY <2>1, <3>2 DEF last
  <2>2. CASE Rd(p).err = "ok"
    <3>1. p \notin stops /\ next[p] = Rd(p).pos
      BY <2>2 DEF stops, next
    <3>2. Rd(p).pos \in (p + 1)..n
      BY <1>5, <3>1
    <3>3. Rd(p).pos \in 1..n
      BY <1>1, <3>2
    <3>4. F[Rd(p).pos] \in V
      BY <1>6, <3>3
    <3>5. F[p] = step[<<p, F[Rd(p).pos]>>]
      BY <1>6, <3>1
    <3>6. \A v \in V : step[<<p, v>>] = [err |-> v.err, list |-> <<Item(f, Rd(p))>> \o v.list]
      BY DEF step
    <3> QED
      BY <2>2, <3>3, <3>4, <3>5, <3>6
  <2> QED
    BY <2>1, <2>2
<1>8. \A p \in 1..n : Rd(p).err = "ok" =>
        [F[Rd(p).pos] EXCEPT !.list = <<[off |-> Offset(f, Rd(p)), size |-> Rd(p).size]>> \o F[Rd(p).pos].list]
          = [err |-> F[Rd(p).pos].err, list |-> <<Item(f, Rd(p))>> \o F[Rd(p).pos].list]
  <2> SUFFICES ASSUME NEW p \in 1..n, Rd(p).err = "ok"
               PROVE  [F[Rd(p).pos] EXCEPT !.list = <<[off |-> Offset(f, Rd(p)), size |-> Rd(p).size]>> \o F[Rd(p).pos].list]
                        = [err |-> F[Rd(p).pos].err, list |-> <<Item(f, Rd(p))>> \o F[Rd(p).pos].list]
    OBVIOUS
  <2>1. F[Rd(p).pos] \in [err : Errors(f, how), list : Seq(Items(f, how))]
    BY <1>6, <1>7 DEF V
  <2>2. Item(f, Rd(p)) = [off |-> Offset(f, Rd(p)), size |-> Rd(p).size]
    BY DEF Item
  <2> DEFINE v == F[Rd(p).pos]
             l == <<Item(f, Rd(p))>> \o v.list
  <2>3. v \in [err : Errors(f, how), list : Seq(Items(f, how))]
    BY <2>1
  <2> HIDE DEF v, l
  <2>4. [v EXCEPT !.list = l] = [err |-> v.err, list |-> l]
    BY <2>3, Relisted
  <2> QED
    BY <2>2, <2>4 DEF v, l
<1>9. F = [p \in 1..n |->
        LET r == ReadAny(f, p, how)
        IN  IF r.err # "ok" THEN [err |-> r.err, list |-> <<>>]
            ELSE [F[r.pos] EXCEPT !.list = <<[off |-> Offset(f, r), size |-> r.size]>> \o @]]
  <2>1. F = [p \in 1..n |-> F[p]]
    BY <1>6
  <2>2. \A p \in 1..n : F[p] = IF Rd(p).err # "ok" THEN [err |-> Rd(p).err, list |-> <<>>]
            ELSE [F[Rd(p).pos] EXCEPT !.list = <<[off |-> Offset(f, Rd(p)), size |-> Rd(p).size]>> \o @]
    BY <1>7, <1>8
  <2> QED
    BY <2>1, <2>2
<1> DEFINE G == From(f, how)
<1>10. G = [p \in 1..n |->
        LET r == ReadAny(f, p, how)
        IN  IF r.err # "ok" THEN [err |-> r.err, list |-> <<>>]
            ELSE [G[r.pos] EXCEPT !.list = <<[off |-> Offset(f, r), size |-> r.size]>> \o @]]
  BY <1>9 DEF From, n
<1>11. \A p \in 1..n : p \in {x \in 1..n : G[x] = F[x]}
  <2> DEFINE same == {x \in 1..n : G[x] = F[x]}
  <2>1. ASSUME NEW p \in 1..n, \A m \in (p + 1)..n : m \in same PROVE p \in same
    <3> DEFINE Next0(H) == IF Rd(p).err # "ok" THEN [err |-> Rd(p).err, list |-> <<>>]
            ELSE [H[Rd(p).pos] EXCEPT !.list = <<[off |-> Offset(f, Rd(p)), size |-> Rd(p).size]>> \o @]
    <3>1. G[p] = Next0(G) /\ F[p] = Next0(F)
      <4>1. G[p] = Next0(G)
        <5> HIDE DEF G
        <5> QED
          BY <1>10
      <4>2. F[p] = Next0(F)
        BY <1>9
      <4> QED
        BY <4>1, <4>2
    <3>2. Rd(p).err = "ok" => G[Rd(p).pos] = F[Rd(p).pos]
      BY <2>1 DEF MovesOn, n
    <3> HIDE DEF G
    <3>3. Next0(G) = Next0(F)
      BY <3>2
    <3> HIDE DEF Next0
    <3> QED
      BY <3>1, <3>3
  <2> HIDE DEF same
  <2>2. \A p \in 1..n : p \in same
    BY <1>1, <2>1, Downwards
  <2> QED
    BY <2>2 DEF same
<1>13. G = F
  <2> HIDE DEF G
  <2>1. G = [p \in 1..n |-> G[p]]
    BY <1>10
  <2> QED
    BY <1>6, <1>11, <2>1
<1>14. Listing(f, how, G)
  <2> HIDE DEF G
  <2> QED
    BY <1>6, <1>7, <1>13 DEF Listing, ListedAt, n, V
<1>15. Products(f, how) = G[1]
  BY DEF Products, From
<1> QED
  BY <1>14, <1>15

\* What was listed before p is k.
Reached(f, how, k, p) ==
    /\ k \in Seq(Items(f, how))
    /\ From(f, how)[1].err = From(f, how)[p].err
    /\ From(f, how)[1].list = k \o From(f, how)[p].list

\* One more message is read.
LEMMA ReachedNext ==
  ASSUME NEW f, Len(f) \in Nat, NEW how, MovesOn(f, how), NEW p \in 1..(Len(f) + 1), NEW k,
         Reached(f, how, k, p), ReadAny(f, p, how).err = "ok"
  PROVE  Reached(f, how, Append(k, Item(f, ReadAny(f, p, how))), ReadAny(f, p, how).pos)
<1> DEFINE F == From(f, how)
           r == ReadAny(f, p, how)
           x == Item(f, r)
           S == Items(f, how)
<1>1. Listing(f, how, F)
  BY FromListing
<1>2. r.pos \in 1..(Len(f) + 1)
  <2>1. r.pos \in (p + 1)..(Len(f) + 1)
    BY DEF MovesOn
  <2> HIDE DEF r
  <2> QED
    BY <2>1
<1>3. x \in S
  BY DEF Items
<1>4. F[p] = [err |-> F[r.pos].err, list |-> <<x>> \o F[r.pos].list]
  <2>1. ListedAt(f, how, F, p)
    BY <1>1 DEF Listing
  <2> HIDE DEF F
  <2> QED
    BY <2>1 DEF ListedAt
<1>5. F[r.pos].list \in Seq(S)
  <2>1. F[r.pos] \in [err : Errors(f, how), list : Seq(S)]
    <3> HIDE DEF F, r
    <3> QED
      BY <1>1, <1>2 DEF Listing
  <2> QED
    BY <2>1
<1>6. k \in Seq(S) /\ F[1].err = F[p].err /\ F[1].list = k \o F[p].list
  BY DEF Reached
<1> HIDE DEF F, r, x, S
<1>7. F[p].err = F[r.pos].err /\ F[p].list = <<x>> \o F[r.pos].list
  BY <1>4
<1>8. k \o (<<x>> \o F[r.pos].list) = Append(k, x) \o F[r.pos].list
  <2> DEFINE l == F[r.pos].list
  <2>1. k \in Seq(S) /\ x \in S /\ l \in Seq(S)
    BY <1>3, <1>5, <1>6
  <2> HIDE DEF l
  <2>2. OneBetween(k, x, l)
    BY <2>1, OneMore
  <2> QED
    BY <2>2 DEF l, OneBetween
<1>9. Append(k, x) \in Seq(S)
  BY <1>3, <1>6
<1> QED
  BY <1>6, <1>7, <1>8, <1>9 DEF Reached, F, r, x, S

\* From two positions that read alike, the same is listed.
LEMMA ReachedAlike ==
  ASSUME NEW f, Len(f) \in Nat, NEW how, MovesOn(f, how), NEW k,
         NEW p \in 1..(Len(f) + 1), NEW q \in 1..(Len(f) + 1), Reached(f, how, k, p),
         \/ ReadAny(f, p, how) = ReadAny(f, q, how)
         \/ ReadAny(f, p, how).err = "end" /\ ReadAny(f, q, how).err = "end"
  PROVE  Reached(f, how, k, q)
<1>1. Listing(f, how, From(f, how))
  BY FromListing
<1>2. ListedAt(f, how, From(f, how), p) /\ ListedAt(f, how, From(f, how), q)
  BY <1>1 DEF Listing
<1> DEFINE F == From(f, how)
           r == ReadAny(f, p, how)
           s == ReadAny(f, q, how)
<1>a. /\ r.err # "ok" => F[p] = [err |-> r.err, list |-> <<>>]
      /\ r.err = "ok" => F[p] = [err |-> F[r.pos].err, list |-> <<Item(f, r)>> \o F[r.pos].list]
      /\ s.err # "ok" => F[q] = [err |-> s.err, list |-> <<>>]
      /\ s.err = "ok" => F[q] = [err |-> F[s.pos].err, list |-> <<Item(f, s)>> \o F[s.pos].list]
  <2>1. ListedAt(f, how, F, p) /\ ListedAt(f, how, F, q)
    BY <1>2
  <2> HIDE DEF F
  <2> QED
    BY <2>1 DEF ListedAt
<1>b. r = s \/ (r.err = "end" /\ s.err = "end")
  OBVIOUS
<1>3. F[p] = F[q]
  <2> HIDE DEF F, r, s
  <2>1. CASE r = s
    BY <1>a, <2>1
  <2>2. CASE r.err = "end" /\ s.err = "end"
    BY <1>a, <2>2
  <2> QED
    BY <1>b, <2>1, <2>2
<1> QED
  BY <1>3 DEF Reached

\* Behind the last cell nothing is read, and from an end marker no more than
\* from behind it.
LEMMA EndOfFile ==
  ASSUME NEW g \in File, NEW how PROVE ReadAny(g.cells, Len(g.cells) + 1, how).err = "end"
<1>1. Len(g.cells) \in Nat
  BY FileAssumption
<1>2. {q \in (Len(g.cells) + 1)..Len(g.cells) : g.cells[q].magic \in Magics} = {}
  BY <1>1
<1> QED
  BY <1>2 DEF ReadAny, Result

LEMMA BeforeMarker ==
  ASSUME NEW g \in File, NEW p \in DOMAIN g.cells, g.cells[p].magic = "7777", NEW how
  PROVE  ReadAny(g.cells, p, how) = ReadAny(g.cells, p + 1, how)
<1> DEFINE f == g.cells
<1>1. Len(f) \in Nat /\ DOMAIN f = 1..Len(f)
  BY FileAssumption
<1>2. {q \in p..Len(f) : f[q].magic \in Magics} = {q \in (p + 1)..Len(f) : f[q].magic \in Magics}
  <2>1. f[p].magic \notin Magics
    BY DEF Magics
  <2>2. \A q : q \in p..Len(f) <=> q = p \/ q \in (p + 1)..Len(f)
    BY <1>1
  <2> QED
    BY <2>1, <2>2
<1> QED
  BY <1>2 DEF ReadAny

\* The readers that list come to the end of the file.
LEMMA ReadersMoveOn ==
  ASSUME NEW g \in File
  PROVE  /\ StoredFit(g.cells) => MovesOn(g.cells, Fast)
         /\ ~HasShort(g.cells) => MovesOn(g.cells, HeadersOnly)
<1>1. \A p \in 1..(Len(g.cells) + 1) : AnyAgrees(g.cells, p) /\ (~HasShort(g.cells) => HeadersAgree(g.cells, p))
  BY ReadAnyAgrees
<1> QED
  BY <1>1 DEF AnyAgrees, HeadersAgree, MovesOn

\* The messages g that were returned before p are those that the readers list
\* which skip the contents.
Listed(f, g, p) ==
    \E k : /\ Reached(f, Fast, k, p) /\ DOMAIN k = DOMAIN g
           /\ \A i \in DOMAIN g : k[i] = [off |-> g[i].off, size |-> g[i].size]

HeadersListed(f, g, p) ==
    \E k : /\ Reached(f, HeadersOnly, k, p) /\ DOMAIN k = DOMAIN g
           /\ \A i \in DOMAIN g : k[i].off = g[i].off

\* Or the list ends with an error that was returned.
InStep(f, g, es, p) ==
    IF es = {} THEN Listed(f, g, p) /\ (HasLarge(f) \/ HasShort(f) \/ HeadersListed(f, g, p))
    ELSE \E e \in es : From(f, Fast)[1].err = e.err /\ e.err # "end"

\* It is so at the start, and stays so when a message is read, at the end of the
\* file and when an error is returned.
LEMMA AtTheStart ==
  ASSUME NEW g \in File, StoredFit(g.cells) PROVE InStep(g.cells, <<>>, {}, 1)
<1> DEFINE f == g.cells
<1>1. ASSUME NEW how, MovesOn(f, how) PROVE Reached(f, how, <<>>, 1)
  <2>1. Len(f) \in Nat
    BY FileAssumption
  <2>2. Listing(f, how, From(f, how))
    BY <1>1, <2>1, FromListing
  <2>3. 1 \in 1..(Len(f) + 1)
    BY <2>1
  <2> DEFINE F == From(f, how)
             S == Items(f, how)
  <2>4. F[1] \in [err : Errors(f, how), list : Seq(S)]
    <3>1. F \in [1..(Len(f) + 1) -> [err : Errors(f, how), list : Seq(S)]]
      BY <2>2 DEF Listing
    <3> HIDE DEF F
    <3> QED
      BY <2>3, <3>1
  <2> HIDE DEF S, F
  <2>5. F[1].list \in Seq(S)
    BY <2>4
  <2>6. F[1].list = <<>> \o F[1].list /\ <<>> \in Seq(S)
    BY <2>5
  <2> QED
    BY <2>6 DEF Reached, F, S
<1>2. Listed(f, <<>>, 1)
  <2>1. Reached(f, Fast, <<>>, 1)
    BY <1>1, ReadersMoveOn
  <2> QED
    BY <2>1 DEF Listed
<1>3. HasShort(f) \/ HeadersListed(f, <<>>, 1)
  <2> SUFFICES ASSUME ~HasShort(f) PROVE HeadersListed(f, <<>>, 1)
    OBVIOUS
  <2>1. Reached(f, HeadersOnly, <<>>, 1)
    BY <1>1, ReadersMoveOn
  <2> QED
    BY <2>1 DEF HeadersListed
<1> QED
  BY <1>2, <1>3 DEF InStep

LEMMA ListedNext ==
  ASSUME NEW h \in File, StoredFit(h.cells), NEW p \in 1..(Len(h.cells) + 1),
         NEW g \in Seq(Messages), NEW y \in Messages, Listed(h.cells, g, p),
         ReadAny(h.cells, p, Malloc).err = "ok",
         y.off = Offset(h.cells, ReadAny(h.cells, p, Malloc)), y.size = ReadAny(h.cells, p, Malloc).size
  PROVE  Listed(h.cells, Append(g, y), ReadAny(h.cells, p, Malloc).pos)
<1> DEFINE f == h.cells
           m == ReadAny(f, p, Malloc)
           x == Item(f, m)
<1>1. ReadAny(f, p, Fast) = m
  BY ReadAnyAgrees DEF AnyAgrees
<1>2. PICK k : /\ Reached(f, Fast, k, p) /\ DOMAIN k = DOMAIN g
               /\ \A i \in DOMAIN g : k[i] = [off |-> g[i].off, size |-> g[i].size]
  BY DEF Listed
<1>3. Len(f) \in Nat /\ MovesOn(f, Fast)
  BY FileAssumption, ReadersMoveOn
<1>4. Reached(f, Fast, Append(k, x), m.pos)
  BY <1>1, <1>2, <1>3, ReachedNext
<1>5. k \in Seq(Items(f, Fast)) /\ x \in Items(f, Fast)
  BY <1>1, <1>2 DEF Reached, Items
<1>6. x = [off |-> y.off, size |-> y.size]
  BY DEF Item
<1> HIDE DEF x, m, f
<1>7. /\ DOMAIN Append(k, x) = DOMAIN Append(g, y)
      /\ \A i \in DOMAIN Append(g, y) :
            \/ i \in DOMAIN g /\ Append(k, x)[i] = k[i] /\ Append(g, y)[i] = g[i]
            \/ Append(k, x)[i] = x /\ Append(g, y)[i] = y
  BY <1>2, <1>5, BothAppended
<1>8. \A i \in DOMAIN Append(g, y) : Append(k, x)[i] = [off |-> Append(g, y)[i].off, size |-> Append(g, y)[i].size]
  BY <1>2, <1>6, <1>7
<1> QED
  BY <1>4, <1>7, <1>8 DEF Listed, f, m

LEMMA HeadersListedNext ==
  ASSUME NEW h \in File, ~HasShort(h.cells), ~HasLarge(h.cells), NEW p \in 1..(Len(h.cells) + 1),
         NEW g \in Seq(Messages), NEW y \in Messages, HeadersListed(h.cells, g, p),
         ReadAny(h.cells, p, Malloc).err = "ok", y.off = Offset(h.cells, ReadAny(h.cells, p, Malloc))
  PROVE  HeadersListed(h.cells, Append(g, y), ReadAny(h.cells, p, Malloc).pos)
<1> DEFINE f == h.cells
           m == ReadAny(f, p, Malloc)
           r == ReadAny(f, p, HeadersOnly)
           x == Item(f, r)
<1>1. /\ m.pos \in (p + 1)..(Len(f) + 1)
      /\ r.err = "ok" /\ r.start = m.start /\ NearlyAt(f, r.pos, m.pos) /\ r.pos \in (p + 1)..(Len(f) + 1)
  <2>1. AnyAgrees(f, p) /\ HeadersAgree(f, p)
    BY ReadAnyAgrees
  <2> QED
    BY <2>1 DEF AnyAgrees, HeadersAgree
<1>2. PICK k : /\ Reached(f, HeadersOnly, k, p) /\ DOMAIN k = DOMAIN g
               /\ \A i \in DOMAIN g : k[i].off = g[i].off
  BY DEF HeadersListed
<1>3. Len(f) \in Nat /\ MovesOn(f, HeadersOnly)
  BY FileAssumption, ReadersMoveOn
<1>4. Reached(f, HeadersOnly, Append(k, x), r.pos)
  BY <1>1, <1>2, <1>3, ReachedNext
<1>5. k \in Seq(Items(f, HeadersOnly)) /\ x \in Items(f, HeadersOnly)
  BY <1>2 DEF Reached, Items
<1>6. x.off = y.off
  BY <1>1 DEF Item, Offset
<1>7. Reached(f, HeadersOnly, Append(k, x), m.pos)
  <2> HIDE DEF m, r, x
  <2>1. m.pos \in 1..(Len(f) + 1) /\ r.pos \in 1..(Len(f) + 1)
    BY <1>1
  <2>2. CASE r.pos = m.pos
    BY <1>4, <2>2
  <2>3. CASE r.pos = m.pos - 1 /\ r.pos \in DOMAIN f /\ f[r.pos].magic = "7777"
    <3>1. ReadAny(f, r.pos, HeadersOnly) = ReadAny(f, r.pos + 1, HeadersOnly)
      BY <2>3, BeforeMarker
    <3>2. r.pos + 1 = m.pos
      BY <2>1, <2>3
    <3> HIDE DEF f
    <3>3. ReadAny(f, r.pos, HeadersOnly) = ReadAny(f, m.pos, HeadersOnly)
      BY <3>1, <3>2
    <3> QED
      BY <1>3, <1>4, <2>1, <3>3, ReachedAlike
  <2> QED
    BY <1>1, <2>2, <2>3 DEF NearlyAt
<1> HIDE DEF x, m, r, f
<1>8. /\ DOMAIN Append(k, x) = DOMAIN Append(g, y)
      /\ \A i \in DOMAIN Append(g, y) :
            \/ i \in DOMAIN g /\ Append(k, x)[i] = k[i] /\ Append(g, y)[i] = g[i]
            \/ Append(k, x)[i] = x /\ Append(g, y)[i] = y
  BY <1>2, <1>5, BothAppended
<1>9. \A i \in DOMAIN Append(g, y) : Append(k, x)[i].off = Append(g, y)[i].off
  BY <1>2, <1>6, <1>8
<1> QED
  BY <1>7, <1>8, <1>9 DEF HeadersListed, f, m

LEMMA InStepOk ==
  ASSUME NEW h \in File, StoredFit(h.cells), NEW p \in 1..(Len(h.cells) + 1),
         NEW g \in Seq(Messages), NEW y \in Messages, NEW es, InStep(h.cells, g, es, p),
         ReadAny(h.cells, p, Malloc).err = "ok",
         y.off = Offset(h.cells, ReadAny(h.cells, p, Malloc)), y.size = ReadAny(h.cells, p, Malloc).size
  PROVE  InStep(h.cells, Append(g, y), es, ReadAny(h.cells, p, Malloc).pos)
<1>1. CASE es # {}
  BY <1>1 DEF InStep
<1>2. CASE es = {}
  <2>1. Listed(h.cells, Append(g, y), ReadAny(h.cells, p, Malloc).pos)
    BY <1>2, ListedNext DEF InStep
  <2>2. ASSUME ~HasLarge(h.cells), ~HasShort(h.cells)
        PROVE  HeadersListed(h.cells, Append(g, y), ReadAny(h.cells, p, Malloc).pos)
    BY <1>2, <2>2, HeadersListedNext DEF InStep
  <2> QED
    BY <1>2, <2>1, <2>2 DEF InStep
<1> QED
  BY <1>1, <1>2

LEMMA InStepEnd ==
  ASSUME NEW h \in File, StoredFit(h.cells), NEW p \in 1..(Len(h.cells) + 1),
         NEW g, NEW es, InStep(h.cells, g, es, p), ReadAny(h.cells, p, Malloc).err = "end"
  PROVE  InStep(h.cells, g, es, Len(h.cells) + 1)
<1> DEFINE f == h.cells
           last == Len(f) + 1
<1>1. Len(f) \in Nat /\ last \in 1..last /\ p \in 1..(Len(f) + 1)
  BY FileAssumption
<1>2. ASSUME NEW how, MovesOn(f, how), ReadAny(f, p, how).err = "end", NEW k, Reached(f, how, k, p)
      PROVE  Reached(f, how, k, last)
  <2>1. ReadAny(f, last, how).err = "end"
    BY EndOfFile
  <2> HIDE DEF f, last
  <2> QED
    BY <1>1, <1>2, <2>1, ReachedAlike DEF last
<1>3. AnyAgrees(f, p)
  BY ReadAnyAgrees
<1>4. Listed(f, g, p) => Listed(f, g, last)
  <2>1. ReadAny(f, p, Fast).err = "end"
    BY <1>3 DEF AnyAgrees
  <2>2. \A k : Reached(f, Fast, k, p) => Reached(f, Fast, k, last)
    BY <1>2, <2>1, ReadersMoveOn
  <2> QED
    BY <2>2 DEF Listed
<1>5. ~HasShort(f) => (HeadersListed(f, g, p) => HeadersListed(f, g, last))
  <2> SUFFICES ASSUME ~HasShort(f) PROVE HeadersListed(f, g, p) => HeadersListed(f, g, last)
    OBVIOUS
  <2>1. ReadAny(f, p, HeadersOnly).err = "end"
    BY <1>3 DEF AnyAgrees
  <2>2. \A k : Reached(f, HeadersOnly, k, p) => Reached(f, HeadersOnly, k, last)
    BY <1>2, <2>1, ReadersMoveOn
  <2> QED
    BY <2>2 DEF HeadersListed
<1> QED
  BY <1>4, <1>5 DEF InStep

LEMMA InStepError ==
  ASSUME NEW h \in File, StoredFit(h.cells), NEW p \in 1..(Len(h.cells) + 1),
         NEW g, NEW es, InStep(h.cells, g, es, p),
         NEW e, e.err = ReadAny(h.cells, p, Malloc).err, e.err \notin {"ok", "end"}, NEW q
  PROVE  InStep(h.cells, g, es \cup {e}, q)
<1> DEFINE f == h.cells
           F == From(f, Fast)
<1>1. CASE es # {}
  BY <1>1 DEF InStep
<1>2. CASE es = {}
  <2>1. Listed(f, g, p)
    BY <1>2 DEF InStep
  <2>2. F[1].err = F[p].err
    BY <2>1 DEF Listed, Reached
  <2>3. ReadAny(f, p, Fast).err = e.err
    BY ReadAnyAgrees DEF AnyAgrees
  <2>4. ListedAt(f, Fast, F, p)
    <3>1. Len(f) \in Nat /\ MovesOn(f, Fast)
      BY FileAssumption, ReadersMoveOn
    <3>2. Listing(f, Fast, F)
      BY <3>1, FromListing
    <3> QED
      BY <3>2 DEF Listing
  <2>5. F[p] = [err |-> e.err, list |-> <<>>]
    <3> HIDE DEF F
    <3> QED
      BY <2>3, <2>4 DEF ListedAt
  <2> HIDE DEF F
  <2>6. F[1].err = e.err
    BY <2>2, <2>5
  <2> QED
    BY <2>6 DEF InStep, F
<1> QED
  BY <1>1, <1>2

\* What the lists are at the end.
Agreed(f, g, es) ==
    IF es # {} THEN ExtractOffsets(f).err \in {e.err : e \in es}
    ELSE /\ ExtractOffsets(f).list = [i \in DOMAIN g |-> [off |-> g[i].off, size |-> g[i].size]]
         /\ HasLarge(f) \/ HasShort(f) \/
            [i \in DOMAIN Products(f, HeadersOnly).list |-> Products(f, HeadersOnly).list[i].off] =
                [i \in DOMAIN g |-> g[i].off]

LEMMA InStepAtTheEnd ==
  ASSUME NEW h \in File, StoredFit(h.cells), NEW g \in Seq(Messages), NEW es,
         InStep(h.cells, g, es, Len(h.cells) + 1)
  PROVE  Agreed(h.cells, g, es)
<1> DEFINE f == h.cells
           last == Len(f) + 1
<1>1. Len(f) \in Nat /\ last \in 1..last /\ MovesOn(f, Fast) /\ (~HasShort(f) => MovesOn(f, HeadersOnly))
  BY FileAssumption, ReadersMoveOn
<1>2. ASSUME NEW how, MovesOn(f, how), NEW k, Reached(f, how, k, last)
      PROVE  Products(f, how).err = "end" /\ Products(f, how).list = k
  <2> DEFINE F == From(f, how)
             S == Items(f, how)
  <2>1. Products(f, how) = F[1] /\ Listing(f, how, F)
    BY <1>1, <1>2, FromListing
  <2>2. ReadAny(f, last, how).err = "end"
    BY EndOfFile
  <2>3. F[last] = [err |-> "end", list |-> <<>>]
    <3>1. ListedAt(f, how, F, last)
      BY <1>1, <2>1 DEF Listing
    <3> HIDE DEF F, last
    <3> QED
      BY <2>2, <3>1 DEF ListedAt
  <2>4. k \in Seq(S) /\ F[1].err = F[last].err /\ F[1].list = k \o F[last].list
    BY <1>2 DEF Reached
  <2> HIDE DEF F, S, last
  <2>5. k \o <<>> = k
    BY <2>4
  <2> QED
    BY <2>1, <2>3, <2>4, <2>5
<1>3. CASE es # {}
  <2>1. PICK e \in es : From(f, Fast)[1].err = e.err /\ e.err # "end"
    BY <1>3 DEF InStep
  <2>2. Products(f, Fast).err = e.err
    BY <1>1, <2>1, FromListing
  <2>3. ExtractOffsets(f).err = e.err
    BY <2>1, <2>2 DEF ExtractOffsets
  <2> QED
    BY <1>3, <2>3 DEF Agreed
<1>4. CASE es = {}
  <2>1. Listed(f, g, last) /\ (HasLarge(f) \/ HasShort(f) \/ HeadersListed(f, g, last))
    BY <1>4 DEF InStep
  <2>2. ExtractOffsets(f).list = [i \in DOMAIN g |-> [off |-> g[i].off, size |-> g[i].size]]
    <3>1. PICK k : /\ Reached(f, Fast, k, last) /\ DOMAIN k = DOMAIN g
                   /\ \A i \in DOMAIN g : k[i] = [off |-> g[i].off, size |-> g[i].size]
      BY <2>1 DEF Listed
    <3>2. Products(f, Fast).err = "end" /\ Products(f, Fast).list = k
      BY <1>1, <1>2, <3>1
    <3>3. ExtractOffsets(f).list = k
      <4>1. CASE k = <<>>
        BY <3>2, <4>1 DEF ExtractOffsets
      <4>2. CASE k # <<>>
        BY <3>2, <4>2 DEF ExtractOffsets
      <4> QED
        BY <4>1, <4>2
    <3>4. k = [i \in DOMAIN k |-> k[i]]
      <4>1. k \in Seq(Items(f, Fast))
        BY <3>1 DEF Reached
      <4> QED
        BY <4>1
    <3>5. k = [i \in DOMAIN g |-> [off |-> g[i].off, size |-> g[i].size]]
      BY <3>1, <3>4
    <3> QED
      BY <3>3, <3>5
  <2>3. ASSUME ~HasLarge(f), ~HasShort(f)
        PROVE  [i \in DOMAIN Products(f, HeadersOnly).list |-> Products(f, HeadersOnly).list[i].off] =
                   [i \in DOMAIN g |-> g[i].off]
    <3>1. PICK k : /\ Reached(f, HeadersOnly, k, last) /\ DOMAIN k = DOMAIN g
                   /\ \A i \in DOMAIN g : k[i].off = g[i].off
      BY <2>1, <2>3 DEF HeadersListed
    <3>2. Products(f, HeadersOnly).list = k
      BY <1>1, <1>2, <2>3, <3>1
    <3> QED
      BY <3>1, <3>2
  <2> QED
    BY <1>4, <2>2, <2>3 DEF Agreed
<1> QED
  BY <1>3, <1>4

-----------------------------------------------------------------------------
(* The list is that of the messages returned *)

\* A thread will put the FILE back behind another: a race is ahead.
Doomed == \E t \in Thread : call[t].at = "restore" /\ call[t].moved

\* The next message that is returned is looked for from p on.
NextFrom(calls, position, p) ==
    /\ \A t \in Thread : calls[t].at = "restore" => calls[t].saved = p
    /\ (\A t \in Thread : calls[t].at # "restore") => position = p

Fresh == \A t \in Thread : call[t].at = "read" /\ ~call[t].moved => call[t].saved = pos

Seen == \E p \in 1..(Len(file.cells) + 1) : NextFrom(call, pos, p) /\ InStep(file.cells, got, errors, p)

\* What was returned is what is listed before the next message.
Sight == ~raced /\ ~Doomed /\ StoredFit(file.cells) => Fresh /\ Seen

LEMMA SightTell == ASSUME Types, Sight, NEW t \in Thread, Tell(t) PROVE Sight'
<1> SUFFICES ASSUME ~raced', ~Doomed', StoredFit(file.cells)' PROVE Fresh' /\ Seen'
  BY DEF Sight
<1>1. /\ call[t].at = "idle" /\ call'[t].at = "read" /\ call'[t].saved = pos
      /\ \A u \in Thread : u # t => call'[u] = call[u]
      /\ UNCHANGED <<file, pos, got, errors, raced>>
  BY DEF Tell, Types, Calls
<1>2. ~Doomed
  BY <1>1 DEF Doomed
<1>3. Fresh /\ Seen
  BY <1>1, <1>2 DEF Sight
<1>4. Fresh'
  BY <1>1, <1>3 DEF Fresh
<1>5. PICK p \in 1..(Len(file.cells) + 1) : NextFrom(call, pos, p) /\ InStep(file.cells, got, errors, p)
  BY <1>3 DEF Seen
<1>6. NextFrom(call', pos', p)
  BY <1>1, <1>5 DEF NextFrom
<1>7. Seen'
  BY <1>1, <1>5, <1>6 DEF Seen
<1> QED
  BY <1>4, <1>7

LEMMA SightRestore == ASSUME Types, Sight, NEW t \in Thread, Restore(t) PROVE Sight'
<1> SUFFICES ASSUME ~raced', ~Doomed', StoredFit(file.cells)' PROVE Fresh' /\ Seen'
  BY DEF Sight
<1>1. ~raced /\ ~call[t].moved /\ call[t].at = "restore" /\ pos' = call[t].saved
      /\ UNCHANGED <<file, got, errors>>
  BY DEF Restore, Restored
<1> DEFINE mine == IF call[t].wanted > call[t].buffer THEN Idle(call[t].wanted)
                   ELSE [Idle(call[t].buffer) EXCEPT !.at = "stuck"]
<1>2. mine \in Calls /\ mine.at \in {"idle", "stuck"}
  BY <1>1, IdleCalls, ZenonT(40) DEF Types, Calls
<1>3. call' = Moved(t, mine)
  BY DEF Restore
<1> HIDE DEF mine
<1>4. /\ call'[t].at \in {"idle", "stuck"}
      /\ \A u \in Thread : u # t =>
            /\ call'[u].at = call[u].at /\ call'[u].saved = call[u].saved
            /\ AtCall(call[u]) => call'[u].moved
  BY <1>2, <1>3, MovedCalls DEF Types
<1>5. \A u \in Thread : u # t => call[u].at # "restore"
  BY <1>4 DEF Doomed, AtCall
<1>6. Fresh /\ Seen
  <2>1. ~Doomed
    BY <1>1, <1>5 DEF Doomed
  <2> QED
    BY <1>1, <2>1 DEF Sight
<1>7. Fresh'
  BY <1>4 DEF Fresh, AtCall
<1>8. PICK p \in 1..(Len(file.cells) + 1) : NextFrom(call, pos, p) /\ InStep(file.cells, got, errors, p)
  BY <1>6 DEF Seen
<1>9. NextFrom(call', pos', p)
  BY <1>1, <1>4, <1>5, <1>8 DEF NextFrom
<1>10. Seen'
  BY <1>1, <1>8, <1>9 DEF Seen
<1> QED
  BY <1>7, <1>10

LEMMA SightRead == ASSUME Types, Sight, NEW t \in Thread, Read(t) PROVE Sight'
<1> SUFFICES ASSUME ~raced', ~Doomed', StoredFit(file.cells)' PROVE Fresh' /\ Seen'
  BY DEF Sight
<1> DEFINE f == file.cells
           r == ReadAny(f, pos, How(t))
           m == ReadAny(f, pos, Malloc)
           last == Len(f) + 1
<1>1. /\ file \in File /\ pos \in 1..last /\ Len(f) \in Nat /\ got \in Seq(Messages)
      /\ call[t] \in Calls /\ call[t].buffer \in Nat \cup {Null}
  BY FileAssumption DEF Types, Calls
<1>2. /\ pos' = r.pos /\ UNCHANGED <<file, raced>> /\ MayRead(t)
      /\ \/ /\ r.err = "small" /\ call[t].buffer # Null
            /\ call' = Moved(t, [call[t] EXCEPT !.at = "restore", !.wanted = r.size])
            /\ UNCHANGED <<got, errors>>
         \/ /\ r.err = "ok"
            /\ call' = Moved(t, Idle(call[t].buffer))
            /\ got' = IF raced THEN got ELSE Append(got, Returned(r))
            /\ UNCHANGED errors
         \/ /\ r.err = "end"
            /\ call' = Moved(t, [Idle(call[t].buffer) EXCEPT !.at = "done"])
            /\ UNCHANGED <<got, errors>>
         \/ /\ r.err \notin {"ok", "end"} /\ (r.err = "small" => call[t].buffer = Null)
            /\ call' = Moved(t, Idle(call[t].buffer))
            /\ errors' = IF raced THEN errors
                         ELSE errors \cup {[err |-> r.err, start |-> r.start, pos |-> r.pos]}
            /\ UNCHANGED got
  BY DEF Read
<1>3. /\ Past(f, pos, Malloc, r)
  BY <1>1, HowPlain, ReadAnyPast
\* What was read is what a reader that allocates reads, but for a small buffer.
<1>4. r = m \/ (r.err = "small" /\ call[t].buffer # Null)
  <2>1. AnyAgrees(f, pos)
    BY <1>1, ReadAnyAgrees
  <2>2. CASE call[t].buffer = Null
    BY <2>2 DEF How
  <2>3. CASE call[t].buffer # Null
    <3>1. call[t].buffer \in Nat /\ How(t) = Buffer(call[t].buffer)
      BY <1>1, <2>3 DEF How
    <3> QED
      BY <2>1, <2>3, <3>1 DEF AnyAgrees
  <2> QED
    BY <2>2, <2>3
<1>5. r.pos \in 1..last
  BY <1>1, <1>3 DEF Past
<1>6. r.err = "ok" => Returned(r) \in Messages
  <2>1. r.err = "ok" => r.start \in Nat /\ r.size \in Nat /\ r.pos \in Nat
    BY <1>1, <1>3 DEF Past
  <2> HIDE DEF r
  <2> QED
    BY <2>1 DEF Returned, Messages, Offset
<1>7. r.err = "end" => r.pos = last
  BY <1>3 DEF Past
<1> HIDE DEF r, m
<1>8. \E mine \in Calls :
        /\ call' = Moved(t, mine)
        /\ mine.at # "read"
        /\ IF r.err = "small" /\ call[t].buffer # Null
           THEN mine.at = "restore" /\ mine.saved = call[t].saved /\ mine.moved = call[t].moved
           ELSE mine.at # "restore"
  <2>1. Idle(call[t].buffer) \in Calls /\ Idle(call[t].buffer).at = "idle"
        /\ [Idle(call[t].buffer) EXCEPT !.at = "done"] \in Calls
        /\ [Idle(call[t].buffer) EXCEPT !.at = "done"].at = "done"
    BY <1>1, IdleCalls
  <2>2. CASE r.err = "small" /\ call[t].buffer # Null
    <3> DEFINE mine == [call[t] EXCEPT !.at = "restore", !.wanted = r.size]
    <3>1. r.size \in Nat
      BY <1>3, <2>2 DEF Past
    <3>2. mine \in Calls /\ mine.at = "restore" /\ mine.saved = call[t].saved /\ mine.moved = call[t].moved
      BY <1>1, <3>1 DEF Calls
    <3>3. call' = Moved(t, mine)
      BY <1>2, <2>2
    <3> HIDE DEF mine
    <3> QED
      BY <2>2, <3>2, <3>3
  <2>3. CASE r.err = "end"
    <3>1. call' = Moved(t, [Idle(call[t].buffer) EXCEPT !.at = "done"])
      BY <1>2, <2>3
    <3> QED
      BY <2>1, <2>3, <3>1
  <2>4. CASE ~(r.err = "small" /\ call[t].buffer # Null) /\ r.err # "end"
    <3>1. call' = Moved(t, Idle(call[t].buffer))
      BY <1>2, <2>4
    <3> QED
      BY <2>1, <2>4, <3>1
  <2> QED
    BY <2>2, <2>3, <2>4
<1>9. /\ \A u \in Thread : u # t =>
            /\ call'[u].at = call[u].at /\ call'[u].saved = call[u].saved
            /\ AtCall(call[u]) => call'[u].moved
      /\ call'[t].at # "read"
      /\ IF r.err = "small" /\ call[t].buffer # Null
         THEN call'[t].at = "restore" /\ call'[t].saved = call[t].saved /\ call'[t].moved = call[t].moved
         ELSE call'[t].at # "restore"
  BY <1>8, MovedCalls DEF Types
\* No other thread was about to put the FILE back: it would be doomed now.
<1>10. \A u \in Thread : u # t => call[u].at # "restore"
  BY <1>9 DEF Doomed, AtCall
<1>11. \A u \in Thread : call[u].at # "restore"
  BY <1>2, <1>10 DEF MayRead
<1>12. ~raced /\ Fresh /\ Seen
  <2>1. ~Doomed
    BY <1>11 DEF Doomed
  <2> QED
    BY <1>2, <2>1 DEF Sight
<1>13. InStep(f, got, errors, pos) /\ StoredFit(f)
  <2>1. PICK p \in 1..last : NextFrom(call, pos, p) /\ InStep(f, got, errors, p)
    BY <1>12 DEF Seen
  <2>2. pos = p
    BY <1>11, <2>1 DEF NextFrom
  <2> QED
    BY <1>2, <2>1, <2>2
<1>14. Fresh'
  BY <1>9 DEF Fresh, AtCall
<1>15. ASSUME NEW p \in 1..last, NextFrom(call', pos', p), InStep(f, got', errors', p) PROVE Seen'
  BY <1>2, <1>15 DEF Seen
<1>16. CASE r.err = "small" /\ call[t].buffer # Null
  <2>1. call[t].at = "read" /\ ~call[t].moved
    <3>1. call[t].at = "read"
      <4>1. call[t].at = "read" \/ call[t].buffer = Null
        BY <1>2 DEF MayRead
      <4> QED
        BY <1>16, <4>1
    <3>2. call'[t].at = "restore" /\ (call'[t].moved <=> call[t].moved)
      BY <1>9, <1>16
    <3> QED
      BY <3>1, <3>2 DEF Doomed
  <2>2. call[t].saved = pos
    BY <1>12, <2>1 DEF Fresh
  <2>3. NextFrom(call', pos', pos)
    <3>1. \A u \in Thread : call'[u].at = "restore" => u = t
      BY <1>9, <1>10
    <3>2. call'[t].at = "restore" /\ call'[t].saved = pos
      BY <1>9, <1>16, <2>2
    <3>3. \A u \in Thread : call'[u].at = "restore" => call'[u].saved = pos
      BY <3>1, <3>2
    <3>4. ~\A u \in Thread : call'[u].at # "restore"
      BY <3>2
    <3> QED
      BY <3>3, <3>4 DEF NextFrom
  <2>4. UNCHANGED <<got, errors>>
    BY <1>2, <1>16
  <2> QED
    BY <1>1, <1>13, <1>14, <1>15, <2>3, <2>4
<1>17. CASE ~(r.err = "small" /\ call[t].buffer # Null)
  <2>1. NextFrom(call', pos', r.pos)
    <3>1. \A u \in Thread : call'[u].at # "restore"
      BY <1>9, <1>10, <1>17
    <3> QED
      BY <1>2, <3>1 DEF NextFrom
  <2>2. r = m
    BY <1>4, <1>17
  <2>3. CASE r.err = "ok"
    <3>1. got' = Append(got, Returned(r)) /\ UNCHANGED errors
      BY <1>2, <1>12, <2>3
    <3> DEFINE y == Returned(r)
    <3>2. y \in Messages /\ y.off = Offset(f, r) /\ y.size = r.size
      BY <1>6, <2>3 DEF Returned
    <3> HIDE DEF y
    <3>3. InStep(f, Append(got, y), errors, m.pos)
      BY <1>1, <1>13, <2>2, <2>3, <3>2, InStepOk DEF m
    <3> QED
      BY <1>5, <1>14, <1>15, <2>1, <2>2, <3>1, <3>3 DEF y
  <2>4. CASE r.err = "end"
    <3>1. UNCHANGED <<got, errors>>
      BY <1>2, <2>4
    <3>2. InStep(f, got, errors, last)
      BY <1>1, <1>13, <2>2, <2>4, InStepEnd DEF m
    <3> QED
      BY <1>5, <1>7, <1>14, <1>15, <2>1, <2>4, <3>1, <3>2
  <2>5. CASE r.err \notin {"ok", "end"}
    <3> DEFINE e == [err |-> r.err, start |-> r.start, pos |-> r.pos]
    <3>1. UNCHANGED got /\ errors' = errors \cup {e}
      BY <1>2, <1>12, <1>17, <2>5
    <3>2. e.err = r.err
      OBVIOUS
    <3> HIDE DEF e
    <3>3. InStep(f, got, errors \cup {e}, r.pos)
      BY <1>1, <1>13, <2>2, <2>5, <3>2, InStepError DEF m
    <3> QED
      BY <1>5, <1>14, <1>15, <2>1, <3>1, <3>3
  <2> QED
    BY <2>3, <2>4, <2>5
<1> QED
  BY <1>16, <1>17

LEMMA SightStep == ASSUME Types, Sight, [Next]_vars PROVE Sight'
<1>1. CASE UNCHANGED vars
  BY <1>1 DEF vars, Sight, Doomed, Fresh, Seen
<1> QED
  BY <1>1, SightTell, SightRestore, SightRead DEF Next

LEMMA InitSight == ASSUME Init PROVE Sight
<1>1. file \in File /\ pos = 1 /\ got = <<>> /\ errors = {} /\ Len(file.cells) \in Nat
  BY FileAssumption DEF Init
<1>2. \A t \in Thread : call[t].at = "idle"
  BY DEF Init, Idle
<1>3. ASSUME StoredFit(file.cells) PROVE Seen
  <2>1. InStep(file.cells, got, errors, 1)
    BY <1>1, <1>3, AtTheStart
  <2>2. NextFrom(call, pos, 1) /\ 1 \in 1..(Len(file.cells) + 1)
    BY <1>1, <1>2 DEF NextFrom
  <2> QED
    BY <2>1, <2>2 DEF Seen
<1>4. Fresh
  BY <1>2 DEF Fresh
<1> QED
  BY <1>3, <1>4 DEF Sight

(* When the threads came to the end of the FILE without a race, the list of
   offsets and sizes made with the readers that skip the contents is that of
   the messages they returned, or ends with an error that was returned: for all
   files, threads and buffers. *)
THEOREM OffsetsAgreeCorrect == Spec => []OffsetsAgree
<1>1. Init => Types /\ Kept /\ Sight
  BY InitTypes, InitKept, InitSight
<1>2. Types /\ Kept /\ Sight /\ [Next]_vars => Types' /\ Kept' /\ Sight'
  BY TypesStep, KeptStep, SightStep
<1>3. Types /\ Kept /\ Sight => OffsetsAgree
  <2> SUFFICES ASSUME Types, Kept, Sight, AllDone, ~raced, StoredFit(file.cells) PROVE OffsetsAgree
    BY DEF OffsetsAgree
  <2> DEFINE f == file.cells
  <2>1. \A t \in Thread : call[t].at = "done"
    BY DEF AllDone
  <2>2. PICK p \in 1..(Len(f) + 1) : NextFrom(call, pos, p) /\ InStep(f, got, errors, p)
    BY <2>1 DEF Sight, Doomed, Seen
  <2>3. p = pos
    BY <2>1, <2>2 DEF NextFrom
  <2>4. pos = Len(f) + 1
    BY <2>1, ThreadAssumption DEF Kept, AtTheEnd
  <2>5. InStep(f, got, errors, Len(f) + 1)
    BY <2>2, <2>3, <2>4
  <2>6. file \in File /\ got \in Seq(Messages)
    BY DEF Types
  <2>7. Agreed(f, got, errors)
    BY <2>5, <2>6, InStepAtTheEnd
  <2> QED
    BY <2>7 DEF OffsetsAgree, Agreed
<1> QED
  BY <1>1, <1>2, <1>3, PTL DEF Spec
=============================================================================
