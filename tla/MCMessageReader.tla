--------------------------- MODULE MCMessageReader ---------------------------
(* Files of one to three messages, intact and damaged ones. *)
EXTENDS MessageReader, SequencesExt

C(m, e, l) == [magic |-> m, ed |-> e, len |-> l]
Data == C("none", 0, 0)
End == C("7777", 0, 0)

\* A large GRIB 1 message of eight cells, as it is encoded; section 4 has four.
Large == CodedLength(8, 5, TRUE)

Good == {
    <<C("GRIB", 0, 0), C("none", 2, 4), Data, End>>,
    \* a message in the data of another
    <<C("GRIB", 0, 0), C("none", 2, 6), C("GRIB", 0, 0), C("none", 2, 3), End, End>>,
    <<C("GRIB", 0, 0), C("none", 1, 6), C("none", 0, 2), Data, C("none", 0, 1), End>>,
    <<C("GRIB", 0, 0), C("none", 1, Large[1]), C("none", 0, 1), C("none", 0, Large[2]), Data, Data, Data, End>>,
    <<C("BUFR", 0, 0), C("none", 4, 3), End>>,
    <<C("BUFR", 0, 0), C("none", 1, 2), Data, C("none", 0, 1), C("none", 0, 1), End>>,
    <<C("PSEUDO", 0, 0), C("none", 0, 1), C("none", 0, 1), End>>,
    <<C("WRAP", 0, 0), C("none", 0, 5), Data, Data, End>>,
    <<C("HDF5", 0, 0), C("none", 2, 4), Data, Data>> }

Bad == {
    <<Data>>,
    \* lengths that are too long, in one case up to another 7777
    <<C("GRIB", 0, 0), C("none", 2, 5), Data, End>>,
    <<C("GRIB", 0, 0), C("none", 2, 8), Data, End>>,
    <<C("GRIB", 0, 0), C("none", 2, 4), Data, Data>>,
    <<C("GRIB", 0, 0), C("none", 7, 4), Data, End>>,
    <<C("GRIB", 0, 0), C("none", 2, 0), Data, End>>,
    \* sections that end behind the file
    <<C("GRIB", 0, 0), C("none", 1, Large[1]), C("none", 0, 20), End>>,
    <<C("BUFR", 0, 0), C("none", 4, 0), End>>,
    \* a section 3 that is too short
    <<C("BUFR", 0, 0), C("none", 1, 1), C("none", 0, 0), End>>,
    <<C("PSEUDO", 0, 0), C("none", 0, TmpSize), Data, End>>,
    <<C("WRAP", 0, 0), C("none", 0, 6), End>>,
    <<C("HDF5", 0, 0), C("none", 9, 4), Data, Data>>,
    <<C("GRIB", 0, 0)>> }

Closing == <<C("GRIB", 0, 0), C("none", 2, 3), End>>

Triples == ((Good \cup Bad) \X Bad \X {Closing})
           \cup (Good \X Good \X {<<>>})
           \cup (Bad \X {<<>>} \X {<<>>})

Starts(x) == {[start |-> Len(FlattenSeq(SubSeq(x, 1, n - 1))) + 1, size |-> Len(x[n])] :
                  n \in {n \in 1..3 : x[n] \in Good \cup {Closing}}}

MCFile == {[cells |-> x[1] \o x[2] \o x[3], intact |-> Starts(x)] : x \in Triples}
=============================================================================
