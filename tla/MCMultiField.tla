---------------------------- MODULE MCMultiField ----------------------------
(* Instances of MultiField for TLC: two files and the memory reader, with
   messages of the shapes that occur. Sections are a few octets long. *)
EXTENDS MultiField

CONSTANTS f1, f2

Sec(n) == [num |-> n, len |-> 5 + n, inherits |-> FALSE]
SecI   == [num |-> 6, len |-> 6, inherits |-> TRUE]
G2(s)  == [edition |-> 2, sections |-> s]
G1     == [edition |-> 1, sections |-> <<>>]
Field(from) == [i \in 1..(8 - from) |-> Sec(from + i - 1)]
FieldI(from) == [i \in 1..(8 - from) |-> IF from + i - 1 = 6 THEN SecI ELSE Sec(from + i - 1)]

\* One field with a local section; two fields; three whose bitmaps are
\* inherited; a second field with a grid of its own.
Local  == G2(Field(1))
Plain  == G2(<<Sec(1)>> \o Field(3))
Two    == G2(<<Sec(1)>> \o Field(3) \o Field(4))
Three  == G2(<<Sec(1)>> \o Field(3) \o FieldI(4) \o FieldI(4))
Mixed  == G2(<<Sec(1)>> \o Field(3) \o FieldI(3) \o Field(4))
LocalTwo == G2(Field(1) \o Field(2))

\* Damaged ones: a section 9, a bitmap inherited from nowhere, no section 7.
Invalid    == G2(<<Sec(1)>> \o Field(3) \o <<Sec(9), Sec(7)>>)
NoBitmap   == G2(<<Sec(1)>> \o FieldI(3))
Unfinished == G2(<<Sec(1), Sec(3), Sec(4)>>)

On(a, b, m) == [s \in Source |-> IF s = f1 THEN a ELSE IF s = f2 THEN b ELSE m]

\* The sources of the last set have messages with different sections. The memory
\* reader is used only where the resettable file f1 is not.
StreamSets ==
    {On(a, <<Mixed, Plain>>, <<>>) : a \in {<<Two, G1, Three>>, <<LocalTwo, Local>>}}
        \cup {On(<<>>, <<Two>>, <<Three, G1>>), On(<<>>, <<NoBitmap>>, <<Two, Invalid>>)}
        \cup {On(<<Three>>, b, <<>>) : b \in {<<Two, Invalid>>, <<NoBitmap>>, <<Unfinished, Two>>}}
        \cup {On(<<>>, <<Local, Two>>, <<Two, NoBitmap>>)}

\* What FieldsInOrderCorrect supposes of the streams is so of these.
ASSUME ApartAssumption == MemoryApart
=============================================================================
