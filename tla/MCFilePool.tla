----------------------------- MODULE MCFilePool -----------------------------
(* Instances of FilePool for TLC. *)
EXTENDS FilePool, TLC

CONSTANTS t1, t2, out1, in1, r, w

\* Both threads write the same file, one of them also reads another.
Shared == {<<t1, out1, w>>, <<t2, out1, w>>, <<t1, in1, r>>}

\* The one that reads may delete the file both write.
Closing == {<<t1, out1>>}

\* Addresses and FILE pointers are only compared for equality.
Symmetry == Permutations(Address) \cup Permutations(Stream)
=============================================================================
