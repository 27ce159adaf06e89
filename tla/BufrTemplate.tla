---------------------------- MODULE BufrTemplate ----------------------------
(***************************************************************************)
(* The expansion of the descriptors of a BUFR message:                     *)
(* accessor/grib_accessor_class_expanded_descriptors.cc with the arrays of *)
(* grib_bufr_descriptors_array.cc and the lookup in the element table.     *)
(*                                                                         *)
(* A template is a sequence of codes FXXYYY written as numbers: an element *)
(* (F=0), a replication of the next X descriptors, Y times or as often as  *)
(* the data says (F=1), an operator that changes how the elements after it *)
(* are coded (F=2) or a sequence of table D (F=3).  The expansion replaces *)
(* sequences and counted replications, applies the operators on widths,    *)
(* scales and references and leaves the rest to the reader of the data.    *)
(***************************************************************************)
EXTENDS Integers, Sequences, SequencesExt

CONSTANTS Elements,   \* table B: code -> [type, width, reference, scale]
          TableD      \* table D: code -> the codes it stands for

Associated == 999999  \* the code given to an associated field

(***************************************************************************)
(* A new descriptor for a code.  One that the tables do not have keeps the *)
(* width 0 and the type "unknown".                                         *)
(***************************************************************************)
Descriptor(code) ==
  LET F == code \div 100000
      unknown == [type |-> "unknown", width |-> 0, reference |-> 0, scale |-> 0]
      entry == IF F = 0 /\ code \in DOMAIN Elements THEN Elements[code] ELSE unknown
      type == CASE F = 1 -> "replication" [] F = 2 -> "operator"
                [] F = 3 -> "sequence"    [] OTHER -> entry.type
  IN [code |-> code, F |-> F, X |-> (code % 100000) \div 1000, Y |-> code % 1000,
      type |-> type, width |-> entry.width, reference |-> entry.reference,
      scale |-> entry.scale]

Descriptors(codes) == [k \in DOMAIN codes |-> Descriptor(codes[k])]

(***************************************************************************)
(* The parameters the operators set (change_coding_params), at the start.  *)
(***************************************************************************)
NoChange == [extraWidth |-> 0, localDescriptorWidth |-> -1, extraScale |-> 0,
             referenceFactor |-> 1, associatedFieldWidth |-> 0, newStringWidth |-> 0]

IsNumber(d) == d.type \notin {"flag", "table", "string"}

(***************************************************************************)
(* An element under the parameters in force: the field associated with it  *)
(* comes first, a local width is used once, a string may have a new width. *)
(***************************************************************************)
Element(d, ccp) ==
  LET local == IsNumber(d) /\ ccp.localDescriptorWidth > 0
      field == [Descriptor(Associated) EXCEPT !.width = ccp.associatedFieldWidth]
      coded == CASE local -> [d EXCEPT !.width = ccp.localDescriptorWidth,
                                       !.reference = 0, !.scale = 0]
                 [] IsNumber(d) /\ ~local ->
                      [d EXCEPT !.width = @ + ccp.extraWidth,
                                !.reference = @ * ccp.referenceFactor,
                                !.scale = @ + ccp.extraScale]
                 [] d.type = "string" /\ ccp.newStringWidth # 0 ->
                      [d EXCEPT !.width = ccp.newStringWidth]
                 [] OTHER -> d
  IN [out |-> IF ccp.associatedFieldWidth # 0 /\ d.X # 31
              THEN <<field, coded>> ELSE <<coded>>,
      ccp |-> IF local THEN [ccp EXCEPT !.localDescriptorWidth = 0] ELSE ccp]

(***************************************************************************)
(* An operator: six of them change the parameters and are gone, the others *)
(* stay in the expanded list.                                              *)
(***************************************************************************)
Operator(d, ccp) ==
  LET change == IF d.Y = 0 THEN 0 ELSE d.Y - 128
      widths == [ccp EXCEPT !.extraScale = d.Y, !.referenceFactor = 10 ^ d.Y,
                            !.extraWidth = (10 * d.Y + 2) \div 3]
      gone(p) == [out |-> <<>>, ccp |-> p]
  IN CASE d.X = 1 -> gone([ccp EXCEPT !.extraWidth = change])
       [] d.X = 2 -> gone([ccp EXCEPT !.extraScale = change])
       [] d.X = 4 -> gone([ccp EXCEPT !.associatedFieldWidth = d.Y])
       [] d.X = 6 -> gone([ccp EXCEPT !.localDescriptorWidth = d.Y])
       [] d.X = 7 /\ d.Y # 0 -> gone(widths)
       [] d.X = 7 /\ d.Y = 0 ->
            gone([ccp EXCEPT !.extraWidth = 0, !.extraScale = 0, !.referenceFactor = 1])
       [] d.X = 8 -> gone([ccp EXCEPT !.newStringWidth = d.Y * 8])
       [] OTHER -> [out |-> <<d>>, ccp |-> ccp]

(***************************************************************************)
(* One round of __expand on a nonempty list and the loop of do_expand: the *)
(* descriptors put on the expanded list, those left, the parameters, and   *)
(* whether it failed, which empties the whole expansion.  The descriptor   *)
(* of a delayed replication is put on the list before its group is         *)
(* expanded and then told how many descriptors the group became; its code  *)
(* has room for 63 only.                                                   *)
(***************************************************************************)
Failed(ccp) == [out |-> <<>>, rest |-> <<>>, ccp |-> ccp, err |-> TRUE]

RECURSIVE Expand(_, _), DoExpand(_, _)
Expand(unexpanded, ccp) ==
  LET d == Head(unexpanded)
      left == Tail(unexpanded)
      group(n) == SubSeq(left, 1, n)
      after(n) == SubSeq(left, n + 1, Len(left))
      inner(s, rest) == [DoExpand(s, ccp) EXCEPT !.rest = rest]
      one(r) == [out |-> r.out, rest |-> left, ccp |-> r.ccp, err |-> FALSE]
      delayed == LET r == inner(group(d.X + 1), after(d.X + 1))
                     size == Len(r.out)
                     told == [d EXCEPT !.X = size - 1,
                                !.code = IF size < 64 THEN (size - 1) * 1000 + 100000
                                         ELSE @]
                 IN IF r.err THEN r ELSE [r EXCEPT !.out = <<told>> \o @]
      times == FlattenSeq([k \in 1 .. d.Y |-> group(d.X)])
  IN CASE d.F = 3 -> IF d.code \in DOMAIN TableD
                     THEN inner(Descriptors(TableD[d.code]), left)
                     ELSE Failed(ccp)
       [] d.F = 1 /\ d.Y = 0 -> IF d.X + 1 > Len(left) THEN Failed(ccp) ELSE delayed
       [] d.F = 1 /\ d.Y # 0 -> IF d.X > Len(left) THEN Failed(ccp)
                                ELSE inner(times, after(d.X))
       [] d.F = 0 -> one(Element(d, ccp))
       [] d.F = 2 -> one(Operator(d, ccp))
       [] OTHER -> one([out |-> <<d>>, ccp |-> ccp])

DoExpand(unexpanded, ccp) ==
  IF unexpanded = <<>> THEN [Failed(ccp) EXCEPT !.err = FALSE]
  ELSE LET first == Expand(unexpanded, ccp)
           others == DoExpand(first.rest, first.ccp)
       IN IF first.err \/ others.err THEN Failed(ccp)
          ELSE [others EXCEPT !.out = first.out \o @]

(***************************************************************************)
(* The top level: the width an operator 206YYY gives is set on the next    *)
(* descriptor before the expansion starts, whatever its type.              *)
(***************************************************************************)
TopLevel(codes) ==
  LET new == Descriptors(codes)
      signified(k) == new[k].F = 2 /\ new[k].X = 6
  IN [k \in DOMAIN codes |->
        IF k > 1 /\ signified(k - 1) /\ ~signified(k) /\ new[k - 1].Y > 0
        THEN [new[k] EXCEPT !.width = new[k - 1].Y] ELSE new[k]]

ExpandTemplate(codes) == DoExpand(TopLevel(codes), NoChange)
=============================================================================
