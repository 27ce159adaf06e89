----------------------------- MODULE BufrValues -----------------------------
(***************************************************************************)
(* The coding of the values of one element in the data section of a BUFR   *)
(* message: decode_ and encode_double_value, _double_array, _string_value  *)
(* and _string_array of accessor/grib_accessor_class_bufr_data_array.cc.   *)
(*                                                                         *)
(* A number is counted in units of the factor of its descriptor.  A field  *)
(* of the data section holds `raw`, `width` bits wide.  In compressed data *)
(* one field serves all subsets: 6 more bits give a local width and, when  *)
(* it is not 0, one increment per subset follows.  A cell is the sequence  *)
(* of the values of an element: one per subset, or one for all of them.    *)
(***************************************************************************)
EXTENDS Integers, Sequences, FiniteSets, FiniteSetsExt

Missing == 1000000          \* GRIB_MISSING_DOUBLE, out of every range
MissingString == -1          \* every character all ones

AllOnes(width) == 2 ^ width - 1

CanBeMissing(d) == d.code \notin {31031, 999999} /\ d.width # 1

Field(width, raw) == [width |-> width, raw |-> raw, local |-> 0, increments |-> <<>>]

InRange(d, v) == v >= d.reference /\ v <= AllOnes(d.width) + d.reference

IsConstant(cell) == \A k \in DOMAIN cell : cell[k] = cell[1]

Written(field) == [err |-> FALSE, field |-> field]
Refused == [err |-> TRUE, field |-> Field(0, 0)]

(***************************************************************************)
(* One number.  Out of range it is refused, or written as missing when the *)
(* program asked for that (setToMissingIfOutOfRange).                      *)
(***************************************************************************)
EncodeValue(d, v, lenient) ==
  CASE d.width <= 0 -> Refused
    [] d.width > 0 /\ (v = Missing \/ (~InRange(d, v) /\ lenient)) ->
         Written(Field(d.width, AllOnes(d.width)))
    [] d.width > 0 /\ v # Missing /\ InRange(d, v) ->
         Written(Field(d.width, v - d.reference))
    [] OTHER -> Refused

DecodeValue(d, field, canBeMissing) ==
  IF canBeMissing /\ field.raw = AllOnes(d.width) THEN Missing
  ELSE field.raw + d.reference

(***************************************************************************)
(* The narrowest increments that hold the range of the values and leave    *)
(* the pattern of all ones to the missing ones; never a single bit.        *)
(***************************************************************************)
LocalWidthWithoutMissing(range) == CHOOSE w \in 2 .. 32 : /\ AllOnes(w) >= range
                                                          /\ w = 2 \/ AllOnes(w - 1) < range

LocalWidth(range) == CHOOSE w \in 2 .. 32 : /\ AllOnes(w) > range
                                            /\ w = 2 \/ AllOnes(w - 1) <= range

(***************************************************************************)
(* The cell of a compressed element, for the chosen subsets in order.  A   *)
(* cell that is constant over all subsets is range checked; one that is    *)
(* constant only over the chosen subsets is not.                           *)
(***************************************************************************)
EncodeArray(d, cell, subsets, lenient) ==
  LET chosen == [k \in DOMAIN subsets |-> cell[subsets[k]]]
      kept == [k \in DOMAIN subsets |->
                 IF lenient /\ ~InRange(d, chosen[k]) THEN Missing ELSE chosen[k]]
      present == {kept[k] : k \in DOMAIN kept} \ {Missing}
      min == IF present = {} THEN 0 ELSE Min(present)
      max == IF present = {} THEN 0 ELSE Max(present)
      local == IF max # min THEN LocalWidth(max - min) ELSE 1
      increment(v) == IF v = Missing THEN AllOnes(local) ELSE v - min
  IN CASE d.width <= 0 \/ subsets = <<>> -> Refused
       [] d.width > 0 /\ IsConstant(cell) -> EncodeValue(d, cell[1], lenient)
       [] d.width > 0 /\ ~IsConstant(cell) /\ Len(subsets) > Len(cell) -> Refused
       [] d.width > 0 /\ ~IsConstant(cell) /\ Len(subsets) <= Len(cell) ->
            CASE IsConstant(chosen) ->
                   Written(Field(d.width, IF chosen[1] = Missing THEN AllOnes(d.width)
                                          ELSE chosen[1] - d.reference))
              [] ~IsConstant(chosen) /\ (~InRange(d, min) \/ ~InRange(d, max)) -> Refused
              [] OTHER ->
                   Written([width |-> d.width, raw |-> min - d.reference, local |-> local,
                            increments |-> [k \in DOMAIN kept |-> increment(kept[k])]])

DecodeArray(d, field, canBeMissing) ==
  IF field.local = 0 THEN <<DecodeValue(d, field, canBeMissing)>>
  ELSE [k \in DOMAIN field.increments |->
          IF canBeMissing /\ field.increments[k] = AllOnes(field.local) THEN Missing
          ELSE field.increments[k] + field.raw + d.reference]

(***************************************************************************)
(* The strings of an element: all of the same width.                       *)
(***************************************************************************)
EncodeStrings(d, cell, subsets) ==
  IF Len(cell) = 1 THEN Written(Field(d.width, cell[1]))
  ELSE IF Len(subsets) > Len(cell) THEN Refused
  ELSE Written([width |-> d.width, raw |-> cell[subsets[1]],
                local |-> IF Len(subsets) > 1 THEN d.width ELSE 0,
                increments |-> IF Len(subsets) > 1
                               THEN [k \in DOMAIN subsets |-> cell[subsets[k]]]
                               ELSE <<>>])

DecodeStrings(field) == IF field.local = 0 THEN <<field.raw>> ELSE field.increments
=============================================================================
