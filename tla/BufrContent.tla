---------------------------- MODULE BufrContent ----------------------------
(***************************************************************************)
(* What a BUFR message means, said without the two stages of the library:  *)
(* a template is read from left to right, sequences and replications are   *)
(* replaced by what they stand for, and an operator is in force until the  *)
(* next one of its kind.  The result is the list of the slots of a subset: *)
(* what the program sees (an element, the number of repetitions of a       *)
(* group, an operator that stays) and what only the data section holds (a  *)
(* new reference value).  Nothing here models code: it is the reference    *)
(* the reader and the writer of BufrData are compared with.                *)
(***************************************************************************)
EXTENDS BufrTemplate, BufrValues

(***************************************************************************)
(* The descriptor of an element under the operators in force: scope[x] is  *)
(* the operand of the last operator 2xxYYY, 0 when it was cancelled.       *)
(***************************************************************************)
NoScope == [x \in 1 .. 8 |-> 0]

Effective(d, scope, replaced) ==
  LET delta(x) == IF scope[x] = 0 THEN 0 ELSE scope[x] - 128
      extra == delta(1) + (10 * scope[7] + 2) \div 3
  IN CASE d.type = "string" /\ scope[8] # 0 -> [d EXCEPT !.width = 8 * scope[8]]
       [] ~IsNumber(d) /\ (d.type # "string" \/ scope[8] = 0) -> d
       [] IsNumber(d) /\ scope[6] # 0 ->
            [d EXCEPT !.width = scope[6], !.reference = 0, !.scale = 0]
       [] OTHER -> [d EXCEPT !.width = @ + extra,
                             !.scale = @ + delta(2) + scope[7],
                             !.reference = IF d.code \in DOMAIN replaced THEN replaced[d.code]
                                           ELSE @ * 10 ^ scope[7]]

Slot(kind, d, value) == [kind |-> kind, code |-> d.code, d |-> d, value |-> value]

(***************************************************************************)
(* The element the k-th marker after a bitmap stands for: the bits speak   *)
(* of the last elements before the first operator that refers back, and a  *)
(* marker takes the next one whose bit is 0.                               *)
(***************************************************************************)
SpokenOf(slots) ==
  LET bits == {p \in DOMAIN slots : slots[p].kind = "bit"}
      first == CHOOSE p \in bits : /\ p - 1 \notin bits
                                   /\ \A q \in bits : q > p => p .. q \subseteq bits
      mask == SelectSeq(SubSeq(slots, first, Len(slots)), LAMBDA s : s.kind = "bit")
      back == Min({p \in DOMAIN slots : slots[p].code \in {222000, 223000, 224000, 225000, 236000}})
      elements == SelectSeq([p \in 1 .. back - 1 |-> p],
                            LAMBDA p : slots[p].code < 100000 /\ slots[p].kind # "reference")
  IN [mask |-> mask, at |-> SubSeq(elements, Len(elements) - Len(mask) + 1, Len(elements))]

MarkedAt(slots, k) ==
  LET spoken == SpokenOf(slots)
      shown == SelectSeq([b \in DOMAIN spoken.mask |-> b], LAMBDA b : spoken.mask[b].value = 0)
  IN spoken.at[shown[k]]

Marked(slots, k) == slots[MarkedAt(slots, k)].d

(***************************************************************************)
(* The slots of one subset, given how often each group is repeated, the    *)
(* bits of the bitmaps and the new reference values, in order.             *)
(***************************************************************************)
Start(counts, bits, refs) ==
  [slots |-> <<>>, counts |-> counts, bits |-> bits, refs |-> refs, scope |-> NoScope,
   replaced |-> <<>>, markers |-> 0]

RECURSIVE Meaning(_, _)
Meaning(codes, st) ==
  LET d == Descriptor(Head(codes))
      rest == Tail(codes)
      group(first, n) == SubSeq(rest, first, first + n - 1)
      after(n) == SubSeq(rest, n + 1, Len(rest))
      repeat(g, n) == FlattenSeq([k \in 1 .. n |-> g])
      put(slot) == [st EXCEPT !.slots = Append(@, slot)]
      e == Effective(d, st.scope, st.replaced)
      defining == st.scope[3] \notin {0, 255}
      new == [Descriptor(d.code) EXCEPT !.width = st.scope[3], !.reference = 0]
      asBits == [Descriptor(Associated) EXCEPT !.width = st.scope[4]]
      field == IF st.scope[4] # 0 /\ d.X # 31 THEN <<Slot("value", asBits, 0)>> ELSE <<>>
      plain == [st EXCEPT !.slots = @ \o field \o <<Slot("value", e, 0)>>, !.scope[6] = 0]
      marked == Marked(st.slots, st.markers + 1)
      stands == IF d.code = 225255
                THEN [marked EXCEPT !.reference = -(2 ^ marked.width), !.width = @ + 1] ELSE marked
  IN CASE codes = <<>> -> st
       [] codes # <<>> /\ d.F = 3 -> Meaning(TableD[d.code] \o rest, st)
       [] codes # <<>> /\ d.F = 1 /\ d.Y > 0 ->
            Meaning(repeat(group(1, d.X), d.Y) \o after(d.X), st)
       [] codes # <<>> /\ d.F = 1 /\ d.Y = 0 ->
            LET factor == Descriptor(Head(rest))
                n == Head(st.counts)
            IN Meaning(repeat(group(2, d.X), n) \o after(d.X + 1),
                       [put(Slot("count", factor, n)) EXCEPT !.counts = Tail(@)])
       [] codes # <<>> /\ d.F = 0 /\ defining ->
            Meaning(rest, [put(Slot("reference", new, Head(st.refs)))
                             EXCEPT !.refs = Tail(@),
                                    !.replaced = (d.code :> Head(st.refs)) @@ @])
       [] codes # <<>> /\ d.F = 0 /\ ~defining /\ d.code = 31031 ->
            Meaning(rest, [put(Slot("bit", d, Head(st.bits))) EXCEPT !.bits = Tail(@)])
       [] codes # <<>> /\ d.F = 0 /\ ~defining /\ d.code # 31031 -> Meaning(rest, plain)
       [] codes # <<>> /\ d.F = 2 /\ d.X <= 8 /\ d.X # 5 ->
            Meaning(rest, [st EXCEPT !.scope[d.X] = d.Y,
                                     !.replaced = IF d.X = 3 /\ d.Y # 255 THEN <<>> ELSE @])
       [] codes # <<>> /\ d.F = 2 /\ d.X = 5 ->
            Meaning(rest, put(Slot("value", [d EXCEPT !.width = 8 * d.Y, !.type = "string"], 0)))
       [] codes # <<>> /\ d.F = 2 /\ d.X \in {23, 24, 25, 32} /\ d.Y = 255 ->
            Meaning(rest, [put([Slot("value", stands, 0) EXCEPT !.code = d.code])
                             EXCEPT !.markers = @ + 1])
       [] OTHER -> Meaning(rest, [put(Slot("operator", d, 0)) EXCEPT !.markers = 0])

Slots(codes, counts, bits, refs) == Meaning(codes, Start(counts, bits, refs)).slots

(***************************************************************************)
(* A content is the slots of each subset with their values.  What it says  *)
(* of the data section, and of the values a program is shown.              *)
(***************************************************************************)
InData(slots) == SelectSeq(slots, LAMBDA s : s.kind # "operator")
Shown(slots) == SelectSeq(slots, LAMBDA s : s.kind # "reference")

Says(field, slot, k) ==
  LET raw == IF field.local = 0 THEN field.raw ELSE field.increments[k]
      base == IF field.local = 0 \/ slot.d.type = "string" THEN 0 ELSE field.raw
      all == AllOnes(IF field.local = 0 THEN slot.d.width ELSE field.local)
  IN IF slot.d.type = "string" THEN raw
     ELSE IF slot.kind = "value" /\ CanBeMissing(slot.d) /\ raw = all THEN Missing
     ELSE raw + base + slot.d.reference

(***************************************************************************)
(* What an element is about: the element after an associated field, the    *)
(* fields that a 031021 explains until the next one, the element that a    *)
(* quality value or a marker has from the bitmap; nothing otherwise.       *)
(***************************************************************************)
IsMarkerSlot(slot) == slot.kind = "value" /\ slot.code > 200000 /\ slot.code % 1000 = 255
IsQuality(slot) == slot.kind = "value" /\ (slot.code \div 1000 = 33 \/ IsMarkerSlot(slot))

LastOperator(slots, p) == Max({q \in 1 .. p - 1 : slots[q].kind = "operator"} \union {0})

HasBitmap(slots, p) == /\ IsQuality(slots[p]) /\ LastOperator(slots, p) # 0
                       /\ \E q \in 1 .. p : slots[q].kind = "bit"

About(slots, p) ==
  LET turn == Cardinality({q \in LastOperator(slots, p) .. p : IsQuality(slots[q])})
  IN CASE slots[p].code = Associated -> {p + 1}
       [] slots[p].code = 31021 ->
            {q \in p .. Len(slots) : /\ slots[q].code = Associated
                                     /\ \A r \in p + 1 .. q : slots[r].code # 31021}
       [] HasBitmap(slots, p) -> {MarkedAt(SubSeq(slots, 1, p), turn)}
       [] OTHER -> {}

(***************************************************************************)
(* The data section `wire` says the content: field by field, of the width  *)
(* of the slot, one after another for the subsets or, when compressed, one *)
(* for all of them.                                                        *)
(***************************************************************************)
Carries(wire, content, compressed) ==
  IF compressed
  THEN /\ Len(wire) = Len(InData(content[1]))
       /\ \A p \in DOMAIN wire, s \in DOMAIN content :
            LET slot == InData(content[s])[p]
            IN wire[p].width = slot.d.width /\ Says(wire[p], slot, s) = slot.value
  ELSE LET all == FlattenSeq([s \in DOMAIN content |-> InData(content[s])])
       IN /\ Len(wire) = Len(all)
          /\ \A p \in DOMAIN wire : /\ wire[p].width = all[p].d.width
                                    /\ Says(wire[p], all[p], 1) = all[p].value

(***************************************************************************)
(* A data section that says a content.                                     *)
(***************************************************************************)
RawOf(slot, v) == IF slot.d.type = "string" THEN v
                  ELSE IF v = Missing THEN AllOnes(slot.d.width) ELSE v - slot.d.reference

Simple(slot) == Field(slot.d.width, RawOf(slot, slot.value))

Packed(cell) ==   \* the slots of one element in all subsets
  LET present == {c.value : c \in Range(cell)} \ {Missing}
      low == IF present = {} THEN 0 ELSE Min(present)
      string == cell[1].d.type = "string"
      width == IF string THEN cell[1].d.width ELSE 8
  IN IF \A k \in DOMAIN cell : cell[k].value = cell[1].value THEN Simple(cell[1])
     ELSE [width |-> cell[1].d.width, local |-> width,
           raw |-> IF string THEN 0 ELSE low - cell[1].d.reference,
           increments |-> [k \in DOMAIN cell |->
             IF string THEN cell[k].value
             ELSE IF cell[k].value = Missing THEN AllOnes(8) ELSE cell[k].value - low]]

DataSection(content, compressed) ==
  IF compressed
  THEN LET slots == [s \in DOMAIN content |-> InData(content[s])]
       IN [p \in DOMAIN slots[1] |-> Packed([s \in DOMAIN slots |-> slots[s][p]])]
  ELSE LET all == FlattenSeq([s \in DOMAIN content |-> InData(content[s])])
       IN [p \in DOMAIN all |-> Simple(all[p])]
=============================================================================
