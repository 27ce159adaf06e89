------------------------------ MODULE BufrKeys ------------------------------
(***************************************************************************)
(* The keys a program finds after a BUFR message was decoded: create_keys  *)
(* of accessor/grib_accessor_class_bufr_data_array.cc.                     *)
(*                                                                         *)
(* Every element becomes a key of its own, at the end of one list, or an   *)
(* attribute of another: a field associated with the next element, what    *)
(* such fields signify, and the values that a bitmap gives to elements     *)
(* long before them.  Whose they are is not taken from the decoder; it is  *)
(* found by walking the list, its keys being counted back from the bitmap  *)
(* and forward along it.  Keys are known by <<subset, element, which>>,    *)
(* names and codes are numbers; positions count from 1, and 0 is NULL.     *)
(* The groups that order the keys for a dump are left out.                 *)
(***************************************************************************)
EXTENDS BufrTemplate

MaxBitmaps == 8
SubsetNumber == 0          \* names of keys that are no elements
OperatorName == 200000

NoKeys == [list |-> <<>>, attributes |-> {}]

\* from: where the walk along the bitmap starts; field and significance: the
\* key that waits for an element, if there is one.
Starting == [list |-> <<>>, attributes |-> {}, start |-> <<>>, size |-> <<>>, open |-> TRUE,
             cursor |-> 0, referred |-> 0, from |-> 0, quality |-> FALSE,
             field |-> {}, significance |-> {}]

NextSubsetOf(k) == [k EXCEPT !.quality = FALSE, !.field = {}, !.significance = {}]

Pushing(k, key) == [k EXCEPT !.list = Append(@, key)]

(***************************************************************************)
(* A key has the code of its element as an attribute, but for markers.     *)
(***************************************************************************)
IsMarker(d) == d.code \in {223255, 224255, 225255, 232255} \/ (d.F = 2 /\ d.X = 5)
IsCoordinate(d) == d.F = 0 /\ d.X \in {1, 2, 4, 5, 6, 7, 8}
NoKey(d) == d.F = 0 /\ d.type = "unknown"

KeyOf(d, id) == [id |-> id, name |-> IF d.F = 2 /\ ~IsMarker(d) THEN OperatorName ELSE d.code,
                 code |-> IF IsMarker(d) THEN 0 ELSE d.code]

StartsBitmap(key) == key.code \in {0, 222000, 223000, 224000, 225000, 232000, 237000}

\* Mutant: the factors after the operators are taken for elements (ECC-869).
SkippedButFactors(key) == StartsBitmap(key) \/ key.code \in {236000, 243000}

Skipped(key) == StartsBitmap(key) \/ key.code \in {236000, 243000, 31000, 31001, 31002}

(***************************************************************************)
(* The first key a bitmap speaks of: back from the bitmap over factors and *)
(* operators to the one that started it, then as many as the bitmap has    *)
(* bits.  It is looked for once and is the same for all bitmaps after it.  *)
(***************************************************************************)
BitmapInit(k) ==
  LET at == Last(k.start)
      stop == Max({q \in 1 .. at : ~Skipped(k.list[q])} \union {0})
      operator == Max({q \in stop + 1 .. at : StartsBitmap(k.list[q])} \union {0})
      end == IF operator = 0 THEN stop ELSE operator - 1
      from == IF k.from # 0 THEN k.from ELSE Max({0, end - Last(k.size) + 1})
  IN [k EXCEPT !.cursor = at + 1, !.referred = from, !.from = from]

(***************************************************************************)
(* The value of a key as one number: m holds the expanded array, the index *)
(* and the values of the decoder.                                          *)
(***************************************************************************)
Readable(m, key) == ~m.compressed \/ key.name \in {SubsetNumber, OperatorName}
                                  \/ Len(m.values[key.id[2]]) = 1

Reading(m, key) ==
  CASE key.name = SubsetNumber -> key.id[1]
    [] key.name = OperatorName -> 0
    [] OTHER -> IF m.compressed THEN m.values[key.id[2]][1] ELSE m.values[key.id[1]][key.id[2]]

\* Past the next bit that is 0, in the bitmap and among the keys it speaks of.
NextInBitmap(m, k) ==
  LET n == Len(k.list)
      bits == {q \in k.cursor .. n : ~Readable(m, k.list[q]) \/ Reading(m, k.list[q]) = 0}
      q == Min(bits \union {n + 1})
      found == k.cursor # 0 /\ q <= n /\ Readable(m, k.list[q])
      within(i) == IF i > n THEN 0 ELSE i
      on(i) == IF k.referred = 0 THEN 0 ELSE within(k.referred + i)
      referred == on(q + 1 - k.cursor)
  IN CASE found -> [k |-> [k EXCEPT !.cursor = within(q + 1), !.referred = referred],
                    element |-> IF referred = 0 THEN {} ELSE {k.list[referred - 1]}]
       [] ~found /\ k.cursor # 0 -> [k |-> [k EXCEPT !.cursor = within(q),
                                                     !.referred = on(q - k.cursor)],
                                     element |-> {}]
       [] OTHER -> [k |-> k, element |-> {}]

(***************************************************************************)
(* What an element means for the bitmaps, and the key it is about if it is *)
(* a quality value or a marker.                                            *)
(***************************************************************************)
StartBitmap(k) ==
  LET full == Len(k.start) = MaxBitmaps
      push(seq, x) == Append(IF full THEN Front(seq) ELSE seq, x)
  IN [k EXCEPT !.start = push(@, Len(k.list)), !.size = push(@, 1), !.open = FALSE]

Bitmaps(m, k, d) ==
  LET about(new) == [k |-> new, element |-> {}]
  IN CASE IsCoordinate(d) -> about([k EXCEPT !.open = TRUE])
       [] d.code = 31031 /\ k.open -> about(StartBitmap(k))
       [] d.code = 31031 /\ ~k.open -> about([k EXCEPT !.size[Len(k.size)] = @ + 1, !.cursor = 0])
       [] d.code \in {222000, 223000, 224000, 225000} ->
            about([k EXCEPT !.referred = 0, !.quality = TRUE, !.open = TRUE, !.cursor = 0])
       [] d.code \in {236000, 237000} -> about([k EXCEPT !.referred = 0, !.cursor = 0])
       [] d.code = 237255 -> about([k EXCEPT !.open = TRUE, !.cursor = 0])
       [] (d.X = 33 \/ IsMarker(d)) /\ k.quality ->
            NextInBitmap(m, IF k.referred = 0 THEN BitmapInit(k) ELSE k)
       [] OTHER -> about(k)

(***************************************************************************)
(* The key of one element, a key or an attribute.  The attribute of a key  *)
(* that has one of that name goes to the innermost of them.                *)
(***************************************************************************)
RECURSIVE Innermost(_, _, _)
Innermost(attributes, id, name) ==
  LET same == {x \in attributes : x.of = id /\ x.name = name}
  IN IF same = {} THEN id ELSE Innermost(attributes, (CHOOSE x \in same : TRUE).id, name)

Attach(k, id, key) ==
  [k EXCEPT !.attributes = @ \union {[of |-> Innermost(@, id, key.name),
                                      id |-> key.id, name |-> key.name]}]

AddAttributes(k, id, keys) ==
  [k EXCEPT !.attributes = @ \union {[of |-> id, id |-> x.id, name |-> x.name] : x \in keys}]

AddElement(k, d, key, element) ==
  LET copy(e) == [id |-> <<key.id[1], key.id[2], "copy">>, name |-> e.name, code |-> key.code]
      copied == d.code \notin {33007, 223255}
  IN CASE element # {} ->
            LET e == CHOOSE x \in element : TRUE
            IN Attach(IF copied THEN Pushing(k, copy(e)) ELSE k, e.id, key)
       [] element = {} /\ d.code = Associated ->
            [AddAttributes(k, key.id, k.significance) EXCEPT !.field = {key}]
       [] element = {} /\ d.code = 31021 -> [k EXCEPT !.significance = {key}]
       [] element = {} /\ d.code = 33007 /\ k.quality -> k
       [] OTHER -> Pushing(k, key)

CreateKey(m, k, s, p) ==
  LET d == m.array[m.index[s][p]]
      key == KeyOf(d, <<s, p, "own">>)
      bitmaps == Bitmaps(m, k, d)
      number == [id |-> <<s, 0, "own">>, name |-> SubsetNumber, code |-> 0]
      numbered == IF p = 1 /\ ~m.compressed THEN Pushing(bitmaps.k, number) ELSE bitmaps.k
      made == IF d.F \in {0, 1} THEN AddAttributes(numbered, key.id, k.field) ELSE numbered
  IN IF NoKey(d) THEN k
     ELSE AddElement([made EXCEPT !.field = {}], d, key, bitmaps.element)

CreateKeys(m) ==
  LET subset(k, s) == FoldLeft(LAMBDA x, p : CreateKey(m, x, s, p), NextSubsetOf(k),
                               [p \in DOMAIN m.index[s] |-> p])
      made == FoldLeft(subset, Starting, [s \in DOMAIN m.index |-> s])
  IN [list |-> made.list, attributes |-> made.attributes]
=============================================================================
