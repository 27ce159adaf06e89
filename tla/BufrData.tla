------------------------------ MODULE BufrData ------------------------------
(***************************************************************************)
(* The reader and writer of the data section of a BUFR message:            *)
(* process_elements of accessor/grib_accessor_class_bufr_data_array.cc,    *)
(* which decodes a message, encodes the values of one (all subsets or the  *)
(* ones to extract) or makes the data of a new template.                   *)
(*                                                                         *)
(* Threads work on handles of their own.  They share the context's list of *)
(* expanded templates, under a mutex, and the expanded arrays themselves,  *)
(* under none.  A call is a walk over the expanded array, one descriptor   *)
(* per action, with a stack of the replications it is in.  Positions count *)
(* from 1; a bitmap or a replication that starts nowhere is at 0.          *)
(***************************************************************************)
EXTENDS BufrContent, BufrKeys

CONSTANTS Handles,
          Scenarios,    \* what the handles hold, how often a program calls them and
                        \* the new data it asks for: functions to
                        \*   [codes, content, compressed, calls, asks]
          Lists,        \* subsets a program extracts
          Hasty         \* TRUE: a program may encode a handle it has not decoded

VARIABLES arrays,       \* the expanded arrays, shared by the handles
          cache,        \* the context's list: [codes, array]
          msg,          \* the keys of a message that the walk reads and writes
          acc,          \* the accessor of its data section
          walk,         \* the call under way
          seen,         \* the content the decoded values should be
          meant,        \* the content the data section should say
          last,         \* the last call on a handle and its result
          program       \* the calls left to the program, the new data it may ask for

vars == <<arrays, cache, msg, acc, walk, seen, meant, last, program>>

Factors == {31000, 31001, 31002}

Fresh == [expanded |-> 0, doExpand |-> TRUE, doDecode |-> TRUE,
          values |-> <<>>, index |-> <<>>, override |-> <<>>, operand |-> 0,
          bitmapStart |-> 0, bitmapCurrent |-> -1, bitmapFrom |-> 1, bitmapAt |-> 0,
          keys |-> NoKeys]

Idle == [pc |-> "idle", mode |-> "decode", todo |-> <<>>, s |-> 0, i |-> 0, stack |-> <<>>,
         edi |-> <<>>, dval |-> <<>>, el |-> 1, pos |-> 0, out |-> <<>>, refIdx |-> 0,
         taken |-> [c \in Factors |-> 0], used |-> 0]

Message(sc) == [codes |-> sc.codes, subsets |-> Len(sc.content), compressed |-> sc.compressed,
                data |-> DataSection(sc.content, sc.compressed), overridden |-> <<0>>,
                extract |-> <<>>, counts |-> [c \in Factors |-> <<>>], bits |-> <<>>]

Init ==
  /\ arrays = <<>> /\ cache = <<>>
  /\ \E sc \in Scenarios : /\ msg = [h \in Handles |-> Message(sc[h])]
                            /\ meant = [h \in Handles |-> sc[h].content]
                            /\ program = [h \in Handles |->
                                                [left |-> sc[h].calls, asks |-> sc[h].asks]]
  /\ acc = [h \in Handles |-> Fresh]
  /\ walk = [h \in Handles |-> Idle]
  /\ seen = [h \in Handles |-> <<>>]
  /\ last = [h \in Handles |-> [op |-> "none", ok |-> TRUE]]

Array(h) == arrays[acc[h].expanded]
At(h) == Array(h)[walk[h].i]

(***************************************************************************)
(* The replications a walk is in, innermost last: `left` elements of the   *)
(* current round, `again` rounds, the current one included.                *)
(***************************************************************************)
Shorten(stack, n) == IF stack = <<>> THEN stack
                     ELSE [stack EXCEPT ![Len(stack)] = [@ EXCEPT !.left = @ - n]]

RECURSIVE Advance(_, _), Rewind(_, _)
\* After an element: the next element of the round, the next round, or the end
\* of the group, which was one element of the group around it.
Advance(stack, i) ==
  LET top == Last(stack)
      around == Front(stack)
  IN CASE stack = <<>> -> [stack |-> stack, i |-> i + 1]
       [] stack # <<>> /\ top.left > 1 -> [stack |-> Shorten(stack, 1), i |-> i + 1]
       [] stack # <<>> /\ top.left <= 1 /\ top.again > 1 ->
            [stack |-> Append(around, [top EXCEPT !.left = top.size, !.again = @ - 1]),
             i |-> top.start + 1]
       [] OTHER -> Advance(Shorten(around, top.size + 1), top.start + top.size)

\* After an empty group: the groups around it that it was the last part of.
Rewind(stack, i) ==
  LET top == Last(stack)
  IN CASE stack = <<>> -> [stack |-> stack, i |-> i + 1]
       [] stack # <<>> /\ top.left # 0 -> [stack |-> stack, i |-> i + 1]
       [] stack # <<>> /\ top.left = 0 /\ top.again > 1 ->
            [stack |-> Append(Front(stack), [top EXCEPT !.left = top.size, !.again = @ - 1]),
             i |-> top.start + 1]
       [] OTHER -> Rewind(Front(stack), i)

\* At the factor, position i, of a group repeated n times.
EnterLeavingTheFactor(stack, size, i, n) ==
  IF n = 0 THEN Rewind(Shorten(stack, size + 1), i + size)
  ELSE [stack |-> Append(stack, [size |-> size, left |-> size, again |-> n, start |-> i]),
        i |-> i + 1]

Enter(stack, size, i, n) ==
  IF n = 0 THEN Rewind(Shorten(stack, size + 2), i + size)
  ELSE [stack |-> Append(stack, [size |-> size, left |-> size, again |-> n, start |-> i]),
        i |-> i + 1]

(***************************************************************************)
(* Bitmaps: where the values a bitmap speaks of start in the list of       *)
(* elements, and the next element with bit 0 when a marker asks for it.    *)
(***************************************************************************)
Restarted(a) == [a EXCEPT !.bitmapCurrent = -1, !.bitmapAt = a.bitmapFrom - 1]
Cancelled(a) == [a EXCEPT !.bitmapCurrent = -1, !.bitmapStart = 0]

RefersBack == {222000, 223000, 236000}

\* The last element before the operators that refer back; 0 is an error.
BitmapEnd(code, lowest) ==
  LET elements == {q \in DOMAIN code : code[q] < 100000}
      end == Max({q \in elements : q >= lowest} \union {0})
      operators == {q \in 2 .. end : code[q] \in RefersBack}
  IN IF operators = {} THEN end
     ELSE Max({q \in elements : q < Min(operators)} \union {1})

BitmapFrom(code, end, size) ==
  Max({q \in 0 .. end : q = 0 \/ Cardinality({p \in q + 1 .. end : code[p] < 100000})
                                  = IF size = 0 THEN 0 ELSE size - 1})

\* The size of the bitmap after operator i, `factor` if the data gives it.
BitmapSize(array, i, factor) ==
  LET run == {n \in 0 .. Len(array) - i : \A k \in 1 .. n : array[i + k].code = 31031}
  IN IF i < Len(array) /\ array[i + 1].code = 101000 THEN factor ELSE Max(run)

RECURSIVE Forward(_, _, _)
Forward(code, at, k) ==
  LET element(q) == Min({p \in q .. Len(code) : code[p] <= 100000} \union {Len(code) + 1})
  IN IF k = 0 THEN element(at) ELSE Forward(code, element(at + 1), k - 1)

(***************************************************************************)
(* One element: decoded from the field at pos, encoded from its cell, or   *)
(* made missing.  A field of another width than the descriptor's is not    *)
(* one the writer wrote: what is read is no value of this message.         *)
(***************************************************************************)
Defining(a) == a.operand \notin {0, 255}

Result(err, a, w, d) == [err |-> err, a |-> a, w |-> w, d |-> d]

DecodeElement(h, a, w, d, canBeMissing) ==
  LET field == msg[h].data[w.pos + 1]
      put(cell) == [w EXCEPT !.pos = @ + 1,
                             !.dval = Append(@, IF msg[h].compressed THEN cell ELSE cell[1])]
      changed == IF a.operand # 0 /\ d.code \in {o[1] : o \in Range(a.override)}
                 THEN [d EXCEPT !.reference = Head(SelectSeq(a.override,
                                                 LAMBDA o : o[1] = d.code))[2]]
                 ELSE d
  IN CASE w.pos >= Len(msg[h].data) -> Result(TRUE, a, w, d)
       [] w.pos < Len(msg[h].data) /\ Defining(a) ->
            Result(field.width # a.operand,
                   [a EXCEPT !.override = Append(@, <<d.code, field.raw>>)],
                   [w EXCEPT !.pos = @ + 1], d)
       [] w.pos < Len(msg[h].data) /\ ~Defining(a) /\ d.type = "string" ->
            Result(field.width # d.width, a, put(DecodeStrings(field)), d)
       [] OTHER -> Result(field.width # d.width, a,
                          put(DecodeArray(changed, field, canBeMissing)), changed)

Write(a, w, d, written) ==
  Result(written.err, a, [w EXCEPT !.out = Append(@, written.field)], d)

\* The new reference values of an operator 203YYY, while it defines them: a
\* bit for the sign, the others for the magnitude.
Signed(v, width) == IF v < 0 THEN -((-v) % 2 ^ (width - 1)) ELSE v % 2 ^ (width - 1)

WriteReference(h, a, w, d) ==
  LET given == msg[h].overridden
  IN IF w.refIdx >= Len(given) THEN Result(TRUE, a, w, d)
     ELSE Result(FALSE, a, [w EXCEPT !.refIdx = @ + 1,
                              !.out = Append(@, Field(a.operand,
                                        Signed(given[w.refIdx + 1], a.operand)))], d)

EncodeElement(h, a, w, d) ==
  LET cell == IF msg[h].compressed THEN a.values[w.el] ELSE <<a.values[w.s][w.el]>>
      list == IF msg[h].extract = <<>> THEN [s \in 1 .. msg[h].subsets |-> s]
              ELSE msg[h].extract
      subsets == IF msg[h].compressed THEN list ELSE <<1>>
  IN CASE Defining(a) -> WriteReference(h, a, w, d)
       [] ~Defining(a) /\ d.type = "string" -> Write(a, w, d, EncodeStrings(d, cell, subsets))
       [] ~Defining(a) /\ d.type # "string" /\ msg[h].compressed ->
            Write(a, w, d, EncodeArray(d, cell, subsets, FALSE))
       [] OTHER -> Write(a, w, d, EncodeValue(d, cell[1], FALSE))

\* New data are missing, but for the bits of the bitmaps the program gave.
NewElement(h, a, w, d) ==
  LET bit == IF msg[h].bits = <<>> THEN 0 ELSE msg[h].bits[w.used + 1]
  IN CASE Defining(a) -> WriteReference(h, a, w, d)
       [] ~Defining(a) /\ d.type = "string" -> Write(a, w, d, Written(Field(d.width, MissingString)))
       [] ~Defining(a) /\ d.code = 31031 ->
            Write(a, [w EXCEPT !.used = @ + 1], d, EncodeValue(d, bit, FALSE))
       [] OTHER -> Write(a, w, d, EncodeValue(d, Missing, FALSE))

CodecElement(h, a, w, d, canBeMissing) ==
  CASE w.mode = "decode" -> DecodeElement(h, a, w, d, canBeMissing)
    [] w.mode = "encode" -> EncodeElement(h, a, w, d)
    [] OTHER -> NewElement(h, a, w, d)

(***************************************************************************)
(* The end of a call, and one descriptor of the walk.  The result r of the *)
(* descriptor leaves the walk at `next`; a descriptor that the data change *)
(* (a new reference value, the characters of 205YYY) is changed in the     *)
(* array that all handles share.                                           *)
(***************************************************************************)
Return(h, ok) ==
  /\ walk' = [walk EXCEPT ![h] = Idle]
  /\ last' = [last EXCEPT ![h] = [op |-> walk[h].mode, ok |-> ok]]

Continue(h, r, index, next) ==
  /\ acc' = [acc EXCEPT ![h] = r.a]
  /\ arrays' = IF index = 0 THEN arrays ELSE [arrays EXCEPT ![acc[h].expanded][index] = r.d]
  /\ IF r.err THEN Return(h, FALSE)
     ELSE walk' = [walk EXCEPT ![h] = [r.w EXCEPT !.stack = next.stack, !.i = next.i]]
          /\ UNCHANGED last
  /\ UNCHANGED <<cache, msg, seen, meant, program>>

Plainly(h) == Advance(walk[h].stack, walk[h].i)

\* The descriptor at the position is an element; the next has the next index.
Pushed(w, position) ==
  [w EXCEPT !.edi = IF w.mode = "encode" THEN @ ELSE Append(@, position), !.el = @ + 1]

\* An operator that stays among the elements has the value 0.
Noted(h, w) ==
  LET zero == IF msg[h].compressed THEN <<0>> ELSE 0
  IN [Pushed(w, w.i) EXCEPT !.dval = IF w.mode = "decode" THEN Append(@, zero) ELSE @]

Stepping(h) == walk[h].pc = "walk" /\ walk[h].i <= Len(Array(h))

\* While new reference values are defined, a descriptor of table B is no element;
\* an associated field is one all the same.
DataElement(h) ==
  LET a == acc[h]
      w == walk[h]
      d == At(h)
      begun == IF d.code = 31031 /\ a.bitmapStart = 0 THEN [a EXCEPT !.bitmapStart = w.el] ELSE a
      r == CodecElement(h, begun, w, d, CanBeMissing(d))
      pushed == [r EXCEPT !.w = IF Defining(a) /\ d.F = 0 THEN @ ELSE Pushed(@, w.i)]
  IN /\ Stepping(h) /\ d.F \in {0, 9}
     /\ Continue(h, pushed, w.i, Plainly(h))

(***************************************************************************)
(* A delayed replication: its factor is read from the data, taken from the *)
(* values, or from the numbers the program gave for that kind of factor.   *)
(* A decoder does not ask whether new reference values are being defined.  *)
(***************************************************************************)
Replication(h) ==
  LET a == acc[h]
      w == walk[h]
      f == Array(h)[w.i + 1]
      given == msg[h].counts[f.code]
      n == CASE w.mode = "decode" -> IF w.pos < Len(msg[h].data)
                                     THEN msg[h].data[w.pos + 1].raw + f.reference ELSE 0
             [] w.mode = "encode" -> IF msg[h].compressed THEN a.values[w.el][1]
                                     ELSE a.values[w.s][w.el]
             [] OTHER -> IF given = <<>> THEN 1
                         ELSE IF w.taken[f.code] < Len(given) THEN given[w.taken[f.code] + 1]
                         ELSE 0
      short == w.mode = "new" /\ given # <<>> /\ w.taken[f.code] >= Len(given)
      varies == w.mode = "decode" /\ w.pos < Len(msg[h].data)
                                  /\ msg[h].data[w.pos + 1].local # 0
      took == [w EXCEPT !.taken[f.code] = @ + 1]
      plain == IF w.mode = "decode" THEN [a EXCEPT !.operand = 0] ELSE a
      coded == IF w.mode = "new" THEN Write(a, took, f, Written(Field(f.width, n)))
               ELSE CodecElement(h, plain, w, f, FALSE)
  IN /\ Stepping(h) /\ At(h).F = 1
     /\ Continue(h, [coded EXCEPT !.a = a, !.err = @ \/ short \/ varies,
                                  !.w = Pushed(@, w.i + 1)], 0,
                 Enter(w.stack, At(h).X, w.i + 1, n))

(***************************************************************************)
(* Operator 203YYY: the new reference values follow, 203255 ends them and  *)
(* 203000 forgets them.  The decoder leaves them in a key of the message   *)
(* for the encoder, which checks that it needed all of them.               *)
(***************************************************************************)
ChangeReference(h) ==
  LET d == At(h)
      a == acc[h]
      w == walk[h]
      decoding == w.mode = "decode"
      limit == 2 ^ (d.Y - 1) - 1
      given == msg[h].overridden
      refused == \/ msg[h].compressed
                 \/ d.Y = 255 /\ w.refIdx # Len(given)
                 \/ d.Y \notin {0, 255} /\ \E v \in Range(given) : v \notin -limit - 1 .. limit
      err == ~decoding /\ refused
      operand == [a EXCEPT !.operand = d.Y,
                           !.override = IF d.Y = 255 THEN @ ELSE <<>>]
      publish == d.Y = 255 /\ w.s = 1 /\ decoding /\ a.override # <<>>
      next == Plainly(h)
  IN /\ Stepping(h) /\ d.F = 2 /\ d.X = 3
     /\ acc' = [acc EXCEPT ![h] = IF err /\ msg[h].compressed THEN a ELSE operand]
     /\ msg' = IF publish
               THEN [msg EXCEPT ![h].overridden = [k \in DOMAIN a.override |-> a.override[k][2]]]
               ELSE msg
     /\ IF err THEN Return(h, FALSE)
        ELSE walk' = [walk EXCEPT ![h].stack = next.stack, ![h].i = next.i] /\ UNCHANGED last
     /\ UNCHANGED <<arrays, cache, seen, meant, program>>

Characters(h) ==
  LET d == [At(h) EXCEPT !.width = 8 * At(h).Y, !.type = "string"]
      r == CodecElement(h, acc[h], walk[h], d, CanBeMissing(d))
  IN /\ Stepping(h) /\ At(h).F = 2 /\ At(h).X = 5
     /\ Continue(h, [r EXCEPT !.w = Pushed(@, walk[h].i)], walk[h].i, Plainly(h))

(***************************************************************************)
(* A marker: the next element the bitmap shows, coded once more.  When a   *)
(* program makes new data the bits are those it gave.                      *)
(***************************************************************************)
Marker(h) ==
  LET d == At(h)
      a == acc[h]
      w == walk[h]
      array == Array(h)
      edi == IF w.mode = "encode" THEN a.index[w.s] ELSE w.edi
      code == [q \in DOMAIN edi |-> array[edi[q]].code]
      bits == CASE w.mode = "new" -> msg[h].bits
                [] w.mode = "decode" -> w.dval
                [] OTHER -> IF msg[h].compressed THEN a.values ELSE a.values[w.s]
      first == IF w.mode = "new" THEN a.bitmapCurrent + 2
               ELSE a.bitmapStart + a.bitmapCurrent + 1
      present(p) == IF msg[h].compressed /\ w.mode # "new" THEN bits[p][1] # 1 ELSE bits[p] # 1
      shown == {p \in first .. Len(bits) : present(p)}
      k == Min(shown) - first
      at == Forward(code, a.bitmapAt + 1, k)
      found == shown # {} /\ at <= Len(code)
      moved == [a EXCEPT !.bitmapCurrent = @ + 1 + k, !.bitmapAt = at]
      element == array[edi[at]]
      difference == [element EXCEPT !.reference = -(2 ^ element.width), !.width = @ + 1]
      r == CodecElement(h, moved, w, IF d.X = 25 THEN difference ELSE element,
                        CanBeMissing(element))
      pushed == [r EXCEPT !.w = Pushed(@, w.i)]
  IN /\ Stepping(h) /\ d.F = 2 /\ d.X \in {23, 24, 25, 32} /\ d.Y = 255
     /\ IF ~found THEN Continue(h, Result(TRUE, a, w, d), 0, Plainly(h))
        ELSE Continue(h, pushed, IF d.X = 25 THEN 0 ELSE edi[at], Plainly(h))

(***************************************************************************)
(* The operators that start, use again and cancel a bitmap, and those that *)
(* are elements and nothing more.  Any other operator is an error.         *)
(***************************************************************************)
Supported == (22 .. 27) \union (29 .. 42)

BuildBitmap(h, w) ==   \* w: the operator is the last of w.edi
  LET a == acc[h]
      array == Array(h)
      code == [q \in DOMAIN w.edi |-> array[w.edi[q]].code]
      delayed == w.i < Len(array) /\ array[w.i + 1].code = 101000
      f == array[w.i + 2]
      given == msg[h].counts[f.code]
      field == msg[h].data[w.pos + 1]
      factor == IF w.mode = "decode" THEN field.raw + f.reference ELSE given[w.taken[f.code] + 1]
      end == BitmapEnd(code, IF w.mode = "decode" THEN 2 ELSE 1)
      err == \/ end = 0
             \/ delayed /\ w.mode = "decode" /\ (w.pos >= Len(msg[h].data) \/ field.local # 0)
             \/ delayed /\ w.mode = "new" /\ Len(given) <= w.taken[f.code]
      from == [a EXCEPT !.bitmapFrom = BitmapFrom(code, end, BitmapSize(array, w.i, factor))]
  IN CASE err -> Result(TRUE, a, w, At(h))
       [] ~err /\ w.mode = "decode" -> Result(FALSE, Restarted(Cancelled(from)), w, At(h))
       [] OTHER -> Result(FALSE, [from EXCEPT !.bitmapAt = from.bitmapFrom - 1], w, At(h))

BitmapOperator(h) ==
  LET d == At(h)
      a == acc[h]
      w == Noted(h, walk[h])
      array == Array(h)
      i == walk[h].i
      directly == i < Len(array) /\ array[i + 1].code \notin {236000, 237000}
      given == msg[h].counts[array[i + 2].code]
      skipped == BitmapSize(array, i, given[w.taken[array[i + 2].code] + 1])
      done(b) == Result(FALSE, b, w, d)
      r == CASE d.X = 22 /\ directly ->
                  (CASE w.mode = "encode" -> done(Restarted(a))
                     [] w.mode = "new" -> done([a EXCEPT !.bitmapCurrent = @ + skipped])
                     [] OTHER -> done(a))
             [] d.X = 36 \/ (d.X = 23 /\ directly) ->
                  IF w.mode = "encode" THEN done(Restarted(a)) ELSE BuildBitmap(h, w)
             [] d.X = 35 /\ d.Y = 0 -> done(IF w.mode = "encode" THEN a ELSE Cancelled(a))
             [] d.X = 37 -> done(IF d.Y = 0 THEN Restarted(a) ELSE Cancelled(a))
             [] OTHER -> [done(a) EXCEPT !.err = d.X \notin Supported]
  IN /\ Stepping(h) /\ d.F = 2 /\ d.X \notin {3, 5}
     /\ ~(d.X \in {23, 24, 25, 32} /\ d.Y = 255)
     /\ Continue(h, IF d.X = 22 /\ d.Y # 0 THEN [done(a) EXCEPT !.w = walk[h]] ELSE r,
                 0, Plainly(h))

(***************************************************************************)
(* The calls of a program: unpack, pack, new values for an element, a new  *)
(* template, a new handle of the message.                                  *)
(***************************************************************************)
AtRest(h) == walk[h].pc = "idle" /\ program[h].left > 0

Called(h) == program' = [program EXCEPT ![h].left = @ - 1]

Begun(h, mode, a) ==
  /\ walk' = [walk EXCEPT ![h] = [Idle EXCEPT !.pc = IF a.doExpand THEN "expand" ELSE "begin",
                                              !.mode = mode]]
  /\ acc' = [acc EXCEPT ![h] = a]

Decode(h) ==
  /\ AtRest(h) /\ Called(h)
  /\ IF acc[h].doDecode
     THEN /\ Begun(h, "decode", [acc[h] EXCEPT !.doDecode = FALSE])
          /\ UNCHANGED <<last, seen>>
     ELSE /\ last' = [last EXCEPT ![h] = [op |-> "decode", ok |-> TRUE]]
          /\ seen' = [seen EXCEPT ![h] = IF @ = <<>> THEN meant[h] ELSE @]
          /\ UNCHANGED <<acc, walk>>
  /\ UNCHANGED <<arrays, cache, msg, meant>>

Encode(h, list) ==
  /\ AtRest(h) /\ Called(h)
  /\ Hasty \/ acc[h].index # <<>>
  /\ msg[h].extract = <<>>      \* what was extracted is written to a file and read again
  /\ Range(list) \subseteq 1 .. msg[h].subsets
  /\ msg' = [msg EXCEPT ![h].extract = list]
  /\ Begun(h, "encode", [acc[h] EXCEPT !.doDecode = FALSE])
  /\ UNCHANGED <<arrays, cache, seen, meant, last>>

\* The number of a group's repetitions and the bits of a bitmap are read only.
SetValue(h, s, p, v) ==
  LET shown == Shown(seen[h][s])
      d == shown[p].d
      position == CHOOSE q \in DOMAIN seen[h][s] :
                    /\ seen[h][s][q].kind # "reference"
                    /\ Len(Shown(SubSeq(seen[h][s], 1, q))) = p
      all == [k \in DOMAIN seen[h] |-> [seen[h][k] EXCEPT ![position].value = v]]
  IN /\ AtRest(h) /\ Called(h)
     /\ last[h] = [op |-> "decode", ok |-> TRUE] /\ msg[h].extract = <<>>
     /\ shown[p].kind = "value" /\ d.type # "string" /\ (v = Missing => CanBeMissing(d))
     /\ IF msg[h].compressed
        THEN /\ acc' = [acc EXCEPT ![h].values[p] = <<v>>]
             /\ seen' = [seen EXCEPT ![h] = all]
        ELSE /\ acc' = [acc EXCEPT ![h].values[s][p] = v]
             /\ seen' = [seen EXCEPT ![h][s][position].value = v]
     /\ UNCHANGED <<arrays, cache, msg, walk, meant, last>>

NewData(h, t) ==
  /\ AtRest(h) /\ Called(h)
  /\ t.bits = <<>> \/ acc[h] = Fresh    \* a bitmap is left over otherwise
  /\ msg[h].extract = <<>>
  /\ msg' = [msg EXCEPT ![h] = [@ EXCEPT !.codes = t.codes, !.subsets = t.subsets,
                                  !.compressed = t.compressed, !.counts = t.counts,
                                  !.bits = t.bits, !.overridden = t.refs]]
  /\ meant' = [meant EXCEPT ![h] = t.content]
  /\ Begun(h, "new", [acc[h] EXCEPT !.doExpand = TRUE, !.doDecode = TRUE])
  /\ UNCHANGED <<arrays, cache, seen, last>>

Reopen(h) ==
  /\ AtRest(h) /\ Called(h) /\ acc[h].expanded # 0
  /\ acc' = [acc EXCEPT ![h] = Fresh]
  /\ msg' = [msg EXCEPT ![h].extract = <<>>, ![h].overridden = <<0>>]
  /\ seen' = [seen EXCEPT ![h] = <<>>]
  /\ last' = [last EXCEPT ![h] = [op |-> "none", ok |-> TRUE]]
  /\ UNCHANGED <<arrays, cache, walk, meant>>

(***************************************************************************)
(* The expansion: looked up in the context's list; if it is not there it   *)
(* is made, and put at the end of the list under the mutex again.          *)
(***************************************************************************)
Expanding(h) ==
  LET codes == msg[h].codes
      known == SelectSeq(cache, LAMBDA e : e.codes = codes)
      made == ExpandTemplate(codes)
      use(array, pc) == /\ acc' = [acc EXCEPT ![h].expanded = array, ![h].doExpand = FALSE]
                        /\ walk' = [walk EXCEPT ![h].pc = pc]
  IN /\ walk[h].pc = "expand"
     /\ CASE known # <<>> -> use(Head(known).array, "begin") /\ UNCHANGED <<arrays, last>>
          [] known = <<>> /\ ~made.err -> /\ arrays' = Append(arrays, made.out)
                                          /\ use(Len(arrays) + 1, "publish")
                                          /\ UNCHANGED last
          [] OTHER -> /\ acc' = [acc EXCEPT ![h].expanded = 0, ![h].doExpand = FALSE]
                      /\ Return(h, FALSE)
                      /\ UNCHANGED arrays
     /\ UNCHANGED <<cache, msg, seen, meant, program>>

Publish(h) ==
  /\ walk[h].pc = "publish"
  /\ cache' = Append(cache, [codes |-> msg[h].codes, array |-> acc[h].expanded])
  /\ walk' = [walk EXCEPT ![h].pc = "begin"]
  /\ UNCHANGED <<arrays, acc, msg, seen, meant, last, program>>

(***************************************************************************)
(* The loop over the subsets: all of them to decode, the chosen ones to    *)
(* encode, one round when the data are compressed.                         *)
(***************************************************************************)
Chosen(h) == IF msg[h].extract = <<>> THEN [s \in 1 .. msg[h].subsets |-> s]
             ELSE msg[h].extract

NextSubset(w) == [w EXCEPT !.pc = "walk", !.s = Head(w.todo), !.todo = Tail(@), !.i = 1,
                           !.stack = <<>>, !.edi = <<>>, !.dval = <<>>, !.el = 1, !.refIdx = 0]

Begin(h) ==
  LET w == walk[h]
      all == IF w.mode = "encode" THEN Chosen(h) ELSE [s \in 1 .. msg[h].subsets |-> s]
      todo == IF msg[h].compressed THEN <<1>> ELSE all
  IN /\ w.pc = "begin"
     /\ IF w.mode = "encode" /\ acc[h].index = <<>> THEN Return(h, FALSE)
        ELSE /\ walk' = [walk EXCEPT ![h] = NextSubset([w EXCEPT !.todo = todo])]
             /\ UNCHANGED last
     /\ acc' = IF w.mode = "encode" THEN acc
               ELSE [acc EXCEPT ![h] = [@ EXCEPT !.values = <<>>, !.index = <<>>]]
     /\ UNCHANGED <<arrays, cache, msg, seen, meant, program>>

EndSubset(h) ==
  LET w == walk[h]
      a == acc[h]
      kept == [a EXCEPT !.index = Append(@, w.edi),
                        !.values = IF w.mode = "new" THEN @
                                   ELSE IF msg[h].compressed THEN w.dval ELSE Append(@, w.dval)]
      finished == w.todo = <<>>
      again == [Idle EXCEPT !.pc = "begin"]
      subsets == Chosen(h)
      keys == CreateKeys([array |-> Array(h), index |-> kept.index, values |-> kept.values,
                          compressed |-> msg[h].compressed])
  IN /\ w.pc = "walk" /\ w.i > Len(Array(h))
     /\ acc' = [acc EXCEPT ![h] =
                 CASE w.mode = "encode" -> a
                   [] w.mode = "decode" /\ finished -> [kept EXCEPT !.doDecode = FALSE, !.keys = keys]
                   [] OTHER -> [kept EXCEPT !.doDecode = @ /\ ~finished]]
     /\ CASE ~finished -> walk' = [walk EXCEPT ![h] = NextSubset(w)] /\ UNCHANGED last
          [] finished /\ w.mode = "new" -> /\ walk' = [walk EXCEPT ![h] = again]
                                           /\ UNCHANGED last
          [] OTHER -> Return(h, TRUE)
     /\ msg' = IF finished /\ w.mode # "decode"
               THEN [msg EXCEPT ![h].data = w.out,
                                ![h].subsets = IF w.mode = "new" THEN @ ELSE Len(subsets)]
               ELSE msg
     /\ seen' = IF finished /\ w.mode = "decode" THEN [seen EXCEPT ![h] = meant[h]] ELSE seen
     /\ meant' = IF finished /\ w.mode = "encode"
                 THEN [meant EXCEPT ![h] = [k \in DOMAIN subsets |-> seen[h][subsets[k]]]]
                 ELSE meant
     /\ UNCHANGED <<arrays, cache, program>>

Walk(h) == \/ Expanding(h) \/ Publish(h) \/ Begin(h) \/ EndSubset(h)
           \/ DataElement(h) \/ Replication(h) \/ ChangeReference(h) \/ Characters(h)
           \/ Marker(h) \/ BitmapOperator(h)

Call(h) == \/ Decode(h) \/ Reopen(h)
           \/ \E list \in Lists : Encode(h, list)
           \/ \E t \in program[h].asks : NewData(h, t)
           \/ \E s \in DOMAIN seen[h] : \E p \in DOMAIN Shown(seen[h][s]) :
                   \E v \in {Missing, Shown(seen[h][s])[p].d.reference} : SetValue(h, s, p, v)

Next == \E h \in Handles : Walk(h) \/ Call(h)

Spec == Init /\ [][Next]_vars

(***************************************************************************)
(* Properties.                                                             *)
(***************************************************************************)
\* A value a program reads, at position p of subset s.
Value(h, s, p) ==
  LET cell == acc[h].values[p]
  IN IF ~msg[h].compressed THEN acc[h].values[s][p]
     ELSE IF Len(cell) = 1 THEN cell[1] ELSE cell[s]

AtEase(h) == walk[h].pc = "idle"

(***************************************************************************)
(* The decoder finds, in every subset, each element of the template in its *)
(* place with the value the message gives it: nested replications, empty   *)
(* ones too, operators, new reference values and bitmaps included; and it  *)
(* goes on showing what the program set.                                   *)
(***************************************************************************)
DecodedRight ==
  \A h \in Handles : AtEase(h) =>
    /\ last[h].op = "decode" => last[h].ok
    /\ seen[h] # <<>> /\ msg[h].extract = <<>> =>
         /\ Len(acc[h].index) = IF msg[h].compressed THEN 1 ELSE Len(seen[h])
         /\ \A s \in DOMAIN seen[h] :
              LET shown == Shown(seen[h][s])
                  index == acc[h].index[IF msg[h].compressed THEN 1 ELSE s]
              IN /\ Len(index) = Len(shown)
                 /\ \A p \in DOMAIN shown : /\ Array(h)[index[p]].code = shown[p].code
                                            /\ Value(h, s, p) = shown[p].value

(***************************************************************************)
(* A program finds each element once.  One that is about others is an      *)
(* attribute of them and of no other: the field associated with the next   *)
(* element, what such fields signify, the quality values and markers of a  *)
(* bitmap, wherever the elements it speaks of are; a second of a name is   *)
(* an attribute of the first.  Any other element has a key of its own, in  *)
(* the order of the message, and every key has the name of what it is of.  *)
(*                                                                         *)
(* Bitmaps are followed in the first subset only: the walk of the later    *)
(* ones starts where that of the first did.  And none of the elements that *)
(* a bitmap speaks of may be a 031021, which has no key to be counted, or  *)
(* a text of 205YYY, which has one although it is no element.              *)
(***************************************************************************)
RECURSIVE Owner(_, _)
Owner(attributes, x) ==   \* of attribute x: past the ones of its name
  LET same == {y \in attributes : y.id = x.of /\ y.name = x.name}
  IN IF same = {} THEN x.of ELSE Owner(attributes, CHOOSE y \in same : TRUE)

Followed(h, s, p) ==
  LET shown == Shown(seen[h][s])
  IN HasBitmap(shown, p) =>
       /\ s = 1
       /\ \A q \in Min(Range(SpokenOf(SubSeq(shown, 1, p)).at)) .. p :
            shown[q].code # 31021 /\ shown[q].code \div 1000 # 205

KeysOfSubset(h, s) ==
  LET keys == acc[h].keys
      shown == Shown(seen[h][s])
      ids == [p \in DOMAIN shown |-> <<s, p, "own">>]
      about(p) == {ids[q] : q \in About(shown, p)}
      owners(p) == {Owner(keys.attributes, x) : x \in {y \in keys.attributes : y.id = ids[p]}}
      free(p) == /\ about(p) = {} /\ shown[p].code # 31021
                 /\ shown[p].d.type # "unknown"
      name(id) == CASE shown[id[2]].kind = "operator" -> {OperatorName}
                    [] id[3] = "copy" -> {shown[q].code : q \in About(shown, id[2])}
                    [] OTHER -> {shown[id[2]].code}
      ofElements == SelectSeq(keys.list, LAMBDA key : key.id[1] = s /\ key.id[2] # 0)
      own == SelectSeq(ofElements, LAMBDA key : key.id[3] = "own")
  IN /\ \A p \in DOMAIN shown : Followed(h, s, p) => owners(p) = about(p)
     /\ [k \in DOMAIN own |-> own[k].id] = SelectSeq(ids, LAMBDA id : free(id[2]))
     /\ \A key \in Range(ofElements) : Followed(h, s, key.id[2]) => key.name \in name(key.id)

KeysRight ==
  \A h \in Handles : AtEase(h) /\ seen[h] # <<>> /\ msg[h].extract = <<>> =>
    /\ \A x, y \in acc[h].keys.attributes : x.of = y.of /\ x.name = y.name => x = y
    /\ \A s \in IF msg[h].compressed THEN {1} ELSE DOMAIN seen[h] : KeysOfSubset(h, s)

(***************************************************************************)
(* The data section says what it should: the message as it came, the       *)
(* values in the order and width of the template once they were packed,    *)
(* the subsets that were extracted, missing values for a new template.     *)
(***************************************************************************)
PackedRight ==
  \A h \in Handles :
    AtEase(h) => /\ last[h].op \in {"encode", "new"} => last[h].ok
                 /\ Len(meant[h]) = msg[h].subsets
                 /\ Carries(msg[h].data, meant[h], msg[h].compressed)
=============================================================================
