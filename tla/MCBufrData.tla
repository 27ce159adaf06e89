----------------------------- MODULE MCBufrData -----------------------------
(***************************************************************************)
(* Messages for BufrData, small enough to be walked through: each template *)
(* is there for a way the walk goes, with the counts, bits and reference   *)
(* values of its subsets.                                                  *)
(***************************************************************************)
EXTENDS BufrData

Number(width, reference) == [type |-> "long", width |-> width, reference |-> reference, scale |-> 0]
Of(type, width) == [type |-> type, width |-> width, reference |-> 0, scale |-> 0]

MCElements == (1001 :> Number(4, 0)) @@ (12001 :> Number(4, -2)) @@ (1015 :> Of("string", 8))
              @@ (20003 :> Of("table", 3)) @@ (31000 :> Number(1, 0)) @@ (31001 :> Number(3, 0))
              @@ (31021 :> Of("table", 3)) @@ (31031 :> Of("flag", 1)) @@ (33007 :> Number(3, 0))
MCTableD == 301001 :> <<1001, 12001>> @@ 301002 :> <<301001, 101002, 20003>>

\* Values that differ from place to place, some of them missing; the third of
\* every three is alike in all subsets.
Some(slot, p, s) ==
  LET top == AllOnes(slot.d.width)
  IN CASE slot.kind # "value" -> slot.value
       [] slot.kind = "value" /\ slot.d.type = "string" -> 10 * s + p
       [] slot.kind = "value" /\ slot.d.type # "string" /\ p % 3 = 0 -> slot.d.reference + 1
       [] slot.kind = "value" /\ slot.d.type # "string" /\ p % 3 = 1 /\ s = 2 /\ CanBeMissing(slot.d) ->
            Missing
       [] OTHER -> slot.d.reference + ((2 * p + 3 * (s \div 2)) % top)

Blank(slot) == IF slot.kind # "value" THEN slot.value
               ELSE IF slot.d.type = "string" THEN MissingString
               ELSE IF CanBeMissing(slot.d) THEN Missing
               ELSE slot.d.reference + AllOnes(slot.d.width)

\* subsets: for each subset its counts and bits.
Content(codes, subsets, refs) ==
  [s \in DOMAIN subsets |->
     LET slots == Slots(codes, subsets[s][1], subsets[s][2], refs)
     IN [p \in DOMAIN slots |-> [slots[p] EXCEPT !.value = Some(slots[p], p, s)]]]

\* t: the template, its subsets, its new reference values, compressed or not.
Holds(t, n) == [codes |-> t[1], content |-> Content(t[1], t[2], t[3]), compressed |-> t[4],
                calls |-> n, asks |-> {}]

Twice(x) == <<x, x>>

\* Sequences and the operators that change how an element is coded.
Operators == <<301001, 201130, 202129, 12001, 201000, 202000, 207001, 12001, 207000,
               204002, 31021, 12001, 20003, 204000, 206005, 1001, 12001,
               208002, 1015, 208000, 1015, 205001, 301002>>
\* Groups in groups, the inner one last or not.
Inner == <<104000, 31001, 12001, 101000, 31001, 20003, 1001>>
Middle == <<105000, 31001, 12001, 101000, 31001, 20003, 1001, 1001>>
Deep == <<109000, 31001, 12001, 105000, 31001, 20003, 101000, 31001, 301001, 1001, 20003>>
References == <<203004, 12001, 203255, 12001, 101002, 12001, 203000, 12001>>
Quality == <<12001, 20003, 1001, 222000, 236000, 101003, 31031, 101000, 31001, 33007>>
Replacing == <<12001, 20003, 1001, 223000, 236000, 101000, 31001, 31031, 101000, 31001, 223255,
               224000, 237000, 101002, 224255, 237255, 235000>>
Between == <<20003, 204002, 31021, 12001, 204000, 1001, 223000, 101003, 31031, 223255>>
\* Quality before any bitmap and twice after one, a local element.
Again == <<33007, 206003, 48001, 204002, 31021, 12001, 204000, 20003, 1001, 222000, 236000,
           101003, 31031, 101002, 33007, 222000, 237000, 101002, 33007>>
Difference == <<1001, 12001, 20003, 225000, 236000, 101002, 31031, 225255>>

None == <<>>
Plain == <<Inner, <<<< <<2, 0, 2>>, None>>, << <<2, 1, 0>>, None>>, << <<0>>, None>> >>, None, FALSE>>
Referring == <<References, <<<<None, None>>>>, <<-5>>, FALSE>>

Told == { <<Operators, Twice(<<None, None>>), None, FALSE>>,
          <<Operators, <<<<None, None>>, <<None, None>>, <<None, None>>>>, None, TRUE>>,
          Plain,
          <<Inner, Twice(<< <<2, 0, 1>>, None>>), None, TRUE>>,
          <<Middle, <<<< <<2, 0, 1>>, None>>, << <<1, 0>>, None>> >>, None, FALSE>>,
          <<Deep, <<<< <<2, 1, 0, 2, 1, 0>>, None>> >>, None, FALSE>>,
          <<References, Twice(<<None, None>>), <<-5>>, FALSE>>,
          <<Quality, <<<< <<2>>, <<1, 0, 0>> >>, << <<1>>, <<0, 1, 1>> >> >>, None, FALSE>>,
          <<Quality, Twice(<< <<1>>, <<1, 0, 1>> >>), None, TRUE>>,
          <<Replacing, <<<< <<3, 2>>, <<0, 1, 0>> >>, << <<3, 2>>, <<1, 0, 0>> >> >>, None, FALSE>>,
          <<Replacing, Twice(<< <<3, 2>>, <<0, 0, 1>> >>), None, TRUE>>,
          <<Again, <<<< None, <<0, 1, 0>> >>, << None, <<1, 0, 0>> >> >>, None, FALSE>>,
          <<Again, Twice(<< None, <<0, 1, 0>> >>), None, TRUE>>,
          <<Between, <<<< None, <<1, 1, 0>> >>, << None, <<1, 0, 1>> >> >>, None, FALSE>>,
          <<Difference, <<<< None, <<1, 0>> >> >>, None, FALSE>> }

MCLists == {None, <<2>>, <<3, 1>>}

\* The numbers of repetitions a program gives are all of the one kind 31001.
\* t: the template, counts, bits, new reference values, compressed or not, subsets.
Asks(t) ==
  LET slots == Slots(t[1], t[2], t[3], t[4])
      blank == [p \in DOMAIN slots |-> [slots[p] EXCEPT !.value = Blank(slots[p])]]
      all(x) == FlattenSeq([s \in 1 .. IF t[5] THEN 1 ELSE t[6] |-> x])
  IN [codes |-> t[1], subsets |-> t[6], compressed |-> t[5],
      counts |-> [c \in Factors |-> IF c = 31001 THEN all(t[2]) ELSE None],
      bits |-> all(t[3]), refs |-> IF t[4] = None THEN <<0>> ELSE t[4],
      content |-> [s \in 1 .. t[6] |-> blank]]

SameReference == <<References, None, None, <<-5>>, FALSE, 1>>
NewTemplates == { <<Operators, None, None, None, FALSE, 1>>,
                  <<Inner, <<2, 0, 2>>, None, None, FALSE, 2>>,
                  <<Inner, <<2, 1, 0>>, None, None, TRUE, 2>>,
                  <<References, None, None, <<-7>>, FALSE, 1>>,
                  <<Replacing, <<3, 2>>, <<0, 1, 0>>, None, FALSE, 1>>,
                  <<Replacing, <<3, 2>>, <<1, 0, 0>>, None, TRUE, 2>>,
                  <<Difference, None, <<1, 0>>, None, FALSE, 1>> }

\* One handle in use, or two that share a template, on one thread each.
MCHandles == {1, 2}
Solo(sc) == [h \in MCHandles |-> IF h = 1 THEN sc ELSE [sc EXCEPT !.calls = 0]]
Pair(sc) == [h \in MCHandles |-> sc]

MCScenarios ==
  {Solo(Holds(t, 3)) : t \in Told}
  \union {IF x = Plain THEN Solo([Holds(x, 3) EXCEPT !.asks = {Asks(t) : t \in NewTemplates}])
          ELSE Pair([Holds(x, 2) EXCEPT !.asks = {Asks(SameReference)}]) : x \in {Plain, Referring}}

\* Three groups in each other, the innermost one empty and last in the second.
Empty == <<108000, 31001, 12001, 104000, 31001, 20003, 101000, 31001, 1001, 20003>>
NestedScenarios == {Solo(Holds(<<Empty, <<<< <<2, 1, 0, 1, 1>>, None>> >>, None, FALSE>>, 1))}
=============================================================================
