----------------------------- MODULE MCFieldset -----------------------------
(* Instances of Fieldset for TLC: two good files, one with a message whose
   last key cannot be read, one with a damaged message and one that is not
   there. *)
EXTENDS Fieldset, TLC

CONSTANTS a, b, odd, bad, none, step, level, date, name

\* No message has a date, and one has no name.
Msg(x, y) ==
    [k \in {step, level, date, name} |->
        CASE k = step -> x
          [] k = level -> y
          [] k = date -> NotFound
          [] k = name -> IF x = 1 /\ y = 1 THEN NotFound ELSE 2 - x]

MCFile == {a, b, odd, bad, none}
MCContents ==
    [f \in MCFile |->
        CASE f = a -> <<Msg(2, 1), Msg(0, 0), Msg(0, NotFound)>>
          [] f = b -> <<Msg(1, 1)>>
          [] f = odd -> <<Msg(1, 0), Msg(2, Unreadable), Msg(0, 0)>>
          [] f = bad -> <<Msg(0, 0), Damaged, Msg(1, 1)>>
          [] f = none -> <<>>]
MCFileLists == {<<>>, <<a, b>>, <<odd>>, <<bad>>, <<a, none>>}
MCKeyLists == {<<>>, <<step, name, level>>}
MCOrderBys ==
    {<<>>, <<<<level, -1>>, <<step, 1>>>>, <<<<name, 1>>, <<date, 1>>, <<step, -1>>>>}

\* What InOrderCorrect supposes of the values is so of these.
ASSUME NearAssumption == ValuesNear

(* The fieldsets are alike. *)
Symmetry == Permutations(Set)
=============================================================================
