------------------------------ MODULE MCIndex ------------------------------
(* Instances of Index for TLC: files with two messages, with one, with a message
   whose second key cannot be decoded, with one of a later edition of BUFR, and
   one that is not there. *)
EXTENDS Index

CONSTANTS two, one, odd, later, none, step, level

Msg(x, y) ==
    [k \in {step, level, TotalLength} |-> IF k = step THEN x ELSE IF k = level THEN y ELSE 0]

NoLength(x, y) == [Msg(x, y) EXCEPT ![TotalLength] = Unreadable]

MCContents ==
    [n \in {two, one, odd, later} |->
        CASE n = two -> <<Msg(0, 0), Msg(0, 1)>>
          [] n = one -> <<Msg(0, 1)>>
          [] n = odd -> <<Msg(0, 1), Msg(1, Unreadable), Msg(0, 1)>>
          [] n = later -> <<NoLength(0, 1)>>]
MCKeyLists == {<<step, level>>}
=============================================================================
