-------------------------- MODULE MCMultiRoundTrip --------------------------
(* Instances of MultiHandle and MultiRoundTrip for TLC: two fields, one of
   them with a local section. *)
EXTENDS MultiRoundTrip

CONSTANTS h1, h2, f1, f2

Sec(h, n) == [num |-> n, len |-> 5 + n, inherits |-> FALSE, id |-> <<h, n>>]
MCHandles == {[i \in 1..7 |-> Sec(h1, i)], <<Sec(h2, 1)>> \o [i \in 1..5 |-> Sec(h2, i + 2)]}

\* What may be found in the file of a broken buffer: nothing, a field and then a
\* section that is none, or a field without the bitmap it says it has.
Of7(n, inherits) == [num |-> n, len |-> 5 + n, inherits |-> inherits]
MCGarbage ==
    {<<>>,
     <<[edition |-> 2, sections |-> [i \in 1..7 |-> Of7(i, FALSE)] \o <<Of7(0, FALSE)>>]>>,
     <<[edition |-> 2, sections |-> [i \in 1..7 |-> Of7(i, i = 6)]]>>}
=============================================================================
