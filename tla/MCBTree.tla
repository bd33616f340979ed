------------------------------ MODULE MCBTree ------------------------------
(***************************************************************************)
(* What the runs of the B-tree do, and what a cache slot may hold.         *)
(***************************************************************************)
EXTENDS BTreeProperties

Inserting(keys) ==
    [i \in DOMAIN keys |-> [kind |-> "insert", key |-> keys[i], size |-> 16376]]
Removing(keys) ==
    [i \in DOMAIN keys |-> [kind |-> "remove", key |-> keys[i], size |-> 0]]

Ascending(n) == [i \in 1 .. n |-> i]
After(calls, n, more) == [calls |-> calls, keys |-> 1 .. n, more |-> more]

Tall == Inserting(Ascending(24)) \o Removing(<<1, 2, 11, 12>>)

Six       == {After(<<>>, 6, 6)}
TwoLevels == {After(Inserting(Ascending(4)), 6, 2)}
LowAndTall == {After(<<>>, 6, 6), After(Tall, 24, 2)}

Filled(k) == [i \in Slots |-> k]
Zeros     == {Filled(0)}
ZeroOrOld == {Filled(0), Filled(4)}
=============================================================================
