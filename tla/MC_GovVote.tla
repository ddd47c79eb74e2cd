----------------------------- MODULE MC_GovVote -----------------------------
(* A wallet with three scripts: a1 staked inside the window, a2 staked    *)
(* before it, a3 a P2SH coinstake output; a4 is a foreign output.         *)
EXTENDS GovVote

CONSTANTS a1, a2, a3, a4, v1, v2, f1

MCOutputs ==
    {[addr |-> a1, coinstake |-> TRUE,  mine |-> TRUE,  p2sh |-> FALSE, inWindow |-> TRUE],
     [addr |-> a2, coinstake |-> TRUE,  mine |-> TRUE,  p2sh |-> FALSE, inWindow |-> FALSE],
     [addr |-> a3, coinstake |-> TRUE,  mine |-> TRUE,  p2sh |-> TRUE,  inWindow |-> TRUE],
     [addr |-> a4, coinstake |-> TRUE,  mine |-> FALSE, p2sh |-> FALSE, inWindow |-> TRUE],
     [addr |-> a1, coinstake |-> FALSE, mine |-> TRUE,  p2sh |-> FALSE, inWindow |-> TRUE]}

MCWeight == [a \in {a1, a2, a3, a4} |-> IF a = a1 THEN 2 ELSE 1]

MCAllKeys == {a1, a2, a3}

MCKeyMissing == {a1}
=============================================================================
