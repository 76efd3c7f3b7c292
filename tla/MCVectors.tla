----------------------------- MODULE MCVectors ------------------------------
(***************************************************************************)
(* Vectors for TLC.  A whole of ten parts and a sat of four msat are small *)
(* enough for every fee schedule below a whole, base fees up to two sats.  *)
(***************************************************************************)
EXTENDS Vectors

EveryCharge == [base : 0 .. 4, ppm : 0 .. Million - 1, toSat : BOOLEAN, extra : -1 .. 1]
Values == 0 .. 9
Configured == {1, 5}

Funds == [A |-> 4, B |-> 3]
Inputs == {<<bearer("A")>>, <<bearer("B")>>, <<bearer("A"), bearer("B")>>,
           <<bearer("B"), bearer("A")>>, <<bearer("P")>>}
Outputs == {cp1("P"), cp1("Q")}
Rotates == {[ask |-> "cb", k1s |-> k1s, p1 |-> p, p2 |-> NoRef, amount |-> NoAmount] :
              k1s \in Inputs, p \in Outputs \cup {NoRef}}
Splits == {[ask |-> "cb", k1s |-> k1s, p1 |-> p, p2 |-> o, amount |-> m] :
             k1s \in {<<bearer("A")>>, <<bearer("A"), bearer("B")>>, <<bearer("P")>>},
             p \in Outputs, o \in Outputs \cup {NoRef}, m \in {1, 3}}
Requests == Rotates \cup Splits
HonestMint == {"none"}
=============================================================================
