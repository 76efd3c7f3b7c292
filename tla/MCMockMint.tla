----------------------------- MODULE MCMockMint -----------------------------
(***************************************************************************)
(* MockMint for TLC: a handful of outputs, the requests callers choose     *)
(* from, and the values a configuration picks for each constant.           *)
(***************************************************************************)
EXTENDS MockMint, SequencesExt

CONSTANTS a, b, c, d,    \* outputs callers name
          x, y, z,       \* the notes the preimages of g, h and k open
          g, h, k,       \* payment hashes
          s, t,          \* outputs the shares derive
          alice, bob, mint,
          cx, cy, cz, K, L,   \* cx and cy hold the key K, cz the key L
          SplitAmounts, MergeLimit

\* ---- what is derived from a preimage or a share
BearerOfHash == [hash \in Hash |-> CASE hash = g -> x [] hash = h -> y [] hash = k -> z]
KeyOfCx1 == [cx1 \in Cx1 |-> IF cx1 = cz THEN L ELSE K]
ShareNotes == [cx1 \in Cx1 |-> [i \in Index |-> IF cx1 = cz THEN t
                                               ELSE IF i = 0 THEN s ELSE d]]

\* Who alice and bob are makes no difference to any safety property.
Interchangeable == Permutations({alice, bob})

\* ---- notes the fixture credits
FundOne == [q \in Output |-> IF q = a THEN 4 ELSE 0]
FundTwo == [q \in Output |-> IF q = a THEN 3 ELSE IF q = b THEN 2 ELSE 0]

\* ---- requests
Blank == [k1 |-> << >>, opens |-> TRUE, pr |-> FALSE,
          p1 |-> None, p2 |-> None, amount |-> None]
Listed == SetToSeq(Output)
\* Any note alone, any two, one twice, and one pair in its other order.
Ascending == {p \in (1 .. Len(Listed)) \X (1 .. Len(Listed)) : p[1] < p[2]}
Lists == {<<q>> : q \in Output} \cup
         (IF MergeLimit < 2 THEN {}
          ELSE {<<Listed[p[1]], Listed[p[2]]>> : p \in Ascending}
                 \cup {<<b, b>>, <<a, b>>, <<b, a>>})
Melts == {[Blank EXCEPT !.k1 = list, !.pr = TRUE] : list \in Lists}
Merges == {[Blank EXCEPT !.k1 = list, !.p1 = p] : list \in Lists, p \in Output}
Splits == {[Blank EXCEPT !.k1 = list, !.p1 = p, !.p2 = o, !.amount = n] :
             list \in Lists, p, o \in Output, n \in SplitAmounts}
Malformed == {Blank,
              [Blank EXCEPT !.k1 = <<a>>],
              [Blank EXCEPT !.k1 = <<a>>, !.p1 = b, !.amount = 1],
              [Blank EXCEPT !.k1 = <<a>>, !.p1 = b, !.opens = FALSE]}
EveryRequest == Melts \cup Merges \cup Splits \cup Malformed
Transfers == {[Blank EXCEPT !.k1 = <<a>>, !.p1 = p] : p \in Output}

\* ---- fee schedules
Free == [base |-> 0, ppm |-> 0, toSat |-> FALSE, extra |-> 0]
Flat == [base |-> 1, ppm |-> 0, toSat |-> FALSE, extra |-> 0]
Proportionate == [base |-> 1, ppm |-> 200000, toSat |-> FALSE, extra |-> 0]
=============================================================================
