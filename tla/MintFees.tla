------------------------------ MODULE MintFees ------------------------------
(***************************************************************************)
(* A note of a wanted value is bought: the wallet finds the least payment  *)
(* that nets it under the fee the mint advertises (grossUpFee of           *)
(* tools/generate.mjs, whose results fees.json pins), the mint quotes and  *)
(* credits under the fee it charges, and gradeMintedValue of               *)
(* runner/index.mjs judges the note from the outside.                      *)
(***************************************************************************)
EXTENDS FeeSchedule

CONSTANTS
  Charges,      \* the fees mints charge
  Minimums,     \* opts.minSendableMsat
  Largest,      \* opts.maxSendableMsat
  Wants,        \* the values of notes wallets want
  SearchBound   \* bound on the mint's own search for its minimum

\* What a mint can be started with: a parser accepts no ppm of a whole, and a
\* dishonest mint withholds extra on top, or credits some back.
ASSUME ChargesAreFees ==
  Charges \subseteq [base : Nat, ppm : 0 .. Million - 1, toSat : BOOLEAN, extra : Int]
ASSUME WantsAreAmounts ==
  Wants \subseteq Nat /\ Minimums \subseteq Nat /\ Largest \in Nat
\* The bound cuts no search short: the code's has none, and a fee below a
\* whole leaves something of some payment.
ASSUME SearchIsWide ==
  /\ SearchBound \in Nat
  /\ \A s \in Charges :
       /\ \A m \in Minimums : m + s.base + 1 <= SearchBound
       /\ \E g \in 0 .. SearchBound : 2 * g <= SearchBound /\ applyFee(s, g) >= 1

VARIABLES
  fees,         \* opts: what this mint charges
  minimum,      \* opts: the least payment it is configured to take
  net,          \* the value the wallet wants
  lo, hi,       \* the wallet's search
  note,         \* what the note it bought is worth
  stage
feeVars == <<fees, minimum, net, lo, hi, note, stage>>

Stages == {"doubling", "halving", "found", "refused", "paid", "passed", "failed"}

\* The fee of the metadata says nothing of rounding or of extra.
advertised == [base |-> fees.base, ppm |-> fees.ppm, toSat |-> FALSE, extra |-> 0]

InitFees ==
  /\ fees \in Charges /\ minimum \in Minimums /\ net \in Wants
  /\ lo = 0 /\ hi = net + fees.base
  /\ note = 0
  /\ stage = IF net = 0 THEN "found" ELSE "doubling"

---------------------------------------------------------------------------
\* grossUpFee: an amount that nets enough, then the least one.
Double ==
  /\ stage = "doubling"
  /\ IF applyFee(advertised, hi) < net
     THEN hi' = 2 * hi /\ UNCHANGED stage
     ELSE stage' = "halving" /\ UNCHANGED hi
  /\ UNCHANGED <<fees, minimum, net, lo, note>>

middle == (lo + hi) \div 2
\* Faults: the search keeps the amount it has just ruled out; it takes one that
\* nets a msat less.
Halve_keeps ==
  /\ stage = "halving" /\ lo < hi
  /\ IF applyFee(advertised, middle) >= net
     THEN hi' = middle /\ UNCHANGED lo
     ELSE lo' = middle /\ UNCHANGED hi
  /\ UNCHANGED <<fees, minimum, net, note, stage>>
Halve_short ==
  /\ stage = "halving" /\ lo < hi
  /\ IF applyFee(advertised, middle) >= net - 1
     THEN hi' = middle /\ UNCHANGED lo
     ELSE lo' = middle + 1 /\ UNCHANGED hi
  /\ UNCHANGED <<fees, minimum, net, note, stage>>
Halve ==
  /\ stage = "halving" /\ lo < hi
  /\ IF applyFee(advertised, middle) >= net
     THEN hi' = middle /\ UNCHANGED lo
     ELSE lo' = middle + 1 /\ UNCHANGED hi
  /\ UNCHANGED <<fees, minimum, net, note, stage>>

Find ==
  /\ stage = "halving" /\ lo >= hi
  /\ stage' = "found"
  /\ UNCHANGED <<fees, minimum, net, lo, hi, note>>

\* /p/cb, whose invoice is then paid.
Minimum == minSendableMsat(fees, minimum, SearchBound)
Quoted(gross) ==
  gross > 0 /\ gross >= Minimum /\ gross <= Largest /\ applyFee(fees, gross) > 0
Buy ==
  /\ stage = "found"
  /\ IF Quoted(lo)
     THEN note' = applyFee(fees, lo) /\ stage' = "paid"
     ELSE stage' = "refused" /\ UNCHANGED note
  /\ UNCHANGED <<fees, minimum, net, lo, hi>>

\* gradeMintedValue: the formula is the most a note may be worth, the formula
\* with its fee rounded up to a sat the least.
\* Fault: any fee up to a sat more passes.
withinBand_loose ==
  LET exact == applyFee(advertised, lo)
  IN  note <= exact /\ note >= exact - MsatPerSat
withinBand ==
  LET exact == applyFee(advertised, lo)
      ceilinged == lo - CeilToSat(lo - exact)
  IN  note <= exact /\ note >= ceilinged
gradeMintedValue ==
  /\ stage = "paid"
  /\ stage' = IF withinBand THEN "passed" ELSE "failed"
  /\ UNCHANGED <<fees, minimum, net, lo, hi, note>>

Bought == stage \in {"refused", "passed", "failed"}
MintFeesStep == Double \/ Halve \/ Find \/ Buy \/ gradeMintedValue
FeesSpec == InitFees /\ [][MintFeesStep]_feeVars /\ WF_feeVars(MintFeesStep)

---------------------------------------------------------------------------
FeesTypeOK ==
  /\ fees \in Charges /\ minimum \in Minimums /\ net \in Wants
  /\ lo \in Nat /\ hi \in Nat /\ note \in Nat
  /\ stage \in Stages

\* grossUpFee returns the exact minimum: it nets the wanted value, not a msat
\* more, and a msat less does not.
GrossUpExact ==
  stage \notin {"doubling", "halving"} =>
    /\ applyFee(advertised, lo) = net
    /\ net > 0 => lo > 0 /\ applyFee(advertised, lo - 1) < net

\* A mint that charges what it advertises sells the wallet the note it wanted,
\* or refuses it for its size; one that rounds its fee up to a sat sells a note
\* less than a sat short.
SoldAsWanted ==
  fees.extra = 0 =>
    /\ stage = "refused" /\ ~fees.toSat => net = 0 \/ lo < minimum \/ lo > Largest
    /\ stage \in {"paid", "passed", "failed"} =>
         note <= net /\ net - note < IF fees.toSat THEN MsatPerSat ELSE 1

\* The least a mint says it takes buys a note, and nothing less that it is
\* configured to take would.  Not so of a mint that rounds its fee up: what it
\* nets then falls at every sat the fee grows by.  (Said where it is asked.)
MinimumBuysANote ==
  stage = "found" /\ ~fees.toSat =>
    /\ applyFee(fees, Minimum) > 0
    /\ Minimum > minimum => applyFee(fees, Minimum - 1) = 0

\* The grader fails no mint for rounding, and every mint that takes a msat more
\* than rounding does or credits one more than the formula.
GradedFairly ==
  /\ stage = "failed" => fees.extra # 0
  /\ stage = "passed" => IF fees.toSat THEN fees.extra <= 0 ELSE fees.extra >= 0

\* The search ends, whatever fee below a whole a mint chooses.
WalletAnswered == <>Bought
=============================================================================
