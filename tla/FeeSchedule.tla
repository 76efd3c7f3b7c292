---------------------------- MODULE FeeSchedule ----------------------------
(***************************************************************************)
(* The mint fee of mock-mint/index.mjs: what a gross payment nets, and the *)
(* smallest gross the pay callback accepts.  All amounts are millisatoshi. *)
(* A schedule is a record: base and ppm are what the SERVICE advertises,   *)
(* toSat rounds the fee up to a whole sat, extra is withheld on top.       *)
(***************************************************************************)
EXTENDS Integers

CONSTANTS
  Million,      \* the whole a ppm is a part of: 10^6, scaled down in some runs
  MsatPerSat    \* 1000, likewise

ASSUME Units == Million \in Nat \ {0} /\ MsatPerSat \in Nat \ {0}

Schedule == [base : Nat, ppm : Nat, toSat : BOOLEAN, extra : Nat]

\* The proportional part, split at a million so no product is ever rounded.
Proportional(s, gross) ==
  (gross \div Million) * s.ppm + ((gross % Million) * s.ppm) \div Million

\* Fault: a fee of whole sats is rounded up too.
CeilToSat_next(fee) == (fee \div MsatPerSat + 1) * MsatPerSat
CeilToSat(fee) == ((fee + MsatPerSat - 1) \div MsatPerSat) * MsatPerSat

\* Fault: the base fee is never withheld.
feeOf_noBase(s, gross) == Proportional(s, gross) + s.extra
feeOf(s, gross) ==
  LET exact == s.base + Proportional(s, gross)
  IN  (IF s.toSat THEN CeilToSat(exact) ELSE exact) + s.extra

\* What a payment of gross buys: never negative.
applyFee(s, gross) ==
  IF feeOf(s, gross) > gross THEN 0 ELSE gross - feeOf(s, gross)

\* The upper end of the search: start, doubled until it nets something.  The
\* code doubles without limit; bound caps it here.
SearchCeiling(s, start, bound) ==
  LET hi[n \in 0 .. bound] ==
        IF applyFee(s, n) >= 1 \/ 2 * n > bound THEN n ELSE hi[2 * n]
  IN  hi[start]

\* Binary search for the smallest gross netting at least 1 msat.
\* Fault: the last gross that nets nothing.
BinarySearch_under(s, top) ==
  LET least[span \in (0 .. top) \X (0 .. top)] ==
        LET lo == span[1]
            hi == span[2]
            mid == (lo + hi) \div 2
        IN  IF lo + 1 >= hi THEN lo
            ELSE IF applyFee(s, mid) >= 1 THEN least[<<lo, mid>>] ELSE least[<<mid, hi>>]
  IN  least[<<0, top>>]
BinarySearch(s, top) ==
  LET least[span \in (0 .. top) \X (0 .. top)] ==
        LET lo == span[1]
            hi == span[2]
            mid == (lo + hi) \div 2
        IN  IF lo >= hi THEN lo
            ELSE IF applyFee(s, mid) >= 1 THEN least[<<lo, mid>>] ELSE least[<<mid + 1, hi>>]
  IN  least[<<0, top>>]

\* The minSendable a payRequest advertises and the pay callback enforces.
minSendableMsat(s, configured, bound) ==
  LET least == BinarySearch(s, SearchCeiling(s, configured + s.base + 1, bound))
  IN  IF configured >= least THEN configured ELSE least
=============================================================================
