---------------------------- MODULE VectorsProofs ----------------------------
(***************************************************************************)
(* What the vectors pin down, for every fee below a whole and every        *)
(* amount, and for every sequence of requests.                             *)
(***************************************************************************)
EXTENDS MintFees, RetryVectors, NumberTheorems

(***************************************************************************)
(* The fees: the search of the wallet, of the mint, and the band.          *)
(***************************************************************************)
Fee == [base : Nat, ppm : 0 .. Million - 1, toSat : BOOLEAN, extra : Int]

\* The split that keeps every product small computes the very fee of the
\* formula: gross * ppm over a million, rounded down.
THEOREM SplitIsTheFormula ==
  ASSUME NEW s \in Fee, NEW g \in Nat
  PROVE  Proportional(s, g) = (g * s.ppm) \div Million
<1> DEFINE q == g \div Million
           r == g % Million
           p == s.ppm
<1>1. Million \in Whole /\ p \in Nat
  BY Units, SMT DEF Fee, Whole
<1>2. q \in Nat /\ r \in Nat /\ g = Million * q + r
  BY <1>1, DivMod
<1> HIDE DEF q, r, p
<1>3. r * p \in Nat /\ q * p \in Nat
  BY <1>1, <1>2, SMT
<1>4. g * p = r * p + Million * (q * p)
  BY <1>1, <1>2, SMT DEF Whole
<1>5. (r * p + Million * (q * p)) \div Million = (r * p) \div Million + q * p
  BY <1>1, <1>3, DivShifts
<1>6. (r * p) \div Million \in Nat
  BY <1>1, <1>3, DivMod
<1>7. Proportional(s, g) = q * p + (r * p) \div Million
  BY DEF Proportional, q, r, p
<1>8. Proportional(s, g) = (g * p) \div Million
  BY <1>3, <1>4, <1>5, <1>6, <1>7, SMT
<1> QED BY <1>8 DEF p

\* The fee grows with the payment, and never faster than it.
LEMMA FeeGrows ==
  ASSUME NEW s \in Fee, NEW x \in Nat, NEW y \in Nat, x <= y
  PROVE  /\ Proportional(s, x) \in Nat /\ Proportional(s, y) \in Nat
         /\ Proportional(s, x) <= Proportional(s, y)
         /\ Proportional(s, y) <= Proportional(s, x) + (y - x)
<1> DEFINE p == s.ppm
           d == y - x
<1>1. Million \in Whole /\ p \in Nat /\ p <= Million /\ d \in Nat /\ y = x + d
  BY Units, SMT DEF Fee, Whole
<1> HIDE DEF p, d
<1>2. /\ x * p \in Nat /\ y * p \in Nat /\ x * p <= y * p
      /\ x * p + Million * d \in Nat /\ y * p <= x * p + Million * d
  <2>1. x * p \in Nat /\ d * p \in Nat /\ Million * d \in Nat
    BY <1>1, SMT DEF Whole
  <2>2. d * p <= Million * d
    BY <1>1, SMT DEF Whole
  <2>3. y * p = x * p + d * p
    BY <1>1, SMT
  <2> QED BY <2>1, <2>2, <2>3, SMT
<1>3. (x * p) \div Million \in Nat /\ (y * p) \div Million \in Nat
  BY <1>1, <1>2, DivMod
<1>4. (x * p) \div Million <= (y * p) \div Million
  BY <1>1, <1>2, DivGrows
<1>5. (y * p) \div Million <= (x * p + Million * d) \div Million
  BY <1>1, <1>2, DivGrows
<1>6. (x * p + Million * d) \div Million = (x * p) \div Million + d
  BY <1>1, <1>2, DivShifts
<1>7. Proportional(s, x) = (x * p) \div Million /\ Proportional(s, y) = (y * p) \div Million
  BY SplitIsTheFormula DEF p
<1> QED BY <1>1, <1>3, <1>4, <1>5, <1>6, <1>7, SMT DEF d

\* What a payment buys grows with it, msat for msat at most, if the mint does
\* not round its fee.
THEOREM NetGrows ==
  ASSUME NEW s \in Fee, ~s.toSat, NEW x \in Nat, NEW y \in Nat, x <= y
  PROVE  /\ applyFee(s, x) \in Nat /\ applyFee(s, y) \in Nat
         /\ applyFee(s, x) <= applyFee(s, y)
         /\ applyFee(s, y) <= applyFee(s, x) + (y - x)
<1>1. /\ Proportional(s, x) \in Nat /\ Proportional(s, y) \in Nat
      /\ Proportional(s, x) <= Proportional(s, y)
      /\ Proportional(s, y) <= Proportional(s, x) + (y - x)
  BY FeeGrows
<1>2. s.base \in Nat /\ s.extra \in Int
  BY DEF Fee
<1>3. /\ feeOf(s, x) = s.base + Proportional(s, x) + s.extra
      /\ feeOf(s, y) = s.base + Proportional(s, y) + s.extra
  BY DEF feeOf
<1> HIDE DEF Fee
<1>4. /\ feeOf(s, x) \in Int /\ feeOf(s, y) \in Int
      /\ feeOf(s, x) <= feeOf(s, y) /\ feeOf(s, y) <= feeOf(s, x) + (y - x)
  BY <1>1, <1>2, <1>3, SMT
<1> QED BY <1>4, SMT DEF applyFee

---------------------------------------------------------------------------
\* What the loops of the search keep: hi nets enough once it was found to,
\* and the amount below lo does not.
Nets(gross) == applyFee(advertised, gross)
Searching ==
  /\ net = 0 => stage \notin {"doubling", "halving"} /\ lo = 0
  /\ stage = "doubling" => lo = 0 /\ hi > 0
  /\ net > 0 /\ stage # "doubling" => lo <= hi /\ Nets(hi) >= net
  /\ lo > 0 => Nets(lo - 1) < net
  /\ stage \notin {"doubling", "halving"} => net = 0 \/ lo = hi

\* A note is worth what the mint credited, and judged by its band.
Priced ==
  /\ stage \in {"paid", "passed", "failed"} => note = applyFee(fees, lo) /\ note > 0
  /\ stage = "refused" => ~Quoted(lo)
  /\ stage = "passed" => withinBand
  /\ stage = "failed" => ~withinBand

FeesInv == FeesTypeOK /\ Searching /\ Priced

\* What advertisedFees publishes is a schedule without the fees it leaves out.
LEMMA Advertised ==
  ASSUME FeesTypeOK
  PROVE  /\ advertised \in Fee /\ ~advertised.toSat /\ advertised.extra = 0
         /\ fees \in Fee /\ advertised.base = fees.base /\ advertised.ppm = fees.ppm
<1>1. fees \in Fee
  BY ChargesAreFees DEF FeesTypeOK, Fee
<1> QED BY <1>1 DEF advertised, Fee

\* A fee rounded up to a sat is no less than it was, and no whole sat more.
LEMMA RoundedUp ==
  ASSUME NEW fee \in Nat
  PROVE  /\ CeilToSat(fee) \in Nat /\ fee <= CeilToSat(fee)
         /\ CeilToSat(fee) < fee + MsatPerSat
<1> DEFINE x == fee + MsatPerSat - 1
           a == x \div MsatPerSat
           b == x % MsatPerSat
<1>1. MsatPerSat \in Whole /\ MsatPerSat \in Nat /\ MsatPerSat > 0 /\ x \in Nat
  BY Units, SMT DEF Whole
<1>2. a \in Nat /\ b \in Nat /\ b < MsatPerSat /\ x = MsatPerSat * a + b
  BY <1>1, DivMod
<1>3. CeilToSat(fee) = a * MsatPerSat
  BY DEF CeilToSat
<1>4. x - fee = MsatPerSat - 1
  BY <1>1, SMT
<1> HIDE DEF a, b, x
<1>5. a * MsatPerSat = MsatPerSat * a /\ MsatPerSat * a \in Nat
  BY <1>1, <1>2, SMT
<1> QED BY <1>1, <1>2, <1>3, <1>4, <1>5, SMT

\* Any mint nets a natural number of msat.
LEMMA NetsNaturals ==
  ASSUME NEW s \in Fee, NEW gross \in Nat
  PROVE  applyFee(s, gross) \in Nat /\ feeOf(s, gross) \in Int
<1>1. Proportional(s, gross) \in Nat /\ s.base \in Nat /\ s.extra \in Int
  BY FeeGrows DEF Fee
<1>2. CeilToSat(s.base + Proportional(s, gross)) \in Nat
  BY <1>1, RoundedUp
<1>3. feeOf(s, gross) \in Int
  BY <1>1, <1>2 DEF feeOf
<1> QED BY <1>3 DEF applyFee

\* grossUp starts from a bound that is worth the amount wanted.
LEMMA SearchBegins == InitFees => FeesInv
<1> SUFFICES ASSUME InitFees PROVE FeesInv
  OBVIOUS
<1>1. fees.base \in Nat /\ net \in Nat /\ hi \in Nat
  BY ChargesAreFees, WantsAreAmounts DEF InitFees
<1>2. FeesTypeOK
  BY <1>1 DEF InitFees, FeesTypeOK, Stages
<1>3. Searching
  BY <1>1 DEF InitFees, Searching
<1>4. Priced
  BY DEF InitFees, Priced
<1> QED BY <1>2, <1>3, <1>4 DEF FeesInv

\* Each halving keeps the answer between the bounds.
LEMMA SearchGoesOn == FeesInv /\ [MintFeesStep]_feeVars => FeesInv'
<1> SUFFICES ASSUME FeesInv, [MintFeesStep]_feeVars
             PROVE  FeesInv'
  OBVIOUS
<1> USE DEF FeesInv
<1>1. /\ lo \in Nat /\ hi \in Nat /\ net \in Nat /\ note \in Nat /\ fees \in Fee
      /\ stage \in Stages
  BY WantsAreAmounts, Advertised DEF FeesTypeOK
<1>2. \A gross \in Nat : Nets(gross) \in Nat
  BY Advertised, NetsNaturals DEF Nets
<1>3. CASE UNCHANGED feeVars
  BY <1>3 DEF feeVars, FeesTypeOK, Searching, Priced, Nets, advertised, withinBand, Quoted, Minimum
<1>4. CASE Double
  <2>1. /\ hi' \in Nat /\ stage' \in Stages /\ stage = "doubling"
        /\ hi > 0 /\ hi' > 0 /\ net > 0 /\ lo = 0
        /\ stage' = "doubling" \/ (stage' = "halving" /\ hi' = hi /\ Nets(hi) >= net)
    BY <1>1, <1>2, <1>4, SMT DEF Double, Searching, Stages, Nets
  <2>2. Nets(hi)' = Nets(hi')
    BY <1>4 DEF Double, Nets, advertised
  <2>3. FeesTypeOK'
    BY <1>4, <2>1 DEF Double, FeesTypeOK
  <2>4. Searching'
    BY <1>1, <1>4, <2>1, <2>2 DEF Double, Searching
  <2>5. Priced'
    BY <2>1 DEF Priced
  <2> QED BY <2>3, <2>4, <2>5
<1>5. CASE Halve
  <2>1. /\ stage = "halving" /\ stage' = "halving" /\ lo < hi /\ net > 0 /\ net' = net
        /\ Nets(hi) >= net /\ (lo > 0 => Nets(lo - 1) < net)
    BY <1>1, <1>5 DEF Halve, Searching
  <2>2. middle \in Nat /\ lo <= middle /\ middle < hi
    BY <1>1, <2>1, SMT DEF middle
  <2>3. \/ Nets(middle) >= net /\ hi' = middle /\ lo' = lo
        \/ ~(Nets(middle) >= net) /\ lo' = middle + 1 /\ hi' = hi
    BY <1>5 DEF Halve, Nets
  <2>4. /\ lo' \in Nat /\ hi' \in Nat /\ lo' <= hi'
        /\ Nets(hi') >= net /\ (lo' > 0 => Nets(lo' - 1) < net)
    <3>1. CASE Nets(middle) >= net
      BY <1>1, <2>1, <2>2, <2>3, <3>1
    <3>2. CASE ~(Nets(middle) >= net)
      <4>1. Nets(middle) < net /\ lo' = middle + 1 /\ hi' = hi
        BY <1>1, <1>2, <2>2, <2>3, <3>2
      <4>2. lo' - 1 = middle /\ lo' <= hi /\ lo' \in Nat
        BY <1>1, <2>2, <4>1
      <4> QED BY <1>1, <2>1, <4>1, <4>2
    <3> QED BY <3>1, <3>2
  <2>5. Nets(hi)' = Nets(hi') /\ Nets(lo - 1)' = Nets(lo' - 1)
    BY <1>5 DEF Halve, Nets, advertised
  <2>6. FeesTypeOK'
    BY <1>5, <2>4 DEF Halve, FeesTypeOK
  <2>7. Searching'
    BY <1>1, <1>5, <2>1, <2>4, <2>5 DEF Searching
  <2>8. Priced'
    BY <2>1 DEF Priced
  <2> QED BY <2>6, <2>7, <2>8
<1>6. CASE Find
  <2>1. /\ stage = "halving" /\ stage' = "found" /\ lo = hi
    BY <1>1, <1>6, SMT DEF Find, Searching
  <2>2. Nets(hi)' = Nets(hi) /\ Nets(lo - 1)' = Nets(lo - 1)
    BY <1>6 DEF Find, Nets, advertised
  <2>3. FeesTypeOK'
    BY <1>6, <2>1 DEF Find, FeesTypeOK, Stages
  <2>4. Searching'
    BY <1>1, <1>6, <2>1, <2>2 DEF Find, Searching
  <2>5. Priced'
    BY <2>1 DEF Priced
  <2> QED BY <2>3, <2>4, <2>5
<1>7. CASE Buy
  <2>1. /\ stage = "found" /\ UNCHANGED <<fees, minimum, net, lo, hi>>
        /\ \/ stage' = "paid" /\ note' = applyFee(fees, lo) /\ applyFee(fees, lo) > 0
           \/ stage' = "refused" /\ note' = note /\ ~Quoted(lo)
    BY <1>7 DEF Buy, Quoted
  <2>2. Nets(hi)' = Nets(hi) /\ Nets(lo - 1)' = Nets(lo - 1)
    BY <2>1 DEF Nets, advertised
  <2>3. FeesTypeOK'
    BY <1>1, <2>1, NetsNaturals DEF FeesTypeOK, Stages
  <2>4. Searching'
    BY <2>1, <2>2 DEF Searching
  <2>5. Quoted(lo)' = Quoted(lo)
    BY <2>1 DEF Quoted, Minimum
  <2>6. Priced'
    BY <2>1, <2>5 DEF Priced
  <2> QED BY <2>3, <2>4, <2>6
<1>8. CASE gradeMintedValue
  <2>1. /\ stage = "paid" /\ UNCHANGED <<fees, minimum, net, lo, hi, note>>
        /\ stage' = IF withinBand THEN "passed" ELSE "failed"
    BY <1>8 DEF gradeMintedValue
  <2>2. /\ Nets(hi)' = Nets(hi) /\ Nets(lo - 1)' = Nets(lo - 1)
        /\ withinBand' <=> withinBand
    BY <2>1 DEF Nets, advertised, withinBand
  <2>3. FeesTypeOK'
    BY <2>1 DEF FeesTypeOK, Stages
  <2>4. Searching'
    BY <2>1, <2>2 DEF Searching
  <2>5. Priced'
    BY <2>1, <2>2 DEF Priced
  <2> QED BY <2>3, <2>4, <2>5
<1> QED BY <1>3, <1>4, <1>5, <1>6, <1>7, <1>8 DEF MintFeesStep

\* So it is between them throughout.
LEMMA SearchHolds == FeesSpec => []FeesInv
BY SearchBegins, SearchGoesOn, PTL DEF FeesSpec

---------------------------------------------------------------------------
\* What the search found is exact.
LEMMA GrossUpFinds == FeesInv => GrossUpExact
<1> SUFFICES ASSUME FeesInv, stage \notin {"doubling", "halving"}
             PROVE  /\ Nets(lo) = net
                    /\ net > 0 => lo > 0 /\ Nets(lo - 1) < net
  BY DEF GrossUpExact, Nets
<1> USE DEF FeesInv
<1>1. lo \in Nat /\ net \in Nat
  BY WantsAreAmounts DEF FeesTypeOK
<1>2. advertised \in Fee /\ ~advertised.toSat
  BY Advertised
<1>3. Nets(0) = 0
  <2>1. Proportional(advertised, 0) \in Nat /\ advertised.base \in Nat /\ advertised.extra = 0
    BY <1>2, FeeGrows, Advertised DEF Fee
  <2> QED BY <1>2, <2>1, SMT DEF Nets, applyFee, feeOf
<1>4. CASE net = 0
  BY <1>3, <1>4 DEF Searching
<1>5. CASE net > 0
  <2>1. lo = hi /\ Nets(lo) >= net /\ (lo > 0 => Nets(lo - 1) < net)
    BY <1>1, <1>5 DEF Searching
  <2>2. lo > 0
    BY <1>1, <1>3, <1>5, <2>1
  <2>3. /\ lo - 1 \in Nat /\ lo - 1 <= lo
    BY <1>1, <2>2
  <2>4. /\ Nets(lo - 1) \in Nat /\ Nets(lo) \in Nat
        /\ Nets(lo) <= Nets(lo - 1) + (lo - (lo - 1))
    BY <1>1, <1>2, <2>3, NetGrows DEF Nets
  <2> QED BY <1>1, <2>1, <2>2, <2>4
<1> QED BY <1>1, <1>4, <1>5

\* The wallet pays the least that nets what it wants, and gets exactly that.
THEOREM GrossUpIsExact == FeesSpec => []GrossUpExact
BY GrossUpFinds, SearchHolds, PTL

\* And no smaller payment would have done, not only the next.
THEOREM NothingLessDoes ==
  FeesSpec => [](stage \notin {"doubling", "halving"} =>
                   \A gross \in Nat : gross < lo => applyFee(advertised, gross) < net)
<1>1. FeesInv /\ stage \notin {"doubling", "halving"} =>
        \A gross \in Nat : gross < lo => applyFee(advertised, gross) < net
  <2> SUFFICES ASSUME FeesInv, NEW gross \in Nat, gross < lo
               PROVE  Nets(gross) < net
    BY DEF Nets
  <2>1. lo \in Nat /\ net \in Nat /\ lo - 1 \in Nat /\ gross <= lo - 1
    BY WantsAreAmounts DEF FeesInv, FeesTypeOK
  <2>2. Nets(lo - 1) < net
    BY <2>1 DEF FeesInv, Searching
  <2>3. Nets(gross) \in Nat /\ Nets(lo - 1) \in Nat /\ Nets(gross) <= Nets(lo - 1)
    BY <2>1, Advertised, NetGrows DEF Nets, FeesInv
  <2> QED BY <2>1, <2>2, <2>3
<1> QED BY <1>1, SearchHolds, PTL

\* No mint fails for rounding its fee up to a sat, none passes that withholds a
\* msat more than that or credits one more than it advertises.
THEOREM GradesFairly == FeesSpec => []GradedFairly
<1>1. FeesInv => GradedFairly
  <2> SUFFICES ASSUME FeesInv, stage \in {"passed", "failed"}
               PROVE  /\ stage = "failed" => fees.extra # 0
                      /\ stage = "passed" => IF fees.toSat THEN fees.extra <= 0
                                                           ELSE fees.extra >= 0
    BY DEF GradedFairly
  <2> DEFINE due == fees.base + Proportional(fees, lo)
             exact == applyFee(advertised, lo)
  <2>1. /\ lo \in Nat /\ note \in Nat /\ note > 0 /\ note = applyFee(fees, lo)
        /\ stage = "passed" => withinBand
        /\ stage = "failed" => ~withinBand
    BY DEF FeesInv, FeesTypeOK, Priced
  <2>2. fees \in Fee /\ advertised \in Fee
    BY Advertised DEF FeesInv
  <2>3. due \in Nat /\ fees.extra \in Int /\ fees.toSat \in BOOLEAN
    <3>1. lo <= lo
      BY <2>1
    <3>2. Proportional(fees, lo) \in Nat
      BY <2>1, <2>2, <3>1, FeeGrows
    <3> QED BY <2>2, <3>2 DEF Fee
  <2>4. feeOf(advertised, lo) = due
    BY <2>3 DEF feeOf, advertised, Proportional
  <2>5. exact = IF due > lo THEN 0 ELSE lo - due
    BY <2>4 DEF applyFee
  <2>6. feeOf(fees, lo) = (IF fees.toSat THEN CeilToSat(due) ELSE due) + fees.extra
    BY DEF feeOf
  <2>7. CeilToSat(due) \in Nat /\ due <= CeilToSat(due)
    BY <2>3, RoundedUp
  <2>8. note = lo - feeOf(fees, lo)
    BY <2>1 DEF applyFee
  <2>9. withinBand <=> note <= exact /\ note >= lo - CeilToSat(lo - exact)
    BY DEF withinBand
  <2> HIDE DEF due, exact
  <2>10. due <= lo => lo - exact = due
    BY <2>1, <2>3, <2>5
  <2>11. CASE ~fees.toSat
    <3>1. note = lo - (due + fees.extra)
      BY <2>6, <2>8, <2>11
    <3>2. fees.extra = 0 => withinBand
      BY <2>1, <2>3, <2>5, <2>7, <2>9, <2>10, <3>1, SMT
    <3>3. withinBand => fees.extra >= 0
      BY <2>1, <2>3, <2>5, <2>9, <3>1, SMT
    <3> QED BY <2>1, <2>11, <3>2, <3>3
  <2>12. CASE fees.toSat
    <3>1. note = lo - (CeilToSat(due) + fees.extra)
      BY <2>6, <2>8, <2>12
    <3>2. fees.extra = 0 => withinBand
      BY <2>1, <2>3, <2>5, <2>7, <2>9, <2>10, <3>1, SMT
    <3>3. withinBand => fees.extra <= 0
      <4> SUFFICES ASSUME withinBand, fees.extra > 0 PROVE FALSE
        BY <2>3, SMT
      <4>1. due <= lo /\ lo - exact = due
        BY <2>1, <2>3, <2>7, <2>10, <3>1, SMT
      <4> QED BY <2>1, <2>3, <2>7, <2>9, <3>1, <4>1, SMT
    <3> QED BY <2>1, <2>12, <3>2, <3>3
  <2> QED BY <2>11, <2>12
<1> QED BY <1>1, SearchHolds, PTL

---------------------------------------------------------------------------
(***************************************************************************)
(* The smallest payment a mint takes (minSendableMsat): what its two loops *)
(* compute.                                                                *)
(***************************************************************************)
\* The functions the two loops of minSendableMsat define.
Doubles(s, bound, h, D) ==
  h = [n \in D |-> IF applyFee(s, n) >= 1 \/ 2 * n > bound THEN n ELSE h[2 * n]]
Halves(s, h, D) ==
  h = [span \in D |->
         IF span[1] >= span[2] THEN span[1]
         ELSE IF applyFee(s, (span[1] + span[2]) \div 2) >= 1
              THEN h[<<span[1], (span[1] + span[2]) \div 2>>]
              ELSE h[<<(span[1] + span[2]) \div 2 + 1, span[2]>>]]
Spans(top) == (0 .. top) \X (0 .. top)
Narrow(top, d) == {span \in Spans(top) : span[2] <= span[1] + d}

\* The middle of a span that is not empty splits it in two that are narrower.
LEMMA MiddleSplits ==
  ASSUME NEW a \in Nat, NEW b \in Nat, a < b
  PROVE  /\ (a + b) \div 2 \in Nat /\ a <= (a + b) \div 2 /\ (a + b) \div 2 < b
BY SMT

\* A search of any width is a function: the definition by recursion has a value.
LEMMA HalvesUpTo ==
  ASSUME NEW s, NEW top \in Nat, NEW d \in Nat
  PROVE  \E h : Halves(s, h, Narrow(top, d))
<1> DEFINE T == {k \in Nat : \E h : Halves(s, h, Narrow(top, k))}
<1>1. 0 \in T
  <2> DEFINE h == [span \in Narrow(top, 0) |-> span[1]]
  <2>1. \A span \in Narrow(top, 0) : span[1] >= span[2]
    BY DEF Narrow, Spans
  <2>2. Halves(s, h, Narrow(top, 0))
    BY <2>1 DEF Halves
  <2> QED BY <2>2
<1>2. ASSUME NEW k \in Nat, k \in T PROVE k + 1 \in T
  <2>1. PICK g : Halves(s, g, Narrow(top, k))
    BY <1>2
  <2> DEFINE D == Narrow(top, k + 1)
             Body(f, span) ==
               IF span[1] >= span[2] THEN span[1]
               ELSE IF applyFee(s, (span[1] + span[2]) \div 2) >= 1
                    THEN f[<<span[1], (span[1] + span[2]) \div 2>>]
                    ELSE f[<<(span[1] + span[2]) \div 2 + 1, span[2]>>]
             h == [span \in D |-> Body(g, span)]
  <2>2. Narrow(top, k) \subseteq D
    BY DEF Narrow, Spans
  <2>3. ASSUME NEW span \in Narrow(top, k) PROVE h[span] = g[span]
    BY <2>1, <2>2 DEF Halves
  <2>4. ASSUME NEW span \in D, span[1] < span[2]
        PROVE  /\ <<span[1], (span[1] + span[2]) \div 2>> \in Narrow(top, k)
               /\ <<(span[1] + span[2]) \div 2 + 1, span[2]>> \in Narrow(top, k)
    <3>1. PICK a \in 0 .. top, b \in 0 .. top : span = <<a, b>>
      BY DEF Narrow, Spans
    <3>2. a \in Nat /\ b \in Nat /\ a < b /\ b <= a + (k + 1)
      BY <2>4, <3>1 DEF Narrow
    <3>3. PICK m \in Nat : m = (a + b) \div 2
      BY <3>2, MiddleSplits
    <3>4. a <= m /\ m < b
      BY <3>2, <3>3, MiddleSplits
    <3>5. m \in 0 .. top /\ m + 1 \in 0 .. top /\ m <= a + k /\ b <= m + 1 + k
      BY <3>2, <3>4
    <3>6. <<a, m>> \in Narrow(top, k) /\ <<m + 1, b>> \in Narrow(top, k)
      BY <3>5 DEF Narrow, Spans
    <3> QED BY <3>1, <3>3, <3>6
  <2>5. ASSUME NEW span \in D PROVE Body(g, span) = Body(h, span)
    <3>1. span[1] \in Nat /\ span[2] \in Nat
      BY DEF Narrow, Spans
    <3>2. CASE span[1] >= span[2]
      BY <3>2
    <3>3. CASE span[1] < span[2]
      <4> HIDE DEF h, D
      <4> QED BY <2>3, <2>4, <3>1, <3>3
    <3> QED BY <3>1, <3>2, <3>3
  <2>6. h = [span \in D |-> Body(h, span)]
    BY <2>5
  <2>7. Halves(s, h, D)
    <3> HIDE DEF h, D
    <3> QED BY <2>6 DEF Halves
  <2> HIDE DEF h, D
  <2> QED BY <2>7 DEF D
<1>3. Nat \subseteq T
  <2> HIDE DEF T
  <2> QED BY <1>1, <1>2, Counting
<1> QED BY <1>3

\* BinarySearch is one of those functions.
LEMMA BinarySearchHalves ==
  ASSUME NEW s, NEW top \in Nat
  PROVE  \E h : Halves(s, h, Spans(top)) /\ BinarySearch(s, top) = h[<<0, top>>]
<1> DEFINE h == CHOOSE f : Halves(s, f, Spans(top))
<1>1. Narrow(top, top) = Spans(top)
  BY DEF Narrow, Spans
<1>2. Halves(s, h, Spans(top))
  BY <1>1, HalvesUpTo
<1>3. BinarySearch(s, top) = h[<<0, top>>]
  BY DEF BinarySearch, Halves, Spans
<1> HIDE DEF h
<1> QED BY <1>2, <1>3

\* What the search of a span finds: nothing before it nets a msat, and it does
\* if the end of the span does.
Found(s, a, b, x) ==
  /\ x \in Nat /\ a <= x /\ x <= b
  /\ x > a => applyFee(s, x - 1) = 0
  /\ applyFee(s, b) >= 1 => applyFee(s, x) >= 1

\* And each of them finds the least amount that leaves a note.
LEMMA HalvingFinds ==
  ASSUME NEW s \in Fee, NEW top \in Nat, NEW h, Halves(s, h, Spans(top))
  PROVE  \A a, b \in 0 .. top : a <= b => Found(s, a, b, h[<<a, b>>])
<1> DEFINE T == {k \in Nat : \A a, b \in 0 .. top :
                                a <= b /\ b <= a + k => Found(s, a, b, h[<<a, b>>])}
<1>1. ASSUME NEW a \in 0 .. top, NEW b \in 0 .. top
      PROVE  h[<<a, b>>] =
               IF a >= b THEN a
               ELSE IF applyFee(s, (a + b) \div 2) >= 1 THEN h[<<a, (a + b) \div 2>>]
                    ELSE h[<<(a + b) \div 2 + 1, b>>]
  <2>1. <<a, b>> \in Spans(top) /\ <<a, b>>[1] = a /\ <<a, b>>[2] = b
    BY DEF Spans
  <2> QED BY <2>1 DEF Halves
<1>2. \A x \in 0 .. top : applyFee(s, x) \in Nat
  BY NetsNaturals
<1>3. ASSUME NEW a \in 0 .. top PROVE Found(s, a, a, h[<<a, a>>])
  <2>1. a >= a /\ a \in Nat
    OBVIOUS
  <2>2. h[<<a, a>>] = a
    <3> HIDE DEF T
    <3> QED BY <1>1, <2>1, Zenon
  <2> QED BY <2>1, <2>2 DEF Found
<1>4. 0 \in T
  <2> SUFFICES ASSUME NEW a \in 0 .. top, NEW b \in 0 .. top, a <= b, b <= a + 0
               PROVE  Found(s, a, b, h[<<a, b>>])
    OBVIOUS
  <2>1. a = b
    OBVIOUS
  <2> QED BY <1>3, <2>1
<1>5. ASSUME NEW k \in Nat, k \in T PROVE k + 1 \in T
  <2> SUFFICES ASSUME NEW a \in 0 .. top, NEW b \in 0 .. top, a <= b, b <= a + (k + 1)
               PROVE  Found(s, a, b, h[<<a, b>>])
    OBVIOUS
  <2>1. CASE a = b
    BY <1>3, <2>1
  <2>2. CASE a < b
    <3>1. PICK m \in Nat : m = (a + b) \div 2
      BY <2>2, MiddleSplits
    <3>2. a <= m /\ m < b
      BY <2>2, <3>1, MiddleSplits
    <3>3. m \in 0 .. top /\ m + 1 \in 0 .. top /\ m <= a + k /\ b <= m + 1 + k
      BY <3>2
    <3>4. Found(s, a, m, h[<<a, m>>]) /\ Found(s, m + 1, b, h[<<m + 1, b>>])
      BY <1>5, <3>2, <3>3
    <3>5. CASE applyFee(s, m) >= 1
      <4>1. h[<<a, b>>] = h[<<a, m>>]
        <5>1. ~(a >= b)
          BY <2>2
        <5> HIDE DEF T
        <5> QED BY <1>1, <5>1, <3>1, <3>5, Zenon
      <4> HIDE DEF T
      <4> QED BY <3>2, <3>4, <3>5, <4>1 DEF Found
    <3>6. CASE ~(applyFee(s, m) >= 1)
      <4>1. h[<<a, b>>] = h[<<m + 1, b>>]
        <5>1. ~(a >= b)
          BY <2>2
        <5> HIDE DEF T
        <5> QED BY <1>1, <5>1, <3>1, <3>6, Zenon
      <4>2. applyFee(s, m) = 0
        BY <1>2, <3>3, <3>6
      <4>3. PICK x : x = h[<<m + 1, b>>]
        OBVIOUS
      <4>4. x = m + 1 \/ x > m + 1
        BY <3>3, <3>4, <4>3 DEF Found
      <4>5. m + 1 - 1 = m
        OBVIOUS
      <4> HIDE DEF T
      <4> QED BY <3>2, <3>4, <4>1, <4>2, <4>3, <4>4, <4>5 DEF Found
    <3> QED BY <3>5, <3>6
  <2> QED BY <2>1, <2>2
<1>6. Nat \subseteq T
  <2> HIDE DEF T
  <2> QED BY <1>4, <1>5, Counting
<1> QED
  <2> SUFFICES ASSUME NEW a \in 0 .. top, NEW b \in 0 .. top, a <= b
               PROVE  Found(s, a, b, h[<<a, b>>])
    OBVIOUS
  <2>1. top \in T
    <3> HIDE DEF T
    <3> QED BY <1>6
  <2>2. b <= a + top
    OBVIOUS
  <2> QED BY <2>1, <2>2

\* So BinarySearch finds it.
LEMMA BinarySearchFinds ==
  ASSUME NEW s \in Fee, NEW top \in Nat
  PROVE  Found(s, 0, top, BinarySearch(s, top))
<1>1. PICK h : Halves(s, h, Spans(top)) /\ BinarySearch(s, top) = h[<<0, top>>]
  BY BinarySearchHalves
<1> QED BY <1>1, HalvingFinds

---------------------------------------------------------------------------
Above(bound, d) == {n \in 1 .. bound : bound <= n + d}

\* There is such a doubling as the code's; nought is doubled to nought.
LEMMA DoublesUpTo ==
  ASSUME NEW s, NEW bound \in Nat, NEW d \in Nat
  PROVE  \E h : Doubles(s, bound, h, Above(bound, d))
<1> DEFINE Stops(n) == applyFee(s, n) >= 1 \/ 2 * n > bound
           T == {k \in Nat : \E h : Doubles(s, bound, h, Above(bound, k))}
<1>1. 0 \in T
  <2> DEFINE h == [n \in Above(bound, 0) |-> n]
  <2>1. \A n \in Above(bound, 0) : 2 * n > bound
    BY DEF Above
  <2>2. Doubles(s, bound, h, Above(bound, 0))
    BY <2>1 DEF Doubles
  <2> QED BY <2>2
<1>2. ASSUME NEW k \in Nat, k \in T PROVE k + 1 \in T
  <2>1. PICK g : Doubles(s, bound, g, Above(bound, k))
    BY <1>2
  <2> DEFINE D == Above(bound, k + 1)
             h == [n \in D |-> IF Stops(n) THEN n ELSE g[2 * n]]
  <2>2. Above(bound, k) \subseteq D
    BY DEF Above
  <2>3. ASSUME NEW n \in Above(bound, k) PROVE h[n] = g[n]
    BY <2>1, <2>2 DEF Doubles
  <2>4. ASSUME NEW n \in D, ~Stops(n) PROVE 2 * n \in Above(bound, k)
    BY <2>4 DEF Above
  <2>5. h = [n \in D |-> IF Stops(n) THEN n ELSE h[2 * n]]
    <3>1. ASSUME NEW n \in D, ~Stops(n) PROVE g[2 * n] = h[2 * n]
      <4> HIDE DEF h, D
      <4> QED BY <2>3, <2>4, <3>1
    <3> QED BY <3>1
  <2>6. Doubles(s, bound, h, D)
    <3> HIDE DEF h, D
    <3> QED BY <2>5 DEF Doubles
  <2> HIDE DEF h, D
  <2> QED BY <2>6 DEF D
<1>3. Nat \subseteq T
  <2> HIDE DEF T
  <2> QED BY <1>1, <1>2, Counting
<1> QED BY <1>3

\* SearchCeiling is one of those functions.
LEMMA CeilingDoubles ==
  ASSUME NEW s, NEW bound \in Nat, NEW start
  PROVE  \E h : Doubles(s, bound, h, 0 .. bound) /\ SearchCeiling(s, start, bound) = h[start]
<1> DEFINE h == CHOOSE f : Doubles(s, bound, f, 0 .. bound)
<1>1. PICK g : Doubles(s, bound, g, Above(bound, bound))
  BY DoublesUpTo
<1>2. Above(bound, bound) = 1 .. bound
  BY DEF Above
<1> DEFINE f == [n \in 0 .. bound |-> IF n = 0 THEN 0 ELSE g[n]]
<1>3. ASSUME NEW n \in 0 .. bound
      PROVE  f[n] = IF applyFee(s, n) >= 1 \/ 2 * n > bound THEN n ELSE f[2 * n]
  <2>1. CASE n = 0
    BY <2>1
  <2>2. CASE n \in 1 .. bound
    <3>1. g[n] = IF applyFee(s, n) >= 1 \/ 2 * n > bound THEN n ELSE g[2 * n]
      BY <1>1, <1>2, <2>2 DEF Doubles
    <3>2. ~(2 * n > bound) => 2 * n \in 1 .. bound
      BY <2>2
    <3> QED BY <2>2, <3>1, <3>2
  <2> QED BY <2>1, <2>2
<1>4. f = [n \in 0 .. bound |-> IF applyFee(s, n) >= 1 \/ 2 * n > bound THEN n ELSE f[2 * n]]
  BY <1>3
<1>5. Doubles(s, bound, f, 0 .. bound)
  <2> HIDE DEF f
  <2> QED BY <1>4 DEF Doubles
<1> HIDE DEF f
<1>6. Doubles(s, bound, h, 0 .. bound)
  BY <1>5
<1>7. SearchCeiling(s, start, bound) = h[start]
  BY DEF SearchCeiling, Doubles
<1> HIDE DEF h
<1> QED BY <1>6, <1>7

\* The doubling ends at an amount that nets something, or near the bound.
LEMMA CeilingReached ==
  ASSUME NEW s, NEW bound \in Nat, NEW start \in 1 .. bound
  PROVE  LET c == SearchCeiling(s, start, bound)
         IN  c \in 1 .. bound /\ (applyFee(s, c) >= 1 \/ 2 * c > bound)
<1>1. PICK h : Doubles(s, bound, h, 0 .. bound) /\ SearchCeiling(s, start, bound) = h[start]
  BY CeilingDoubles
<1> DEFINE Ends(c) == c \in 1 .. bound /\ (applyFee(s, c) >= 1 \/ 2 * c > bound)
           T == {k \in Nat : \A n \in 1 .. bound : bound <= n + k => Ends(h[n])}
<1>2. ASSUME NEW n \in 1 .. bound
      PROVE  h[n] = IF applyFee(s, n) >= 1 \/ 2 * n > bound THEN n ELSE h[2 * n]
  BY <1>1 DEF Doubles
<1>3. 0 \in T
  <2> SUFFICES ASSUME NEW n \in 1 .. bound, bound <= n + 0 PROVE Ends(h[n])
    OBVIOUS
  <2>1. 2 * n > bound
    OBVIOUS
  <2> QED BY <1>2, <2>1
<1>4. ASSUME NEW k \in Nat, k \in T PROVE k + 1 \in T
  <2> SUFFICES ASSUME NEW n \in 1 .. bound, bound <= n + (k + 1) PROVE Ends(h[n])
    OBVIOUS
  <2>1. CASE applyFee(s, n) >= 1 \/ 2 * n > bound
    BY <1>2, <2>1
  <2>2. CASE ~(applyFee(s, n) >= 1 \/ 2 * n > bound)
    <3>1. 2 * n \in 1 .. bound /\ bound <= 2 * n + k
      BY <2>2
    <3>2. Ends(h[2 * n])
      BY <1>4, <3>1
    <3>3. h[n] = h[2 * n]
      BY <1>2, <2>2
    <3> HIDE DEF Ends
    <3> QED BY <3>2, <3>3
  <2> QED BY <2>1, <2>2
<1>5. Nat \subseteq T
  <2> HIDE DEF T
  <2> QED BY <1>3, <1>4, Counting
<1>6. bound \in T
  <2> HIDE DEF T
  <2> QED BY <1>5
<1> QED BY <1>1, <1>6

\* The minimum the mint advertises.
LEMMA MinimumIsLeast ==
  ASSUME NEW s \in Fee, NEW configured \in Nat, NEW bound \in Nat,
         configured + s.base + 1 <= bound
  PROVE  LET least == minSendableMsat(s, configured, bound)
         IN  /\ least \in Nat /\ configured <= least
             /\ least > configured => applyFee(s, least - 1) = 0
             /\ ~s.toSat /\ (\E g \in Nat : 2 * g <= bound /\ applyFee(s, g) >= 1)
                  => applyFee(s, least) >= 1
<1> DEFINE start == configured + s.base + 1
           top == SearchCeiling(s, start, bound)
           found == BinarySearch(s, top)
           least == minSendableMsat(s, configured, bound)
<1>1. s.base \in Nat
  BY DEF Fee
<1>2. start \in 1 .. bound
  BY <1>1
<1>3. least = IF configured >= found THEN configured ELSE found
  BY DEF minSendableMsat
<1> HIDE DEF start
<1>4. top \in 1 .. bound /\ (applyFee(s, top) >= 1 \/ 2 * top > bound)
  BY <1>2, CeilingReached
<1> HIDE DEF top
<1>5. Found(s, 0, top, found)
  BY <1>4, BinarySearchFinds
<1> HIDE DEF found, least
<1>6. found \in Nat /\ (found > 0 => applyFee(s, found - 1) = 0)
  BY <1>5 DEF Found
<1>7. /\ least \in Nat /\ configured <= least
      /\ least > configured => applyFee(s, least - 1) = 0
  BY <1>3, <1>6
<1>8. ASSUME ~s.toSat, NEW g \in Nat, 2 * g <= bound, applyFee(s, g) >= 1
      PROVE  applyFee(s, least) >= 1
  <2>1. applyFee(s, g) \in Nat /\ applyFee(s, top) \in Nat /\ applyFee(s, found) \in Nat
        /\ applyFee(s, least) \in Nat
    BY <1>4, <1>6, <1>7, NetsNaturals
  <2>2. applyFee(s, top) >= 1
    <3>1. 2 * top > bound => g <= top
      BY <1>4, <1>8
    <3>2. g <= top => applyFee(s, g) <= applyFee(s, top)
      BY <1>4, <1>8, NetGrows
    <3> QED BY <1>4, <1>8, <2>1, <3>1, <3>2
  <2>3. applyFee(s, found) >= 1
    BY <1>5, <2>2 DEF Found
  <2>4. found <= least
    BY <1>3, <1>6
  <2>5. applyFee(s, found) <= applyFee(s, least)
    BY <1>6, <1>7, <1>8, <2>4, NetGrows
  <2> QED BY <2>1, <2>3, <2>5
<1> QED BY <1>7, <1>8 DEF least

\* The least a mint advertises buys a note, and nothing less would have done.
THEOREM MinimumsBuyNotes == FeesSpec => []MinimumBuysANote
<1>1. FeesInv => MinimumBuysANote
  <2> SUFFICES ASSUME FeesInv, ~fees.toSat
               PROVE  /\ applyFee(fees, Minimum) > 0
                      /\ Minimum > minimum => applyFee(fees, Minimum - 1) = 0
    BY DEF MinimumBuysANote
  <2>1. fees \in Charges /\ minimum \in Minimums /\ fees \in Fee /\ minimum \in Nat
    BY Advertised, WantsAreAmounts DEF FeesInv, FeesTypeOK
  <2>2. /\ SearchBound \in Nat /\ minimum + fees.base + 1 <= SearchBound
        /\ \E g \in Nat : 2 * g <= SearchBound /\ applyFee(fees, g) >= 1
    BY <2>1, SearchIsWide
  <2>3. /\ Minimum \in Nat /\ applyFee(fees, Minimum) >= 1
        /\ Minimum > minimum => applyFee(fees, Minimum - 1) = 0
    BY <2>1, <2>2, MinimumIsLeast DEF Minimum
  <2>4. applyFee(fees, Minimum) \in Nat
    BY <2>1, <2>3, NetsNaturals
  <2> QED BY <2>3, <2>4
<1> QED BY <1>1, SearchHolds, PTL

\* A mint that charges what it advertises sells the note that was wanted.
THEOREM SellsAsWanted == FeesSpec => []SoldAsWanted
<1>1. FeesInv => SoldAsWanted
  <2> SUFFICES ASSUME FeesInv, fees.extra = 0
               PROVE  /\ stage = "refused" /\ ~fees.toSat =>
                            net = 0 \/ lo < minimum \/ lo > Largest
                      /\ stage \in {"paid", "passed", "failed"} =>
                            note <= net /\ net - note < IF fees.toSat THEN MsatPerSat ELSE 1
    BY DEF SoldAsWanted
  <2>1. /\ lo \in Nat /\ net \in Nat /\ note \in Nat /\ minimum \in Nat
        /\ fees \in Charges /\ minimum \in Minimums /\ fees \in Fee /\ advertised \in Fee
    BY Advertised, WantsAreAmounts DEF FeesInv, FeesTypeOK
  <2> DEFINE due == fees.base + Proportional(fees, lo)
  <2>2. due \in Nat /\ fees.toSat \in BOOLEAN /\ MsatPerSat \in Nat
    <3>1. lo <= lo
      BY <2>1
    <3>2. Proportional(fees, lo) \in Nat
      BY <2>1, <3>1, FeeGrows
    <3> QED BY <2>1, <3>2, Units DEF Fee
  <2>3. applyFee(advertised, lo) = IF due > lo THEN 0 ELSE lo - due
    BY <2>2 DEF applyFee, feeOf, advertised, Proportional
  <2>4. feeOf(fees, lo) = IF fees.toSat THEN CeilToSat(due) ELSE due
    <3>1. CeilToSat(due) \in Nat
      BY <2>2, RoundedUp
    <3>2. feeOf(fees, lo) = (IF fees.toSat THEN CeilToSat(due) ELSE due) + fees.extra
      BY DEF feeOf
    <3> HIDE DEF due
    <3> QED BY <2>2, <3>1, <3>2
  <2>5. CeilToSat(due) \in Nat /\ due <= CeilToSat(due) /\ CeilToSat(due) < due + MsatPerSat
    BY <2>2, RoundedUp
  <2> HIDE DEF due
  <2>6. stage \in {"refused", "paid", "passed", "failed"} => applyFee(advertised, lo) = net
    BY GrossUpFinds DEF GrossUpExact
  <2>7. ASSUME stage \in {"paid", "passed", "failed"}
        PROVE  note <= net /\ net - note < IF fees.toSat THEN MsatPerSat ELSE 1
    <3>1. note = applyFee(fees, lo) /\ note > 0
      BY <2>7 DEF FeesInv, Priced
    <3>2. note = lo - feeOf(fees, lo)
      BY <3>1 DEF applyFee
    <3>3. CASE fees.toSat
      BY <2>1, <2>2, <2>3, <2>4, <2>5, <2>6, <2>7, <3>1, <3>2, <3>3
    <3>4. CASE ~fees.toSat
      BY <2>1, <2>2, <2>3, <2>4, <2>6, <2>7, <3>1, <3>2, <3>4
    <3> QED BY <2>2, <3>3, <3>4
  <2>8. ASSUME stage = "refused", ~fees.toSat, net > 0, lo >= minimum, lo <= Largest
        PROVE  FALSE
    <3>1. ~Quoted(lo)
      BY <2>8 DEF FeesInv, Priced
    <3>2. applyFee(fees, lo) = net
      BY <2>3, <2>4, <2>6, <2>8 DEF applyFee
    <3>3. lo > 0
      <4>1. lo = 0 => due > lo \/ lo - due = 0
        BY <2>1, <2>2
      <4> QED BY <2>1, <2>3, <2>6, <2>8, <4>1
    <3>4. ~(lo >= Minimum)
      BY <2>8, <3>1, <3>2, <3>3 DEF Quoted
    <3>5. SearchBound \in Nat /\ minimum + fees.base + 1 <= SearchBound
      BY <2>1, SearchIsWide
    <3>6. Minimum \in Nat /\ (Minimum > minimum => applyFee(fees, Minimum - 1) = 0)
      BY <2>1, <3>5, MinimumIsLeast DEF Minimum
    <3>7. Minimum - 1 \in Nat /\ lo <= Minimum - 1 /\ applyFee(fees, Minimum - 1) = 0
      BY <2>1, <2>8, <3>4, <3>6
    <3>8. applyFee(fees, lo) <= applyFee(fees, Minimum - 1)
      BY <2>1, <2>8, <3>7, NetGrows
    <3> QED BY <2>1, <2>8, <3>2, <3>7, <3>8
  <2>9. Largest \in Int
    BY WantsAreAmounts
  <2> QED BY <2>1, <2>7, <2>8, <2>9
<1> QED BY <1>1, SearchHolds, PTL

---------------------------------------------------------------------------
(***************************************************************************)
(* A mint that honours retries does so for every sequence of requests.     *)
(***************************************************************************)
\* What the mint remembers of a mutation is enough to answer it again.
Remembered(record) ==
  /\ identity(record.request) \in DOMAIN swaps
  /\ record.answer = replied(swaps[identity(record.request)])
  /\ ~illFormed(record.request) /\ ~unopened(record.request)
RetryInv == fault = "none" /\ \A record \in recorded : Remembered(record)

\* A request is one of two things to an honest mint.
LEMMA AppliedOrNot ==
  ASSUME NEW r, fault = "none"
  PROVE  \/ mutate(r).notes = notes /\ mutate(r).swaps = swaps
         \/ /\ ~illFormed(r) /\ ~unopened(r) /\ identity(r) \notin DOMAIN swaps
            /\ mutate(r) = exchanged(r) /\ \A q \in outputs(r) : ~known(q)
<1>1. \A answer : Handled(answer).notes = notes /\ Handled(answer).swaps = swaps
  BY DEF Handled
<1>2. ~Has("acceptsOversizedMerge") /\ ~Has("retriedMutation:refuse")
  BY DEF Has
<1> QED BY <1>1, <1>2 DEF mutate

\* An exchange adds to what the mint knows and forgets nothing.
LEMMA ExchangeKeeps ==
  ASSUME NEW r, fault = "none", identity(r) \notin DOMAIN swaps
  PROVE  /\ DOMAIN notes \subseteq DOMAIN exchanged(r).notes
         /\ DOMAIN swaps \subseteq DOMAIN exchanged(r).swaps
         /\ identity(r) \in DOMAIN exchanged(r).swaps
         /\ \A id \in DOMAIN swaps : exchanged(r).swaps[id] = swaps[id]
         /\ exchanged(r).answer = replied(exchanged(r).swaps[identity(r)])
<1> DEFINE out == minted(r)
           certificate(q) == certify(q, out[q], hashed(r, q))
           certificates == IF splits(r) THEN <<certificate(out1(r)), certificate(out2(r))>>
                           ELSE <<certificate(out1(r))>>
           burned == [q \in qs(r) |-> [notes[q] EXCEPT !.state = "burned"]]
           fresh == [q \in DOMAIN out |-> [state |-> "outstanding", amount |-> out[q],
                                          hashed |-> hashed(r, q)]]
<1>1. exchanged(r) = [answer |-> finish(replied(certificates)),
                      notes |-> set(set(notes, burned), fresh),
                      swaps |-> set(swaps, [id \in {identity(r)} |-> certificates])]
  BY Zenon DEF exchanged
<1> HIDE DEF out, certificate, certificates, burned, fresh
<1>2. DOMAIN notes \subseteq DOMAIN set(set(notes, burned), fresh)
  BY DEF set
<1>3. LET after == set(swaps, [id \in {identity(r)} |-> certificates])
      IN  /\ DOMAIN after = {identity(r)} \cup DOMAIN swaps
          /\ after[identity(r)] = certificates
          /\ \A id \in DOMAIN swaps : after[id] = swaps[id]
  BY DEF set
<1>4. finish(replied(certificates)) = replied(certificates)
  BY DEF finish, Has
<1> QED BY <1>1, <1>2, <1>3, <1>4

\* What makes two requests one mutation to the vectors makes them one to the
\* mint: it reads them alike, and remembers them under one name.
LEMMA RetryIsTheSame ==
  ASSUME NEW record, NEW r, fault = "none",
         retryOutcome(record, r) = "replay"
  PROVE  /\ identity(r) = identity(record)
         /\ illFormed(r) <=> illFormed(record)
         /\ unopened(r) <=> unopened(record)
<1>1. /\ Len(record.k1s) = Len(r.k1s)
      /\ {record.k1s[i] : i \in DOMAIN record.k1s} = {r.k1s[i] : i \in DOMAIN r.k1s}
      /\ record.p1 = r.p1 /\ record.p2 = r.p2 /\ record.amount = r.amount
  BY DEF retryOutcome, sameInputs
<1>2. /\ \A i \in DOMAIN record.k1s : \E j \in DOMAIN r.k1s : record.k1s[i] = r.k1s[j]
      /\ \A i \in DOMAIN r.k1s : \E j \in DOMAIN record.k1s : r.k1s[i] = record.k1s[j]
  BY <1>1
<1>3. qs(record) = qs(r)
  BY <1>2 DEF qs
<1>4. unopened(record) <=> unopened(r)
  BY <1>2 DEF unopened
<1>5. splits(record) = splits(r) /\ out1(record) = out1(r) /\ out2(record) = out2(r)
  BY <1>1 DEF splits, out1, out2
<1>6. ~Has("mergeCap") /\ ~Has("replayMatchesStrings")
  BY DEF Has
<1> QED BY <1>1, <1>3, <1>4, <1>5, <1>6 DEF identity, illFormed


\* Nothing of how a mint reads a request or words an answer changes.
LEMMA SameMint ==
  ASSUME fault' = fault
  PROVE  /\ \A r : identity(r)' = identity(r) /\ illFormed(r)' = illFormed(r)
         /\ \A c : replied(c)' = replied(c)
         /\ \A spend : opens(spend)' = opens(spend)
<1>1. \A ref : outputOf(ref)' = outputOf(ref)
  BY DEF outputOf, Has
<1>2. \A r : /\ qs(r)' = qs(r) /\ out1(r)' = out1(r) /\ out2(r)' = out2(r)
             /\ splits(r)' = splits(r)
  BY <1>1 DEF qs, out1, out2, splits, Has
<1>3. \A r : identity(r)' = identity(r)
  BY <1>2 DEF identity, Has
<1>4. \A r : illFormed(r)' = illFormed(r)
  BY <1>2 DEF illFormed, Has
<1>5. \A c : sent(c)' = sent(c) /\ legacy(c)' = legacy(c)
  BY DEF sent, legacy, Has
<1>6. \A c : replied(c)' = replied(c)
  BY <1>5, Zenon DEF replied, Has
<1>7. \A spend : opens(spend)' = opens(spend)
  BY Zenon DEF opens, lax, Has
<1> QED BY <1>3, <1>4, <1>6, <1>7

\* A request keeps what the mint remembers true of its notes.
LEMMA RetryStep == RetryInv /\ [Send]_<<fault, retryVars>> => RetryInv'
<1> SUFFICES ASSUME RetryInv, [Send]_<<fault, retryVars>> PROVE RetryInv'
  OBVIOUS
<1>1. fault = "none" /\ fault' = fault /\ \A record \in recorded : Remembered(record)
  BY DEF RetryInv, Send, retryVars
<1>2. \A record : DOMAIN notes \subseteq DOMAIN notes'
      /\ ~unopened(record) => ~unopened(record)'
  BY <1>1, SameMint, Zenon DEF unopened, known
<1>3. ASSUME DOMAIN notes \subseteq DOMAIN notes',
             DOMAIN swaps \subseteq DOMAIN swaps',
             \A id \in DOMAIN swaps : swaps'[id] = swaps[id],
             NEW record, Remembered(record)
      PROVE  Remembered(record)'
  BY <1>1, <1>2, <1>3, SameMint DEF Remembered
<1>4. CASE UNCHANGED <<fault, retryVars>>
  BY <1>1, <1>3, <1>4 DEF RetryInv, retryVars
<1>5. CASE Send
  <2>1. PICK r \in Mutations :
          /\ notes' = mutate(r).notes /\ swaps' = mutate(r).swaps
          /\ recorded' = recorded \cup
               (IF mutate(r).notes # notes
                THEN {[request |-> r, answer |-> mutate(r).answer]} ELSE {})
    BY <1>5, Zenon DEF Send
  <2>2. CASE mutate(r).notes = notes /\ mutate(r).swaps = swaps
    BY <1>1, <1>3, <2>1, <2>2 DEF RetryInv
  <2>3. CASE /\ ~illFormed(r) /\ ~unopened(r) /\ identity(r) \notin DOMAIN swaps
             /\ mutate(r) = exchanged(r)
    <3>1. \A record \in recorded : Remembered(record)'
      BY <1>1, <1>3, <2>1, <2>3, ExchangeKeeps
    <3>2. PICK new : new = [request |-> r, answer |-> mutate(r).answer]
      OBVIOUS
    <3>3. new.request = r /\ new.answer = exchanged(r).answer
      BY <2>3, <3>2
    <3>4. /\ identity(r)' = identity(r) /\ ~illFormed(r)' /\ ~unopened(r)'
          /\ identity(r) \in DOMAIN swaps'
      BY <1>1, <1>2, <2>1, <2>3, ExchangeKeeps, SameMint
    <3>5. new.answer = replied(swaps'[identity(r)])
      BY <1>1, <2>1, <2>3, <3>3, ExchangeKeeps
    <3>6. Remembered(new)'
      BY <1>1, <3>3, <3>4, <3>5, SameMint DEF Remembered
    <3>7. \A record \in recorded' : record \in recorded \/ record = new
      BY <2>1, <3>2
    <3> QED BY <1>1, <3>1, <3>6, <3>7 DEF RetryInv
  <2> QED BY <1>1, <2>2, <2>3, AppliedOrNot
<1> QED BY <1>4, <1>5

\* A retry of a mutation is answered as the mutation was and moves nothing:
\* for any requests, any notes and however many requests in between.
THEOREM RetriesAreReplayed ==
  ASSUME Misbehaviour = {"none"}
  PROVE  RetriesSpec => RetriesReplayed
<1>1. fault \in Misbehaviour /\ InitRetries => RetryInv
  BY DEF InitRetries, RetryInv
<1>2. RetryInv /\ [Send]_<<fault, retryVars>> =>
        (Send => \A record \in recorded :
           retryOutcome(record.request, latest') = "replay" =>
             reply' = record.answer /\ UNCHANGED <<notes, swaps>>)
  <2> SUFFICES ASSUME RetryInv, Send, NEW record \in recorded,
                      retryOutcome(record.request, latest') = "replay"
               PROVE  reply' = record.answer /\ UNCHANGED <<notes, swaps>>
    OBVIOUS
  <2>1. PICK r \in Mutations :
          /\ notes' = mutate(r).notes /\ swaps' = mutate(r).swaps
          /\ latest' = r /\ reply' = mutate(r).answer
    BY Zenon DEF Send
  <2>2. fault = "none" /\ Remembered(record)
    BY DEF RetryInv
  <2>3. /\ identity(r) \in DOMAIN swaps /\ record.answer = replied(swaps[identity(r)])
        /\ ~illFormed(r) /\ ~unopened(r)
    BY <2>1, <2>2, RetryIsTheSame DEF Remembered
  <2>4. ~Has("acceptsOversizedMerge") /\ ~Has("retriedMutation:refuse")
    BY <2>2 DEF Has
  <2>5. mutate(r) = Handled(replied(swaps[identity(r)]))
    BY <2>3, <2>4 DEF mutate
  <2> QED BY <2>1, <2>3, <2>5 DEF Handled
<1> QED BY <1>1, <1>2, RetryStep, PTL DEF RetriesSpec, RetriesReplayed

---------------------------------------------------------------------------
\* The requests spell a note and an output in one way each, and name a second
\* output only to split.
OneSpelling ==
  \A a, b \in Mutations :
    /\ \A i \in DOMAIN a.k1s, j \in DOMAIN b.k1s :
         a.k1s[i].q = b.k1s[j].q => a.k1s[i] = b.k1s[j]
    /\ \A x \in {a.p1, a.p2}, y \in {b.p1, b.p2} : x.q = y.q => x = y
    /\ a.amount = NoAmount => a.p2 = NoRef

\* Every swap the mint remembers is of a recorded mutation.
SwapsRecorded ==
  \A id \in DOMAIN swaps :
    \E record \in recorded : record.request \in Mutations /\ identity(record.request) = id

\* An exchange is seen in the notes: its first output is new.
LEMMA ExchangeShows ==
  ASSUME NEW r, fault = "none", ~illFormed(r), \A q \in outputs(r) : ~known(q)
  PROVE  exchanged(r).notes # notes
<1>1. out1(r) \in outputs(r)
  BY DEF illFormed, outputs
<1>2. out1(r) \in DOMAIN minted(r)
  BY DEF minted
<1>3. out1(r) \in DOMAIN exchanged(r).notes
  BY <1>2, Zenon DEF exchanged, set
<1> QED BY <1>1, <1>3 DEF known

\* All an exchange adds to the swaps is its own.
LEMMA ExchangeAddsOne ==
  ASSUME NEW r
  PROVE  DOMAIN exchanged(r).swaps = DOMAIN swaps \cup {identity(r)}
BY Zenon DEF exchanged, set

\* And the mint remembers no exchange but those that were sent.
LEMMA RecordStep ==
  RetryInv /\ SwapsRecorded /\ [Send]_<<fault, retryVars>> => SwapsRecorded'
<1> SUFFICES ASSUME RetryInv, SwapsRecorded, [Send]_<<fault, retryVars>> PROVE SwapsRecorded'
  OBVIOUS
<1>1. fault = "none" /\ fault' = fault
  BY DEF RetryInv, Send, retryVars
<1>2. \A r : identity(r)' = identity(r)
  BY <1>1, SameMint
<1>3. ASSUME recorded \subseteq recorded', NEW id \in DOMAIN swaps
      PROVE  \E record \in recorded' : record.request \in Mutations
           /\ identity(record.request)' = id
  BY <1>2, <1>3 DEF SwapsRecorded
<1>4. CASE UNCHANGED <<fault, retryVars>>
  BY <1>3, <1>4 DEF SwapsRecorded, retryVars
<1>5. CASE Send
  <2>1. PICK r \in Mutations :
          /\ notes' = mutate(r).notes /\ swaps' = mutate(r).swaps
          /\ recorded' = recorded \cup
               (IF mutate(r).notes # notes
                THEN {[request |-> r, answer |-> mutate(r).answer]} ELSE {})
    BY <1>5, Zenon DEF Send
  <2>2. recorded \subseteq recorded'
    BY <2>1
  <2>3. CASE mutate(r).notes = notes /\ mutate(r).swaps = swaps
    BY <1>3, <2>1, <2>2, <2>3 DEF SwapsRecorded
  <2>4. CASE /\ ~illFormed(r) /\ mutate(r) = exchanged(r) /\ \A q \in outputs(r) : ~known(q)
    <3>1. mutate(r).notes # notes
      BY <1>1, <2>4, ExchangeShows
    <3>2. PICK new : new = [request |-> r, answer |-> mutate(r).answer]
      OBVIOUS
    <3>3. new \in recorded' /\ new.request = r
      BY <2>1, <3>1, <3>2
    <3>4. DOMAIN swaps' = DOMAIN swaps \cup {identity(r)}
      BY <2>1, <2>4, ExchangeAddsOne
    <3> QED BY <1>2, <1>3, <2>2, <3>3, <3>4 DEF SwapsRecorded
  <2> QED BY <1>1, <2>3, <2>4, AppliedOrNot
<1> QED BY <1>4, <1>5

\* Spelt one way, what is one mutation to the mint is one to the vectors.
LEMMA SameIsARetry ==
  ASSUME OneSpelling, fault = "none", NEW a \in Mutations, NEW b \in Mutations,
         identity(a) = identity(b), ~illFormed(a), ~illFormed(b)
  PROVE  retryOutcome(a, b) = "replay"
<1>1. /\ ~Has("replayMatchesStrings") /\ ~Has("refusesCp1Outputs") /\ ~Has("acceptsMissingP2")
  BY DEF Has
<1>2. /\ qs(a) = qs(b) /\ out1(a) = out1(b) /\ out2(a) = out2(b) /\ a.amount = b.amount
  BY <1>1 DEF identity
<1>3. Len(a.k1s) = Len(b.k1s)
  BY <1>2 DEF illFormed
<1>4. {a.k1s[i] : i \in DOMAIN a.k1s} = {b.k1s[i] : i \in DOMAIN b.k1s}
  <2>1. ASSUME NEW i \in DOMAIN a.k1s PROVE \E j \in DOMAIN b.k1s : a.k1s[i] = b.k1s[j]
    <3>1. a.k1s[i].q \in qs(b)
      BY <1>2 DEF qs
    <3>2. PICK j \in DOMAIN b.k1s : a.k1s[i].q = b.k1s[j].q
      BY <3>1 DEF qs
    <3> QED BY <3>2 DEF OneSpelling
  <2>2. ASSUME NEW j \in DOMAIN b.k1s PROVE \E i \in DOMAIN a.k1s : b.k1s[j] = a.k1s[i]
    <3>1. b.k1s[j].q \in qs(a)
      BY <1>2 DEF qs
    <3>2. PICK i \in DOMAIN a.k1s : b.k1s[j].q = a.k1s[i].q
      BY <3>1 DEF qs
    <3> QED BY <3>2 DEF OneSpelling
  <2> QED BY <2>1, <2>2
<1>5. \A ref : outputOf(ref) # "none" => outputOf(ref) = ref.q
  BY <1>1 DEF outputOf
<1>6. a.p1 = b.p1
  <2>1. a.p1.q = b.p1.q
    BY <1>2, <1>5 DEF illFormed, out1
  <2> QED BY <2>1 DEF OneSpelling
<1>7. a.p2 = b.p2
  <2>1. CASE a.amount = NoAmount
    BY <1>2, <2>1 DEF OneSpelling
  <2>2. CASE a.amount # NoAmount
    <3>1. /\ out2(a) = outputOf(a.p2) /\ out2(b) = outputOf(b.p2)
          /\ out2(a) # "none" /\ out2(b) # "none"
      BY <1>1, <1>2, <2>2 DEF out2, splits, illFormed
    <3>2. a.p2.q = b.p2.q
      BY <1>2, <1>5, <3>1
    <3> QED BY <3>2 DEF OneSpelling
  <2> QED BY <2>1, <2>2
<1> QED BY <1>2, <1>3, <1>4, <1>6, <1>7 DEF retryOutcome, sameInputs

\* A burned note buys nothing a second time, and whoever tries learns only
\* that it is spent: for any requests that spell it one way.
THEOREM DoubleSpendsAreRefused ==
  ASSUME Misbehaviour = {"none"}, OneSpelling
  PROVE  RetriesSpec => DoubleSpendsRefused
<1>1. fault \in Misbehaviour /\ InitRetries => RetryInv /\ SwapsRecorded
  BY DEF InitRetries, RetryInv, SwapsRecorded
<1>2. RetryInv /\ SwapsRecorded /\ [Send]_<<fault, retryVars>> =>
        (Send /\ DoubleSpend(latest') =>
           /\ reply'.status = "ERROR" /\ UNCHANGED <<notes, swaps>>
           /\ illFormed(latest') \/ unopened(latest') \/ reply' = fail(burnedReason))
  <2> SUFFICES ASSUME RetryInv, SwapsRecorded, Send, DoubleSpend(latest')
               PROVE  /\ reply'.status = "ERROR" /\ UNCHANGED <<notes, swaps>>
                      /\ illFormed(latest') \/ unopened(latest') \/ reply' = fail(burnedReason)
    OBVIOUS
  <2>1. PICK r \in Mutations :
          /\ notes' = mutate(r).notes /\ swaps' = mutate(r).swaps
          /\ latest' = r /\ reply' = mutate(r).answer
    BY Zenon DEF Send
  <2>2. fault = "none" /\ \A record \in recorded : Remembered(record)
    BY DEF RetryInv
  <2>3. /\ \A record \in recorded : retryOutcome(record.request, r) = "double-spend"
        /\ \E q \in qs(r) : notes[q].state = "burned"
    BY <2>1 DEF DoubleSpend
  <2>4. ASSUME ~illFormed(r) PROVE identity(r) \notin DOMAIN swaps
    <3> SUFFICES ASSUME identity(r) \in DOMAIN swaps PROVE FALSE
      OBVIOUS
    <3>1. PICK record \in recorded :
            record.request \in Mutations /\ identity(record.request) = identity(r)
      BY DEF SwapsRecorded
    <3>2. ~illFormed(record.request)
      BY <2>2 DEF Remembered
    <3>3. retryOutcome(record.request, r) = "replay"
      BY <2>2, <2>4, <3>1, <3>2, SameIsARetry
    <3> QED BY <2>3, <3>3
  <2>5. ~Has("acceptsOversizedMerge") /\ ~Has("retriedMutation:refuse")
    BY <2>2 DEF Has
  <2>6. \/ illFormed(r) /\ mutate(r) = Handled(fail("malformed"))
        \/ unopened(r) /\ mutate(r) = Handled(fail("Invalid or already spent k1."))
        \/ mutate(r) = Handled(fail(burnedReason))
    BY <2>3, <2>4, <2>5 DEF mutate
  <2>7. \A reason : /\ Handled(fail(reason)).notes = notes
                    /\ Handled(fail(reason)).swaps = swaps
                    /\ Handled(fail(reason)).answer = fail(reason)
                    /\ fail(reason).status = "ERROR"
    BY DEF Handled, fail, Said
  <2> QED BY <2>1, <2>6, <2>7
<1> QED BY <1>1, <1>2, RetryStep, RecordStep, PTL DEF RetriesSpec, DoubleSpendsRefused
=============================================================================
