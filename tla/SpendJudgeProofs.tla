-------------------------- MODULE SpendJudgeProofs --------------------------
(***************************************************************************)
(* What SpendJudge promises, for every clock, every spend and every set of *)
(* rules a mint skips.                                                     *)
(***************************************************************************)
EXTENDS SpendJudge, TLAPS

\* The mint's clock never runs back past the instant a note was credited.
THEOREM ClockRunsOn == Spec => []TypeOK
<1>1. Init => TypeOK
  BY InstantsAreTimes, SpendsAreSpends DEF Init, TypeOK
<1>2. TypeOK /\ [Tick]_clockVars => TypeOK'
  <2> SUFFICES ASSUME TypeOK, [Tick]_clockVars
               PROVE  TypeOK'
    OBVIOUS
  <2>1. CASE UNCHANGED clockVars
    BY <2>1 DEF TypeOK, clockVars
  <2>2. CASE Tick
    <3>1. now \in Nat /\ now' \in Nat /\ lockedAt \in Nat
      BY <2>2, InstantsAreTimes DEF TypeOK, Tick
    <3> QED BY <2>2, <3>1 DEF TypeOK, Tick
  <2> QED BY <2>1, <2>2
<1> QED BY <1>1, <1>2, PTL DEF Spec

\* The constants of the rules, for the steps that need not know their values.
LEMMA Measures ==
  /\ FirstTime \in Nat /\ FirstTime > 0 /\ 800000 < FirstTime
  /\ LockUnit \in Nat /\ MaxCount \in Nat
  /\ \A n \in 0 .. MaxCount : n * LockUnit \in Nat
  /\ Year \in Nat /\ TenYears \in Nat /\ TenYears >= Year
  /\ MaxCount * LockUnit >= Year
BY SMT DEF FirstTime, LockUnit, MaxCount, Year, TenYears

\* No claim of time that held at one instant is broken at a later one.
LEMMA ClaimsStayTrue ==
  ASSUME NEW s \in Spend, NEW t \in Nat, NEW later \in Nat, NEW since \in Nat,
         t <= later
  PROVE  broken(s, later, since) \subseteq broken(s, t, since)
<1>1. locktimeBroken(s, later) \subseteq locktimeBroken(s, t)
  BY Measures, SMT DEF locktimeBroken, Spend
<1>2. relativeBroken(s, later, since) \subseteq relativeBroken(s, t, since)
  BY Measures, SMT DEF relativeBroken, Spend, Sequence
<1> QED BY <1>1, <1>2 DEF broken

\* A spend that opens its note opens it from then on, whatever rules the mint
\* skips.
THEOREM OpensForGood == Spec => OpensFromThenOn
<1>1. TypeOK /\ [Tick]_clockVars => (Opens => Opens')
  <2> SUFFICES ASSUME TypeOK, [Tick]_clockVars, Opens
               PROVE  Opens'
    OBVIOUS
  <2>1. CASE UNCHANGED clockVars
    BY <2>1 DEF clockVars, Opens
  <2>2. CASE Tick
    <3>1. /\ now \in Nat /\ now' \in Nat /\ lockedAt \in Nat
          /\ now <= now' /\ spend \in Spend
      BY <2>2, InstantsAreTimes DEF TypeOK, Tick
    <3>2. broken(spend, now', lockedAt) \subseteq broken(spend, now, lockedAt)
      BY <3>1, ClaimsStayTrue
    <3> QED BY <2>2, <3>2 DEF Tick, Opens, judge
  <2> QED BY <2>1, <2>2
<1> QED BY <1>1, ClockRunsOn, PTL DEF Spec, OpensFromThenOn

\* A mint that skips no rule opens a hashlock from the very second its claims
\* of time come true, and one that claims blocks never.
THEOREM HashlocksOpenWhenDue ==
  ASSUME Lax = {}
  PROVE  Spec => []OpensWhenDue
<1>1. TypeOK => OpensWhenDue
  <2> SUFFICES ASSUME TypeOK, spend.kind = "script", ~Hook(spend), spend.satisfied
               PROVE  Opens <=> /\ spend.locktime = 0 \/ spend.locktime >= FirstTime
                                /\ spend.sequence.off \/ spend.sequence.time
                                /\ now >= Due(spend)
    BY DEF OpensWhenDue
  <2>1. /\ now \in Nat /\ lockedAt \in Nat /\ lockedAt <= now
        /\ spend.locktime \in Nat /\ spend.sequence.count \in Nat
        /\ spend.sequence.off \in BOOLEAN /\ spend.sequence.time \in BOOLEAN
    BY InstantsAreTimes, Measures, SMT DEF TypeOK, Spend, Sequence
  <2>2. Opens <=> broken(spend, now, lockedAt) = {}
    BY DEF Opens, judge, Hook
  <2>3. locktimeBroken(spend, now) = {} <=>
          /\ spend.locktime = 0 \/ spend.locktime >= FirstTime
          /\ spend.locktime <= now
    BY <2>1, Measures, SMT DEF locktimeBroken
  <2>4. relativeBroken(spend, now, lockedAt) = {} <=>
          lockedAt + spend.sequence.count * LockUnit <= now
    BY <2>1, Measures, SMT DEF relativeBroken
  <2>5. broken(spend, now, lockedAt) = {} <=>
          /\ locktimeBroken(spend, now) = {}
          /\ \/ spend.sequence.off
             \/ spend.sequence.time /\ relativeBroken(spend, now, lockedAt) = {}
    BY <2>1 DEF broken
  <2>6. CASE spend.sequence.off
    BY <2>1, <2>2, <2>3, <2>5, <2>6 DEF Due
  <2>7. CASE ~spend.sequence.off
    <3>1. now >= Due(spend) <=>
            /\ spend.locktime <= now
            /\ lockedAt + spend.sequence.count * LockUnit <= now
      BY <2>1, <2>7, Measures, SMT DEF Due
    <3> QED BY <2>2, <2>3, <2>4, <2>5, <2>7, <3>1
  <2> QED BY <2>6, <2>7
<1> QED BY <1>1, ClockRunsOn, PTL

---------------------------------------------------------------------------
\* What each probe of the grader breaks, up to a year after its note was
\* credited.
LEMMA ProbeBreaks ==
  ASSUME NEW since \in Nat, NEW t \in Nat, since >= FirstTime, since <= t,
         t - since < Year
  PROVE  /\ broken(Probe("version", since), t, since) = {}
         /\ broken(Probe("success", since), t, since) = {}
         /\ broken(Probe("height", since), t, since) = {"blockHeight"}
         /\ broken(Probe("future", since), t, since) = {"future"}
         /\ broken(Probe("blocks", since), t, since) = {"blockCount"}
         /\ broken(Probe("unrun", since), t, since) = {"relative"}
         /\ broken(Probe("past", since), t, since) = {}
<1>1. broken(Probe("version", since), t, since) = {}
  BY SMT DEF Probe, broken, locktimeBroken, relativeBroken, Claiming, Plain, Final,
         Absolute, Relative, FirstTime, LockUnit, MaxCount, Year, TenYears
<1>2. broken(Probe("success", since), t, since) = {}
  BY SMT DEF Probe, broken, locktimeBroken, relativeBroken, Claiming, Plain, Final,
         Absolute, Relative, FirstTime, LockUnit, MaxCount, Year, TenYears
<1>3. broken(Probe("height", since), t, since) = {"blockHeight"}
  BY SMT DEF Probe, broken, locktimeBroken, relativeBroken, Claiming, Plain, Final,
         Absolute, Relative, FirstTime, LockUnit, MaxCount, Year, TenYears
<1>4. broken(Probe("future", since), t, since) = {"future"}
  BY SMT DEF Probe, broken, locktimeBroken, relativeBroken, Claiming, Plain, Final,
         Absolute, Relative, FirstTime, LockUnit, MaxCount, Year, TenYears
<1>5. broken(Probe("blocks", since), t, since) = {"blockCount"}
  BY SMT DEF Probe, broken, locktimeBroken, relativeBroken, Claiming, Plain, Final,
         Absolute, Relative, FirstTime, LockUnit, MaxCount, Year, TenYears
<1>6. broken(Probe("unrun", since), t, since) = {"relative"}
  BY SMT DEF Probe, broken, locktimeBroken, relativeBroken, Claiming, Plain, Final,
         Absolute, Relative, FirstTime, LockUnit, MaxCount, Year, TenYears
<1>7. broken(Probe("past", since), t, since) = {}
  BY SMT DEF Probe, broken, locktimeBroken, relativeBroken, Claiming, Plain, Final,
         Absolute, Relative, FirstTime, LockUnit, MaxCount, Year, TenYears
<1> QED BY <1>1, <1>2, <1>3, <1>4, <1>5, <1>6, <1>7

\* Nor does a probe carry a hook or fail its witness, but the two that are
\* about a hook.
LEMMA ProbeShapes ==
  ASSUME NEW since \in Nat
  PROVE  /\ \A name \in DOMAIN RuleOf \cup {"past"} :
              /\ Probe(name, since).kind = "script"
              /\ Probe(name, since).satisfied
              /\ Probe(name, since).known <=> name # "version"
              /\ Probe(name, since).success <=> name = "success"
         /\ DOMAIN RuleOf = {"version", "success", "height", "future", "blocks", "unrun"}
<1>1. DOMAIN RuleOf = {"version", "success", "height", "future", "blocks", "unrun"}
  BY DEF RuleOf
<1>2. ASSUME NEW name \in DOMAIN RuleOf \cup {"past"}
      PROVE  /\ Probe(name, since).kind = "script"
             /\ Probe(name, since).satisfied
             /\ Probe(name, since).known <=> name # "version"
             /\ Probe(name, since).success <=> name = "success"
  BY <1>1, <1>2, SMT DEF Probe, Claiming, Plain, Absolute, Relative
<1> QED BY <1>1, <1>2

\* Each probe of the grader shows one rule and only that one, if the mint's
\* clock reads later than 1985: an earlier reading takes "past" for the future
\* and "ten years on" for a block height.
THEOREM ProbesShowOneRule ==
  ASSUME \A t \in Instants : t >= FirstTime
  PROVE  Spec => []ProbesIsolateRules
<1>1. TypeOK => ProbesIsolateRules
  <2> SUFFICES ASSUME TypeOK, now - lockedAt < Year
               PROVE  /\ \A name \in DOMAIN RuleOf : \A skipped \in SUBSET Policies :
                           judge(Probe(name, lockedAt), Domains, now, lockedAt, skipped)
                             <=> RuleOf[name] \in skipped
                      /\ judge(Probe("past", lockedAt), Domains, now, lockedAt, {})
    BY DEF ProbesIsolateRules
  <2>1. /\ lockedAt \in Nat /\ now \in Nat /\ lockedAt >= FirstTime /\ lockedAt <= now
    BY InstantsAreTimes DEF TypeOK
  <2>2. ASSUME NEW name \in DOMAIN RuleOf, NEW skipped \in SUBSET Policies
        PROVE  judge(Probe(name, lockedAt), Domains, now, lockedAt, skipped)
                 <=> RuleOf[name] \in skipped
    <3>1. broken(Probe(name, lockedAt), now, lockedAt) =
            IF name \in {"version", "success"} THEN {} ELSE {RuleOf[name]}
      BY <2>1, <2>2, ProbeBreaks, ProbeShapes DEF RuleOf
    <3>2. /\ name = "version" <=> RuleOf[name] = "leafVersion"
          /\ name = "success" <=> RuleOf[name] = "opSuccess"
      BY <2>2, ProbeShapes DEF RuleOf
    <3> QED BY <2>1, <3>1, <3>2, ProbeShapes DEF judge, Hook
  <2>3. judge(Probe("past", lockedAt), Domains, now, lockedAt, {})
    BY <2>1, ProbeBreaks, ProbeShapes DEF judge, Hook
  <2> QED BY <2>2, <2>3
<1> QED BY <1>1, ClockRunsOn, PTL
=============================================================================
