----------------------------- MODULE SpendJudge -----------------------------
(***************************************************************************)
(* A note with a spend its holder keeps trying while the mint's clock      *)
(* runs: what the rules of SpendRules add up to over time.                 *)
(***************************************************************************)
EXTENDS SpendRules

CONSTANTS
  Instants,     \* the times the mint's clock is read at, in Unix seconds
  Spends,       \* the spends offered for the note
  Domains,      \* the hosts a signature may be bound to
  Lax           \* the rules a misbehaving mint does not apply

VARIABLES
  now,          \* nowSecs()
  lockedAt,     \* when the note was credited
  spend         \* the spend the holder tries
clockVars == <<now, lockedAt, spend>>

ASSUME InstantsAreTimes == Instants \subseteq Nat
ASSUME SpendsAreSpends == Spends \subseteq Spend
ASSUME LaxNamesRules == Lax \subseteq Policies

---------------------------------------------------------------------------
Init ==
  /\ now \in Instants
  /\ lockedAt = now
  /\ spend \in Spends

Tick ==
  /\ now' \in Instants /\ now' > now
  /\ UNCHANGED <<lockedAt, spend>>

Spec == Init /\ [][Tick]_clockVars

Opens == judge(spend, Domains, now, lockedAt, Lax)

TypeOK ==
  /\ now \in Instants /\ lockedAt \in Instants
  /\ lockedAt <= now
  /\ spend \in Spend

\* Time only ever runs a claim out: a spend that opens its note opens it
\* from then on, so a holder told yes by the informational GET is not told
\* no by the callback it asks next.
OpensFromThenOn == [][Opens => Opens']_clockVars

\* The instant a script's claims of time come true.
Due(s) ==
  LET relative == IF s.sequence.off THEN lockedAt
                  ELSE lockedAt + s.sequence.count * LockUnit
  IN  IF s.locktime > relative THEN s.locktime ELSE relative

\* An honest mint gives a hashlock claiming Unix times from that very second
\* on, and a claim in blocks never.
OpensWhenDue ==
  (spend.kind = "script" /\ ~Hook(spend) /\ spend.satisfied) =>
    (Opens <=> /\ spend.locktime = 0 \/ spend.locktime >= FirstTime
               /\ spend.sequence.off \/ spend.sequence.time
               /\ now >= Due(spend))

\* Each probe of the grader shows one rule: a mint that applies it refuses
\* the probe, a mint that skips it and only it accepts the probe, however
\* long the run has taken since the note was credited (up to a year).
Year == 365 * 24 * 3600
ProbesIsolateRules ==
  now - lockedAt < Year =>
    /\ \A name \in DOMAIN RuleOf :
         LET s == Probe(name, lockedAt) IN
         \A skipped \in SUBSET Policies :
           judge(s, Domains, now, lockedAt, skipped) <=> RuleOf[name] \in skipped
    /\ judge(Probe("past", lockedAt), Domains, now, lockedAt, {})
=============================================================================
