----------------------------- MODULE SpendRules -----------------------------
(***************************************************************************)
(* Does a spend open its note, now?  The mint's judge of                   *)
(* mock-mint/spend.mjs, against its own clock, and the spends of           *)
(* runner/index.mjs the grader probes it with.  A signature is the pair of *)
(* its signer and the domain its message names; what bytes a spend is made *)
(* of is SpendWire's matter.                                               *)
(***************************************************************************)
EXTENDS Integers

FirstTime == 500000000      \* a smaller locktime is a block height
LockUnit == 512             \* seconds in one unit of a relative lock
MaxCount == 65535
TimeRules == {"blockHeight", "future", "blockCount", "relative"}
Policies == TimeRules \cup {"leafVersion", "opSuccess", "unverifiedCk1"}

\* A 32-bit sequence: its disable bit, BIP-68's time flag and the count.
Sequence == [off : BOOLEAN, time : BOOLEAN, count : 0 .. MaxCount]
Final == [off |-> TRUE, time |-> TRUE, count |-> MaxCount]

\* Of a script path: its leaf's version is the one consensus knows, the leaf
\* uses an OP_SUCCESS opcode, the witness satisfies it.  Of a key path: the
\* signature was made by the note's own key, for a domain.
Spend == [kind : {"key", "script"}, known : BOOLEAN, success : BOOLEAN,
          satisfied : BOOLEAN, locktime : Nat, sequence : Sequence,
          domain : STRING]

---------------------------------------------------------------------------
\* timeProblem: the rules a claim breaks, of which a mint must apply each.
\* Faults: a lock is over one second early or late, or runs backwards.
broken_late(s, t, since) == IF t - since <= s.sequence.count * LockUnit THEN {"relative"} ELSE {}
broken_backwards(s, t, since) == IF t - since >= s.sequence.count * LockUnit THEN {"relative"} ELSE {}

relativeBroken(s, t, since) ==
  IF t - since < s.sequence.count * LockUnit THEN {"relative"} ELSE {}

locktimeBroken(s, t) ==
  IF s.locktime = 0 THEN {}
  ELSE IF s.locktime < FirstTime THEN {"blockHeight"}
  ELSE IF s.locktime > t THEN {"future"} ELSE {}

broken(s, t, since) ==
  locktimeBroken(s, t) \cup
    IF s.sequence.off THEN {}
    ELSE IF s.sequence.time THEN relativeBroken(s, t, since)
    ELSE {"blockCount"}

\* What consensus accepts unconditionally, so that anyone may spend it.
Hook(s) == ~s.known \/ s.success

judge(s, domains, t, since, lax) ==
  IF s.kind = "key"
  THEN "unverifiedCk1" \in lax \/ (s.satisfied /\ s.domain \in domains)
  ELSE /\ s.known \/ "leafVersion" \in lax
       /\ ~s.success \/ "opSuccess" \in lax
       /\ broken(s, t, since) \subseteq lax
       /\ Hook(s) \/ s.satisfied

---------------------------------------------------------------------------
\* The grader's spends: a bearer note's preimage or the cw1 it is short for;
\* the three leaves of its tree, with the claims each probe makes of them;
\* the signatures of its key-path notes.
Claiming(locktime, sequence) ==
  [kind |-> "script", known |-> TRUE, success |-> FALSE, satisfied |-> TRUE,
   locktime |-> locktime, sequence |-> sequence, domain |-> "here"]
Plain == Claiming(0, Final)
Absolute(locktime) ==
  Claiming(locktime, [off |-> TRUE, time |-> TRUE, count |-> MaxCount - 1])
Relative(isTime, count) ==
  Claiming(0, [off |-> FALSE, time |-> isTime, count |-> count])
Signed == [Plain EXCEPT !.kind = "key"]
TenYears == 10 * 365 * 24 * 3600

\* future is worked out once, at an instant t before the probe is sent.
Probe(name, t) ==
  [version |-> [Plain EXCEPT !.known = FALSE],
   success |-> [Plain EXCEPT !.success = TRUE],
   height |-> Absolute(800000),
   future |-> Absolute(t + TenYears),
   blocks |-> Relative(FALSE, 6),
   unrun |-> Relative(TRUE, MaxCount),
   past |-> Absolute(FirstTime),
   elsewhere |-> [Signed EXCEPT !.domain = "other.invalid"],
   legacy |-> [Signed EXCEPT !.domain = "none"],
   forged |-> [Signed EXCEPT !.satisfied = FALSE],
   ck1 |-> Signed, keyPath |-> Signed,
   preimage |-> Plain, cw1 |-> Plain, leaf |-> Plain][name]

\* The rule each of the grader's probes is there to show.
RuleOf == [version |-> "leafVersion", success |-> "opSuccess",
           height |-> "blockHeight", future |-> "future",
           blocks |-> "blockCount", unrun |-> "relative"]
=============================================================================
