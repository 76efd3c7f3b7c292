---------------------------- MODULE RetryVectors ----------------------------
(***************************************************************************)
(* What retried-mutation.json pins of a retry (retryOutcome of             *)
(* tools/generate.mjs), held against the callback of the mint through a    *)
(* sequence of requests over a few notes.                                  *)
(***************************************************************************)
EXTENDS GradedMint

CONSTANTS
  Held,         \* the notes at the start, and what each is worth
  Mutations,    \* the requests sent, in any order and again
  Sendings      \* bound: how many

VARIABLES
  recorded,     \* the mutations the mint has applied, with its answers
  latest,       \* the last request
  reply,        \* its answer
  sendings
retryVars == <<notes, swaps, recorded, latest, reply, sendings>>

NotSent == [k1s |-> << >>, p1 |-> NoRef, p2 |-> NoRef, amount |-> NoAmount]
Unheard == [Said EXCEPT !.status = "none"]

InitRetries ==
  /\ notes = [q \in DOMAIN Held |->
                [state |-> "outstanding", amount |-> Held[q], hashed |-> FALSE]]
  /\ swaps = << >>
  /\ recorded = {} /\ latest = NotSent /\ reply = Unheard /\ sendings = 0

---------------------------------------------------------------------------
\* The identity of a mutation: its inputs as a set, both outputs, the amount.
sameInputs(a, b) ==
  Len(a) = Len(b) /\ {a[i] : i \in DOMAIN a} = {b[i] : i \in DOMAIN b}
retryOutcome(record, retry) ==
  IF /\ sameInputs(record.k1s, retry.k1s)
     /\ record.p1 = retry.p1 /\ record.p2 = retry.p2
     /\ record.amount = retry.amount
  THEN "replay" ELSE "double-spend"

\* A request, and what the vectors call its outcome: applied for the first
\* time, or one of theirs.
Send ==
  /\ sendings < Sendings
  /\ \E r \in Mutations :
       LET handled == mutate(r)
           applied == handled.notes # notes
       IN  /\ notes' = handled.notes /\ swaps' = handled.swaps
           /\ latest' = r /\ reply' = handled.answer
           /\ recorded' = recorded \cup
                (IF applied THEN {[request |-> r, answer |-> handled.answer]} ELSE {})
  /\ sendings' = sendings + 1
  /\ UNCHANGED fault

RetriesSpec ==
  fault \in Misbehaviour /\ InitRetries /\ [][Send]_<<fault, retryVars>>

---------------------------------------------------------------------------
\* A retry of a mutation is answered as the mutation was, however long ago and
\* whatever has become of its outputs, and moves nothing.
RetriesReplayed ==
  [][Send => \A record \in recorded :
       retryOutcome(record.request, latest') = "replay" =>
         reply' = record.answer /\ UNCHANGED <<notes, swaps>>]_<<fault, retryVars>>

\* Anything else that names a burned input is refused, and for the reason any
\* double spend is refused: the holder of a burned spend learns nothing.
DoubleSpend(r) ==
  /\ \A record \in recorded : retryOutcome(record.request, r) = "double-spend"
  /\ \E q \in qs(r) : known(q) /\ notes[q].state = "burned"
DoubleSpendsRefused ==
  [][Send /\ DoubleSpend(latest') =>
       /\ reply'.status = "ERROR" /\ UNCHANGED <<notes, swaps>>
       /\ illFormed(latest') \/ unopened(latest') \/ reply' = fail(burnedReason)
     ]_<<fault, retryVars>>
=============================================================================
