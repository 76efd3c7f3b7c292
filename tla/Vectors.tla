------------------------------ MODULE Vectors -------------------------------
(***************************************************************************)
(* The files of vectors/ that pin down what running parts of this          *)
(* repository do, composed: fees.json against the wallet, the mint and the *)
(* grader, retried-mutation.json against the mint.                         *)
(***************************************************************************)
EXTENDS MintFees, RetryVectors

VARIABLE file
vectorVars == <<file, feeVars, fault, retryVars>>

\* What the file that is not under check leaves alone.
FeesIdle ==
  /\ fees = CHOOSE s \in Charges : TRUE
  /\ minimum = 0 /\ net = 0 /\ lo = 0 /\ hi = 0 /\ note = 0 /\ stage = "found"

Init ==
  /\ fault \in Misbehaviour
  /\ InitRetries
  /\ \/ file = "fees.json" /\ InitFees
     \/ file = "retried-mutation.json" /\ FeesIdle
Next ==
  \/ /\ file = "fees.json" /\ MintFeesStep
     /\ UNCHANGED <<file, fault, notes, swaps, recorded, latest, reply, sendings>>
  \/ /\ file = "retried-mutation.json" /\ Send
     /\ UNCHANGED <<file, fees, minimum, net, lo, hi, note, stage>>

\* The search is a loop of one thread: it runs on.
Spec == Init /\ [][Next]_vectorVars /\ WF_vectorVars(Next)

SearchEnds == file = "fees.json" => WalletAnswered
=============================================================================
