----------------------------- MODULE SelfGrade ------------------------------
(***************************************************************************)
(* tools/selfgrade.mjs on gradeNote: which check must catch each option a  *)
(* mock is started with, which options must not fail it, and after which   *)
(* of them the grader must still hold all the value.                       *)
(***************************************************************************)
EXTENDS NoteGrader

\* caughtBy: the checks that must fail, by what the option breaks.
EchoFault == [echoWrongK1 |-> {"echo"}]
MutationFaults ==
  [acceptsMissingP2 |-> {"noP2"},
   splitIgnoresBaseFee |-> IF g.feeKnown /\ BaseFee > 0 THEN {"shortFee"} ELSE {}]
CertificateFaults ==
  [signWithUnpublishedKey |-> {"certified"},
   certificateOverH |-> {"certified", "infoCert", "certificates"},
   certificateWithoutDomain |-> {"certified", "certificates"}]
RetryFaults == ("retriedMutation:refuse" :> {"retry"})
LookupFaults ==
  [option \in {"hashLookup:false", "hashLookup:echoesK1", "hashLookup:answersUnknown",
               "hashLookup:acceptsBoth"} |-> {"lookup"}]
  @@ [option \in {"hashLookup:hidesSpent", "burnedReason"} |-> {"spent"}]
taproot ==
  [leafVersionUnchecked |-> {"version"}, opSuccessUnchecked |-> {"success"},
   refusesLocktimes |-> {"past"}, unverifiedCk1 |-> {"elsewhere", "forged"},
   infoSkipsVerification |-> {"forged", "version"}, replayMatchesStrings |-> {"retry"},
   alreadyInUseReason |-> {"burnedP1"}, refusesCp1Outputs |-> {"keyNote", "fullCw1"}]
  @@ [rule \in TimeRules |-> {p \in DOMAIN RuleOf : RuleOf[p] = rule}]
CapFaults == [acceptsOversizedMerge |-> {"oversized"}]
Caught == EchoFault @@ MutationFaults @@ CertificateFaults @@ RetryFaults @@ LookupFaults @@ taproot
          @@ CapFaults
MustFail == IF fault \in DOMAIN Caught THEN Caught[fault] ELSE {}

\* Options a grade may warn about and must not fail.
MustNotFail == {"none", "signatures", "signWithPreviousKey", "certificateNames:sig",
                "certificateNames:both", "mergeCap"}
MustWarn ==
  [option \in {"signatures", "certificateNames:sig"} |-> {"certified", "certificates"}]

\* conserved: what the grader must bring home all the same.
Conserved ==
  {"none", "signatures", "certificateNames:sig", "certificateOverH",
   "certificateWithoutDomain", "hashLookup:false", "leafVersionUnchecked",
   "opSuccessUnchecked", "refusesLocktimes", "unverifiedCk1", "infoSkipsVerification",
   "replayMatchesStrings", "alreadyInUseReason", "refusesCp1Outputs"} \cup TimeRules

\* Every option is caught by the checks that are there for it, and an option
\* that breaks no rule by none.
FaultsCaught ==
  at = "done" /\ suffered = << >> =>
    /\ MustFail \subseteq Failed
    /\ fault \in MustNotFail => Failed = {}
    /\ fault \in DOMAIN MustWarn => \A check \in MustWarn[fault] : report[check] = "warn"

\* A mint that gets a rule of spending wrong does not keep the note: between
\* checks, and at the end, the grader can spend all of the value.
BroughtHome ==
  fault \in Conserved /\ suffered = << >> /\ n = 0 /\ ask = Nothing => Holding = Value
=============================================================================
