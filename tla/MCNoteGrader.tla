---------------------------- MODULE MCNoteGrader ----------------------------
(***************************************************************************)
(* Instances of NoteGrader.  A note of 8 under a base fee of 2 is large    *)
(* enough to split, and small enough that a change one short of the fee is *)
(* a legal amount.                                                         *)
(***************************************************************************)
EXTENDS SelfGrade

Honest == {"none"}
EveryOption == {"echoWrongK1", "acceptsMissingP2", "splitIgnoresBaseFee",
  "signWithPreviousKey", "signWithUnpublishedKey", "burnedReason", "hashLookup:echoesK1",
  "hashLookup:answersUnknown", "hashLookup:acceptsBoth", "hashLookup:hidesSpent",
  "retriedMutation:refuse", "certificateNames:both", "mergeCap", "acceptsOversizedMerge",
  "lieAboutValue", "serverGeneratedSecrets", "dropAfterMutation", "unconfirmedMutation"}
  \cup Conserved

Known == [given |-> "preimage", feeKnown |-> TRUE]
KnownFee == {Known}
EitherWay == {Known, [given |-> "cw1", feeKnown |-> FALSE]}

LostReplies == {"replyLost"}
RateLimits == {"limited", "limitedNotJson"}
=============================================================================
