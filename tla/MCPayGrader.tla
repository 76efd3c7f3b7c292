---------------------------- MODULE MCPayGrader -----------------------------
(***************************************************************************)
(* Instances of PayGrader: every option against everything that can be     *)
(* graded, and conforming mints under each trouble of HTTP.                *)
(***************************************************************************)
EXTENDS PayGrader

Charging == {"none", "addressFeeMsat"}
MintOptions == {"commentAllowed false", "commentAllowed 32", "commentFallsBack",
  "commentFallsBackWhenAbsent", "mintToHash", "mintToHashAcceptsMalformedH",
  "mintToHashAcceptsUsedH", "mintToHashIgnoresH", "mintToHash unconfirmed",
  "mintToHash unadvertised", "mintToHash contradicted", "acceptsOffCurveCp1",
  "refusesCp1Outputs", "verifyLeaksEarly", "contact malformed", "stats", "stats thin",
  "addressCommentAllowed", "plusTagUnknown", "addressFeesDiffer", "addressHint",
  "malformedJson"}
RegistryOptions == {"addressFeeChargedMsat above",
  "addressFeeChargedMsat unadvertised", "publishesUnpaidAddress", "registrationUnverified",
  "registrationWithoutCx1", "overwritesRegistration", "reusesCx1", "reusesCx1 byCx1",
  "reusesCx1 afterUnregister", "acceptsReservedUsernames", "updateChecksOnly sig",
  "updateChecksOnly newsig", "unregisterUnverified", "registrationReasons",
  "noMutationCors", "noPreflight"}
EveryOption == Charging \cup MintOptions \cup RegistryOptions
=============================================================================
