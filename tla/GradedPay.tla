------------------------------ MODULE GradedPay ------------------------------
(***************************************************************************)
(* The paying side of the mock as a grader meets it: the payRequest, its   *)
(* callback, LUD-21 verify, the mint address document, the liabilities and *)
(* the LUD-26 registrations, with the misbehaviour a mock may be started   *)
(* with, one option at a time.  PayCallback and AddressRegistry are the    *)
(* same endpoints without options; here each is an operator from the state *)
(* and a request to the state and an answer.                               *)
(***************************************************************************)
EXTENDS Integers, Sequences, FiniteSets

CONSTANTS
  MinSendable, MaxSendable,    \* in steps of 1000 msat
  Outstanding,                 \* what the mint owes when it is graded
  Balance,                     \* what its node holds
  Misbehaviour                 \* the options a mint may be started with

ASSUME Sendable ==
  /\ MinSendable \in Nat \ {0} /\ MaxSendable \in Nat
  /\ MinSendable <= MaxSendable
  /\ Outstanding \in Nat /\ Balance \in Nat

VARIABLES
  fault,          \* opts: the one option this mint was started with
  notes,          \* the outputs that are notes
  bound,          \* boundOutputs: the outputs an unpaid quote will credit
  registrations,  \* username -> its share, and whether its fee is paid
  usedKeys        \* usedKeys and usedCx1s: every share ever accepted
mintVars == <<fault, notes, bound, registrations, usedKeys>>

Has(option) == fault = option

\* A note is named by a cp1 or by a bearer note's 64 hex digits; everything
\* else that travels in h or comment is malformed, off the curve or absent.
cp1(q) == [q |-> q, by |-> "cp1"]
hexH(q) == [q |-> q, by |-> "h"]
OffCurve == [q |-> "off the curve", by |-> "cp1"]
Malformed == [q |-> "none", by |-> "malformed"]
Absent == [q |-> "none", by |-> "absent"]

\* A share is its x(P) under a chain code; a proof is a key's signature over
\* a message, which unregister and the 0.15 register leave unbound.
Share(x) == [x |-> x, chain |-> "own"]
Unbound == [x |-> "none", chain |-> "none"]
Message(action, domain, name, cx1) ==
  [action |-> action, domain |-> domain, name |-> name, cx1 |-> cx1]
Signed(key, message) == [by |-> key, over |-> message]
NoProof == Signed("nobody", Message("none", "none", "none", Unbound))

---------------------------------------------------------------------------
\* The options.  Several are only reachable with another one on.
mintToHashPlaces ==
  CASE fault \in {"mintToHash", "mintToHashAcceptsMalformedH", "mintToHashAcceptsUsedH",
                  "mintToHashIgnoresH"} -> {"payRequest", "mintAddress", "quote"}
    [] Has("mintToHash unconfirmed") -> {"payRequest", "mintAddress"}
    [] Has("mintToHash unadvertised") -> {"quote"}
    [] Has("mintToHash contradicted") -> {"payRequest", "quote"}
    [] OTHER -> {}
mintToHash == mintToHashPlaces # {}
commentAllowed ==
  CASE Has("commentAllowed false") -> 0 [] Has("commentAllowed 32") -> 32 [] OTHER -> 64

addressFee ==
  IF fault \in {"addressFeeMsat", "addressFeeChargedMsat above", "publishesUnpaidAddress"}
  THEN 21 ELSE 0
addressFeeCharged ==
  CASE Has("addressFeeChargedMsat above") -> 30
    [] Has("addressFeeChargedMsat unadvertised") -> 5 [] OTHER -> addressFee
reasons(reason) == IF Has("registrationReasons") THEN "another wording" ELSE reason

Said == [status |-> "ERROR", reason |-> "", link |-> "none", base |-> 0, comment |-> 0,
         mintToHash |-> FALSE, pr |-> 0, verify |-> FALSE, settled |-> FALSE, leaks |-> FALSE,
         hint |-> FALSE, malformed |-> FALSE, owes |-> 0, holds |-> 0, cors |-> TRUE]
fail(reason) == [Said EXCEPT !.reason = reason]

---------------------------------------------------------------------------
\* GET /.well-known/lnurlp/<name>, /.well-known/lnurlw/<name> and /stats.
lower(name) == IF name = "USER" THEN "user" ELSE name
untagged(name) == CASE name = "user+tag" -> "user" [] name = "mint+tag" -> "mint"
                    [] OTHER -> name
published(name) ==
  /\ name \in DOMAIN registrations
  /\ registrations[name].paid \/ Has("publishesUnpaidAddress")

payRequest(user) ==
  LET name == IF Has("plusTagUnknown") THEN lower(user) ELSE untagged(lower(user))
      served == [Said EXCEPT !.status = "payRequest", !.link = "/w"]
  IN
  IF name = "mint"
  THEN [served EXCEPT !.comment = commentAllowed,
                      !.mintToHash = "payRequest" \in mintToHashPlaces]
  ELSE IF ~published(name) THEN fail(reasons("unknown user"))
  ELSE [served EXCEPT !.comment = IF Has("addressCommentAllowed") THEN 64 ELSE 0,
                      !.base = IF Has("addressFeesDiffer") THEN 1000 ELSE 0,
                      !.hint = Has("addressHint")]

mintAddress(name) ==
  IF name # "mint" THEN fail("Unknown user.")
  ELSE [Said EXCEPT !.status = "withdrawRequest",
                    !.mintToHash = "mintAddress" \in mintToHashPlaces,
                    !.malformed = Has("contact malformed")]

stats ==
  IF fault \notin {"stats", "stats thin"} THEN fail("Not found.")
  ELSE [Said EXCEPT !.status = "stats", !.owes = Outstanding,
                    !.holds = IF Has("stats thin") THEN 1 ELSE Balance]

---------------------------------------------------------------------------
\* The pay callbacks.  A quote binds the output its comment names, or its h.
outputInUse(q) == q \in notes \cup bound
inRange(amount) == amount \in MinSendable .. MaxSendable
hNames(h) == IF mintToHash /\ h.by = "h" THEN h.q ELSE "none"

\* Fault: a cp1 is taken for a note whatever its key is.
noteOf_offCurve(ref) == IF ref.by \in {"cp1", "h"} THEN ref.q ELSE "none"
noteOf(ref) ==
  IF ref = OffCurve /\ ~Has("acceptsOffCurveCp1") THEN "none"
  ELSE IF ref.by \in {"cp1", "h"} THEN ref.q ELSE "none"
commentNames(comment) ==
  IF commentAllowed < 64 \/ (Has("refusesCp1Outputs") /\ comment.by # "h") THEN "none"
  ELSE noteOf(comment)

boundTo(r) ==
  IF commentNames(r.comment) # "none" THEN commentNames(r.comment)
  ELSE IF Has("mintToHashIgnoresH") THEN "none" ELSE hNames(r.h)

\* Every refusal comes before an invoice exists.
hRefused(r) ==
  /\ mintToHash /\ r.h # Absent
  /\ \/ hNames(r.h) = "none" /\ ~Has("mintToHashAcceptsMalformedH")
     \/ outputInUse(hNames(r.h)) /\ ~Has("mintToHashAcceptsUsedH")
\* Fault: a quote that names no note falls back to its payment preimage.
commentRefused_fallsBack(r) ==
  /\ commentNames(r.comment) # "none"
  /\ outputInUse(commentNames(r.comment)) /\ ~Has("mintToHashAcceptsUsedH")
commentRefused(r) ==
  LET named == commentNames(r.comment) IN
  /\ commentAllowed >= 64
  /\ IF named # "none"
     THEN \/ outputInUse(named) /\ ~Has("mintToHashAcceptsUsedH")
          \/ hNames(r.h) \notin {"none", named} /\ ~Has("mintToHashIgnoresH")
     ELSE /\ ~Has("commentFallsBack")
          /\ ~(Has("commentFallsBackWhenAbsent") /\ r.comment = Absent)

Same(answer) ==
  [answer |-> answer, bound |-> bound, registrations |-> registrations, usedKeys |-> usedKeys]
invoice(amount) == [Said EXCEPT !.status = "invoice", !.pr = amount]

quote(r) ==
  IF ~inRange(r.amount) \/ hRefused(r) \/ commentRefused(r) THEN Same(fail("refused"))
  ELSE [Same([invoice(r.amount) EXCEPT
               !.verify = commentAllowed < 64 \/ boundTo(r) # "none",
               !.mintToHash = hNames(r.h) # "none" /\ "quote" \in mintToHashPlaces])
        EXCEPT !.bound = bound \cup ({boundTo(r)} \ {"none"})]

addressQuote(r) ==
  IF ~published(lower(r.name)) THEN fail(reasons("unknown user"))
  ELSE IF ~inRange(r.amount) THEN fail("Amount out of range.")
  ELSE [invoice(r.amount) EXCEPT !.verify = TRUE]

verify == [Said EXCEPT !.status = "OK", !.leaks = Has("verifyLeaksEarly")]
info(q) ==
  IF q \in notes THEN [Said EXCEPT !.status = "withdrawRequest"] ELSE fail("Unknown note.")

---------------------------------------------------------------------------
\* handleRegistration.
verifyProof(message, sig, x) ==
  Has("registrationUnverified") \/ (sig.by = x /\ sig.over = message)
signedBy(action, r, sig, x) ==
  verifyProof(Message(action, "here", lower(r.name),
                      IF Has("registrationWithoutCx1") /\ r.ask = "POST" THEN Unbound ELSE r.cx1),
              sig, x)

\* Fault: only the shares on file count as used.
cx1Used_onFile(cx1) == \E name \in DOMAIN registrations : registrations[name].cx1.x = cx1.x
cx1Used(cx1) ==
  CASE Has("reusesCx1") -> FALSE
    [] Has("reusesCx1 afterUnregister") ->
         \E name \in DOMAIN registrations : registrations[name].cx1.x = cx1.x
    [] Has("reusesCx1 byCx1") -> cx1 \in usedKeys
    [] OTHER -> \E used \in usedKeys : used.x = cx1.x

Refused(reason) == Same([fail(reason) EXCEPT !.cors = ~Has("noMutationCors")])
Accepted(name, cx1, paid, pr) ==
  [answer |-> [Said EXCEPT !.status = "OK", !.pr = pr, !.cors = ~Has("noMutationCors")],
   bound |-> bound,
   registrations |-> [user \in DOMAIN registrations \cup {name} |->
                        IF user = name THEN [cx1 |-> cx1, paid |-> paid]
                        ELSE registrations[user]],
   usedKeys |-> usedKeys \cup {cx1}]

register(r) ==
  LET name == lower(r.name) IN
  IF (name = "mint" \/ name # untagged(name)) /\ ~Has("acceptsReservedUsernames")
  THEN Refused("username not allowed")
  ELSE IF ~signedBy("register", r, r.sig, r.cx1.x) THEN Refused("invalid signature")
  ELSE IF name \in DOMAIN registrations /\ ~Has("overwritesRegistration")
  THEN Refused(reasons("already registered"))
  ELSE IF cx1Used(r.cx1) THEN Refused(reasons("cx1 already used"))
  ELSE Accepted(name, r.cx1, addressFeeCharged = 0, addressFeeCharged)

update(r) ==
  LET name == lower(r.name) IN
  IF name \notin DOMAIN registrations \/ ~registrations[name].paid
  THEN Refused(reasons("unknown user"))
  ELSE IF \/ /\ ~signedBy("update", r, r.sig, registrations[name].cx1.x)
             /\ ~Has("updateChecksOnly newsig")
          \/ /\ ~signedBy("register", r, r.newsig, r.cx1.x)
             /\ ~Has("updateChecksOnly sig")
  THEN Refused("invalid signature")
  ELSE IF cx1Used(r.cx1) THEN Refused(reasons("cx1 already used"))
  ELSE Accepted(name, r.cx1, TRUE, 0)

unregister(r) ==
  LET name == lower(r.name) IN
  IF name \notin DOMAIN registrations THEN Refused(reasons("unknown user"))
  ELSE IF ~Has("unregisterUnverified")
          /\ ~verifyProof(Message("unregister", "here", name, Unbound), r.sig,
                          registrations[name].cx1.x)
  THEN Refused("invalid signature")
  ELSE [answer |-> [Said EXCEPT !.status = "OK", !.cors = ~Has("noMutationCors")],
        bound |-> bound, usedKeys |-> usedKeys,
        registrations |-> [other \in DOMAIN registrations \ {name} |-> registrations[other]]]

---------------------------------------------------------------------------
\* Every endpoint a grader asks; malformedJson breaks what send sends.
sent(answer) ==
  IF Has("malformedJson") THEN [Said EXCEPT !.status = "notJson"] ELSE answer
handle(r) ==
  CASE r.ask = "payRequest" -> Same(sent(payRequest(r.name)))
    [] r.ask = "mintAddress" -> Same(sent(mintAddress(r.name)))
    [] r.ask = "stats" -> Same(sent(stats))
    [] r.ask = "info" -> Same(sent(info(r.h.q)))
    [] r.ask = "verify" -> Same(sent(verify))
    [] r.ask = "quote" /\ r.name = "mint" ->
         [quote(r) EXCEPT !.answer = sent(quote(r).answer)]
    [] r.ask = "quote" /\ r.name # "mint" -> Same(sent(addressQuote(r)))
    [] r.ask = "OPTIONS" ->
         Same(IF Has("noPreflight") THEN fail("Not found.") ELSE [Said EXCEPT !.status = "OK"])
    [] r.ask = "POST" -> register(r)
    [] r.ask = "PUT" -> update(r)
    [] r.ask = "DELETE" -> unregister(r)
    [] OTHER -> Same(fail("Not found."))

\* registeredAddress: alice is there from the start, already paid for.
InitPay(names, credited) ==
  /\ notes = credited /\ bound = {}
  /\ registrations = [name \in names |-> [cx1 |-> Share(name), paid |-> TRUE]]
  /\ usedKeys = {Share(name) : name \in names}
=============================================================================
