---------------------------- MODULE AddressRules ----------------------------
(***************************************************************************)
(* What gradeMint and gradeRegistration share: the requests they send, and *)
(* gradeAddressRules, the checks of a LUD-26 Lightning Address, which runs *)
(* at the end of the one and in the middle of the other.                   *)
(***************************************************************************)
EXTENDS GradedPay

CONSTANTS
  Gradings,         \* what may be graded, some of Targets
  Usual,            \* the 1000 msat a quote asks for, or the least the mint sells
  Hazards, Budget,  \* of Grade
  Disturbed         \* bound: the options beside which HTTP makes trouble

Targets == {"mint", "plain path", "address as a mint", "address", "unregistered",
            "bound note", "registration"}
ASSUME GradingAssumption == Gradings \subseteq Targets /\ Usual \in Nat \ {0} /\ Budget \in Nat

VARIABLES plan, log, ask, tries, report, suffered,
  target,   \* what is graded
  g         \* what the grader remembers: the documents it read, what it registered

Rules == <<"noComment", "plainPayment", "sameMint", "plusTag", "noHint">>
MintChecks == <<"payRequest", "withdrawLink", "metadata", "invoice", "verify", "unknown">>
Checks ==
  CASE target \in {"mint", "plain path", "address as a mint"} ->
         MintChecks \o <<"mintAddress", "stats", "naming">>
    [] target \in {"address", "unregistered"} -> MintChecks \o Rules
    [] target = "bound note" -> <<"bound">>
    [] OTHER ->
         <<"mint@", "freeName", "preflight", "badProofs", "reserved", "register", "taken",
           "usedKey", "unpublished", "publishes">> \o Rules
         \o <<"bothProofs", "noSuchName", "moves", "notOnFile", "unregisters", "neverAgain",
              "cors", "leaveNothing">>

Nothing == [ask |-> "nothing", name |-> "mint", amount |-> 0, h |-> Absent,
            comment |-> Absent, cx1 |-> Unbound, sig |-> NoProof, newsig |-> NoProof]
INSTANCE Grade
vars == <<mintVars, plan, log, ask, tries, report, suffered, target, g>>

---------------------------------------------------------------------------
asked(what, name) == [Nothing EXCEPT !.ask = what, !.name = name]
Usually == IF MinSendable > Usual THEN MinSendable ELSE Usual
quoteAt(name) == [asked("quote", name) EXCEPT !.amount = Usually]
withComment(name, comment) == [quoteAt(name) EXCEPT !.comment = comment]
invoiced(answer) == answer.status = "invoice" /\ answer.pr = Usually

Remember(new) == g' = new
Keep == g' = g
Unserved == g.pay.status # "payRequest"

\* The address under grade is user@.
NoComment ==
  /\ Beginning("noComment") /\ Keep
  /\ Judged(g.pay.comment = 0)

PlainPayment ==
  \/ /\ Beginning("plainPayment") /\ Keep
     /\ Provided(~Unserved, quoteAt("user"))
  \/ /\ Reading("plainPayment") /\ Keep
     /\ Judged(invoiced(body))

SameAs(mint) ==
  /\ mint.status = "payRequest"
  /\ g.pay.link = mint.link /\ g.pay.base = mint.base
SameMint ==
  \/ /\ Beginning("sameMint") /\ Keep
     /\ IF g.mint.status = "payRequest" THEN Judged(SameAs(g.mint))
        ELSE Ask(asked("payRequest", "mint"))
  \/ /\ Reading("sameMint") /\ Keep
     /\ Judged(SameAs(body))

PlusTag ==
  \/ /\ Beginning("plusTag") /\ Keep
     /\ Ask(asked("payRequest", "user+tag"))
  \/ /\ Reading("plusTag") /\ Keep
     /\ Judged(body.status = "payRequest" /\ body.link = g.pay.link)

NoHint ==
  /\ Beginning("noHint") /\ Keep
  /\ Verdict(IF g.pay.hint THEN "warn" ELSE "pass")

gradeAddressRules == NoComment \/ PlainPayment \/ SameMint \/ PlusTag \/ NoHint

---------------------------------------------------------------------------
\* The mint handles a request while the grader waits for its answer.
Reaches ==
  /\ ask # Nothing
  /\ LET done == handle(ask) IN
     /\ bound' = done.bound /\ registrations' = done.registrations
     /\ usedKeys' = done.usedKeys
Deliver == Reaches /\ Delivered(handle(ask).answer)
Unreached == UNCHANGED <<bound, registrations, usedKeys>>

\* Only a GET is repeated by the HTTP under it.  get must find JSON in an
\* answer; call reads whatever comes, a rate limit in plain text included.
ByCall == \/ ask.ask \in {"POST", "PUT", "DELETE", "OPTIONS"}
          \/ at \in {"freeName", "badProofs", "unpublished", "unregisters"}
Http ==
  /\ \/ Deliver
     \/ /\ fault \in Disturbed
        /\ \/ Reaches /\ ask.ask \notin {"POST", "PUT", "DELETE"} /\ Resent
           \/ Reaches /\ ReplyLost
           \/ Unreached /\ (RequestLost \/ Limited)
           \/ Unreached /\ ~ByCall /\ LimitedNotJson
  /\ UNCHANGED <<fault, notes, target, g>>
Done == at = "done" /\ UNCHANGED vars

\* What a quote named by the wallet's own hash came to when it was paid.
settledTo ==
  LET q == boundTo([withComment("mint", hexH("mine")) EXCEPT !.h = hexH("mine")])
  IN  IF q = "none" THEN "its preimage" ELSE q

Init ==
  /\ target \in Gradings /\ fault \in Misbehaviour
  /\ InitPay(IF target \in {"address as a mint", "address"} THEN {"user"} ELSE {},
             IF target = "bound note" THEN {settledTo} ELSE {})
  /\ InitGrade(Checks)
  /\ g = [pay |-> Said, mint |-> Said, doc |-> Said, verify |-> FALSE,
          registered |-> FALSE, held |-> FALSE, onFile |-> "none", cors |-> {}]
=============================================================================
