----------------------------- MODULE MintGrader -----------------------------
(***************************************************************************)
(* gradeMint: the checks that only read and ask for quotes nobody pays, on *)
(* a mint's payRequest or on a Lightning Address, with what                *)
(* tools/selfgrade.mjs expects of them.                                    *)
(***************************************************************************)
EXTENDS AddressRules

graded == IF target \in {"mint", "plain path"} THEN "mint" ELSE "user"
Fresh == hexH("fresh")

\* A grade of a payRequest that never came is over; one that came as an
\* error goes on, and its checks fail for want of a callback.
PayRequest ==
  \/ /\ Beginning("payRequest") /\ Keep
     /\ Ask(asked("payRequest", graded))
  \/ /\ Reading("payRequest")
     /\ Remember([g EXCEPT !.pay = body])
     /\ Judged(body.status = "payRequest")

WithdrawLink ==
  /\ Beginning("withdrawLink") /\ Keep
  /\ Judged(g.pay.link # "none")
Metadata ==
  /\ Beginning("metadata") /\ Keep
  /\ Judged(~Unserved)

Invoice ==
  \/ /\ Beginning("invoice") /\ Keep
     /\ Provided(~Unserved,
                 [quoteAt(graded) EXCEPT
                    !.comment = IF g.pay.comment >= 64 THEN hexH("invoiced") ELSE Absent])
  \/ /\ Reading("invoice")
     /\ Remember([g EXCEPT !.verify = invoiced(body) /\ body.verify])
     /\ Judged(invoiced(body))

VerifyServesNoSecret ==
  \/ /\ Beginning("verify") /\ Keep
     /\ IF g.verify THEN Ask(asked("verify", graded)) ELSE Verdict("warn")
  \/ /\ Reading("verify") /\ Keep
     /\ Judged(~refused /\ ~body.settled /\ ~body.leaks)

UnknownNote ==
  \/ /\ Beginning("unknown") /\ Keep
     /\ IF g.pay.link = "none" THEN Verdict("warn")
        ELSE Ask([asked("info", "mint") EXCEPT !.h = Fresh])
  \/ /\ Reading("unknown") /\ Keep
     /\ Judged(refused /\ body.reason = "Unknown note.")

---------------------------------------------------------------------------
\* The optional documents: absent is a warning, and so is anything thrown
\* while they are fetched.
Optional == {"mintAddress", "stats"}
MintAddress ==
  \/ /\ Beginning("mintAddress") /\ Keep
     /\ IF target = "plain path" THEN Verdict("warn") ELSE Ask(asked("mintAddress", graded))
  \/ /\ Reading("mintAddress")
     /\ IF refused THEN Keep /\ Verdict("warn")
        ELSE /\ Remember([g EXCEPT !.doc = body])
             /\ Verdict(IF body.malformed THEN "warn" ELSE "pass")

Liabilities ==
  \/ /\ Beginning("stats") /\ Keep
     /\ Ask(asked("stats", graded))
  \/ /\ Reading("stats") /\ Keep
     /\ Verdict(IF refused \/ body.holds < body.owes THEN "warn" ELSE "pass")

---------------------------------------------------------------------------
\* requires comment-bound minting and honours the mintToHash extension: one
\* script of requests, each with what its answer must be.
advertised == {s \in {"h", "comment"} : s = "comment" \/ g.pay.mintToHash}
corroborated == {s \in {"h"} : g.doc.mintToHash}
probed == IF "h" \in advertised THEN <<"h", "comment">> ELSE <<"comment", "h">>

\* An h that can be a comment travels as both; beside one that cannot goes
\* a fresh comment.
Named(spelling) == hexH(IF spelling = "h" THEN "named by h" ELSE "named by comment")
quoteWith(spelling, value, beside, amount) ==
  [quoteAt(graded) EXCEPT !.amount = amount,
     !.h = IF spelling = "h" THEN value ELSE Absent,
     !.comment = IF spelling = "h" /\ value.by # "h" THEN beside ELSE value]
quoteNamed(spelling, amount) == quoteWith(spelling, Named(spelling), Absent, amount)
\* Five malformed values: four that are not 64 hex digits, and a cp1.
Wrong == <<Malformed, Malformed, Malformed, Malformed, OffCurve>>
Beside == <<"beside 1", "beside 2", "beside 3", "beside 4", "beside 5">>
otherAmount == IF 2 * Usually <= MaxSendable THEN 2 * Usually ELSE MaxSendable

Step(request, expects) == [request |-> request, expects |-> expects]
Each(seq, Of(_)) == [i \in DOMAIN seq |-> Of(seq[i])]
echoed == {i \in 1 .. 2 : log[i].mintToHash}
echoedH == \E i \in echoed : probed[i] = "h"
hClaimed == "h" \in advertised \cup corroborated \/ echoedH

Binding == Each(probed, LAMBDA s : Step(quoteNamed(s, Usually), "invoice"))
Malforming(s) ==
  [i \in DOMAIN Wrong |->
     Step(quoteWith(s, Wrong[i], hexH(Beside[i]), Usually),
          IF s = "h" /\ ~hClaimed THEN "anything" ELSE "refused")]
Probing ==
  Each(probed, LAMBDA s : Step([asked("info", "mint") EXCEPT !.h = Named(s)], "refused"))
  \o Malforming(probed[1]) \o Malforming(probed[2])
  \o <<Step(withComment(graded, cp1("keyed")), "invoice"), Step(quoteAt(graded), "refused")>>
  \o (IF hClaimed
      THEN <<Step([withComment(graded, hexH("one")) EXCEPT !.h = hexH("another")], "refused")>>
      ELSE << >>)
  \o (IF otherAmount = Usually THEN << >>
      ELSE Each(IF hClaimed THEN probed ELSE <<"comment">>,
                LAMBDA s : Step(quoteNamed(s, otherAmount), "soft")))
Script == Binding \o (IF n < 2 THEN << >> ELSE Probing)

Meets(answer, expects) ==
  CASE expects = "invoice" -> invoiced(answer)
    [] expects = "refused" -> answer.status = "ERROR"
    [] expects \in {"anything", "soft"} -> TRUE

\* Claims that disagree, and one output sold twice, are named, not failed.
problem ==
  \/ "h" \in advertised /\ (~echoedH \/ (g.doc.status # "ERROR" /\ "h" \notin corroborated))
  \/ echoedH /\ "h" \notin advertised
  \/ \E i \in DOMAIN Script : Script[i].expects = "soft" /\ log[i].status # "ERROR"

Naming ==
  \/ /\ Beginning("naming") /\ Keep
     /\ Provided(~Unserved /\ g.pay.comment >= 64, Binding[1].request)
  \/ /\ Reading("naming") /\ Keep
     /\ CASE n = 1 -> Ask(Binding[2].request)
          [] n = 2 /\ \E i \in 1 .. 2 : ~Meets(log[i], "invoice") -> Verdict("fail")
          [] n > 2 /\ ~Meets(body, Script[n].expects) -> Verdict("fail")
          [] n = Len(Script) /\ Meets(body, Script[n].expects) ->
               Verdict(IF problem THEN "warn" ELSE "pass")
          [] n < Len(Script) -> Ask(Script[n + 1].request)
          [] OTHER -> FALSE

\* gradeBoundMint: a note somebody paid for is at the secret the wallet
\* named, the payment preimage opens nothing, and it is not for sale again.
lookup(q) == [asked("info", "mint") EXCEPT !.h = hexH(q)]
Bound ==
  \/ /\ Beginning("bound") /\ Keep
     /\ Ask(lookup("mine"))
  \/ /\ Reading("bound") /\ Keep
     /\ CASE n = 1 -> Provided(~refused, lookup("its preimage"))
          [] n = 2 -> Provided(refused, [withComment("mint", hexH("mine")) EXCEPT
                                           !.h = hexH("mine"), !.amount = Usual])
          [] n = 3 -> Judged(refused)
          [] OTHER -> FALSE

---------------------------------------------------------------------------
MintThrow ==
  /\ Throws /\ Keep
  /\ IF at = "payRequest" THEN LastVerdict(Thrown)
     ELSE Verdict(IF at \in Optional THEN "warn" ELSE Thrown)

gradeMint ==
  \/ PayRequest \/ WithdrawLink \/ Metadata \/ Invoice \/ VerifyServesNoSecret
  \/ UnknownNote \/ gradeAddressRules \/ MintAddress \/ Liabilities \/ Naming \/ Bound \/ MintThrow

---------------------------------------------------------------------------
\* What selfgrade requires of each option: the checks that must fail, and
\* those that must warn while none fails.
NamingFaults ==
  {"commentAllowed false", "commentAllowed 32", "commentFallsBack",
   "commentFallsBackWhenAbsent", "mintToHashAcceptsMalformedH", "mintToHashIgnoresH",
   "acceptsOffCurveCp1", "refusesCp1Outputs"}
AddressFaults ==
  [addressCommentAllowed |-> {"noComment"}, plusTagUnknown |-> {"plusTag"},
   addressFeesDiffer |-> {"sameMint"}]
BoundFaults == {"mintToHashAcceptsUsedH", "commentAllowed false", "commentAllowed 32"}
MustFailOnMint ==
  CASE target = "mint" /\ fault \in NamingFaults -> {"naming"}
    [] target = "mint" /\ Has("verifyLeaksEarly") -> {"verify"}
    [] target = "address as a mint" -> {"naming"}
    [] target = "address" /\ fault \in DOMAIN AddressFaults -> AddressFaults[fault]
    [] target = "bound note" /\ fault \in BoundFaults -> {"bound"}
    [] OTHER -> {}
Warned == {check \in DOMAIN report : report[check] = "warn"}
MustWarn ==
  CASE target = "mint" /\ Has("contact malformed") -> {"mintAddress"}
    [] target = "mint" /\ fault \in {"none", "stats thin"} -> {"stats"}
    [] target = "mint" /\ fault \in
         {"mintToHash unconfirmed", "mintToHash unadvertised", "mintToHash contradicted",
          "mintToHashAcceptsUsedH"} -> {"naming"}
    [] target = "plain path" /\ Has("none") -> {"mintAddress"}
    [] target = "address" /\ Has("addressHint") -> {"noHint"}
    [] OTHER -> {}

\* Every option is caught by the check that is there for it and by no other
\* but those that follow from it; a disagreement is named and never failed.
MintFaultsCaught ==
  at = "done" /\ target # "registration" /\ suffered = << >> /\ ~Has("malformedJson") =>
    /\ MustFailOnMint \subseteq Failed
    /\ MustWarn \subseteq Warned
    /\ MustWarn # {} \/ fault \in {"none", "mintToHash", "stats"}
       => target \in {"address as a mint", "unregistered"} \/ Failed = {}

\* A quote is no idempotent GET: sent twice by HTTP, its second copy finds
\* its own output taken.  That accuses an honest mint of nothing but the
\* checks that ask for one, and a rate limit waited out of nothing at all.
RepeatsAccuse ==
  /\ Has("none") /\ target \in {"mint", "plain path", "address"}
  /\ OnlySuffered({"resent", "limited"})
  /\ Len(SelectSeq(suffered, LAMBDA trouble : trouble = "limited")) <= Retries
  => Failed \subseteq IF OnlySuffered({"limited"}) THEN {} ELSE {"invoice", "naming"}
=============================================================================
