----------------------------- MODULE NoteGrader -----------------------------
(***************************************************************************)
(* gradeNote: the checks that spend.  The grader sends one request at a    *)
(* time and reads its answer; between it and the mint is HTTP, which may   *)
(* lose a request or its answer, send a GET twice, or put a rate limiter   *)
(* in front of the mint.  An action named for a check consumes an answer   *)
(* of that check: the statements from one await to the next.               *)
(***************************************************************************)
EXTENDS GradedMint

CONSTANTS
  Callings,    \* how it may be called: with a note given by "preimage" or by
               \* "cw1", and with options.mintFee passed (feeKnown) or not
  Hazards,     \* what HTTP may do, and
  Budget,      \* bounds: how often,
  Disturbed    \* and to a mint with which options

ASSUME GradingAssumption ==
  /\ Callings \subseteq [given : {"preimage", "cw1"}, feeKnown : BOOLEAN]
  /\ Budget \in Nat

VARIABLES plan, log, ask, tries, report, suffered,
  held,        \* current: the one spend the grader holds
  g            \* what else it remembers, the options it was called with included

Nothing == [ask |-> "nothing", k1s |-> << >>, p1 |-> NoRef, p2 |-> NoRef, amount |-> NoAmount]
lookup(spend) == [Nothing EXCEPT !.ask = "k1", !.k1s = <<spend>>]
lookupRef(ref) == [Nothing EXCEPT !.ask = "p", !.p1 = ref]
call(k1s, p1) == [Nothing EXCEPT !.ask = "cb", !.k1s = k1s, !.p1 = p1]
split(spend, amount, p1, p2) ==
  [call(<<spend>>, p1) EXCEPT !.p2 = p2, !.amount = amount]

k1 == SpendBy("given", g.given)
originalRefs == <<cp1("given")>> \o (IF g.given = "preimage" THEN <<hexH("given")>> ELSE << >>)
respell(spend) == IF spend.how = "preimage" THEN <<SpendBy(spend.q, "cw1")>> ELSE << >>
half == g.value \div 2
Leaf(how) == SpendBy("tree", how)
KeyNote(how) == SpendBy("key", how)

Checks == <<"echo", "idempotent", "amount", "lookup", "oversized", "noP1", "noP2",
  "rotate", "certified", "spent", "infoCert", "duplicate", "burnedP1", "twin",
  "methods", "shortFee", "split", "retry", "replayedBurn", "fullCw1", "version",
  "success", "height", "future", "blocks", "unrun", "past", "keyNote", "forged",
  "elsewhere", "keySpend", "certificates">>
INSTANCE Grade
vars == <<mintVars, plan, log, ask, tries, report, suffered, held, g>>

---------------------------------------------------------------------------
\* judgeCertificate.  A mint that rotated its key publishes the old one,
\* unless it was started with signWithUnpublishedKey.
signers == {"current"} \cup IF Has("signWithPreviousKey") THEN {"previous"} ELSE {}
judgeCertificate(c, q, amount) ==
  IF c = NoCertificate THEN "missing"
  ELSE IF c.over = "Q" /\ c.domain /\ c.key \in signers /\ c.q = q /\ c.amount = amount
  THEN "verifies" ELSE "wrong"
noteCertificate(c, q, amount) == g.certs \cup {judgeCertificate(c, q, amount)}

OK == body.status = "OK"
worth(note, amount) == note.status # "ERROR" /\ note.value = amount
adopt(spend) == held' = spend
Keep == UNCHANGED <<held, g>>
With(certs) == g' = [g EXCEPT !.certs = certs]

---------------------------------------------------------------------------
\* The informational GET, and the lookup by reference.
Echo ==
  /\ Reading("echo")
  /\ held' = held
  /\ IF body.status = "withdrawRequest" /\ body.k1 = k1.how
     THEN /\ g' = [g EXCEPT !.value = body.value,
                            !.certs = noteCertificate(body.c, "given", body.value)]
          /\ Verdict("pass")
     ELSE /\ g' = [g EXCEPT !.value = body.value]
          /\ IF refused THEN LastVerdict("fail") ELSE Verdict("fail")

SameValue == \* asked twice, and with a lying amount in the URL
  /\ Reading("idempotent") \/ Reading("amount")
  /\ Keep /\ Judged(worth(body, g.value))

Lookup ==
  /\ Reading("lookup")
  /\ held' = held
  /\ LET refs == Len(originalRefs)
         after == <<lookupRef(hexH("nobody")), lookup(bearer("nobody")),
                    lookupRef(cp1("no-key")),
                    [lookup(k1) EXCEPT !.ask = "both", !.p1 = originalRefs[1]]>>
         answered == body.status = "withdrawRequest" /\ body.k1 = "none" /\ body.value = g.value
     IN
     IF n <= refs
     THEN /\ g' = IF answered
                  THEN [g EXCEPT !.certs = noteCertificate(body.c, "given", body.value),
                                 !.offered = (n = refs)]
                  ELSE g
          /\ Provided(answered, IF n < refs THEN lookupRef(originalRefs[n + 1]) ELSE after[1])
     ELSE /\ g' = g
          /\ CASE n = refs + 1 -> Ask(after[2])
               [] n = refs + 2 -> Provided(log[n - 1].status = "ERROR" /\ refused
                                         /\ log[n - 1].reason = body.reason, after[3])
               [] n = refs + 3 -> Provided(body.status # "withdrawRequest", after[4])
               [] n = refs + 4 -> Judged(refused)
               [] OTHER -> FALSE

---------------------------------------------------------------------------
\* Mutations a mint must refuse, and the rotate it must not.
Oversized == Reading("oversized") /\ Keep /\ Judged(~OK)
NoP1 == Reading("noP1") /\ Keep /\ Judged(refused)
NoP2 ==
  /\ Reading("noP2") /\ Keep
  /\ IF n = 1 THEN Provided(refused, lookup(held)) ELSE Judged(~refused)

Rotate ==
  /\ Reading("rotate")
  /\ CASE n = 1 /\ ~OK -> Keep /\ Verdict("fail")
       [] n = 1 /\ OK ->
            /\ adopt(bearer("rotated"))
            /\ g' = [g EXCEPT !.certs = noteCertificate(body.c, "rotated", g.value),
                              !.first = judgeCertificate(body.c, "rotated", g.value)]
            /\ Provided(body.k1 = "none", lookup(bearer("rotated")))
       [] n = 2 -> Keep /\ Provided(worth(body, g.value), lookup(k1))
       [] n = 3 -> Keep /\ Judged(refused)
       [] OTHER -> FALSE

Spent ==
  /\ Reading("spent") /\ Keep
  /\ IF n <= Len(originalRefs)
     THEN Provided(refused /\ body.reason = AlreadyInUse,
                 lookupRef(IF n < Len(originalRefs) THEN originalRefs[n + 1]
                           ELSE hexH("nobody-either")))
     ELSE Judged(refused /\ body.reason = UnknownNote)

InfoCertificate ==
  /\ Reading("infoCert") /\ Keep
  /\ LET verdict == judgeCertificate(body.c, held.q, body.value) IN
     IF refused \/ verdict = "wrong" THEN Verdict("fail")
     ELSE Verdict(IF verdict = "missing" /\ body.legacy THEN "warn" ELSE "pass")

\* One note named twice: by one string, then by two.
Twice == <<<<held, held>>>> \o [i \in DOMAIN respell(held) |-> <<held, respell(held)[i]>>]
DuplicateOut(i) == hexH(<<"duplicate-first", "duplicate-second">>[i])
Duplicate ==
  /\ Reading("duplicate")
  /\ LET probe == (n + 1) \div 2
         taken == held.q \in {DuplicateOut(i).q : i \in 1 .. 2}
     IN
     CASE n % 2 = 1 /\ OK ->
            /\ adopt(bearer(DuplicateOut(probe).q)) /\ g' = g
            /\ Ask(lookup(bearer(DuplicateOut(probe).q)))
       [] n % 2 = 1 /\ ~OK -> Keep /\ Ask(lookup(held))
       [] n % 2 = 0 /\ taken -> Keep /\ Verdict(IF body.value = 2 * g.value THEN "fail" ELSE "warn")
       [] n % 2 = 0 /\ ~taken ->
            /\ Keep
            /\ IF probe < Len(Twice) /\ worth(body, g.value)
               THEN Ask(call(Twice[probe + 1], DuplicateOut(probe + 1)))
               ELSE Judged(worth(body, g.value))

BurnedP1 ==
  /\ Reading("burnedP1")
  /\ CASE n % 2 = 1 /\ OK -> adopt(k1) /\ g' = g /\ Verdict("fail")
       [] n % 2 = 1 /\ ~OK -> Keep /\ Ask(lookup(held))
       [] n % 2 = 0 ->
            /\ Keep
            /\ LET fine == worth(body, g.value) /\ log[n - 1].reason = AlreadyInUse IN
               IF n < 2 * Len(originalRefs)
               THEN Provided(fine, call(<<held>>, originalRefs[n \div 2 + 1]))
               ELSE Judged(fine)

Twin ==
  /\ Reading("twin")
  /\ CASE n % 2 = 1 /\ OK -> adopt(bearer("twin")) /\ g' = g /\ Ask(lookup(bearer("twin")))
       [] n % 2 = 1 /\ ~OK -> Keep /\ Ask(lookup(held))
       [] n % 2 = 0 ->
            /\ Keep
            /\ LET fine == held.q # "twin" /\ worth(body, g.value) IN
               IF n = 2 THEN Provided(fine, split(held, half, hexH("twin"), cp1("twin")))
               ELSE Judged(fine)

\* The answer to a POST or an OPTIONS is not the assertion; the store is.
MethodOut(i) == <<"by-POST", "by-OPTIONS">>[i]
Method(i) == [call(<<held>>, hexH(MethodOut(i))) EXCEPT !.ask = "method"]
Methods ==
  /\ at = "methods" /\ ask = Nothing /\ n > 0
  /\ n % 3 = 1 \/ body.status \notin Unanswered
  /\ Keep
  /\ CASE n % 3 = 1 -> Ask(lookup(held))
       [] n % 3 = 2 -> Provided(~refused, lookup(bearer(MethodOut(n \div 3 + 1))))
       [] n = 3 -> Provided(refused, Method(2))
       [] n = 6 -> Judged(refused)
       [] OTHER -> FALSE

ShortFee ==
  /\ Reading("shortFee") /\ Keep
  /\ IF n = 1 THEN Provided(refused, lookup(held)) ELSE Judged(worth(body, g.value))

---------------------------------------------------------------------------
\* Split and merge; the grader holds no spend of the value in between.
\* Faults: the halves are adopted never, or before the merge is confirmed.
rejoined_never(merged) == held
rejoined(merged) == bearer(merged)

Half(i) == bearer(<<"first-half", "second-half">>[i])
Split ==
  /\ Reading("split")
  /\ LET merging == call(<<Half(1), Half(2)>>, hexH("merged"))
         va == log[2].value
         vb == log[3].value
     IN
     CASE n = 1 -> Keep /\ Provided(OK, lookup(Half(1)))
       [] n = 2 -> Keep /\ Provided(~refused, lookup(Half(2)))
       [] n = 3 /\ refused -> Keep /\ Verdict("fail")
       [] n = 3 /\ ~refused ->
            /\ held' = held
            /\ With(noteCertificate(log[1].c, Half(1).q, va)
                    \cup noteCertificate(log[1].c2, Half(2).q, vb))
            /\ Provided(va = half /\ (IF g.feeKnown THEN vb = g.value - half - BaseFee
                                    ELSE va + vb <= g.value), merging)
       [] n = 4 /\ OK -> adopt(rejoined("merged")) /\ g' = g /\ Ask(lookup(bearer("merged")))
       [] n = 4 /\ ~OK -> Keep /\ Verdict("fail")
       [] n = 5 /\ refused -> Keep /\ Verdict("fail")
       [] n = 5 /\ ~refused ->
            /\ held' = held /\ With(noteCertificate(log[4].c, "merged", body.value))
            /\ Judged(IF g.feeKnown THEN body.value = va + vb + BaseFee
                      ELSE body.value \in va + vb .. g.value)
       [] OTHER -> FALSE

\* A rotate retried as it was and respelt, then a split retried.
Respelt ==
  [i \in DOMAIN respell(g.prior) |-> call(<<respell(g.prior)[i]>>, hexH("retried"))]
    \o <<call(<<g.prior>>, cp1("retried"))>>
Piece(i) == bearer(<<"first-piece", "second-piece">>[i])
Pieces(worthNow) == split(held, worthNow \div 2, hexH(Piece(1).q), hexH(Piece(2).q))
LiveValue(answer) == IF answer.status = "ERROR" THEN NoAmount ELSE answer.value
Retry ==
  /\ Reading("retry")
  /\ LET first == log[1]
         worthNow == LiveValue(log[2])
         m == 4 + 2 * Len(Respelt)           \* answers before the split
         unchanged == LiveValue(body) = worthNow
         replays == log[n - 1].status = "OK" /\ log[n - 1].c = first.c
         small == worthNow \div 2 < 1 \/ (g.feeKnown /\ worthNow - worthNow \div 2 < BaseFee + 1)
     IN
     CASE n = 1 /\ OK -> adopt(bearer("retried")) /\ g' = [g EXCEPT !.prior = held]
                         /\ Ask(lookup(bearer("retried")))
       [] n = 1 /\ ~OK -> Keep /\ Verdict("fail")
       [] n = 2 /\ worthNow = NoAmount -> Keep /\ Verdict("fail")
       [] n = 2 /\ worthNow # NoAmount ->
            /\ held' = held /\ With(noteCertificate(first.c, "retried", worthNow))
            /\ Ask(call(<<g.prior>>, hexH("retried")))
       [] n \in 3 .. m - 1 /\ n % 2 = 1 -> Keep /\ Ask(lookup(bearer("retried")))
       [] n \in 4 .. m /\ n % 2 = 0 ->
            /\ Keep
            /\ IF ~(unchanged /\ replays) THEN Verdict("fail")
               ELSE IF n < m THEN Ask(Respelt[n \div 2 - 1])
               ELSE IF small THEN Verdict("warn") ELSE Ask(Pieces(worthNow))
       [] n = m + 1 -> Keep /\ Provided(OK, lookup(Piece(1)))
       [] n = m + 2 -> Keep /\ Ask(lookup(Piece(2)))
       [] n = m + 3 ->
            /\ held' = held
            /\ With(noteCertificate(log[m + 1].c, Piece(1).q, LiveValue(log[m + 2]))
                    \cup noteCertificate(log[m + 1].c2, Piece(2).q, LiveValue(body)))
            /\ Ask(Pieces(worthNow))
       [] n = m + 4 -> Keep /\ Ask(lookup(Piece(1)))
       [] n = m + 5 -> Keep /\ Ask(lookup(Piece(2)))
       [] n = m + 6 ->
            /\ Keep
            /\ Provided(/\ LiveValue(log[n - 1]) = LiveValue(log[m + 2])
                      /\ LiveValue(body) = LiveValue(log[m + 3])
                      /\ log[m + 4].status = "OK"
                      /\ log[m + 4].c = log[m + 1].c /\ log[m + 4].c2 = log[m + 1].c2,
                      call(<<Piece(1), Piece(2)>>, hexH("rejoined")))
       [] n = m + 7 /\ OK -> adopt(rejoined("rejoined")) /\ g' = g /\ Ask(lookup(bearer("rejoined")))
       [] n = m + 7 /\ ~OK -> Keep /\ Verdict("pass")
       [] n = m + 8 -> held' = held /\ Verdict("pass")
                       /\ With(noteCertificate(log[n - 1].c, "rejoined", LiveValue(body)))
       [] OTHER -> FALSE

ReplayedOut(i) == hexH(<<"replayed-first", "replayed-second">>[i])
ReplayedBurn ==
  /\ Reading("replayedBurn") /\ g' = g
  /\ IF OK THEN adopt(bearer(ReplayedOut(n).q)) /\ Verdict("fail")
     ELSE /\ held' = held
          /\ IF n <= Len(respell(k1)) THEN Ask(call(respell(k1), ReplayedOut(2)))
             ELSE Verdict("pass")

---------------------------------------------------------------------------
\* Script paths: the value goes into a note of three leaves and a key path.
\* leaveTree: by the first of the ways the mint accepts, then a verdict.
Home(i) == <<"home-by-the-first-way", "home-by-the-second", "home-by-the-third">>[i]
Way(ways, i) == call(<<Leaf(ways[i])>>, hexH(Home(i)))
WayOut(ways, i, verdict) ==
  IF OK
  THEN /\ adopt(bearer(Home(i)))
       /\ g' = [g EXCEPT !.certs = noteCertificate(body.c, Home(i), g.tree), !.tree = 0]
       /\ Verdict(verdict)
  ELSE /\ Keep
       /\ IF i < Len(ways) THEN Ask(Way(ways, i + 1)) ELSE Verdict("fail")

FullCw1 ==
  /\ Reading("fullCw1")
  /\ CASE n = 1 -> Keep /\ Ask(lookup(respell(held)[1]))
       [] n = 2 -> Keep /\ Provided(/\ log[1].status # "ERROR" /\ worth(body, log[1].value)
                                  /\ body.k1 = "cw1",
                                  call(respell(held), cp1("tree")))
       [] n = 3 /\ OK ->
            /\ adopt(Leaf("leaf"))
            /\ g' = [g EXCEPT !.tree = log[1].value,
                              !.certs = noteCertificate(body.c, "tree", log[1].value)]
            /\ Ask(lookup(Leaf("leaf")))
       [] n = 3 /\ ~OK -> Keep /\ Verdict("fail")
       [] n = 4 /\ refused -> Keep /\ Ask(Way(<<"leaf", "keyPath">>, 1))
       [] n = 4 /\ ~refused -> Keep /\ Judged(body.value = g.tree)
       [] n > 4 -> WayOut(<<"leaf", "keyPath">>, n - 4, "fail")

\* refusedOnTree: a spend the informational GET and the callback must both
\* refuse, and whatever they do the value stays the grader's.
\* Fault: a probe the mint accepts is reported, and its output forgotten.
taken_forgotten(out) == held' = held
taken(out) == adopt(bearer(out))

Probes == {"version", "success", "height", "future", "blocks", "unrun"}
Out(probe) == hexH(probe)
RefusedOnTree ==
  /\ at \in Probes /\ Reading(at)
  /\ CASE n = 1 -> Keep /\ Ask(call(<<Leaf(at)>>, Out(at)))
       [] n = 2 /\ OK ->
            /\ taken(at)
            /\ g' = [g EXCEPT !.certs = noteCertificate(body.c, at, g.tree), !.tree = 0]
            /\ Verdict("fail")
       [] n = 2 /\ ~OK -> Keep /\ Provided(log[1].status = "ERROR",
                                         IF g.offered THEN lookupRef(cp1("tree"))
                                         ELSE lookup(Leaf("leaf")))
       [] n = 3 -> Keep /\ Judged(worth(body, g.tree))
       [] OTHER -> FALSE

Past ==
  /\ Reading("past")
  /\ LET ways == <<"past", "leaf", "keyPath">> IN
     IF n = 1 THEN Keep /\ Ask(Way(ways, 1))
     ELSE WayOut(ways, n - 1, IF n = 2 /\ log[1].status # "ERROR" THEN "pass" ELSE "fail")

---------------------------------------------------------------------------
\* Key paths: a ck1 is bound to one mint.
CreditsKeyNote ==
  /\ Reading("keyNote")
  /\ CASE n = 1 -> Keep /\ Provided(~refused, call(<<held>>, cp1("key")))
       [] n = 2 /\ OK ->
            /\ adopt(KeyNote("ck1"))
            /\ g' = [g EXCEPT !.keyed = log[1].value,
                              !.certs = noteCertificate(body.c, "key", log[1].value)]
            /\ Verdict("pass")
       [] n = 2 /\ ~OK -> Keep /\ Verdict("fail")
       [] OTHER -> FALSE

Forged ==
  /\ Reading("forged") /\ Keep
  /\ IF n = 1 THEN Provided(refused, lookup(KeyNote("forged"))) ELSE Judged(refused)

Elsewhere ==
  /\ Reading("elsewhere")
  /\ CASE n = 1 /\ OK ->
            /\ taken("elsewhere")
            /\ g' = [g EXCEPT !.certs = noteCertificate(body.c, "elsewhere", g.keyed), !.keyed = 0]
            /\ Verdict("fail")
       [] n = 1 /\ ~OK -> Keep /\ Ask(lookup(KeyNote("ck1")))
       [] n = 2 -> Keep /\ Judged(~refused)
       [] OTHER -> FALSE

SpendsKeyNote ==
  /\ Reading("keySpend")
  /\ LET byKey == log[1] IN
     CASE n = 1 -> Keep /\ Ask(call(<<KeyNote("ck1")>>, hexH("home-by-key")))
       [] n = 2 /\ OK ->
            LET certs == noteCertificate(body.c, "home-by-key", g.keyed)
                fine == worth(byKey, g.keyed) /\ byKey.k1 = "ck1"
            IN  /\ adopt(bearer("home-by-key"))
                /\ g' = IF fine
                        THEN [g EXCEPT !.certs = certs \cup {judgeCertificate(byKey.c, "key", byKey.value)},
                                       !.keyed = 0]
                        ELSE [g EXCEPT !.certs = certs]
                /\ Judged(fine)
       [] n = 2 /\ ~OK -> Keep /\ Ask(call(<<KeyNote("legacy")>>, hexH("rescued")))
       [] n = 3 -> g' = g /\ Verdict("fail")
                   /\ IF OK THEN adopt(bearer("rescued")) ELSE held' = held
       [] OTHER -> FALSE

---------------------------------------------------------------------------
Invented == <<"invented", "invented-too", "a-third", "a-fourth">>

\* A check begins with its first request, or with a verdict without one.
Begin ==
  /\ at # "done" /\ ask = Nothing /\ n = 0
  /\ Keep
  /\ CASE at \in {"echo", "idempotent", "amount"} -> Ask(lookup(k1))
       [] at = "lookup" -> Ask(lookupRef(originalRefs[1]))
       [] at = "oversized" ->
            Ask(call([i \in 1 .. Capped + 1 |-> bearer(Invented[i])], hexH("oversized")))
       [] at = "noP1" -> Ask(call(<<held>>, NoRef))
       [] at = "noP2" ->
            Ask(split(held, IF half > 1 THEN half ELSE 1, hexH("one-output"), NoRef))
       [] at = "rotate" -> Ask(call(<<held>>, hexH("rotated")))
       [] at = "certified" ->
            Verdict(IF g.first = "verifies" THEN "pass"
                    ELSE IF g.first = "wrong" THEN "fail" ELSE "warn")
       [] at = "spent" -> IF g.offered THEN Ask(lookupRef(originalRefs[1])) ELSE Verdict("warn")
       [] at = "infoCert" -> Ask(lookup(held))
       [] at = "duplicate" -> Ask(call(Twice[1], DuplicateOut(1)))
       [] at = "burnedP1" -> Ask(call(<<held>>, originalRefs[1]))
       [] at = "twin" ->
            IF half < 1 THEN Verdict("warn")
            ELSE Ask(split(held, half, hexH("twin"), hexH("twin")))
       [] at = "methods" -> Ask(Method(1))
       [] at = "shortFee" ->
            LET amount == g.value - BaseFee + 1 IN
            IF g.feeKnown /\ BaseFee # 0 /\ amount \in 1 .. g.value - 1
            THEN Ask(split(held, amount, hexH("short"), hexH("short-change")))
            ELSE Verdict("warn")
       [] at = "split" ->
            IF half < 1 \/ (g.feeKnown /\ g.value - half < BaseFee + 1) THEN Verdict("warn")
            ELSE Ask(split(held, half, hexH(Half(1).q), hexH(Half(2).q)))
       [] at = "retry" -> Ask(call(<<held>>, hexH("retried")))
       [] at = "replayedBurn" -> Ask(call(<<k1>>, ReplayedOut(1)))
       [] at = "fullCw1" -> IF held.how = "preimage" THEN Ask(lookup(held)) ELSE Verdict("warn")
       [] at \in Probes -> IF g.tree # 0 THEN Ask(lookup(Leaf(at))) ELSE Verdict("warn")
       [] at = "past" -> IF g.tree # 0 THEN Ask(lookup(Leaf("past"))) ELSE Verdict("warn")
       [] at = "keyNote" -> Ask(lookup(held))
       [] at = "forged" ->
            IF g.keyed # 0 THEN Ask(lookup(KeyNote("elsewhere"))) ELSE Verdict("warn")
       [] at = "elsewhere" ->
            IF g.keyed # 0 THEN Ask(call(<<KeyNote("elsewhere")>>, hexH("elsewhere")))
            ELSE Verdict("warn")
       [] at = "keySpend" -> IF g.keyed # 0 THEN Ask(lookup(KeyNote("ck1"))) ELSE Verdict("warn")
       [] at = "certificates" ->
            Verdict(IF "wrong" \in g.certs THEN "fail"
                    ELSE IF "missing" \in g.certs THEN "warn" ELSE "pass")
       [] OTHER -> FALSE

\* Nothing can be graded of a note whose first answer never came.
Throw ==
  /\ Throws
  /\ ~(at = "methods" /\ n % 3 = 1)
  /\ Keep
  /\ IF at = "echo" THEN LastVerdict(Thrown) ELSE Verdict(Thrown)

---------------------------------------------------------------------------
\* The mint handles a request while the grader waits for its answer.
Reaches ==
  /\ ask # Nothing
  /\ LET done == handle(ask) IN notes' = done.notes /\ swaps' = done.swaps
Deliver ==
  /\ Reaches
  /\ LET answer == handle(ask).answer IN
     Delivered(IF answer.status = "timeout" THEN Lost ELSE answer)
Unreached == UNCHANGED <<notes, swaps>>

Init ==
  /\ \E calling \in Callings :
       /\ InitMint("given", calling.given = "preimage")
       /\ g = [given |-> calling.given, feeKnown |-> calling.feeKnown,
               value |-> 0, offered |-> FALSE, certs |-> {}, first |-> "none",
               prior |-> SpendBy("given", calling.given), tree |-> 0, keyed |-> 0]
  /\ InitGrade(Checks) /\ held = k1

Grade ==
  \/ Begin \/ Throw \/ Echo \/ SameValue \/ Lookup \/ Oversized \/ NoP1 \/ NoP2
  \/ Rotate \/ Spent \/ InfoCertificate \/ Duplicate \/ BurnedP1 \/ Twin \/ Methods
  \/ ShortFee \/ Split \/ Retry \/ ReplayedBurn \/ FullCw1 \/ RefusedOnTree \/ Past
  \/ CreditsKeyNote \/ Forged \/ Elsewhere \/ SpendsKeyNote
Http ==
  \/ Deliver
  \/ fault \in Disturbed /\ Reaches /\ (Resent \/ ReplyLost)
  \/ fault \in Disturbed /\ Unreached /\ (RequestLost \/ Limited \/ LimitedNotJson)
Done == at = "done" /\ UNCHANGED vars
Next ==
  \/ Grade /\ UNCHANGED mintVars
  \/ Http /\ UNCHANGED <<held, g, fault>>
  \/ Done

\* Every request is answered or times out, and the grader runs on.
Spec == Init /\ [][Next]_vars /\ WF_vars(Next)

---------------------------------------------------------------------------
\* What the grader could spend right now.
Holding ==
  IF known(held.q) /\ notes[held.q].state = "outstanding" /\ opens(held)
  THEN notes[held.q].amount ELSE 0
outstanding == {q \in DOMAIN notes : notes[q].state = "outstanding"}

\* The type invariant.
GraderTypeOK ==
  /\ GradeTypeOK
  /\ \A q \in DOMAIN notes : notes[q].state \in {"outstanding", "burned"}
  /\ g.certs \subseteq {"verifies", "missing", "wrong"}
  /\ {g.tree, g.keyed} \subseteq Nat

\* Whatever HTTP does, an honest mint neither makes nor destroys value while
\* it is graded: each note split off owes one base fee until it is merged.
ValueConserved ==
  fault = "none" =>
    SumFunctionOnSet([q \in outstanding |-> notes[q].amount], outstanding)
      + (Cardinality(outstanding) - 1) * BaseFee = Value

\* HTTP only repeats a request or makes it wait, and no longer than get and
\* call are prepared to.
Patient ==
  /\ OnlySuffered({"resent", "limited"})
  /\ Cardinality({i \in DOMAIN suffered : suffered[i] = "limited"}) <= Retries

\* Between two checks of an honest mint the grader holds a spend of all the
\* value, whatever HTTP repeats or makes wait (1432-1433 promises it without
\* the condition).
HoldsEverything ==
  fault = "none" /\ Patient /\ n = 0 /\ ask = Nothing => Holding = Value

\* A mint that keeps every rule is not accused: neither a request sent twice
\* by HTTP nor a rate limit that is waited out fails any check, and no check
\* is given up either.
HonestPasses == fault = "none" /\ Patient => Failed = {}

\* The comment at 166-173: a 429 is not a verdict on the mint.
NotAVerdictOnTheMint ==
  /\ fault = "none"
  /\ OnlySuffered({"limited", "limitedNotJson"})
  => Failed = {}

\* The comment at 1432-1433: whatever happens the grader ends holding a
\* spend of all the value it started with.
EndsHoldingEverything == at = "done" => Holding = Value

\* A grade comes to its end, whatever is lost on the way.
GradeEnds == <>(at = "done")
=============================================================================
