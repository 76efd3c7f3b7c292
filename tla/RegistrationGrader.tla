-------------------------- MODULE RegistrationGrader --------------------------
(***************************************************************************)
(* gradeRegistration: it registers a throwaway username with a share only  *)
(* it holds, moves it to a second share and takes it down again, trying    *)
(* every refusal LUD-26 requires on the way; with what tools/selfgrade.mjs *)
(* expects of it.  The grader never pays an address fee.                   *)
(***************************************************************************)
EXTENDS AddressRules

\* Proofs.  A share is named for whom it belongs to in a check.
proofBy(key, action, name, share) ==
  Signed(key, Message(action, "here", name, IF action = "unregister" THEN Unbound ELSE share))
proof(action, key, name) == proofBy(key, action, name, Share(key))

registering(name, share, sig) == [asked("POST", name) EXCEPT !.cx1 = share, !.sig = sig]
registeringBy(key, name) == registering(name, Share(key), proof("register", key, name))
moving(name, share, sig, newsig) ==
  [asked("PUT", name) EXCEPT !.cx1 = share, !.sig = sig, !.newsig = newsig]
leaving(name, sig) == [asked("DELETE", name) EXCEPT !.sig = sig]
taking(key, name) == leaving(name, proof("unregister", key, name))
reading == asked("payRequest", "user")

accepted == body.status = "OK"
turnedDown == refused /\ body.pr = 0
refusedWith(reason) == refused /\ body.reason = reason

\* mutate keeps the headers of every answer it gets.
Noting(new) == g' = [new EXCEPT !.cors = @ \cup {body.cors}]
Noted == Noting(g)

\* What is graded next depends on what came of the registration: one the
\* mint refused ends the grade, one held on a fee skips what needs it paid.
From(check) == SubSeq(plan, CHOOSE i \in DOMAIN plan : plan[i] = check, Len(plan))
Unpaid == {"publishes", "bothProofs", "noSuchName", "moves", "notOnFile", "unregisters",
           "neverAgain"}
Ends(verdict) ==
  CASE at = "register" /\ ~g'.registered -> Leave(From("cors"), Only(verdict))
    [] at = "usedKey" ->
         Leave(From(IF g.held THEN "unpublished" ELSE "publishes"), Only(verdict))
    [] at = "unpublished" ->
         Leave(From("cors"), [check \in Unpaid \cup {at} |-> IF check = at THEN verdict ELSE "skip"])
    [] at = "publishes" /\ verdict # "pass" -> Leave(From("bothProofs"), Only(verdict))
    [] OTHER -> Verdict(verdict)
Decides(condition) == Ends(IF condition THEN "pass" ELSE "fail")

---------------------------------------------------------------------------
MintAt ==
  \/ /\ Beginning("mint@") /\ Keep
     /\ Ask(asked("payRequest", "mint"))
  \/ /\ Reading("mint@")
     /\ Remember([g EXCEPT !.mint = body])
     /\ IF body.status = "payRequest" THEN Verdict("pass") ELSE LastVerdict("fail")

FreeName ==
  \/ /\ Beginning("freeName") /\ Keep
     /\ Ask(reading)
  \/ /\ Reading("freeName") /\ Keep
     /\ Judged(refusedWith("unknown user"))

Preflight ==
  \/ /\ Beginning("preflight") /\ Keep
     /\ Ask(asked("OPTIONS", "user"))
  \/ /\ Reading("preflight") /\ Keep
     /\ IF n = 1 THEN Ask(asked("OPTIONS", "user"))
        ELSE Judged(\A i \in 1 .. 2 : log[i].status = "OK")

\* Proofs that do not bind the key, the domain, the username or the cx1.
BadProof(i) == <<
  proofBy("stranger", "register", "user", Share("first")),
  Signed("first", Message("register", "elsewhere", "user", Share("first"))),
  proof("register", "first", "userx"),
  Signed("first", Message("register", "here", "user", Unbound)),
  NoProof>>[i]
BadProofs ==
  \/ /\ Beginning("badProofs") /\ Keep
     /\ Ask(registering("user", Share("first"), BadProof(1)))
  \/ /\ Reading("badProofs") /\ n <= 5 /\ Noted
     /\ Provided(turnedDown, IF n < 5 THEN registering("user", Share("first"), BadProof(n + 1))
                             ELSE reading)
  \/ /\ Reading("badProofs") /\ n = 6 /\ Keep
     /\ Judged(refusedWith("unknown user"))

\* A probe the mint accepts is unregistered before it fails the check,
\* whatever comes of that.
Cleaning == at \in {"reserved", "usedKey"} /\ n > 1 /\ log[n - 1].status = "OK"
Cleaned ==
  /\ Cleaning /\ ask = Nothing
  /\ IF body.status \in Unanswered THEN Keep ELSE Noted
  /\ Ends("fail")

Reserved ==
  \/ /\ Beginning("reserved") /\ Keep
     /\ Ask(registeringBy("reserver1", "mint"))
  \/ /\ Reading("reserved") /\ ~Cleaning /\ Noted
     /\ LET name == IF n = 1 THEN "mint" ELSE "user+tag"
            key == IF n = 1 THEN "reserver1" ELSE "reserver2"
        IN  IF accepted THEN Ask(taking(key, name))
            ELSE IF n = 1 THEN Provided(turnedDown, registeringBy("reserver2", "user+tag"))
            ELSE Judged(turnedDown)

---------------------------------------------------------------------------
\* addressFee is what mint@'s third value advertises.
Register ==
  \/ /\ Beginning("register") /\ Keep
     /\ Ask(registeringBy("first", "user"))
  \/ /\ Reading("register")
     /\ IF accepted
        THEN /\ Noting([g EXCEPT !.registered = TRUE, !.onFile = "first",
                                 !.held = addressFee > 0 /\ body.pr > 0])
             /\ Decides((body.pr = 0 <=> addressFee = 0) /\ body.pr <= addressFee)
        ELSE Noted /\ Ends("fail")

Taken ==
  \/ /\ Beginning("taken") /\ Keep
     /\ Ask(registeringBy("another", "user"))
  \/ /\ Reading("taken") /\ Noted
     /\ Judged(refusedWith("already registered"))

\* The same x(P), under its own chain code and under another.
UsedShare(i) == <<Share("first"), [x |-> "first", chain |-> "another"]>>[i]
reuse(i) == registering("userb", UsedShare(i), proofBy("first", "register", "userb", UsedShare(i)))
UsedKey ==
  \/ /\ Beginning("usedKey") /\ Keep
     /\ Ask(reuse(1))
  \/ /\ Reading("usedKey") /\ ~Cleaning /\ Noted
     /\ IF accepted THEN Ask(taking("first", "userb"))
        ELSE IF n = 1 /\ refusedWith("cx1 already used") THEN Ask(reuse(2))
        ELSE Decides(refusedWith("cx1 already used"))

Unpublished ==
  \/ /\ Beginning("unpublished") /\ Keep
     /\ Ask(reading)
  \/ /\ Reading("unpublished") /\ Keep
     /\ Decides(body.status # "payRequest")

Publishes ==
  \/ /\ Beginning("publishes") /\ Keep
     /\ Ask(reading)
  \/ /\ Reading("publishes")
     /\ IF n = 1 THEN Remember([g EXCEPT !.pay = body]) ELSE Keep
     /\ IF n = 1 /\ body.status = "payRequest" THEN Ask(asked("payRequest", "USER"))
        ELSE Decides(body.status = "payRequest")

---------------------------------------------------------------------------
\* Moving the username: both proofs, of the key on file and of the new one.
second == Share("second")
Halfproven(i) == <<
  moving("user", second, proofBy("stranger", "update", "user", second),
         proof("register", "second", "user")),
  moving("user", second, proofBy("first", "update", "user", second),
         proofBy("stranger", "register", "user", second)),
  moving("user", second, proofBy("first", "update", "user", Share("stranger")),
         proof("register", "second", "user")),
  moving("user", second, proofBy("first", "update", "user", second), NoProof)>>[i]
BothProofs ==
  \/ /\ Beginning("bothProofs") /\ Keep
     /\ Ask(Halfproven(1))
  \/ /\ Reading("bothProofs") /\ Noted
     /\ IF n < 4 THEN Provided(turnedDown, Halfproven(n + 1)) ELSE Judged(turnedDown)

move(from, to, name) == moving(name, Share(to), proofBy(from, "update", name, Share(to)),
                               proof("register", to, name))
NoSuchName ==
  \/ /\ Beginning("noSuchName") /\ Keep
     /\ Ask(move("first", "newcomer", "userc"))
  \/ /\ Reading("noSuchName") /\ Noted
     /\ Judged(refusedWith("unknown user"))

\* A move back that the mint accepts fails the check before it is noted.
\* Fault: the key on file is still the first after the move.
movedTo_first == "first"
movedTo == "second"
Moves ==
  \/ /\ Beginning("moves") /\ Keep
     /\ Ask(move("first", "second", "user"))
  \/ /\ Reading("moves") /\ n = 1
     /\ Noting(IF accepted THEN [g EXCEPT !.onFile = movedTo] ELSE g)
     /\ Provided(accepted /\ body.pr = 0, move("second", "first", "user"))
  \/ /\ Reading("moves") /\ n = 2 /\ Noted
     /\ Judged(refusedWith("cx1 already used"))

Stale == IF g.onFile = "second" THEN "first" ELSE "stranger"
NotOnFile ==
  \/ /\ Beginning("notOnFile") /\ Keep
     /\ Ask(taking(Stale, "user"))
  \/ /\ Reading("notOnFile") /\ n < 3 /\ Noted
     /\ Provided(turnedDown,
          IF n = 1
          THEN leaving("user", Signed(g.onFile, Message("unregister", "elsewhere", "user", Unbound)))
          ELSE reading)
  \/ /\ Reading("notOnFile") /\ n = 3 /\ Keep
     /\ Judged(body.status = "payRequest")

Unregisters ==
  \/ /\ Beginning("unregisters") /\ Keep
     /\ Ask(taking(g.onFile, "user"))
  \/ /\ Reading("unregisters") /\ n = 1
     /\ Noting([g EXCEPT !.registered = ~accepted])
     /\ Provided(accepted, reading)
  \/ /\ Reading("unregisters") /\ n = 2 /\ Keep
     /\ Judged(refusedWith("unknown user"))

NeverAgain ==
  \/ /\ Beginning("neverAgain") /\ Keep
     /\ IF g.registered THEN Verdict("warn") ELSE Ask(registeringBy("first", "user"))
  \/ /\ Reading("neverAgain")
     /\ Noting(IF accepted THEN [g EXCEPT !.registered = TRUE, !.onFile = "first"] ELSE g)
     /\ Judged(refusedWith("cx1 already used"))

---------------------------------------------------------------------------
Cors ==
  /\ Beginning("cors") /\ Keep
  /\ Judged(g.cors = {TRUE})

\* Leave nothing registered behind that the grade can still take down; what
\* comes of it is no verdict.
LeaveNothing ==
  /\ at = "leaveNothing" /\ ask = Nothing /\ Keep
  /\ IF n = 0 /\ g.registered /\ ~g.held
     THEN Ask(taking(g.onFile, "user")) ELSE Leave(<< >>, << >>)

RegistrationThrow ==
  /\ Throws /\ ~Cleaning /\ at # "leaveNothing" /\ Keep
  /\ IF at = "mint@" THEN LastVerdict(Thrown) ELSE Ends(Thrown)

gradeRegistration ==
  \/ MintAt \/ FreeName \/ Preflight \/ BadProofs \/ Reserved \/ Cleaned \/ Register \/ Taken
  \/ UsedKey \/ Unpublished \/ Publishes \/ gradeAddressRules \/ BothProofs \/ NoSuchName
  \/ Moves \/ NotOnFile \/ Unregisters \/ NeverAgain \/ Cors \/ LeaveNothing \/ RegistrationThrow

---------------------------------------------------------------------------
\* What selfgrade requires of each option: the check that must fail.
BrokenRule ==
  CASE fault \in {"addressFeeChargedMsat above", "addressFeeChargedMsat unadvertised"} -> "register"
    [] Has("publishesUnpaidAddress") -> "unpublished"
    [] fault \in {"registrationUnverified", "registrationWithoutCx1"} -> "badProofs"
    [] Has("overwritesRegistration") -> "taken"
    [] fault \in {"reusesCx1", "reusesCx1 byCx1"} -> "usedKey"
    [] Has("reusesCx1 afterUnregister") -> "moves"
    [] Has("acceptsReservedUsernames") -> "reserved"
    [] fault \in {"updateChecksOnly sig", "updateChecksOnly newsig"} -> "bothProofs"
    [] Has("unregisterUnverified") -> "notOnFile"
    [] Has("registrationReasons") -> "freeName"
    [] Has("noMutationCors") -> "cors"
    [] Has("noPreflight") -> "preflight"
    [] OTHER -> "none"
Conforming == fault \in {"none", "addressFeeMsat"}

\* Every broken rule of LUD-26 is caught by the check that is there for it.
RegistrationFaultsCaught ==
  /\ target = "registration" /\ at = "done" /\ suffered = << >> /\ BrokenRule # "none"
  => BrokenRule \in Failed

\* HTTP only repeats a request or makes it wait, and no longer than get and
\* call are prepared to.
Waits == Cardinality({i \in DOMAIN suffered : suffered[i] = "limited"})
Patient == OnlySuffered({"resent", "limited"}) /\ Waits <= Retries

\* A mint that keeps LUD-26 passes clean, whether or not it charges: with
\* nothing failed and nothing warned about, through a GET sent twice and a
\* rate limit waited out.
PassesClean ==
  target = "registration" /\ Conforming /\ Patient
  => \A check \in DOMAIN report :
       report[check] = "pass" \/ (Has("addressFeeMsat") /\ report[check] = "skip")

\* Line 1308: nothing stays registered and published that the grade could
\* still take down, because it holds the share's key.
LeavesNothing ==
  at = "done" => ~\E name \in DOMAIN registrations :
    registrations[name].paid /\ registrations[name].cx1.x \in {"first", "second"}

\* The same, of a mint that keeps the rules, where every answer arrives.
CleansUp == Conforming /\ OnlySuffered({"resent", "limited"}) => LeavesNothing
=============================================================================
