------------------------------- MODULE Grade --------------------------------
(***************************************************************************)
(* What every grade is made of: named checks run one after the other, each *)
(* a sequence of requests whose answers it reads; createReport, which      *)
(* turns what a check throws into its verdict; get and call, which wait a  *)
(* rate limit out; and the HTTP underneath, which may lose a request or    *)
(* its answer, send a GET twice, or answer 429 in the mint's place.        *)
(***************************************************************************)
EXTENDS Integers, Sequences

CONSTANTS
  Nothing,     \* the request of a grader that is not asking
  Hazards,     \* what HTTP may do: a subset of Troubles
  Budget       \* bound: how often it does

Troubles == {"resent", "requestLost", "replyLost", "limited", "limitedNotJson"}
Retries == 2

VARIABLES
  plan,      \* the names of the checks to come, first the one under way
  log,       \* the answers this check has read
  ask,       \* the request in flight
  tries,     \* retriesLeft of get and call
  report,    \* check -> its verdict
  suffered   \* the troubles of this grade, in order

at == IF plan = << >> THEN "done" ELSE plan[1]
n == Len(log)
body == log[n]
refused == body.status = "ERROR"
Unanswered == {"lost", "notJson", "limited"}

\* A check reads an answer: the statements from one await to the next.
Reading(check) == at = check /\ ask = Nothing /\ n > 0 /\ body.status \notin Unanswered
Beginning(check) == at = check /\ ask = Nothing /\ n = 0

\* They end in the next await, or in the check's verdict.
Ask(request) ==
  /\ ask' = request /\ tries' = Retries
  /\ UNCHANGED <<plan, log, report, suffered>>
Leave(rest, verdicts) ==
  /\ report' = [check \in DOMAIN report \cup DOMAIN verdicts |->
                  IF check \in DOMAIN report THEN report[check] ELSE verdicts[check]]
  /\ plan' = rest /\ log' = << >> /\ ask' = Nothing
  /\ UNCHANGED <<tries, suffered>>
Only(verdict) == [check \in {at} |-> verdict]
\* Fault: a check that fails is run again, until it passes.
Verdict_again(verdict) ==
  Leave(IF verdict = "fail" THEN plan ELSE Tail(plan), Only(verdict))
Verdict(verdict) == Leave(Tail(plan), Only(verdict))
LastVerdict(verdict) == Leave(<< >>, Only(verdict))
Judged(condition) == Verdict(IF condition THEN "pass" ELSE "fail")
Provided(condition, request) == IF condition THEN Ask(request) ELSE Verdict("fail")

\* createReport.check: what get throws ends the check, whatever it had done;
\* only the rate limit is soft, and only where get recognised it.
Throws == ask = Nothing /\ n > 0 /\ body.status \in Unanswered
\* Fault: the verdict is whatever the error calls itself.
Thrown_unjudged == body.status
Thrown == IF body.status = "limited" THEN "warn" ELSE "fail"

---------------------------------------------------------------------------
\* HTTP.  A module that extends this one conjoins what the mint does.
Read(answer) == log' = Append(log, answer) /\ ask' = Nothing
Lost == [status |-> "lost"]
Suffers(trouble) ==
  /\ ask # Nothing
  /\ trouble \in Hazards /\ Len(suffered) < Budget
  /\ suffered' = Append(suffered, trouble)

Delivered(answer) ==
  /\ ask # Nothing
  /\ Read(answer)
  /\ UNCHANGED <<plan, report, tries, suffered>>
Resent == Suffers("resent") /\ UNCHANGED <<plan, report, log, ask, tries>>
RequestLost == Suffers("requestLost") /\ Read(Lost) /\ UNCHANGED <<plan, report, tries>>
ReplyLost == Suffers("replyLost") /\ Read(Lost) /\ UNCHANGED <<plan, report, tries>>

\* A 429 is waited out and the request sent again; by get only if its body
\* parses, by call whatever it says.
\* Fault: the first 429 is the end of the check.
retry_never == FALSE
retry == tries > 0
LimitedBy(trouble) ==
  /\ Suffers(trouble)
  /\ IF retry THEN tries' = tries - 1 /\ UNCHANGED <<log, ask>>
     ELSE Read([status |-> "limited"]) /\ UNCHANGED tries
  /\ UNCHANGED <<plan, report>>
Limited == LimitedBy("limited")
LimitedNotJson ==
  /\ Suffers("limitedNotJson")
  /\ Read([status |-> "notJson"])
  /\ UNCHANGED <<plan, report, tries>>

InitGrade(checks) ==
  /\ plan = checks /\ log = << >> /\ ask = Nothing /\ tries = Retries
  /\ report = << >> /\ suffered = << >>

---------------------------------------------------------------------------
Failed == {check \in DOMAIN report : report[check] = "fail"}
OnlySuffered(troubles) == \A i \in DOMAIN suffered : suffered[i] \in troubles

\* The type invariant of a grade: a verdict is one of four, the answers of a
\* check are kept only while it runs, and no request is sent a fourth time.
GradeTypeOK ==
  /\ \A check \in DOMAIN report : report[check] \in {"pass", "fail", "warn", "skip"}
  /\ at = "done" => ask = Nothing /\ log = << >>
  /\ tries \in 0 .. Retries
=============================================================================
