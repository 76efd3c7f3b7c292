-------------------------- MODULE HonestMintProofs --------------------------
(***************************************************************************)
(* What an honest mint answers to a whole grade.  While HTTP does nothing  *)
(* worse than repeat a request or make it wait, a grade follows one        *)
(* course, request by request and answer by answer: here is the course,    *)
(* and that the mint, its books as they are on the way, gives every        *)
(* request of it the answer it has there.                                  *)
(***************************************************************************)
EXTENDS NoteGraderProofs

\* The course.  What an honest mint says.
Good(q, amount) ==
  [over |-> "Q", domain |-> TRUE, key |-> "current", q |-> q, amount |-> amount]
Shown(spend, amount) ==
  [Said EXCEPT !.status = "withdrawRequest", !.value = amount, !.k1 = spend.how,
               !.c = Good(spend.q, amount)]
Named(q, amount) ==
  [Said EXCEPT !.status = "withdrawRequest", !.value = amount, !.c = Good(q, amount)]
Swapped(q, amount) == [Said EXCEPT !.status = "OK", !.c = Good(q, amount)]
Divided(q1, amount1, q2, amount2) ==
  [Said EXCEPT !.status = "OK", !.c = Good(q1, amount1), !.c2 = Good(q2, amount2)]

\* A refusal is what it is whatever its reason, but for two of them.
Refusal == [Said EXCEPT !.status = "refusal"]
Matches(answer, said) ==
  IF said = Refusal THEN answer.status = "ERROR" ELSE answer = said

Step(request, answer) == [ask |-> request, says |-> answer]
Shows(spend) == Step(lookup(spend), Shown(spend, Value))
Both(spend, ref) == [lookup(spend) EXCEPT !.ask = "both", !.p1 = ref]
ByMethod(spend, out) == [call(<<spend>>, hexH(out)) EXCEPT !.ask = "method"]
NotKnown(request) == Step(request, fail(UnknownNote))
InUse(request) == Step(request, fail(AlreadyInUse))
Refuses(request) == Step(request, Refusal)
Swaps(k1s, p1) == Step(call(k1s, p1), Swapped(p1.q, Value))

\* The two parts of a split, and whether the note is large enough for them.
Share == Value \div 2
Rest == Value - Share - BaseFee
Roomy == Share >= 1 /\ Rest >= 1

\* The spends the grader comes to hold.
Own(given) == SpendBy("given", given)
Refs(given) ==
  IF given = "preimage" THEN <<cp1("given"), hexH("given")>> ELSE <<cp1("given")>>
Rotated == bearer("rotated")
AfterSplit == bearer(IF Roomy THEN "merged" ELSE "rotated")
AfterRetry == bearer(IF Roomy THEN "rejoined" ELSE "retried")
Long(spend) == SpendBy(spend.q, "cw1")
Back == bearer("home-by-the-first-way")

EchoCourse(given) == <<Shows(Own(given))>>
LookupCourse(given) ==
  LET named(ref) == Step(lookupRef(ref), Named("given", Value))
      one == NotKnown(lookupRef(hexH("nobody")))
      two == NotKnown(lookup(bearer("nobody")))
      three == NotKnown(lookupRef(cp1("no-key")))
      both == NotKnown(Both(Own(given), cp1("given")))
  IN  IF given = "preimage"
      THEN <<named(cp1("given")), named(hexH("given")), one, two, three, both>>
      ELSE <<named(cp1("given")), one, two, three, both>>
OversizedCourse ==
  <<Refuses(call([i \in 1 .. Capped + 1 |-> bearer(Invented[i])], hexH("oversized")))>>
NoP1Course(given) == <<Refuses(call(<<Own(given)>>, NoRef))>>
NoP2Course(given) ==
  <<Refuses(split(Own(given), IF Share > 1 THEN Share ELSE 1, hexH("one-output"), NoRef)),
    Shows(Own(given))>>
RotateCourse(given) ==
  <<Swaps(<<Own(given)>>, hexH("rotated")), Shows(Rotated), InUse(lookup(Own(given)))>>
SpentCourse(given) ==
  LET nobody == NotKnown(lookupRef(hexH("nobody-either"))) IN
  IF given = "preimage"
  THEN <<InUse(lookupRef(cp1("given"))), InUse(lookupRef(hexH("given"))), nobody>>
  ELSE <<InUse(lookupRef(cp1("given"))), nobody>>
DuplicateCourse ==
  <<Refuses(call(<<Rotated, Rotated>>, hexH("duplicate-first"))), Shows(Rotated),
    Refuses(call(<<Rotated, Long(Rotated)>>, hexH("duplicate-second"))), Shows(Rotated)>>
BurnedP1Course(given) ==
  LET first == InUse(call(<<Rotated>>, cp1("given")))
      second == InUse(call(<<Rotated>>, hexH("given")))
  IN  IF given = "preimage" THEN <<first, Shows(Rotated), second, Shows(Rotated)>>
      ELSE <<first, Shows(Rotated)>>
TwinCourse ==
  <<Refuses(split(Rotated, Share, hexH("twin"), hexH("twin"))), Shows(Rotated),
    Refuses(split(Rotated, Share, hexH("twin"), cp1("twin"))), Shows(Rotated)>>
MethodsCourse ==
  <<Refuses(ByMethod(Rotated, "by-POST")), Shows(Rotated), NotKnown(lookup(bearer("by-POST"))),
    Refuses(ByMethod(Rotated, "by-OPTIONS")), Shows(Rotated),
    NotKnown(lookup(bearer("by-OPTIONS")))>>
ShortFeeCourse ==
  LET amount == Value - BaseFee + 1 IN
  IF amount \in 1 .. Value - 1
  THEN <<Refuses(split(Rotated, amount, hexH("short"), hexH("short-change"))), Shows(Rotated)>>
  ELSE << >>

\* Where there is no room for two notes and a fee, and only a grader that was
\* not told the fee asks for them, the mint refuses.
SplitCourse ==
  LET halves == split(Rotated, Share, hexH("first-half"), hexH("second-half")) IN
  IF Roomy
  THEN <<Step(halves, Divided("first-half", Share, "second-half", Rest)),
         Step(lookup(bearer("first-half")), Shown(bearer("first-half"), Share)),
         Step(lookup(bearer("second-half")), Shown(bearer("second-half"), Rest)),
         Swaps(<<bearer("first-half"), bearer("second-half")>>, hexH("merged")),
         Shows(bearer("merged"))>>
  ELSE <<Refuses(halves)>>
RetryCourse ==
  LET again(spend, ref) == Swaps(<<spend>>, ref)
      live == Shows(bearer("retried"))
      pieces == split(bearer("retried"), Share, hexH("first-piece"), hexH("second-piece"))
      divides == Step(pieces, Divided("first-piece", Share, "second-piece", Rest))
      one == Step(lookup(bearer("first-piece")), Shown(bearer("first-piece"), Share))
      other == Step(lookup(bearer("second-piece")), Shown(bearer("second-piece"), Rest))
  IN
  IF Roomy
  THEN <<again(AfterSplit, hexH("retried")), live, again(AfterSplit, hexH("retried")), live,
         again(Long(AfterSplit), hexH("retried")), live, again(AfterSplit, cp1("retried")), live,
         divides, one, other, divides, one, other,
         Swaps(<<bearer("first-piece"), bearer("second-piece")>>, hexH("rejoined")),
         Shows(bearer("rejoined"))>>
  ELSE <<again(AfterSplit, hexH("retried")), live, again(AfterSplit, hexH("retried")), live,
         again(Long(AfterSplit), hexH("retried")), live, again(AfterSplit, cp1("retried")), live,
         Refuses(pieces)>>
ReplayedBurnCourse(given) ==
  <<InUse(call(<<Own(given)>>, hexH("replayed-first"))),
    InUse(call(<<Long(Own(given))>>, hexH("replayed-second")))>>
FullCw1Course ==
  <<Shows(AfterRetry), Shows(Long(AfterRetry)), Swaps(<<Long(AfterRetry)>>, cp1("tree")),
    Shows(SpendBy("tree", "leaf"))>>
ProbeCourse(probe) ==
  <<Refuses(lookup(SpendBy("tree", probe))),
    Refuses(call(<<SpendBy("tree", probe)>>, hexH(probe))),
    Step(lookupRef(cp1("tree")), Named("tree", Value))>>
PastCourse ==
  <<Shows(SpendBy("tree", "past")), Swaps(<<SpendBy("tree", "past")>>, hexH(Back.q))>>
KeyNoteCourse == <<Shows(Back), Swaps(<<Back>>, cp1("key"))>>
ForgedCourse ==
  <<Refuses(lookup(SpendBy("key", "elsewhere"))), Refuses(lookup(SpendBy("key", "forged")))>>
ElsewhereCourse ==
  <<Refuses(call(<<SpendBy("key", "elsewhere")>>, hexH("elsewhere"))), Shows(SpendBy("key", "ck1"))>>
KeySpendCourse ==
  <<Shows(SpendBy("key", "ck1")), Swaps(<<SpendBy("key", "ck1")>>, hexH("home-by-key"))>>

Course(k, given) ==
  CASE k \in 1 .. 3 -> EchoCourse(given)
    [] k = 4 -> LookupCourse(given)
    [] k = 5 -> OversizedCourse
    [] k = 6 -> NoP1Course(given)
    [] k = 7 -> NoP2Course(given)
    [] k = 8 -> RotateCourse(given)
    [] k = 10 -> SpentCourse(given)
    [] k = 11 -> <<Shows(Rotated)>>
    [] k = 12 -> DuplicateCourse
    [] k = 13 -> BurnedP1Course(given)
    [] k = 14 -> TwinCourse
    [] k = 15 -> MethodsCourse
    [] k = 16 -> ShortFeeCourse
    [] k = 17 -> SplitCourse
    [] k = 18 -> RetryCourse
    [] k = 19 -> ReplayedBurnCourse(given)
    [] k = 20 -> FullCw1Course
    [] k \in 21 .. 26 -> ProbeCourse(Checks[k])
    [] k = 27 -> PastCourse
    [] k = 28 -> KeyNoteCourse
    [] k = 29 -> ForgedCourse
    [] k = 30 -> ElsewhereCourse
    [] k = 31 -> KeySpendCourse
    [] OTHER -> << >>

---------------------------------------------------------------------------
\* The mint's books on the way: which notes there may be, which of them are
\* live and worth what, and that whatever was exchanged is burned.
One(q) == [r \in {q} |-> Value]
Two(q1, q2) == [r \in {q1, q2} |-> IF r = q1 THEN Share ELSE Rest]
Books(map, done, names, live) ==
  /\ {"given"} \subseteq DOMAIN map /\ DOMAIN map \subseteq names
  /\ DOMAIN live \subseteq DOMAIN map
  /\ \A q \in DOMAIN live :
       live[q] \in Nat /\ map[q].state = "outstanding" /\ map[q].amount = live[q]
  /\ \A q \in DOMAIN map \ DOMAIN live : map[q].state = "burned"
  /\ \A id \in DOMAIN done :
       id.inputs # {} /\ id.inputs \subseteq DOMAIN map \ DOMAIN live /\ id.out1 \in DOMAIN map

\* What is kept of an exchange, for its replay.
Rotation(q, p) == [inputs |-> {q}, out1 |-> p, out2 |-> "none", amount |-> NoAmount]
Cut(q, p1, p2, amount) == [inputs |-> {q}, out1 |-> p1, out2 |-> p2, amount |-> amount]
Division(q, p1, p2) == Cut(q, p1, p2, Share)
Fusion(q1, q2, p) == [inputs |-> {q1, q2}, out1 |-> p, out2 |-> "none", amount |-> NoAmount]
Kept(done, id, certificates) == id \in DOMAIN done /\ done[id] = certificates
KeptOne(done, id, p) == Kept(done, id, <<Good(p, Value)>>)
KeptTwo(done, id, p1, p2) == Kept(done, id, <<Good(p1, Share), Good(p2, Rest)>>)

Era(k) ==
  IF k <= 8 THEN 1 ELSE IF k <= 17 THEN 2 ELSE IF k = 18 THEN 3 ELSE IF k <= 20 THEN 4
  ELSE IF k <= 27 THEN 5 ELSE IF k = 28 THEN 6 ELSE IF k <= 31 THEN 7 ELSE 8
NamesTo(era) ==
  {"given"} \cup (IF era > 1 THEN {"rotated"} ELSE {})
  \cup (IF era > 2 THEN {"first-half", "second-half", "merged"} ELSE {})
  \cup (IF era > 3 THEN {"retried", "first-piece", "second-piece", "rejoined"} ELSE {})
  \cup (IF era > 4 THEN {"tree"} ELSE {})
  \cup (IF era > 5 THEN {Back.q} ELSE {})
  \cup (IF era > 6 THEN {"key"} ELSE {})
  \cup (IF era > 7 THEN {"home-by-key"} ELSE {})
HeldIn(era, given) ==
  CASE era = 1 -> Own(given)
    [] era = 2 -> Rotated
    [] era = 3 -> AfterSplit
    [] era = 4 -> AfterRetry
    [] era = 5 -> SpendBy("tree", "leaf")
    [] era = 6 -> Back
    [] era = 7 -> SpendBy("key", "ck1")
    [] OTHER -> bearer("home-by-key")

\* Between two checks, and after i of the answers of a check.
Settled(map, done, era) == Books(map, done, NamesTo(era), One(HeldIn(era, "preimage").q))
SplitUp(map, done) ==
  /\ Books(map, done, NamesTo(2) \cup {"first-half", "second-half"},
           Two("first-half", "second-half"))
  /\ KeptTwo(done, Division("rotated", "first-half", "second-half"),
             "first-half", "second-half")
Retried(map, done) ==
  /\ Books(map, done, NamesTo(3) \cup {"retried"}, One("retried"))
  /\ KeptOne(done, Rotation(AfterSplit.q, "retried"), "retried")
InPieces(map, done) ==
  /\ Books(map, done, NamesTo(3) \cup {"retried", "first-piece", "second-piece"},
           Two("first-piece", "second-piece"))
  /\ KeptTwo(done, Division("retried", "first-piece", "second-piece"),
             "first-piece", "second-piece")
Untraded(k, i) ==
  \/ k \notin {8, 17, 18, 20, 27, 28, 31}
  \/ i = 0
  \/ k \in {27, 28, 31} /\ i = 1
  \/ k = 20 /\ i <= 2
  \/ k = 17 /\ ~Roomy
Book(map, done, k, i) ==
  /\ k = 8 /\ i >= 1 =>
       Settled(map, done, 2) /\ KeptOne(done, Rotation("given", "rotated"), "rotated")
  /\ k = 17 /\ Roomy /\ i \in 1 .. 3 => SplitUp(map, done)
  /\ k = 17 /\ Roomy /\ i >= 4 =>
       /\ Settled(map, done, 3)
       /\ KeptOne(done, Fusion("first-half", "second-half", "merged"), "merged")
  /\ k = 18 /\ (i \in 1 .. 8 \/ (i >= 9 /\ ~Roomy)) => Retried(map, done)
  /\ k = 18 /\ Roomy /\ i \in 9 .. 14 => InPieces(map, done)
  /\ k = 18 /\ Roomy /\ i >= 15 =>
       /\ Settled(map, done, 4)
       /\ KeptOne(done, Fusion("first-piece", "second-piece", "rejoined"), "rejoined")
  /\ k = 20 /\ i >= 3 =>
       Settled(map, done, 5) /\ KeptOne(done, Rotation(AfterRetry.q, "tree"), "tree")
  /\ k = 27 /\ i >= 2 =>
       Settled(map, done, 6) /\ KeptOne(done, Rotation("tree", Back.q), Back.q)
  /\ k = 28 /\ i >= 2 =>
       Settled(map, done, 7) /\ KeptOne(done, Rotation(Back.q, "key"), "key")
  /\ k = 31 /\ i >= 2 =>
       Settled(map, done, 8) /\ KeptOne(done, Rotation("key", "home-by-key"), "home-by-key")
  /\ Untraded(k, i) => Settled(map, done, Era(k))

---------------------------------------------------------------------------
\* What the grader remembers, once it has acted on i answers of a check.
Holds(k, i, given) ==
  IF k = 8 /\ i >= 1 THEN Rotated
  ELSE IF k = 17 /\ i >= 4 THEN bearer("merged")
  ELSE IF k = 18 /\ i >= 15 THEN bearer("rejoined")
  ELSE IF k = 18 /\ i >= 1 THEN bearer("retried")
  ELSE IF k = 20 /\ i >= 3 THEN SpendBy("tree", "leaf")
  ELSE HeldIn(Era(k), given)
Memory(spend, m, k, i) ==
  /\ spend = Holds(k, i, m.given)
  /\ {"given", "feeKnown"} \subseteq DOMAIN m
  /\ m.given \in {"preimage", "cw1"}
  /\ k > 1 => m.value = Value
  /\ k > 4 \/ (k = 4 /\ (i >= 2 \/ (i = 1 /\ m.given # "preimage"))) => m.offered = TRUE
  /\ k > 8 \/ (k = 8 /\ i >= 1) => m.first = "verifies"
  /\ k = 18 /\ i >= 1 => m.prior = AfterSplit
  /\ k \in 21 .. 27 \/ (k = 20 /\ i >= 3) => m.tree = Value
  /\ k \in 29 .. 31 => m.keyed = Value
  /\ m.certs \subseteq {"verifies"}

\* A grader that does not know the fee, given a note too small for it, takes
\* the refusal of its split for a fault.
FairlyAsked(feeKnown) == feeKnown = TRUE \/ Roomy \/ Share < 1

Replies == {"OK", "ERROR", "withdrawRequest"}
Stands(k) == plan = SubSeq(Checks, k, Len(Checks))
Heard(k) ==
  /\ Len(log) <= Len(Course(k, g.given))
  /\ \A i \in 1 .. Len(log) :
       Matches(log[i], Course(k, g.given)[i].says) /\ log[i].status \in Replies
Acted == IF ask = Nothing /\ Len(log) > 0 THEN Len(log) - 1 ELSE Len(log)
Sent(k) ==
  ask # Nothing =>
    Len(log) < Len(Course(k, g.given)) /\ ask = Course(k, g.given)[Len(log) + 1].ask
Booked(k) ==
  \/ Book(notes, swaps, k, Len(log))
  \/ ask # Nothing /\ Book(notes, swaps, k, Len(log) + 1)
OnCourse(k) == Heard(k) /\ Sent(k) /\ Booked(k) /\ Memory(held, g, k, Acted)

\* Where there is no room for two notes and a fee, only a grader that was not
\* told the fee asks for them all the same.
Short ==
  /\ ~Roomy
  /\ \/ at = "split" /\ (ask # Nothing \/ n > 0)
     \/ at = "retry" /\ (n > 8 \/ (n = 8 /\ ask # Nothing))
  => ~FairlyAsked(g.feeKnown)

Waits == Cardinality({i \in DOMAIN suffered : suffered[i] = "limited"})
Follows ==
  fault = "none" /\ Patient =>
    /\ tries + Waits >= Retries
    /\ \E k \in 1 .. Len(Checks) + 1 : Stands(k) /\ OnCourse(k)
    /\ Short
    /\ FairlyAsked(g.feeKnown) => Failed = {}

\* A mint that keeps every rule was started with none of the options.
LEMMA HonestOptions ==
  ASSUME fault = "none"
  PROVE  /\ \A option : option # "none" => ~Has(option)
         /\ burnedReason = AlreadyInUse /\ alreadyInUseReason = AlreadyInUse
         /\ lie = 0 /\ lax = {} /\ signers = {"current"}
<1>1. \A option : option # "none" => ~Has(option)
  BY DEF Has
<1>2. burnedReason = AlreadyInUse /\ alreadyInUseReason = AlreadyInUse /\ lie = 0
  BY <1>1 DEF burnedReason, alreadyInUseReason, lie
<1>3. lax = {}
  BY <1>1 DEF lax, TimeRules
<1>4. signers = {"current"}
  BY <1>1 DEF signers
<1> QED BY <1>1, <1>2, <1>3, <1>4

\* What it certifies and sends is what it should.
LEMMA HonestCertificates ==
  ASSUME fault = "none"
  PROVE  /\ \A q, amount, h : certify(q, amount, h) = Good(q, amount)
         /\ \A c : sent(c) = c /\ legacy(c) = FALSE
         /\ \A q, amount : judgeCertificate(Good(q, amount), q, amount) = "verifies"
         /\ \A q, amount : noteCertificate(Good(q, amount), q, amount) = g.certs \cup {"verifies"}
<1>1. \A q, amount, h : certify(q, amount, h) = Good(q, amount)
  BY HonestOptions DEF certify, Good
<1>2. \A c : sent(c) = c /\ legacy(c) = FALSE
  BY HonestOptions DEF sent, legacy
<1>3. \A q, amount : judgeCertificate(Good(q, amount), q, amount) = "verifies"
  <2> TAKE q, amount
  <2>1. Good(q, amount) # NoCertificate
    BY DEF Good, NoCertificate
  <2>2. /\ Good(q, amount).over = "Q" /\ Good(q, amount).domain = TRUE
        /\ Good(q, amount).key = "current" /\ Good(q, amount).q = q
        /\ Good(q, amount).amount = amount
    BY DEF Good
  <2> QED BY <2>1, <2>2, HonestOptions, Zenon DEF judgeCertificate
<1> QED BY <1>1, <1>2, <1>3 DEF noteCertificate

\* The requests, field by field.
LEMMA RequestFields ==
  /\ \A s : /\ lookup(s).ask = "k1" /\ lookup(s).k1s = <<s>> /\ lookup(s) # Nothing
  /\ \A ref : lookupRef(ref).ask = "p" /\ lookupRef(ref).p1 = ref /\ lookupRef(ref) # Nothing
  /\ \A s, ref : Both(s, ref).ask = "both" /\ Both(s, ref) # Nothing
  /\ \A k1s, p1 : /\ call(k1s, p1).ask = "cb" /\ call(k1s, p1).k1s = k1s
                  /\ call(k1s, p1).p1 = p1 /\ call(k1s, p1).p2 = NoRef
                  /\ call(k1s, p1).amount = NoAmount /\ call(k1s, p1) # Nothing
  /\ \A s, amount, p1, p2 :
       /\ split(s, amount, p1, p2).ask = "cb" /\ split(s, amount, p1, p2).k1s = <<s>>
       /\ split(s, amount, p1, p2).p1 = p1 /\ split(s, amount, p1, p2).p2 = p2
       /\ split(s, amount, p1, p2).amount = amount /\ split(s, amount, p1, p2) # Nothing
  /\ \A s, out : ByMethod(s, out).ask = "method" /\ ByMethod(s, out) # Nothing
<1>0. Nothing.ask = "nothing"
  BY DEF Nothing
<1>1. ASSUME NEW s, NEW ref
      PROVE  /\ lookup(s).ask = "k1" /\ lookup(s).k1s = <<s>>
             /\ lookupRef(ref).ask = "p" /\ lookupRef(ref).p1 = ref
             /\ Both(s, ref).ask = "both"
  BY DEF lookup, lookupRef, Nothing, Both
<1>2. ASSUME NEW k1s, NEW p1
      PROVE  /\ call(k1s, p1).ask = "cb" /\ call(k1s, p1).k1s = k1s
             /\ call(k1s, p1).p1 = p1 /\ call(k1s, p1).p2 = NoRef
             /\ call(k1s, p1).amount = NoAmount
  BY DEF call, Nothing
<1>3. ASSUME NEW s, NEW amount, NEW p1, NEW p2
      PROVE  /\ split(s, amount, p1, p2).ask = "cb" /\ split(s, amount, p1, p2).k1s = <<s>>
             /\ split(s, amount, p1, p2).p1 = p1 /\ split(s, amount, p1, p2).p2 = p2
             /\ split(s, amount, p1, p2).amount = amount
  BY DEF split, call, Nothing
<1>4. ASSUME NEW s, NEW out PROVE ByMethod(s, out).ask = "method"
  BY DEF ByMethod, call, Nothing
<1>5. \A r : r.ask # "nothing" => r # Nothing
  BY <1>0
<1>6. \A s, ref : lookup(s) # Nothing /\ lookupRef(ref) # Nothing /\ Both(s, ref) # Nothing
  BY <1>1, <1>5
<1>7. \A k1s, p1 : call(k1s, p1) # Nothing
  BY <1>2, <1>5
<1>8. \A s, amount, p1, p2 : split(s, amount, p1, p2) # Nothing
  BY <1>3, <1>5
<1>9. \A s, out : ByMethod(s, out) # Nothing
  BY <1>4, <1>5
<1> QED BY <1>1, <1>2, <1>3, <1>4, <1>6, <1>7, <1>8, <1>9

\* The answers, field by field.
LEMMA AnswerFields ==
  /\ \A s, v : /\ Shown(s, v).status = "withdrawRequest" /\ Shown(s, v).value = v
               /\ Shown(s, v).k1 = s.how /\ Shown(s, v).c = Good(s.q, v)
               /\ Shown(s, v).legacy = FALSE
  /\ \A q, v : /\ Named(q, v).status = "withdrawRequest" /\ Named(q, v).value = v
               /\ Named(q, v).k1 = "none" /\ Named(q, v).c = Good(q, v)
  /\ \A q, v : /\ Swapped(q, v).status = "OK" /\ Swapped(q, v).c = Good(q, v)
               /\ Swapped(q, v).k1 = "none"
  /\ \A q1, v1, q2, v2 : /\ Divided(q1, v1, q2, v2).status = "OK"
                         /\ Divided(q1, v1, q2, v2).c = Good(q1, v1)
                         /\ Divided(q1, v1, q2, v2).c2 = Good(q2, v2)
  /\ \A reason : fail(reason).status = "ERROR" /\ fail(reason).reason = reason
  /\ Refusal.status = "refusal"
BY DEF Shown, Named, Swapped, Divided, fail, Refusal, Said

\* What a check may conclude of an answer that is as it should be.
LEMMA Matching ==
  /\ \A a, s, v : Matches(a, Shown(s, v)) <=> a = Shown(s, v)
  /\ \A a, q, v : Matches(a, Named(q, v)) <=> a = Named(q, v)
  /\ \A a, q, v : Matches(a, Swapped(q, v)) <=> a = Swapped(q, v)
  /\ \A a, q1, v1, q2, v2 :
       Matches(a, Divided(q1, v1, q2, v2)) <=> a = Divided(q1, v1, q2, v2)
  /\ \A a, reason : Matches(a, fail(reason)) <=> a = fail(reason)
  /\ \A a : Matches(a, Refusal) <=> a.status = "ERROR"
BY AnswerFields DEF Matches

\* Which of the grader's spends open their notes.
LEMMA Opening ==
  ASSUME fault = "none"
  PROVE  /\ \A q : \A how \in {"preimage", "cw1", "leaf", "past", "ck1"} : opens(SpendBy(q, how))
         /\ \A q : \A how \in Probes \cup {"elsewhere", "forged"} : ~opens(SpendBy(q, how))
<1>1. ~Has("refusesLocktimes") /\ lax = {}
  BY HonestOptions
<1>2. \A q, how : SpendBy(q, how).how = how
  BY DEF SpendBy
<1>3. \A how \in {"preimage", "cw1", "leaf"} : judge(Probe(how, Instant), {"here"}, Instant, Instant, {})
  BY SMT DEF judge, Probe, Plain, Claiming, Final, broken, locktimeBroken, relativeBroken, Hook, Instant
<1>4. judge(Probe("past", Instant), {"here"}, Instant, Instant, {})
  BY SMT DEF judge, Probe, Absolute, Claiming, broken, locktimeBroken, relativeBroken, Hook, Instant, FirstTime
<1>5. judge(Probe("ck1", Instant), {"here"}, Instant, Instant, {})
  BY SMT DEF judge, Probe, Signed, Plain, Claiming, Final
<1>6. \A how \in {"elsewhere", "forged"} : ~judge(Probe(how, Instant), {"here"}, Instant, Instant, {})
  <2>1. /\ Probe("elsewhere", Instant) = [Signed EXCEPT !.domain = "other.invalid"]
        /\ Probe("forged", Instant) = [Signed EXCEPT !.satisfied = FALSE]
    BY DEF Probe
  <2>2. Signed.kind = "key" /\ {"kind", "domain", "satisfied"} \subseteq DOMAIN Signed
    BY DEF Signed, Plain, Claiming
  <2>3. Probe("elsewhere", Instant).kind = "key" /\ Probe("elsewhere", Instant).domain # "here"
    BY <2>1, <2>2
  <2>4. Probe("forged", Instant).kind = "key" /\ Probe("forged", Instant).satisfied = FALSE
    BY <2>1, <2>2
  <2> QED BY <2>3, <2>4 DEF judge
<1>7. \A how \in {"version", "success"} : ~judge(Probe(how, Instant), {"here"}, Instant, Instant, {})
  BY SMT DEF judge, Probe, Plain, Claiming, Final
<1>8. \A how \in {"height", "future", "blocks", "unrun"} :
        ~judge(Probe(how, Instant), {"here"}, Instant, Instant, {})
  <2>1. broken(Probe("height", Instant), Instant, Instant) # {}
    BY SMT DEF Probe, broken, locktimeBroken, relativeBroken, Claiming,
           Absolute, FirstTime, Instant, MaxCount
  <2>2. broken(Probe("future", Instant), Instant, Instant) # {}
    BY SMT DEF Probe, broken, locktimeBroken, relativeBroken, Claiming,
           Absolute, FirstTime, Instant, MaxCount, TenYears
  <2>3. broken(Probe("blocks", Instant), Instant, Instant) # {}
    BY SMT DEF Probe, broken, locktimeBroken, relativeBroken, Claiming,
           Relative, Instant, MaxCount
  <2>4. broken(Probe("unrun", Instant), Instant, Instant) # {}
    BY SMT DEF Probe, broken, locktimeBroken, relativeBroken, Claiming,
           Relative, FirstTime, LockUnit, Instant, MaxCount
  <2>5. \A how \in {"height", "future", "blocks", "unrun"} : Probe(how, Instant).kind = "script"
    BY SMT DEF Probe, Claiming, Absolute, Relative
  <2> QED BY <2>1, <2>2, <2>3, <2>4, <2>5, Zenon DEF judge
<1> HIDE DEF SpendBy
<1>10. \A q, how : opens(SpendBy(q, how)) <=> judge(Probe(how, Instant), {"here"}, Instant, Instant, {})
  BY <1>1, <1>2, Zenon DEF opens
<1> QED BY <1>3, <1>4, <1>5, <1>6, <1>7, <1>8, <1>10 DEF Probes

\* Who answers which request.
LEMMA Handlers ==
  /\ \A s : handle(lookup(s)) = Handled(infoBySpend(s))
  /\ \A ref : handle(lookupRef(ref)) = Handled(infoByRef(ref))
  /\ \A s, ref : fault = "none" => handle(Both(s, ref)) = Handled(fail(UnknownNote))
  /\ \A s, out : handle(ByMethod(s, out)).answer.status = "ERROR"
                 /\ handle(ByMethod(s, out)).notes = notes /\ handle(ByMethod(s, out)).swaps = swaps
  /\ \A r : r.ask = "cb" => handle(r) = mutate(r)
<1>1. ASSUME NEW r
      PROVE  /\ r.ask = "k1" => handle(r) = Handled(infoBySpend(r.k1s[1]))
             /\ r.ask = "p" => handle(r) = Handled(infoByRef(r.p1))
             /\ r.ask = "both" => handle(r) = Handled(infoByBoth(r.k1s[1]))
             /\ r.ask = "cb" => handle(r) = mutate(r)
             /\ r.ask = "method" => \E reason : handle(r) = Handled(fail(reason))
  BY Zenon DEF handle
<1>2. \A s : handle(lookup(s)) = Handled(infoBySpend(s))
  <2> TAKE s
  <2>1. lookup(s).ask = "k1" /\ lookup(s).k1s[1] = s
    BY RequestFields
  <2> QED BY <1>1, <2>1
<1>3. \A ref : handle(lookupRef(ref)) = Handled(infoByRef(ref))
  <2> TAKE ref
  <2>1. lookupRef(ref).ask = "p" /\ lookupRef(ref).p1 = ref
    BY RequestFields
  <2> QED BY <1>1, <2>1
<1>4. \A s, ref : fault = "none" => handle(Both(s, ref)) = Handled(fail(UnknownNote))
  <2>1. \A spend : fault = "none" => infoByBoth(spend) = fail(UnknownNote)
    BY HonestOptions DEF infoByBoth
  <2> QED BY <1>1, <2>1, RequestFields
<1>5. \A s, out : handle(ByMethod(s, out)).answer.status = "ERROR"
                 /\ handle(ByMethod(s, out)).notes = notes /\ handle(ByMethod(s, out)).swaps = swaps
  <2>1. \A a : Handled(a).answer = a /\ Handled(a).notes = notes /\ Handled(a).swaps = swaps
    BY DEF Handled
  <2> TAKE s, out
  <2>2. PICK reason : handle(ByMethod(s, out)) = Handled(fail(reason))
    BY <1>1, RequestFields
  <2> QED BY <2>1, <2>2, AnswerFields
<1> QED BY <1>1, <1>2, <1>3, <1>4, <1>5

\* The informational GET of a spend.
LEMMA InfoAnswers ==
  ASSUME fault = "none", NEW names, NEW live, Books(notes, swaps, names, live), NEW s
  PROVE  /\ s.q \in DOMAIN live /\ opens(s) => infoBySpend(s) = Shown(s, live[s.q])
         /\ s.q \in DOMAIN notes \ DOMAIN live /\ opens(s) => infoBySpend(s) = fail(AlreadyInUse)
         /\ s.q \notin DOMAIN notes => infoBySpend(s) = fail(UnknownNote)
         /\ s.q \in DOMAIN notes /\ ~opens(s) => infoBySpend(s).status = "ERROR"
<1>1. /\ ~Has("infoSkipsVerification") /\ ~Has("echoWrongK1") /\ burnedReason = AlreadyInUse
  BY HonestOptions
<1>2. s.q \notin DOMAIN notes => infoBySpend(s) = fail(UnknownNote)
  BY DEF infoBySpend, known
<1>3. s.q \in DOMAIN notes /\ ~opens(s) => infoBySpend(s).status = "ERROR"
  BY <1>1, AnswerFields DEF infoBySpend, known
<1>4. s.q \in DOMAIN notes \ DOMAIN live /\ opens(s) => infoBySpend(s) = fail(AlreadyInUse)
  <2>1. s.q \in DOMAIN notes \ DOMAIN live => notes[s.q].state = "burned"
    BY DEF Books
  <2> QED BY <1>1, <2>1, Zenon DEF infoBySpend, known
<1>5. ASSUME s.q \in DOMAIN live, opens(s) PROVE infoBySpend(s) = Shown(s, live[s.q])
  <2>1. /\ s.q \in DOMAIN notes /\ notes[s.q].state = "outstanding"
        /\ notes[s.q].amount = live[s.q] /\ live[s.q] \in Nat
    BY <1>5 DEF Books
  <2>2. infoBySpend(s) = withdrawRequest(live[s.q], s.how, Good(s.q, live[s.q]))
    BY <1>1, <1>5, <2>1, HonestCertificates DEF infoBySpend, known
  <2>3. live[s.q] + lie = live[s.q]
    BY <2>1, HonestOptions
  <2>4. withdrawRequest(live[s.q], s.how, Good(s.q, live[s.q])) =
          [Said EXCEPT !.status = "withdrawRequest", !.value = live[s.q], !.k1 = s.how,
                       !.c = Good(s.q, live[s.q]), !.legacy = FALSE]
    BY <2>3, HonestCertificates DEF withdrawRequest
  <2>5. Said.legacy = FALSE
    BY DEF Said
  <2> QED BY <2>2, <2>4, <2>5 DEF Shown, Said
<1> QED BY <1>2, <1>3, <1>4, <1>5

\* The lookup by reference.
LEMMA RefAnswers ==
  ASSUME fault = "none", NEW names, NEW live, Books(notes, swaps, names, live),
         NEW ref, ref.q # "none", "none" \notin DOMAIN notes
  PROVE  /\ ref.q \in DOMAIN live => infoByRef(ref) = Named(ref.q, live[ref.q])
         /\ ref.q \in DOMAIN notes \ DOMAIN live => infoByRef(ref) = fail(AlreadyInUse)
         /\ ref.q \notin DOMAIN notes => infoByRef(ref) = fail(UnknownNote)
<1>1. /\ ~Has("hashLookup:false") /\ ~Has("hashLookup:echoesK1") /\ ~Has("hashLookup:answersUnknown")
      /\ ~Has("hashLookup:hidesSpent") /\ ~Has("refusesCp1Outputs") /\ burnedReason = AlreadyInUse
  BY HonestOptions
<1>2. outputOf(ref) = ref.q
  BY <1>1 DEF outputOf, NoRef
<1>3. ref.q \notin DOMAIN notes => infoByRef(ref) = fail(UnknownNote)
  BY <1>1, <1>2 DEF infoByRef, known
<1>4. ref.q \in DOMAIN notes \ DOMAIN live => infoByRef(ref) = fail(AlreadyInUse)
  <2>1. ref.q \in DOMAIN notes \ DOMAIN live => notes[ref.q].state = "burned"
    BY DEF Books
  <2> QED BY <1>1, <1>2, <2>1, Zenon DEF infoByRef, known
<1>5. ASSUME ref.q \in DOMAIN live PROVE infoByRef(ref) = Named(ref.q, live[ref.q])
  <2>1. /\ ref.q \in DOMAIN notes /\ notes[ref.q].state = "outstanding"
        /\ notes[ref.q].amount = live[ref.q] /\ live[ref.q] \in Nat
    BY <1>5 DEF Books
  <2>2. infoByRef(ref) = withdrawRequest(live[ref.q], "none", Good(ref.q, live[ref.q]))
    BY <1>1, <1>2, <1>5, <2>1, HonestCertificates DEF infoByRef, known
  <2>3. live[ref.q] + lie = live[ref.q]
    BY <2>1, HonestOptions
  <2>4. withdrawRequest(live[ref.q], "none", Good(ref.q, live[ref.q])) =
          [Said EXCEPT !.status = "withdrawRequest", !.value = live[ref.q], !.k1 = "none",
                       !.c = Good(ref.q, live[ref.q]), !.legacy = FALSE]
    BY <2>3, HonestCertificates DEF withdrawRequest
  <2>5. Said.legacy = FALSE /\ Said.k1 = "none"
    BY DEF Said
  <2> QED BY <2>2, <2>4, <2>5 DEF Named, Said
<1> QED BY <1>3, <1>4, <1>5

\* What the callback of an honest mint says of a request, in the order in
\* which it judges it.
LEMMA Judgement ==
  ASSUME fault = "none", NEW r
  PROVE  /\ illFormed(r) \/ unopened(r) => \E reason : mutate(r) = Handled(fail(reason))
         /\ ~illFormed(r) /\ ~unopened(r) /\ identity(r) \in DOMAIN swaps =>
              mutate(r) = Handled(replied(swaps[identity(r)]))
         /\ identity(r) \notin DOMAIN swaps /\ (out1(r) = out2(r) \/ (splits(r) /\ badSplit(r))) =>
              \E reason : mutate(r) = Handled(fail(reason))
         /\ /\ ~illFormed(r) /\ ~unopened(r) /\ identity(r) \notin DOMAIN swaps
            /\ \E q \in qs(r) : notes[q].state = "burned"
            => mutate(r) = Handled(fail(AlreadyInUse))
         /\ /\ ~illFormed(r) /\ ~unopened(r) /\ identity(r) \notin DOMAIN swaps
            /\ ~(\E q \in qs(r) : notes[q].state = "burned")
            /\ out1(r) # out2(r) /\ \E q \in outputs(r) : known(q)
            => mutate(r) = Handled(fail(AlreadyInUse))
         /\ Exchangeable(r) /\ identity(r) \notin DOMAIN swaps => mutate(r) = exchanged(r)
<1>1. /\ ~Has("acceptsOversizedMerge") /\ ~Has("retriedMutation:refuse")
      /\ burnedReason = AlreadyInUse /\ alreadyInUseReason = AlreadyInUse
  BY HonestOptions
<1>2. illFormed(r) \/ unopened(r) => \E reason : mutate(r) = Handled(fail(reason))
  BY <1>1, Zenon DEF mutate
<1>3. ~illFormed(r) /\ ~unopened(r) /\ identity(r) \in DOMAIN swaps =>
        mutate(r) = Handled(replied(swaps[identity(r)]))
  BY <1>1, Zenon DEF mutate
<1>4. ASSUME ~illFormed(r), ~unopened(r), identity(r) \notin DOMAIN swaps
      PROVE  mutate(r) =
               IF \E q \in qs(r) : notes[q].state = "burned" THEN Handled(fail(AlreadyInUse))
               ELSE IF out1(r) = out2(r) THEN Handled(fail("p1 and p2 name the same note."))
               ELSE IF \E q \in outputs(r) : known(q) THEN Handled(fail(AlreadyInUse))
               ELSE IF splits(r) /\ badSplit(r) THEN Handled(fail("insufficient value"))
               ELSE exchanged(r)
  BY <1>1, <1>4, Zenon DEF mutate
<1>5. ASSUME ~illFormed(r), ~unopened(r), identity(r) \notin DOMAIN swaps,
             \E q \in qs(r) : notes[q].state = "burned"
      PROVE  mutate(r) = Handled(fail(AlreadyInUse))
  BY <1>4, <1>5, Zenon
<1>6. ASSUME ~illFormed(r), ~unopened(r), identity(r) \notin DOMAIN swaps,
             ~(\E q \in qs(r) : notes[q].state = "burned"),
             out1(r) # out2(r), \E q \in outputs(r) : known(q)
      PROVE  mutate(r) = Handled(fail(AlreadyInUse))
  BY <1>4, <1>6, Zenon
<1>7. ASSUME ~illFormed(r), ~unopened(r), identity(r) \notin DOMAIN swaps,
             out1(r) = out2(r) \/ (splits(r) /\ badSplit(r))
      PROVE  \E reason : mutate(r) = Handled(fail(reason))
  <2>1. CASE \E q \in qs(r) : notes[q].state = "burned"
    BY <1>5, <1>7, <2>1
  <2>2. CASE ~(\E q \in qs(r) : notes[q].state = "burned") /\ out1(r) = out2(r)
    BY <1>4, <1>7, <2>2, Zenon
  <2>3. CASE /\ ~(\E q \in qs(r) : notes[q].state = "burned") /\ out1(r) # out2(r)
             /\ \E q \in outputs(r) : known(q)
    BY <1>6, <1>7, <2>3
  <2>4. CASE /\ ~(\E q \in qs(r) : notes[q].state = "burned") /\ out1(r) # out2(r)
             /\ ~(\E q \in outputs(r) : known(q))
    <3>1. splits(r) /\ badSplit(r)
      BY <1>7, <2>4
    <3> QED BY <1>4, <1>7, <2>4, <3>1, Zenon
  <2> QED BY <2>1, <2>2, <2>3, <2>4
<1>8. ASSUME Exchangeable(r), identity(r) \notin DOMAIN swaps
      PROVE  mutate(r) = exchanged(r)
  <2>1. /\ ~illFormed(r) /\ ~unopened(r) /\ ~(\E q \in qs(r) : notes[q].state = "burned")
        /\ out1(r) # out2(r) /\ ~(\E q \in outputs(r) : known(q)) /\ ~(splits(r) /\ badSplit(r))
    BY <1>8, Zenon DEF Exchangeable
  <2> QED BY <1>4, <1>8, <2>1, Zenon
<1> QED BY <1>2, <1>3, <1>5, <1>6, <1>7, <1>8

\* What these notes are worth.
Amounts(Q) == [q \in Q |-> notes[q].amount]

\* A request that moves one note into another, as the callback reads it.
MovesOne(s, p1) ==
  LET r == call(<<s>>, p1) IN
  /\ r.ask = "cb" /\ qs(r) = {s.q} /\ out1(r) = p1.q /\ out2(r) = "none" /\ splits(r) = FALSE
  /\ outputs(r) = {p1.q} /\ identity(r) = Rotation(s.q, p1.q)
  /\ ~illFormed(r)
  /\ unopened(r) <=> s.q \notin DOMAIN notes \/ ~opens(s)
  /\ total(r) = SumFunctionOnSet(Amounts({s.q}), {s.q})

\* One spend for one output.
LEMMA OneForOne ==
  ASSUME NEW s, NEW p1, fault = "none", p1.q # "none"
  PROVE  MovesOne(s, p1)
<1> DEFINE r == call(<<s>>, p1)
<1>1. r.ask = "cb" /\ r.k1s = <<s>> /\ r.p1 = p1 /\ r.p2 = NoRef /\ r.amount = NoAmount
  BY RequestFields
<1> HIDE DEF r
<1>2. ~Has("refusesCp1Outputs") /\ ~Has("mergeCap") /\ ~Has("replayMatchesStrings")
  BY HonestOptions
<1>3. qs(r) = {s.q}
  BY <1>1 DEF qs
<1>4. splits(r) = FALSE
  BY <1>1 DEF splits
<1>5. out1(r) = p1.q /\ out2(r) = "none"
  BY <1>1, <1>2, <1>4 DEF out1, out2, outputOf, NoRef
<1>6. outputs(r) = {p1.q}
  BY <1>5 DEF outputs
<1>7. identity(r) = Rotation(s.q, p1.q)
  BY <1>1, <1>2, <1>3, <1>5 DEF identity, Rotation
<1>8. ~illFormed(r)
  <2>1. Cardinality({s.q}) = 1
    BY FS_Singleton
  <2>2. Len(r.k1s) = 1
    BY <1>1
  <2> QED BY <1>2, <1>3, <1>4, <1>5, <2>1, <2>2 DEF illFormed
<1>9. unopened(r) <=> s.q \notin DOMAIN notes \/ ~opens(s)
  BY <1>1 DEF unopened, known
<1>10. total(r) = SumFunctionOnSet(Amounts({s.q}), {s.q})
  BY <1>3, Zenon DEF total, Amounts
<1> QED BY <1>1, <1>3, <1>4, <1>5, <1>6, <1>7, <1>8, <1>9, <1>10 DEF r, MovesOne

\* And one that cuts a note in two.
Cuts(s, amount, p1, p2) ==
  LET r == split(s, amount, p1, p2) IN
  /\ r.ask = "cb" /\ qs(r) = {s.q} /\ out1(r) = p1.q /\ out2(r) = p2.q /\ splits(r) = TRUE
  /\ outputs(r) = {p1.q, p2.q} /\ r.amount = amount
  /\ identity(r) = Cut(s.q, p1.q, p2.q, amount)
  /\ ~illFormed(r)
  /\ unopened(r) <=> s.q \notin DOMAIN notes \/ ~opens(s)
  /\ total(r) = SumFunctionOnSet(Amounts({s.q}), {s.q})

\* One spend for two outputs.
LEMMA OneForTwo ==
  ASSUME NEW s, NEW amount, NEW p1, NEW p2,
         fault = "none", amount # NoAmount, p1.q # "none", p2.q # "none"
  PROVE  Cuts(s, amount, p1, p2)
<1> DEFINE r == split(s, amount, p1, p2)
<1>1. r.ask = "cb" /\ r.k1s = <<s>> /\ r.p1 = p1 /\ r.p2 = p2 /\ r.amount = amount
  BY RequestFields
<1> HIDE DEF r
<1>2. ~Has("refusesCp1Outputs") /\ ~Has("mergeCap") /\ ~Has("replayMatchesStrings")
  BY HonestOptions
<1>3. qs(r) = {s.q}
  BY <1>1 DEF qs
<1>4. splits(r) = TRUE
  BY <1>1 DEF splits
<1>5. out1(r) = p1.q /\ out2(r) = p2.q
  <2>1. p1 # NoRef /\ p2 # NoRef
    BY DEF NoRef
  <2> QED BY <1>1, <1>2, <1>4, <2>1 DEF out1, out2, outputOf
<1>6. outputs(r) = {p1.q, p2.q}
  BY <1>5 DEF outputs
<1>7. identity(r) = Cut(s.q, p1.q, p2.q, amount)
  BY <1>1, <1>2, <1>3, <1>5 DEF identity, Cut
<1>8. ~illFormed(r)
  <2>1. Cardinality({s.q}) = 1
    BY FS_Singleton
  <2>2. Len(r.k1s) = 1
    BY <1>1
  <2> QED BY <1>2, <1>3, <1>4, <1>5, <2>1, <2>2 DEF illFormed
<1>9. unopened(r) <=> s.q \notin DOMAIN notes \/ ~opens(s)
  BY <1>1 DEF unopened, known
<1>10. total(r) = SumFunctionOnSet(Amounts({s.q}), {s.q})
  BY <1>3, Zenon DEF total, Amounts
<1> QED BY <1>1, <1>3, <1>4, <1>5, <1>6, <1>7, <1>8, <1>9, <1>10 DEF r, Cuts

\* And one that joins two notes.
Joins(s1, s2, p1) ==
  LET r == call(<<s1, s2>>, p1) IN
  /\ r.ask = "cb" /\ qs(r) = {s1.q, s2.q} /\ Len(r.k1s) = 2
  /\ out1(r) = p1.q /\ out2(r) = "none" /\ splits(r) = FALSE
  /\ outputs(r) = {p1.q} /\ identity(r) = Fusion(s1.q, s2.q, p1.q)
  /\ ~illFormed(r)
  /\ unopened(r) <=> \/ s1.q \notin DOMAIN notes \/ ~opens(s1)
                     \/ s2.q \notin DOMAIN notes \/ ~opens(s2)
  /\ total(r) = SumFunctionOnSet(Amounts({s1.q, s2.q}), {s1.q, s2.q})

\* Two spends for one output.
LEMMA TwoForOne ==
  ASSUME NEW s1, NEW s2, NEW p1, fault = "none", s1.q # s2.q, p1.q # "none"
  PROVE  Joins(s1, s2, p1)
<1> DEFINE r == call(<<s1, s2>>, p1)
<1>1. r.ask = "cb" /\ r.k1s = <<s1, s2>> /\ r.p1 = p1 /\ r.p2 = NoRef /\ r.amount = NoAmount
  BY RequestFields
<1> HIDE DEF r
<1>2. ~Has("refusesCp1Outputs") /\ ~Has("mergeCap") /\ ~Has("replayMatchesStrings")
  BY HonestOptions
<1>3. qs(r) = {s1.q, s2.q}
  BY <1>1 DEF qs
<1>4. splits(r) = FALSE
  BY <1>1 DEF splits
<1>5. out1(r) = p1.q /\ out2(r) = "none"
  BY <1>1, <1>2, <1>4 DEF out1, out2, outputOf, NoRef
<1>6. outputs(r) = {p1.q}
  BY <1>5 DEF outputs
<1>7. identity(r) = Fusion(s1.q, s2.q, p1.q)
  BY <1>1, <1>2, <1>3, <1>5 DEF identity, Fusion
<1>8. ~illFormed(r) /\ Len(r.k1s) = 2
  <2>1. IsFiniteSet({s2.q}) /\ Cardinality({s2.q}) = 1 /\ s1.q \notin {s2.q}
    BY FS_Singleton
  <2>2. Cardinality({s2.q} \cup {s1.q}) = 2
    <3> DEFINE b == {s2.q}
               a == s1.q
    <3>1. IsFiniteSet(b) /\ Cardinality(b) = 1 /\ a \notin b
      BY <2>1
    <3> HIDE DEF a, b
    <3>2. Cardinality(b \cup {a}) = Cardinality(b) + 1
      BY <3>1, FS_AddElement
    <3> QED BY <3>1, <3>2 DEF a, b
  <2>3. {s2.q} \cup {s1.q} = {s1.q, s2.q}
    OBVIOUS
  <2>4. Len(r.k1s) = 2
    BY <1>1
  <2> QED BY <1>2, <1>3, <1>4, <1>5, <2>2, <2>3, <2>4 DEF illFormed
<1>9. unopened(r) <=> \/ s1.q \notin DOMAIN notes \/ ~opens(s1)
                      \/ s2.q \notin DOMAIN notes \/ ~opens(s2)
  BY <1>1 DEF unopened, known
<1>10. total(r) = SumFunctionOnSet(Amounts({s1.q, s2.q}), {s1.q, s2.q})
  BY <1>3, Zenon DEF total, Amounts
<1> QED BY <1>1, <1>3, <1>4, <1>5, <1>6, <1>7, <1>8, <1>9, <1>10 DEF r, Joins

\* The sums of one and of two.
LEMMA SumOfOne ==
  ASSUME NEW f, NEW q, f[q] \in Int
  PROVE  SumFunctionOnSet(f, {q}) = f[q]
<1> DEFINE S == {q}
<1>1. IsFiniteSet(S) /\ q \in S /\ S \ {q} = {} /\ \A x \in S : f[x] \in Int
  BY FS_Singleton
<1> HIDE DEF S
<1>2. SumFunctionOnSet(f, S) = f[q] + SumFunctionOnSet(f, S \ {q})
  BY <1>1, SumWithout
<1>3. SumFunctionOnSet(f, {}) = 0
  BY SumOfNone
<1>4. SumFunctionOnSet(f, S) = f[q] + SumFunctionOnSet(f, {})
  BY <1>1, <1>2
<1>5. SumFunctionOnSet(f, S) = f[q]
  BY <1>3, <1>4
<1> QED BY <1>5 DEF S

\* And of two.
LEMMA SumOfPair ==
  ASSUME NEW f, NEW p, NEW q, p # q, f[p] \in Int, f[q] \in Int
  PROVE  SumFunctionOnSet(f, {p, q}) = f[p] + f[q]
<1> DEFINE S == {p, q}
<1>1. IsFiniteSet(S) /\ p \in S /\ S \ {p} = {q} /\ \A x \in S : f[x] \in Int
  <2>1. IsFiniteSet({q}) /\ {q} \cup {p} = S
    BY FS_Singleton
  <2> QED BY <2>1, FS_AddElement
<1> HIDE DEF S
<1>2. SumFunctionOnSet(f, S) = f[p] + SumFunctionOnSet(f, S \ {p})
  BY <1>1, SumWithout
<1>3. SumFunctionOnSet(f, {q}) = f[q]
  BY SumOfOne
<1> QED BY <1>1, <1>2, <1>3 DEF S

\* Two functions on one domain that agree everywhere are one.
LEMMA SameFunction ==
  ASSUME NEW D, NEW S, NEW e \in [D -> S], NEW f \in [D -> S], \A x \in D : e[x] = f[x]
  PROVE  e = f
BY SMT

\* What a mint says of an exchange is what it keeps of it.
Fields == {"status", "reason", "value", "k1", "c", "c2", "legacy"}
Answering(c, d) == [Said EXCEPT !.status = "OK", !.c = c, !.c2 = d]

\* The certificates of one output are what a swap says, and those of two what
\* a split says; nothing is taken back at the end.
LEMMA Certified ==
  ASSUME fault = "none"
  PROVE  /\ \A q, v : replied(<<Good(q, v)>>) = Swapped(q, v)
         /\ \A p, v, q, w : replied(<<Good(p, v), Good(q, w)>>) = Divided(p, v, q, w)
         /\ \A a : finish(a) = a
<1>1. /\ ~Has("serverGeneratedSecrets") /\ ~Has("dropAfterMutation") /\ ~Has("unconfirmedMutation")
  BY HonestOptions
<1>2. \A a : finish(a) = a
  BY <1>1 DEF finish
<1>3. ASSUME NEW certificates, NEW c, NEW d, certificates[1] = c,
             Len(certificates) = 2 => certificates[2] = d,
             Len(certificates) # 2 => d = NoCertificate
      PROVE  replied(certificates) = Answering(c, d)
  <2> DEFINE k == IF Has("serverGeneratedSecrets") THEN "invented" ELSE "none"
             e == IF Len(certificates) = 2 THEN sent(certificates[2]) ELSE NoCertificate
             old == legacy(certificates[1])
             b == sent(certificates[1])
             one == [Said EXCEPT !.status = "OK", !.k1 = k, !.c = b, !.c2 = e, !.legacy = old]
             other == [Said EXCEPT !.status = "OK", !.c = c, !.c2 = d]
             S == {Said[x] : x \in Fields} \cup {"OK", k, b, e, old, c, d}
  <2>1. replied(certificates) = one
    BY Zenon DEF replied
  <2>2. k = "none" /\ b = c /\ e = d /\ old = FALSE
    BY <1>1, <1>3, HonestCertificates
  <2> HIDE DEF k, b, e, old
  <2>3. /\ DOMAIN Said = Fields /\ Said \in [Fields -> S]
        /\ Said.k1 = "none" /\ Said.legacy = FALSE
    BY DEF Said, Fields
  <2>4. one \in [Fields -> S] /\ other \in [Fields -> S]
    BY <2>3
  <2>5. \A x \in Fields : one[x] = other[x]
    BY <2>2, <2>3
  <2> HIDE DEF one, other, S
  <2>6. one = other
    BY <2>4, <2>5, SameFunction
  <2> QED BY <2>1, <2>6, Zenon DEF other, Answering
<1>4. ASSUME NEW q, NEW v PROVE replied(<<Good(q, v)>>) = Swapped(q, v)
  <2> DEFINE one == [Said EXCEPT !.status = "OK", !.c = Good(q, v), !.c2 = NoCertificate]
             other == [Said EXCEPT !.status = "OK", !.c = Good(q, v)]
             S == {Said[x] : x \in Fields} \cup {"OK", Good(q, v), NoCertificate}
  <2>1. <<Good(q, v)>>[1] = Good(q, v) /\ Len(<<Good(q, v)>>) # 2
    OBVIOUS
  <2>2. replied(<<Good(q, v)>>) = Answering(Good(q, v), NoCertificate)
    BY <2>1, <1>3
  <2>3. /\ DOMAIN Said = Fields /\ Said \in [Fields -> S] /\ Said.c2 = NoCertificate
    BY DEF Said, Fields
  <2>4. one \in [Fields -> S] /\ other \in [Fields -> S]
    BY <2>3
  <2>5. \A x \in Fields : one[x] = other[x]
    BY <2>3
  <2> HIDE DEF one, other, S
  <2>6. one = other
    BY <2>4, <2>5, SameFunction
  <2>7. Answering(Good(q, v), NoCertificate) = one
    BY Zenon DEF Answering, one
  <2> QED BY <2>2, <2>6, <2>7, Zenon DEF other, Swapped
<1>5. ASSUME NEW p, NEW v, NEW q, NEW w
      PROVE replied(<<Good(p, v), Good(q, w)>>) = Divided(p, v, q, w)
  <2> DEFINE both == <<Good(p, v), Good(q, w)>>
  <2>1. both[1] = Good(p, v) /\ both[2] = Good(q, w) /\ Len(both) = 2
    OBVIOUS
  <2> HIDE DEF both
  <2>2. replied(both) = Answering(Good(p, v), Good(q, w))
    BY <2>1, <1>3
  <2> QED BY <2>2, Zenon DEF Answering, Divided, both
<1> QED BY <1>2, <1>4, <1>5

\* The certificates of an exchange.
Certificates(r) ==
  IF splits(r) THEN <<Good(out1(r), minted(r)[out1(r)]), Good(out2(r), minted(r)[out2(r)])>>
  ELSE <<Good(out1(r), minted(r)[out1(r)])>>

\* An exchange answers with the certificates that it keeps for a replay.
LEMMA ExchangeSays ==
  ASSUME fault = "none", NEW r
  PROVE  /\ exchanged(r).answer = replied(Certificates(r))
         /\ Kept(exchanged(r).swaps, identity(r), Certificates(r))
         /\ DOMAIN exchanged(r).swaps = DOMAIN swaps \cup {identity(r)}
<1> DEFINE out == minted(r)
           certificate(q) == certify(q, out[q], hashed(r, q))
           certificates == IF splits(r) THEN <<certificate(out1(r)), certificate(out2(r))>>
                           ELSE <<certificate(out1(r))>>
<1>1. certificates = Certificates(r)
  BY HonestCertificates DEF Certificates
<1>2. /\ exchanged(r).answer = finish(replied(certificates))
      /\ exchanged(r).swaps = set(swaps, [id \in {identity(r)} |-> certificates])
  BY Zenon DEF exchanged
<1> HIDE DEF certificates
<1>3. exchanged(r).answer = replied(Certificates(r))
  BY <1>1, <1>2, Certified
<1>4. /\ DOMAIN exchanged(r).swaps = DOMAIN swaps \cup {identity(r)}
      /\ exchanged(r).swaps[identity(r)] = certificates
  BY <1>2 DEF set
<1> QED BY <1>1, <1>3, <1>4 DEF Kept

\* The books grow by names that no note need have.
LEMMA BooksGrow ==
  ASSUME NEW map, NEW done, NEW names, NEW live, Books(map, done, names, live),
         NEW more, names \subseteq more
  PROVE  Books(map, done, more, live)
BY DEF Books

\* An exchange of all that is live.
LEMMA Trade ==
  ASSUME fault = "none", Ledger(notes), NEW names, NEW live, Books(notes, swaps, names, live),
         NEW r, Exchangeable(r), qs(r) = DOMAIN live, qs(r) # {},
         \A q \in outputs(r) : minted(r)[q] \in Nat,
         identity(r).inputs = qs(r), identity(r).out1 \in outputs(r)
  PROVE  Books(exchanged(r).notes, exchanged(r).swaps, names \cup outputs(r), minted(r))
<1> DEFINE after == exchanged(r).notes
           kept == exchanged(r).swaps
           O == outputs(r)
           Q == qs(r)
           new == minted(r)
           id == identity(r)
<1>1. /\ DOMAIN new = O /\ Q \subseteq DOMAIN notes /\ O \cap DOMAIN notes = {}
      /\ DOMAIN after = DOMAIN notes \cup O
      /\ \A q \in O : after[q].state = "outstanding" /\ after[q].amount = new[q]
      /\ \A q \in Q : after[q] = [notes[q] EXCEPT !.state = "burned"]
      /\ \A q \in DOMAIN notes \ Q : after[q] = notes[q]
  BY AfterExchange
<1>2. \A q \in Q : after[q].state = "burned"
  <2> TAKE q \in Q
  <2> DEFINE note == notes[q]
  <2>1. after[q] = [note EXCEPT !.state = "burned"] /\ {"state", "amount"} \subseteq DOMAIN note
    BY <1>1 DEF Ledger
  <2> HIDE DEF note
  <2> QED BY <2>1
<1>3. DOMAIN kept = DOMAIN swaps \cup {id}
  BY ExchangeSays
<1>4. /\ {"given"} \subseteq DOMAIN notes /\ DOMAIN notes \subseteq names
      /\ \A q \in DOMAIN notes \ Q : notes[q].state = "burned"
      /\ \A i \in DOMAIN swaps :
           i.inputs # {} /\ i.inputs \subseteq DOMAIN notes \ Q /\ i.out1 \in DOMAIN notes
  BY DEF Books
<1> HIDE DEF after, kept, O, Q, new, id
<1>5. \A i \in DOMAIN kept : i.inputs # {} /\ i.inputs \subseteq DOMAIN after \ DOMAIN new
                             /\ i.out1 \in DOMAIN after
  <2> TAKE i \in DOMAIN kept
  <2>1. CASE i \in DOMAIN swaps
    BY <1>1, <1>4, <2>1
  <2>2. CASE i = id
    BY <1>1, <2>2 DEF id, Q, O
  <2> QED BY <1>3, <2>1, <2>2
<1>6. \A q \in DOMAIN after \ DOMAIN new : after[q].state = "burned"
  BY <1>1, <1>2, <1>4
<1>7. \A q \in DOMAIN new : new[q] \in Nat
  BY <1>1 DEF new, O
<1>8. Books(after, kept, names \cup O, new)
  BY <1>1, <1>4, <1>5, <1>6, <1>7 DEF Books
<1> QED BY <1>8 DEF after, kept, O, new

\* A request that spends a live note repeats none that was granted.
LEMMA NotYetTraded ==
  ASSUME NEW names, NEW live, Books(notes, swaps, names, live), NEW r,
         identity(r).inputs \cap DOMAIN live # {}
  PROVE  identity(r) \notin DOMAIN swaps
BY DEF Books

\* What an exchange of an honest mint says and leaves.
LEMMA Grants ==
  ASSUME fault = "none", Ledger(notes), NEW names, NEW live, Books(notes, swaps, names, live),
         NEW r, r.ask = "cb", Exchangeable(r), qs(r) = DOMAIN live, qs(r) # {},
         \A q \in outputs(r) : minted(r)[q] \in Nat,
         identity(r).inputs = qs(r), identity(r).out1 \in outputs(r)
  PROVE  /\ handle(r).answer = replied(Certificates(r))
         /\ Kept(handle(r).swaps, identity(r), Certificates(r))
         /\ Books(handle(r).notes, handle(r).swaps, names \cup outputs(r), minted(r))
<1>1. identity(r) \notin DOMAIN swaps
  BY NotYetTraded
<1>2. handle(r) = exchanged(r)
  BY <1>1, Handlers, Judgement
<1>3. Books(exchanged(r).notes, exchanged(r).swaps, names \cup outputs(r), minted(r))
  BY Trade
<1> QED BY <1>2, <1>3, ExchangeSays

\* One note for one of all its value.
LEMMA TradeOne ==
  ASSUME fault = "none", Ledger(notes), NEW names, NEW s, NEW p1,
         Books(notes, swaps, names, One(s.q)), opens(s), p1.q # "none", p1.q \notin names
  PROVE  LET done == handle(call(<<s>>, p1)) IN
         /\ done.answer = Swapped(p1.q, Value)
         /\ KeptOne(done.swaps, Rotation(s.q, p1.q), p1.q)
         /\ Books(done.notes, done.swaps, names \cup {p1.q}, One(p1.q))
<1> DEFINE r == call(<<s>>, p1)
<1>1. /\ r.ask = "cb" /\ qs(r) = {s.q} /\ out1(r) = p1.q /\ out2(r) = "none" /\ splits(r) = FALSE
      /\ outputs(r) = {p1.q} /\ identity(r) = Rotation(s.q, p1.q)
      /\ ~illFormed(r)
      /\ unopened(r) <=> s.q \notin DOMAIN notes \/ ~opens(s)
      /\ total(r) = SumFunctionOnSet(Amounts({s.q}), {s.q})
  BY OneForOne DEF MovesOne
<1>11. Len(r.k1s) = 1
  BY RequestFields
<1> HIDE DEF r
<1>2. /\ s.q \in DOMAIN notes /\ notes[s.q].state = "outstanding" /\ notes[s.q].amount = Value
      /\ DOMAIN notes \subseteq names /\ DOMAIN One(s.q) = {s.q}
  BY DEF Books, One
<1>3. total(r) = Value
  <2> DEFINE f == Amounts({s.q})
  <2>1. f[s.q] = Value /\ Value \in Int
    BY <1>2, Money DEF Amounts
  <2>2. total(r) = SumFunctionOnSet(f, {s.q})
    BY <1>1
  <2> HIDE DEF f
  <2> QED BY <2>1, <2>2, SumOfOne
<1>4. minted(r) = One(p1.q)
  <2>1. minted(r) = [q \in {out1(r)} |-> total(r) + (Len(r.k1s) - 1) * BaseFee]
    BY <1>1, Zenon DEF minted
  <2>2. total(r) + (Len(r.k1s) - 1) * BaseFee = Value
    <3>1. 0 * BaseFee = 0 /\ 1 - 1 = 0
      BY Money
    <3> QED BY <1>11, <1>3, <3>1, Money
  <2>3. minted(r) = [q \in {p1.q} |-> Value]
    BY <1>1, <2>1, <2>2, Zenon
  <2> QED BY <2>3, Zenon DEF One
<1>5. Exchangeable(r)
  <2>1. ~unopened(r)
    BY <1>1, <1>2
  <2>2. \A q \in qs(r) : notes[q].state # "burned"
    BY <1>1, <1>2
  <2>3. \A q \in outputs(r) : ~known(q)
    BY <1>1, <1>2 DEF known
  <2> QED BY <1>1, <2>1, <2>2, <2>3 DEF Exchangeable
<1>6. Certificates(r) = <<Good(p1.q, Value)>>
  <2>1. minted(r)[p1.q] = Value
    BY <1>4 DEF One
  <2> QED BY <1>1, <2>1 DEF Certificates
<1>7. /\ handle(r).answer = replied(Certificates(r))
      /\ Kept(handle(r).swaps, identity(r), Certificates(r))
      /\ Books(handle(r).notes, handle(r).swaps, names \cup outputs(r), minted(r))
  <2>1. identity(r).inputs = qs(r) /\ identity(r).out1 \in outputs(r)
    BY <1>1 DEF Rotation
  <2>2. \A q \in outputs(r) : minted(r)[q] \in Nat
    BY <1>1, <1>4, Money DEF One
  <2>3. qs(r) = DOMAIN One(s.q) /\ qs(r) # {}
    BY <1>1, <1>2
  <2> QED BY <1>1, <1>5, <2>1, <2>2, <2>3, Grants
<1>8. handle(r).answer = Swapped(p1.q, Value)
  BY <1>6, <1>7, Certified
<1>9. KeptOne(handle(r).swaps, Rotation(s.q, p1.q), p1.q)
  BY <1>1, <1>6, <1>7 DEF KeptOne
<1>10. Books(handle(r).notes, handle(r).swaps, names \cup {p1.q}, One(p1.q))
  BY <1>1, <1>4, <1>7
<1> QED BY <1>8, <1>9, <1>10 DEF r

\* A note for two, each of half of it but for the fee.
LEMMA TradeSplit ==
  ASSUME fault = "none", Ledger(notes), NEW names, NEW s, NEW p1, NEW p2,
         Books(notes, swaps, names, One(s.q)), opens(s), Roomy, p1.q # p2.q,
         p1.q # "none", p1.q \notin names, p2.q # "none", p2.q \notin names
  PROVE  LET done == handle(split(s, Share, p1, p2)) IN
         /\ done.answer = Divided(p1.q, Share, p2.q, Rest)
         /\ KeptTwo(done.swaps, Division(s.q, p1.q, p2.q), p1.q, p2.q)
         /\ Books(done.notes, done.swaps, names \cup {p1.q, p2.q}, Two(p1.q, p2.q))
<1> DEFINE r == split(s, Share, p1, p2)
<1>0. /\ Share \in Nat /\ Rest \in Nat /\ Share # NoAmount
      /\ Share > 0 /\ Share < Value /\ Rest >= 1
  BY Money DEF Roomy, Rest, Share, NoAmount
<1>1. /\ r.ask = "cb" /\ qs(r) = {s.q} /\ out1(r) = p1.q /\ out2(r) = p2.q /\ splits(r) = TRUE
      /\ outputs(r) = {p1.q, p2.q} /\ r.amount = Share
      /\ identity(r) = Cut(s.q, p1.q, p2.q, Share)
      /\ ~illFormed(r)
      /\ unopened(r) <=> s.q \notin DOMAIN notes \/ ~opens(s)
      /\ total(r) = SumFunctionOnSet(Amounts({s.q}), {s.q})
  <2>1. Cuts(s, Share, p1, p2)
    BY <1>0, OneForTwo
  <2> QED BY <2>1 DEF Cuts
<1> HIDE DEF r
<1>2. /\ s.q \in DOMAIN notes /\ notes[s.q].state = "outstanding" /\ notes[s.q].amount = Value
      /\ DOMAIN notes \subseteq names /\ DOMAIN One(s.q) = {s.q}
  BY DEF Books, One
<1>3. total(r) = Value
  <2> DEFINE f == Amounts({s.q})
  <2>1. f[s.q] = Value /\ Value \in Int
    BY <1>2, Money DEF Amounts
  <2>2. total(r) = SumFunctionOnSet(f, {s.q})
    BY <1>1
  <2> HIDE DEF f
  <2> QED BY <2>1, <2>2, SumOfOne
<1>4. change(r) = Rest
  BY <1>1, <1>3, HonestOptions DEF change, Rest
<1>5. minted(r) = Two(p1.q, p2.q)
  <2>1. minted(r) = [q \in {out1(r), out2(r)} |-> IF q = out1(r) THEN r.amount ELSE change(r)]
    BY <1>1, Zenon DEF minted
  <2>2. minted(r) = [q \in {p1.q, p2.q} |-> IF q = p1.q THEN Share ELSE Rest]
    BY <1>1, <1>4, <2>1, Zenon
  <2> QED BY <2>2, Zenon DEF Two
<1>6. Exchangeable(r)
  <2>1. ~unopened(r)
    BY <1>1, <1>2
  <2>2. \A q \in qs(r) : notes[q].state # "burned"
    BY <1>1, <1>2
  <2>3. \A q \in outputs(r) : ~known(q)
    BY <1>1, <1>2 DEF known
  <2>4. ~badSplit(r)
    <3>1. ~(Share <= 0) /\ ~(Share >= Value) /\ ~(Rest < 1)
      BY <1>0, Money
    <3> QED BY <1>1, <1>3, <1>4, <3>1 DEF badSplit
  <2> QED BY <1>1, <2>1, <2>2, <2>3, <2>4 DEF Exchangeable
<1>7. Certificates(r) = <<Good(p1.q, Share), Good(p2.q, Rest)>>
  <2>1. minted(r)[p1.q] = Share /\ minted(r)[p2.q] = Rest
    BY <1>5 DEF Two
  <2> QED BY <1>1, <2>1 DEF Certificates
<1>8. /\ handle(r).answer = replied(Certificates(r))
      /\ Kept(handle(r).swaps, identity(r), Certificates(r))
      /\ Books(handle(r).notes, handle(r).swaps, names \cup outputs(r), minted(r))
  <2>1. identity(r).inputs = qs(r) /\ identity(r).out1 \in outputs(r)
    BY <1>1 DEF Cut
  <2>2. \A q \in outputs(r) : minted(r)[q] \in Nat
    BY <1>0, <1>1, <1>5 DEF Two
  <2>3. qs(r) = DOMAIN One(s.q) /\ qs(r) # {}
    BY <1>1, <1>2
  <2> QED BY <1>1, <1>6, <2>1, <2>2, <2>3, Grants
<1>9. handle(r).answer = Divided(p1.q, Share, p2.q, Rest)
  BY <1>7, <1>8, Certified
<1>10. KeptTwo(handle(r).swaps, Division(s.q, p1.q, p2.q), p1.q, p2.q)
  <2>1. identity(r) = Division(s.q, p1.q, p2.q)
    BY <1>1 DEF Division
  <2> QED BY <2>1, <1>7, <1>8 DEF KeptTwo
<1>11. Books(handle(r).notes, handle(r).swaps, names \cup {p1.q, p2.q}, Two(p1.q, p2.q))
  BY <1>1, <1>5, <1>8
<1> QED BY <1>9, <1>10, <1>11 DEF r

\* And its two halves for one of all of it again.
LEMMA TradeJoin ==
  ASSUME fault = "none", Ledger(notes), NEW names, NEW s1, NEW s2, NEW p1, s1.q # s2.q,
         Books(notes, swaps, names, Two(s1.q, s2.q)), opens(s1), opens(s2), Roomy,
         p1.q # "none", p1.q \notin names
  PROVE  LET done == handle(call(<<s1, s2>>, p1)) IN
         /\ done.answer = Swapped(p1.q, Value)
         /\ KeptOne(done.swaps, Fusion(s1.q, s2.q, p1.q), p1.q)
         /\ Books(done.notes, done.swaps, names \cup {p1.q}, One(p1.q))
<1> DEFINE r == call(<<s1, s2>>, p1)
<1>0. Share \in Nat /\ Rest \in Nat /\ Share + Rest + BaseFee = Value /\ Value \in Nat /\ BaseFee \in Nat
  BY Money DEF Roomy, Rest, Share
<1>1. /\ r.ask = "cb" /\ qs(r) = {s1.q, s2.q} /\ Len(r.k1s) = 2
      /\ out1(r) = p1.q /\ out2(r) = "none" /\ splits(r) = FALSE
      /\ outputs(r) = {p1.q} /\ identity(r) = Fusion(s1.q, s2.q, p1.q)
      /\ ~illFormed(r)
      /\ unopened(r) <=> \/ s1.q \notin DOMAIN notes \/ ~opens(s1)
                         \/ s2.q \notin DOMAIN notes \/ ~opens(s2)
      /\ total(r) = SumFunctionOnSet(Amounts({s1.q, s2.q}), {s1.q, s2.q})
  <2>1. Joins(s1, s2, p1)
    BY TwoForOne
  <2> QED BY <2>1 DEF Joins
<1> HIDE DEF r
<1>2. DOMAIN Two(s1.q, s2.q) = {s1.q, s2.q} /\ Two(s1.q, s2.q)[s1.q] = Share /\ Two(s1.q, s2.q)[s2.q] = Rest
  BY DEF Two
<1>3. /\ {s1.q, s2.q} \subseteq DOMAIN notes /\ \A q \in {s1.q, s2.q} : notes[q].state = "outstanding"
      /\ notes[s1.q].amount = Share /\ notes[s2.q].amount = Rest /\ DOMAIN notes \subseteq names
  BY <1>2 DEF Books
<1>4. total(r) = Share + Rest
  <2> DEFINE f == Amounts({s1.q, s2.q})
  <2>1. f[s1.q] = Share /\ f[s2.q] = Rest /\ Share \in Int /\ Rest \in Int
    BY <1>0, <1>3 DEF Amounts
  <2>2. total(r) = SumFunctionOnSet(f, {s1.q, s2.q})
    BY <1>1
  <2> HIDE DEF f
  <2> QED BY <2>1, <2>2, SumOfPair
<1>5. minted(r) = One(p1.q)
  <2>1. minted(r) = [q \in {out1(r)} |-> total(r) + (Len(r.k1s) - 1) * BaseFee]
    BY <1>1, Zenon DEF minted
  <2>2. total(r) + (Len(r.k1s) - 1) * BaseFee = Value
    <3>1. 2 - 1 = 1 /\ 1 * BaseFee = BaseFee
      BY <1>0
    <3>2. (Len(r.k1s) - 1) * BaseFee = BaseFee
      BY <1>1, <3>1
    <3> QED BY <1>0, <1>4, <3>2
  <2>3. minted(r) = [q \in {p1.q} |-> Value]
    BY <1>1, <2>1, <2>2, Zenon
  <2> QED BY <2>3, Zenon DEF One
<1>6. Exchangeable(r)
  <2>1. ~unopened(r)
    BY <1>1, <1>3
  <2>2. \A q \in qs(r) : notes[q].state # "burned"
    BY <1>1, <1>3
  <2>3. \A q \in outputs(r) : ~known(q)
    BY <1>1, <1>3 DEF known
  <2> QED BY <1>1, <2>1, <2>2, <2>3 DEF Exchangeable
<1>7. Certificates(r) = <<Good(p1.q, Value)>>
  <2>1. minted(r)[p1.q] = Value
    BY <1>5 DEF One
  <2> QED BY <1>1, <2>1 DEF Certificates
<1>8. /\ handle(r).answer = replied(Certificates(r))
      /\ Kept(handle(r).swaps, identity(r), Certificates(r))
      /\ Books(handle(r).notes, handle(r).swaps, names \cup outputs(r), minted(r))
  <2>1. identity(r).inputs = qs(r) /\ identity(r).out1 \in outputs(r)
    BY <1>1 DEF Fusion
  <2>2. \A q \in outputs(r) : minted(r)[q] \in Nat
    BY <1>1, <1>5, Money DEF One
  <2>3. qs(r) = DOMAIN Two(s1.q, s2.q) /\ qs(r) # {}
    BY <1>1, <1>2
  <2> QED BY <1>1, <1>6, <2>1, <2>2, <2>3, Grants
<1>9. handle(r).answer = Swapped(p1.q, Value)
  BY <1>7, <1>8, Certified
<1>10. KeptOne(handle(r).swaps, Fusion(s1.q, s2.q, p1.q), p1.q)
  BY <1>1, <1>7, <1>8 DEF KeptOne
<1>11. Books(handle(r).notes, handle(r).swaps, names \cup {p1.q}, One(p1.q))
  BY <1>1, <1>5, <1>8
<1> QED BY <1>9, <1>10, <1>11 DEF r

\* Where there is no room the split is refused.
LEMMA NoRoom ==
  ASSUME fault = "none", NEW names, NEW s, NEW p1, NEW p2,
         Books(notes, swaps, names, One(s.q)), ~Roomy, p1.q # "none", p2.q # "none"
  PROVE  \E reason : handle(split(s, Share, p1, p2)) = Handled(fail(reason))
<1> DEFINE r == split(s, Share, p1, p2)
<1>0. Share \in Nat /\ Share # NoAmount
  BY Money DEF Share, NoAmount
<1>1. /\ r.ask = "cb" /\ splits(r) = TRUE /\ r.amount = Share
      /\ identity(r) = Cut(s.q, p1.q, p2.q, Share)
      /\ total(r) = SumFunctionOnSet(Amounts({s.q}), {s.q})
  <2>1. Cuts(s, Share, p1, p2)
    BY <1>0, OneForTwo
  <2> QED BY <2>1 DEF Cuts
<1> HIDE DEF r
<1>2. s.q \in DOMAIN notes /\ notes[s.q].amount = Value /\ DOMAIN One(s.q) = {s.q}
  BY DEF Books, One
<1>3. total(r) = Value
  <2> DEFINE f == Amounts({s.q})
  <2>1. f[s.q] = Value /\ Value \in Int
    BY <1>2, Money DEF Amounts
  <2>2. total(r) = SumFunctionOnSet(f, {s.q})
    BY <1>1
  <2> HIDE DEF f
  <2> QED BY <2>1, <2>2, SumOfOne
<1>4. change(r) = Rest
  BY <1>1, <1>3, HonestOptions DEF change, Rest
<1>5. badSplit(r)
  <2>1. Share <= 0 \/ Rest < 1
    BY <1>0, Money DEF Roomy, Rest
  <2> QED BY <1>1, <1>4, <2>1 DEF badSplit
<1>6. identity(r) \notin DOMAIN swaps
  <2>1. identity(r).inputs \cap DOMAIN One(s.q) # {}
    BY <1>1, <1>2 DEF Cut
  <2> QED BY <2>1, NotYetTraded
<1> QED BY <1>1, <1>5, <1>6, Handlers, Judgement DEF r

\* A request granted before is granted again, at no cost.
LEMMA Replays ==
  ASSUME fault = "none", NEW s, opens(s), s.q \in DOMAIN notes
  PROVE  /\ \A p1 : p1.q # "none" /\ KeptOne(swaps, Rotation(s.q, p1.q), p1.q) =>
              handle(call(<<s>>, p1)) = Handled(Swapped(p1.q, Value))
         /\ \A p1, p2 :
              p1.q # "none" /\ p2.q # "none"
              /\ KeptTwo(swaps, Division(s.q, p1.q, p2.q), p1.q, p2.q) =>
              handle(split(s, Share, p1, p2)) = Handled(Divided(p1.q, Share, p2.q, Rest))
         /\ \A s2, p1 :
              p1.q # "none" /\ opens(s2) /\ s2.q \in DOMAIN notes /\ s2.q # s.q
              /\ KeptOne(swaps, Fusion(s.q, s2.q, p1.q), p1.q) =>
              handle(call(<<s, s2>>, p1)) = Handled(Swapped(p1.q, Value))
<1>1. ASSUME NEW p1, p1.q # "none", KeptOne(swaps, Rotation(s.q, p1.q), p1.q)
      PROVE  handle(call(<<s>>, p1)) = Handled(Swapped(p1.q, Value))
  <2> DEFINE r == call(<<s>>, p1)
  <2>1. r.ask = "cb" /\ ~illFormed(r) /\ ~unopened(r) /\ identity(r) = Rotation(s.q, p1.q)
    BY <1>1, OneForOne DEF MovesOne
  <2> HIDE DEF r
  <2>2. identity(r) \in DOMAIN swaps /\ swaps[identity(r)] = <<Good(p1.q, Value)>>
    BY <1>1, <2>1 DEF KeptOne, Kept
  <2>3. handle(r) = Handled(replied(swaps[identity(r)]))
    BY <2>1, <2>2, Handlers, Judgement
  <2> QED BY <2>2, <2>3, Certified DEF r
<1>2. ASSUME NEW p1, NEW p2, p1.q # "none", p2.q # "none",
             KeptTwo(swaps, Division(s.q, p1.q, p2.q), p1.q, p2.q)
      PROVE  handle(split(s, Share, p1, p2)) = Handled(Divided(p1.q, Share, p2.q, Rest))
  <2> DEFINE r == split(s, Share, p1, p2)
  <2>0. Share # NoAmount
    BY Money DEF Share, NoAmount
  <2>1. /\ r.ask = "cb" /\ ~illFormed(r) /\ (unopened(r) <=> s.q \notin DOMAIN notes \/ ~opens(s))
        /\ identity(r) = Cut(s.q, p1.q, p2.q, Share)
    <3>1. Cuts(s, Share, p1, p2)
      BY <1>2, <2>0, OneForTwo
    <3> QED BY <3>1 DEF Cuts
  <2> HIDE DEF r
  <2>2. /\ identity(r) \in DOMAIN swaps
        /\ swaps[identity(r)] = <<Good(p1.q, Share), Good(p2.q, Rest)>>
    BY <1>2, <2>1 DEF KeptTwo, Kept, Division
  <2>3. handle(r) = Handled(replied(swaps[identity(r)]))
    BY <2>1, <2>2, Handlers, Judgement
  <2> QED BY <2>2, <2>3, Certified DEF r
<1>3. ASSUME NEW s2, NEW p1, p1.q # "none", opens(s2), s2.q \in DOMAIN notes, s2.q # s.q,
             KeptOne(swaps, Fusion(s.q, s2.q, p1.q), p1.q)
      PROVE  handle(call(<<s, s2>>, p1)) = Handled(Swapped(p1.q, Value))
  <2> DEFINE r == call(<<s, s2>>, p1)
  <2>1. r.ask = "cb" /\ ~illFormed(r) /\ ~unopened(r) /\ identity(r) = Fusion(s.q, s2.q, p1.q)
    <3>1. s.q # s2.q
      BY <1>3
    <3>2. Joins(s, s2, p1)
      BY <1>3, <3>1, TwoForOne
    <3> QED BY <1>3, <3>2 DEF Joins
  <2> HIDE DEF r
  <2>2. identity(r) \in DOMAIN swaps /\ swaps[identity(r)] = <<Good(p1.q, Value)>>
    BY <1>3, <2>1 DEF KeptOne, Kept
  <2>3. handle(r) = Handled(replied(swaps[identity(r)]))
    BY <2>1, <2>2, Handlers, Judgement
  <2> QED BY <2>2, <2>3, Certified DEF r
<1> QED BY <1>1, <1>2, <1>3

\* The steps of a course that leave the books alone.
Quiet(step) ==
  LET done == handle(step.ask) IN
  /\ done.notes = notes /\ done.swaps = swaps
  /\ Matches(done.answer, step.says) /\ done.answer.status \in Replies

\* A request is quiet if it is answered as the course says and moves nothing.
LEMMA QuietAnswer ==
  ASSUME NEW request, NEW said, NEW answer, handle(request) = Handled(answer),
         Matches(answer, said), answer.status \in Replies
  PROVE  Quiet(Step(request, said))
<1>1. Step(request, said).ask = request /\ Step(request, said).says = said
  BY DEF Step
<1>2. /\ Handled(answer).answer = answer /\ Handled(answer).notes = notes
      /\ Handled(answer).swaps = swaps
  BY DEF Handled
<1> QED BY <1>1, <1>2 DEF Quiet

\* And so is one that is refused.
LEMMA QuietRefusal ==
  ASSUME NEW request, NEW reason, handle(request) = Handled(fail(reason))
  PROVE  Quiet(Refuses(request)) /\ Quiet(Step(request, fail(reason)))
<1>1. fail(reason).status \in Replies
  BY AnswerFields DEF Replies
<1>2. Matches(fail(reason), Refusal) /\ Matches(fail(reason), fail(reason))
  BY AnswerFields, Matching
<1> QED BY <1>1, <1>2, QuietAnswer DEF Refuses

\* What is shown of a live note.
LEMMA ShowsLive ==
  ASSUME NEW names, NEW live, NEW s, fault = "none", Books(notes, swaps, names, live),
         s.q \in DOMAIN live, opens(s)
  PROVE  Quiet(Step(lookup(s), Shown(s, live[s.q])))
<1>1. handle(lookup(s)) = Handled(Shown(s, live[s.q]))
  BY InfoAnswers, Handlers
<1>2. Shown(s, live[s.q]).status \in Replies /\ Matches(Shown(s, live[s.q]), Shown(s, live[s.q]))
  BY AnswerFields, Matching DEF Replies
<1> QED BY <1>1, <1>2, QuietAnswer

\* The one live note is shown by what opens it.
LEMMA ShowsOne ==
  ASSUME NEW names, NEW s, fault = "none", Books(notes, swaps, names, One(s.q)), opens(s)
  PROVE  Quiet(Shows(s))
<1>1. s.q \in DOMAIN One(s.q) /\ One(s.q)[s.q] = Value
  BY DEF One
<1> QED BY <1>1, ShowsLive DEF Shows

\* A live note is named by either of its references.
LEMMA NamesOne ==
  ASSUME NEW names, NEW ref, fault = "none", Books(notes, swaps, names, One(ref.q)),
         ref.q # "none", "none" \notin names
  PROVE  Quiet(Step(lookupRef(ref), Named(ref.q, Value)))
<1>1. ref.q \in DOMAIN One(ref.q) /\ One(ref.q)[ref.q] = Value
  BY DEF One
<1>2. "none" \notin DOMAIN notes
  BY DEF Books
<1>3. handle(lookupRef(ref)) = Handled(Named(ref.q, Value))
  BY <1>1, <1>2, RefAnswers, Handlers
<1>4. Named(ref.q, Value).status \in Replies /\ Matches(Named(ref.q, Value), Named(ref.q, Value))
  BY AnswerFields, Matching DEF Replies
<1> QED BY <1>3, <1>4, QuietAnswer

\* Nothing is known of a note there has not been.
LEMMA NobodyKnows ==
  ASSUME NEW names, NEW live, fault = "none", Books(notes, swaps, names, live),
         "none" \notin names
  PROVE  /\ \A s : s.q \notin names => Quiet(NotKnown(lookup(s)))
         /\ \A ref : ref.q \notin names /\ ref.q # "none" => Quiet(NotKnown(lookupRef(ref)))
         /\ \A s, ref : Quiet(NotKnown(Both(s, ref)))
<1>1. DOMAIN notes \subseteq names
  BY DEF Books
<1>2. ASSUME NEW s, s.q \notin names PROVE Quiet(NotKnown(lookup(s)))
  <2>1. handle(lookup(s)) = Handled(fail(UnknownNote))
    BY <1>1, <1>2, InfoAnswers, Handlers
  <2> QED BY <2>1, QuietRefusal DEF NotKnown
<1>3. ASSUME NEW ref, ref.q \notin names, ref.q # "none" PROVE Quiet(NotKnown(lookupRef(ref)))
  <2>1. handle(lookupRef(ref)) = Handled(fail(UnknownNote))
    BY <1>1, <1>3, RefAnswers, Handlers
  <2> QED BY <2>1, QuietRefusal DEF NotKnown
<1>4. ASSUME NEW s, NEW ref PROVE Quiet(NotKnown(Both(s, ref)))
  BY Handlers, QuietRefusal DEF NotKnown
<1> QED BY <1>2, <1>3, <1>4

\* A note that was exchanged is in use, and so is its name.
LEMMA SpentIsInUse ==
  ASSUME NEW names, NEW live, fault = "none", Books(notes, swaps, names, live),
         "none" \notin names, "given" \notin DOMAIN live
  PROVE  /\ \A s : s.q = "given" /\ opens(s) => Quiet(InUse(lookup(s)))
         /\ \A ref : ref.q = "given" => Quiet(InUse(lookupRef(ref)))
         /\ \A s, p1 : /\ s.q = "given" /\ opens(s) /\ p1.q \notin names /\ p1.q # "none"
                       => Quiet(InUse(call(<<s>>, p1)))
         /\ \A s, p1 : /\ DOMAIN live = {s.q} /\ opens(s) /\ p1.q = "given"
                       => Quiet(InUse(call(<<s>>, p1)))
<1>1. /\ "given" \in DOMAIN notes \ DOMAIN live /\ notes["given"].state = "burned"
      /\ DOMAIN notes \subseteq names /\ "none" \notin DOMAIN notes
      /\ \A id \in DOMAIN swaps : id.out1 \in DOMAIN notes
  BY DEF Books
<1>2. ASSUME NEW s, s.q = "given", opens(s) PROVE Quiet(InUse(lookup(s)))
  <2>1. handle(lookup(s)) = Handled(fail(AlreadyInUse))
    BY <1>1, <1>2, InfoAnswers, Handlers
  <2> QED BY <2>1, QuietRefusal DEF InUse
<1>3. ASSUME NEW ref, ref.q = "given" PROVE Quiet(InUse(lookupRef(ref)))
  <2>1. handle(lookupRef(ref)) = Handled(fail(AlreadyInUse))
    BY <1>1, <1>3, RefAnswers, Handlers
  <2> QED BY <2>1, QuietRefusal DEF InUse
<1>4. ASSUME NEW s, NEW p1, s.q = "given", opens(s), p1.q \notin names, p1.q # "none"
      PROVE  Quiet(InUse(call(<<s>>, p1)))
  <2> DEFINE r == call(<<s>>, p1)
  <2>1. /\ r.ask = "cb" /\ qs(r) = {s.q} /\ identity(r) = Rotation(s.q, p1.q) /\ ~illFormed(r)
        /\ unopened(r) <=> s.q \notin DOMAIN notes \/ ~opens(s)
    BY <1>4, OneForOne DEF MovesOne
  <2> HIDE DEF r
  <2>2. identity(r).out1 = p1.q
    BY <2>1 DEF Rotation
  <2>3. identity(r) \notin DOMAIN swaps
    BY <1>1, <1>4, <2>2
  <2>4. handle(r) = Handled(fail(AlreadyInUse))
    BY <1>1, <1>4, <2>1, <2>3, Handlers, Judgement
  <2> QED BY <2>4, QuietRefusal DEF InUse, r
<1>5. ASSUME NEW s, NEW p1, DOMAIN live = {s.q}, opens(s), p1.q = "given"
      PROVE  Quiet(InUse(call(<<s>>, p1)))
  <2> DEFINE r == call(<<s>>, p1)
  <2>1. /\ r.ask = "cb" /\ qs(r) = {s.q} /\ identity(r) = Rotation(s.q, p1.q) /\ ~illFormed(r)
        /\ unopened(r) <=> s.q \notin DOMAIN notes \/ ~opens(s)
        /\ out1(r) = "given" /\ out2(r) = "none" /\ outputs(r) = {"given"}
    BY <1>5, OneForOne DEF MovesOne
  <2> HIDE DEF r
  <2>2. identity(r).inputs \cap DOMAIN live # {}
    BY <1>5, <2>1 DEF Rotation
  <2>3. identity(r) \notin DOMAIN swaps
    BY <2>2, NotYetTraded
  <2>4. s.q \in DOMAIN notes /\ notes[s.q].state = "outstanding"
    BY <1>5 DEF Books
  <2>5. ~unopened(r) /\ ~(\E q \in qs(r) : notes[q].state = "burned")
    BY <1>5, <2>1, <2>4
  <2>6. out1(r) # out2(r) /\ \E q \in outputs(r) : known(q)
    BY <1>1, <2>1 DEF known
  <2>7. handle(r) = Handled(fail(AlreadyInUse))
    BY <2>1, <2>3, <2>5, <2>6, Handlers, Judgement
  <2> QED BY <2>7, QuietRefusal DEF InUse, r
<1> QED BY <1>2, <1>3, <1>4, <1>5

\* A spend that does not open its note is refused, wherever it is shown.
LEMMA ClosedIsRefused ==
  ASSUME NEW names, NEW live, NEW s, fault = "none", Books(notes, swaps, names, live), ~opens(s)
  PROVE  /\ Quiet(Refuses(lookup(s)))
         /\ \A p1 : p1.q # "none" => Quiet(Refuses(call(<<s>>, p1)))
<1>1. infoBySpend(s).status = "ERROR"
  <2>1. s.q \notin DOMAIN notes => infoBySpend(s) = fail(UnknownNote)
    BY InfoAnswers
  <2>2. s.q \in DOMAIN notes => infoBySpend(s).status = "ERROR"
    BY InfoAnswers
  <2> QED BY <2>1, <2>2, AnswerFields
<1>2. Quiet(Refuses(lookup(s)))
  <2>1. handle(lookup(s)) = Handled(infoBySpend(s))
    BY Handlers
  <2>2. Matches(infoBySpend(s), Refusal) /\ infoBySpend(s).status \in Replies
    BY <1>1, Matching DEF Replies
  <2> QED BY <2>1, <2>2, QuietAnswer DEF Refuses
<1>3. ASSUME NEW p1, p1.q # "none" PROVE Quiet(Refuses(call(<<s>>, p1)))
  <2> DEFINE r == call(<<s>>, p1)
  <2>1. r.ask = "cb" /\ (unopened(r) <=> s.q \notin DOMAIN notes \/ ~opens(s))
    BY <1>3, OneForOne DEF MovesOne
  <2> HIDE DEF r
  <2>2. PICK reason : handle(r) = Handled(fail(reason))
    BY <2>1, Handlers, Judgement
  <2> QED BY <2>2, QuietRefusal DEF r
<1> QED BY <1>2, <1>3

\* What is refused before a note is looked at.
LEMMA MalformedIsRefused ==
  ASSUME fault = "none"
  PROVE  /\ \A s : Quiet(Refuses(call(<<s>>, NoRef)))
         /\ \A s, amount, p1 : amount # NoAmount => Quiet(Refuses(split(s, amount, p1, NoRef)))
         /\ \A s, t, p1 : s.q = t.q => Quiet(Refuses(call(<<s, t>>, p1)))
         /\ \A s, out : Quiet(Refuses(ByMethod(s, out)))
<1>0. \A r : r.ask = "cb" /\ illFormed(r) => Quiet(Refuses(r))
  <2> TAKE r
  <2> HAVE r.ask = "cb" /\ illFormed(r)
  <2>1. PICK reason : handle(r) = Handled(fail(reason))
    BY Handlers, Judgement
  <2> QED BY <2>1, QuietRefusal
<1>1. ~Has("acceptsMissingP2")
  BY HonestOptions
<1>2. outputOf(NoRef) = "none"
  BY DEF outputOf
<1>3. ASSUME NEW s PROVE Quiet(Refuses(call(<<s>>, NoRef)))
  <2> DEFINE r == call(<<s>>, NoRef)
  <2>1. r.ask = "cb" /\ r.p1 = NoRef
    BY RequestFields
  <2> HIDE DEF r
  <2>2. illFormed(r)
    BY <1>2, <2>1 DEF illFormed, out1
  <2> QED BY <1>0, <2>1, <2>2 DEF r
<1>4. ASSUME NEW s, NEW amount, NEW p1, amount # NoAmount
      PROVE  Quiet(Refuses(split(s, amount, p1, NoRef)))
  <2> DEFINE r == split(s, amount, p1, NoRef)
  <2>1. r.ask = "cb" /\ r.p2 = NoRef /\ r.amount = amount
    BY RequestFields
  <2> HIDE DEF r
  <2>2. illFormed(r)
    BY <1>1, <1>2, <1>4, <2>1 DEF illFormed, out2, splits
  <2> QED BY <1>0, <2>1, <2>2 DEF r
<1>5. ASSUME NEW s, NEW t, NEW p1, s.q = t.q PROVE Quiet(Refuses(call(<<s, t>>, p1)))
  <2> DEFINE r == call(<<s, t>>, p1)
  <2>1. r.ask = "cb" /\ r.k1s = <<s, t>>
    BY RequestFields
  <2> HIDE DEF r
  <2>2. qs(r) = {s.q} /\ Len(r.k1s) = 2
    BY <1>5, <2>1 DEF qs
  <2>3. Cardinality({s.q}) = 1
    BY FS_Singleton
  <2>4. illFormed(r)
    BY <2>2, <2>3 DEF illFormed
  <2> QED BY <1>0, <2>1, <2>4 DEF r
<1>6. ASSUME NEW s, NEW out PROVE Quiet(Refuses(ByMethod(s, out)))
  <2> DEFINE r == ByMethod(s, out)
  <2>1. handle(r).answer.status = "ERROR" /\ handle(r).notes = notes /\ handle(r).swaps = swaps
    BY Handlers
  <2>2. Refuses(r).ask = r /\ Refuses(r).says = Refusal
    BY DEF Refuses, Step
  <2> HIDE DEF r
  <2>3. Matches(handle(r).answer, Refusal) /\ handle(r).answer.status \in Replies
    BY <2>1, Matching DEF Replies
  <2>4. Quiet(Refuses(r))
    BY <2>1, <2>2, <2>3 DEF Quiet
  <2> QED BY <2>4 DEF r
<1> QED BY <1>3, <1>4, <1>5, <1>6

\* More spends than a mint takes, of notes there have not been.
LEMMA OversizedIsRefused ==
  ASSUME NEW names, NEW live, fault = "none", Books(notes, swaps, names, live),
         "invented" \notin names
  PROVE  Quiet(Refuses(call([i \in 1 .. Capped + 1 |-> bearer(Invented[i])], hexH("oversized"))))
<1> DEFINE k1s == [i \in 1 .. Capped + 1 |-> bearer(Invented[i])]
           r == call(k1s, hexH("oversized"))
<1>1. r.ask = "cb" /\ r.k1s = k1s
  BY RequestFields
<1>2. 1 \in DOMAIN k1s /\ k1s[1].q = "invented"
  BY DEF Capped, bearer, SpendBy, Invented
<1> HIDE DEF k1s, r
<1>3. unopened(r)
  BY <1>1, <1>2 DEF unopened, known, Books
<1>4. PICK reason : handle(r) = Handled(fail(reason))
  BY <1>1, <1>3, Handlers, Judgement
<1>5. Quiet(Refuses(r))
  BY <1>4, QuietRefusal
<1> QED BY <1>5 DEF r, k1s

\* A split that names one note twice, or for more than the note is worth.
LEMMA BadSplitIsRefused ==
  ASSUME NEW names, NEW s, NEW p1, NEW p2, NEW amount, fault = "none",
         Books(notes, swaps, names, One(s.q)), amount \in Nat, p1.q # "none", p2.q # "none",
         p1.q = p2.q \/ Value - amount - BaseFee < 1
  PROVE  Quiet(Refuses(split(s, amount, p1, p2)))
<1> DEFINE r == split(s, amount, p1, p2)
<1>0. amount # NoAmount
  BY DEF NoAmount
<1>1. /\ r.ask = "cb" /\ splits(r) = TRUE /\ r.amount = amount
      /\ out1(r) = p1.q /\ out2(r) = p2.q
      /\ identity(r) = Cut(s.q, p1.q, p2.q, amount)
      /\ total(r) = SumFunctionOnSet(Amounts({s.q}), {s.q})
  <2>1. Cuts(s, amount, p1, p2)
    BY <1>0, OneForTwo
  <2> QED BY <2>1 DEF Cuts
<1> HIDE DEF r
<1>2. s.q \in DOMAIN notes /\ notes[s.q].amount = Value /\ DOMAIN One(s.q) = {s.q}
  BY DEF Books, One
<1>3. total(r) = Value
  <2> DEFINE f == Amounts({s.q})
  <2>1. f[s.q] = Value /\ Value \in Int
    BY <1>2, Money DEF Amounts
  <2>2. total(r) = SumFunctionOnSet(f, {s.q})
    BY <1>1
  <2> HIDE DEF f
  <2> QED BY <2>1, <2>2, SumOfOne
<1>4. change(r) = Value - amount - BaseFee
  BY <1>1, <1>3, HonestOptions DEF change
<1>5. out1(r) = out2(r) \/ (splits(r) /\ badSplit(r))
  BY <1>1, <1>4 DEF badSplit
<1>6. identity(r) \notin DOMAIN swaps
  <2>1. identity(r).inputs \cap DOMAIN One(s.q) # {}
    BY <1>1, <1>2 DEF Cut
  <2> QED BY <2>1, NotYetTraded
<1>7. PICK reason : handle(r) = Handled(fail(reason))
  BY <1>1, <1>5, <1>6, Handlers, Judgement
<1> QED BY <1>7, QuietRefusal DEF r

Givens == {"preimage", "cw1"}
Trading == {8, 17, 18, 20, 27, 28, 31}
AllQuiet(course) == \A i \in DOMAIN course : Quiet(course[i])

\* The spends and the references, and what they name.
LEMMA Names ==
  /\ \A q, how : SpendBy(q, how).q = q /\ SpendBy(q, how).how = how
  /\ \A q : bearer(q) = SpendBy(q, "preimage") /\ bearer(q).q = q
  /\ \A q : cp1(q).q = q /\ hexH(q).q = q
  /\ \A s : Long(s) = SpendBy(s.q, "cw1")
  /\ Rotated.q = "rotated" /\ Back.q = "home-by-the-first-way"
  /\ \A given : Own(given) = SpendBy("given", given)
BY DEF SpendBy, bearer, cp1, hexH, Long, Rotated, Back, Own

\* Whose value it is, from one trade to the next.
LEMMA Eras ==
  ASSUME NEW map, NEW done
  PROVE  /\ Settled(map, done, 1) <=> Books(map, done, NamesTo(1), One("given"))
         /\ Settled(map, done, 2) <=> Books(map, done, NamesTo(2), One("rotated"))
         /\ Settled(map, done, 3) <=> Books(map, done, NamesTo(3), One(AfterSplit.q))
         /\ Settled(map, done, 4) <=> Books(map, done, NamesTo(4), One(AfterRetry.q))
         /\ Settled(map, done, 5) <=> Books(map, done, NamesTo(5), One("tree"))
         /\ Settled(map, done, 6) <=> Books(map, done, NamesTo(6), One(Back.q))
         /\ Settled(map, done, 7) <=> Books(map, done, NamesTo(7), One("key"))
         /\ Settled(map, done, 8) <=> Books(map, done, NamesTo(8), One("home-by-key"))
<1>1. /\ HeldIn(1, "preimage").q = "given" /\ HeldIn(2, "preimage").q = "rotated"
      /\ HeldIn(3, "preimage") = AfterSplit /\ HeldIn(4, "preimage") = AfterRetry
      /\ HeldIn(5, "preimage").q = "tree" /\ HeldIn(6, "preimage") = Back
      /\ HeldIn(7, "preimage").q = "key" /\ HeldIn(8, "preimage").q = "home-by-key"
  BY Names DEF HeldIn
<1> QED BY <1>1 DEF Settled

\* The names a note may have had by then, and some it may not.
LEMMA Strangers ==
  /\ \A e \in 1 .. 8 :
       {"none", "nobody", "no-key", "nobody-either", "invented", "by-POST", "by-OPTIONS",
        "replayed-first", "replayed-second"} \cap NamesTo(e) = {}
  /\ "rotated" \notin NamesTo(1)
  /\ {"first-half", "second-half", "merged"} \cap NamesTo(2) = {}
  /\ {"retried", "first-piece", "second-piece", "rejoined"} \cap NamesTo(3) = {}
  /\ "tree" \notin NamesTo(4) /\ Back.q \notin NamesTo(5) /\ "key" \notin NamesTo(6)
  /\ "home-by-key" \notin NamesTo(7)
BY Names DEF NamesTo

\* Each trade adds to them the notes it makes.
LEMMA Growing ==
  /\ NamesTo(1) \cup {"rotated"} = NamesTo(2)
  /\ NamesTo(2) \cup {"first-half", "second-half"} \cup {"merged"} = NamesTo(3)
  /\ NamesTo(2) \subseteq NamesTo(3) /\ NamesTo(3) \cup {"retried"} \subseteq NamesTo(4)
  /\ NamesTo(3) \cup {"retried"} \cup {"first-piece", "second-piece"} \cup {"rejoined"} = NamesTo(4)
  /\ NamesTo(4) \cup {"tree"} = NamesTo(5)
  /\ NamesTo(5) \cup {Back.q} = NamesTo(6)
  /\ NamesTo(6) \cup {"key"} = NamesTo(7)
  /\ NamesTo(7) \cup {"home-by-key"} = NamesTo(8)
BY DEF NamesTo

\* The books between two trades, as the checks that do not trade find them.
LEMMA Quietly ==
  ASSUME NEW k \in Nat, k \notin Trading, NEW map, NEW done, NEW i
  PROVE  Book(map, done, k, i) <=> Settled(map, done, Era(k))
BY DEF Book, Untraded, Trading

\* The checks that only look, one era after the other.
LEMMA EchoQuiet ==
  ASSUME fault = "none", Settled(notes, swaps, 1), NEW given \in Givens
  PROVE  AllQuiet(EchoCourse(given))
<1>1. opens(Own(given)) /\ Own(given).q = "given"
  BY Names, Opening DEF Givens
<1>2. Quiet(Shows(Own(given)))
  BY <1>1, Eras, ShowsOne
<1> QED BY <1>2 DEF AllQuiet, EchoCourse

\* The lookup by reference: both names of the note, then strangers.
LEMMA LookupQuiet ==
  ASSUME fault = "none", Settled(notes, swaps, 1), NEW given \in Givens
  PROVE  AllQuiet(LookupCourse(given))
<1> DEFINE named(ref) == Step(lookupRef(ref), Named("given", Value))
           one == NotKnown(lookupRef(hexH("nobody")))
           two == NotKnown(lookup(bearer("nobody")))
           three == NotKnown(lookupRef(cp1("no-key")))
           both == NotKnown(Both(Own(given), cp1("given")))
<1>1. /\ Books(notes, swaps, NamesTo(1), One("given"))
      /\ {"none", "nobody", "no-key"} \cap NamesTo(1) = {}
  BY Eras, Strangers
<1>2. \A ref : ref.q = "given" => Quiet(named(ref))
  <2> TAKE ref
  <2> HAVE ref.q = "given"
  <2>1. Quiet(Step(lookupRef(ref), Named(ref.q, Value)))
    BY <1>1, NamesOne
  <2> QED BY <2>1
<1>3. Quiet(named(cp1("given"))) /\ Quiet(named(hexH("given")))
  BY <1>2, Names
<1>4. Quiet(one) /\ Quiet(two) /\ Quiet(three) /\ Quiet(both)
  <2>1. "nobody" \notin NamesTo(1) /\ "no-key" \notin NamesTo(1) /\ "none" \notin NamesTo(1)
    BY <1>1
  <2> QED BY <1>1, <2>1, Names, NobodyKnows
<1> HIDE DEF named, one, two, three, both
<1>5. CASE given = "preimage"
  <2>1. LookupCourse(given) = <<named(cp1("given")), named(hexH("given")), one, two, three, both>>
    BY <1>5, Zenon DEF LookupCourse, named, one, two, three, both
  <2> QED BY <1>3, <1>4, <2>1 DEF AllQuiet
<1>6. CASE given # "preimage"
  <2>1. LookupCourse(given) = <<named(cp1("given")), one, two, three, both>>
    BY <1>6, Zenon DEF LookupCourse, named, one, two, three, both
  <2> QED BY <1>3, <1>4, <2>1 DEF AllQuiet
<1> QED BY <1>5, <1>6

\* The three malformed mutations.
LEMMA RefusalsQuiet ==
  ASSUME fault = "none", Settled(notes, swaps, 1), NEW given \in Givens
  PROVE  AllQuiet(OversizedCourse) /\ AllQuiet(NoP1Course(given)) /\ AllQuiet(NoP2Course(given))
<1> DEFINE large == call([i \in 1 .. Capped + 1 |-> bearer(Invented[i])], hexH("oversized"))
<1>1. Quiet(Refuses(large))
  <2>1. Books(notes, swaps, NamesTo(1), One("given")) /\ "invented" \notin NamesTo(1)
    BY Eras, Strangers
  <2> QED BY <2>1, OversizedIsRefused
<1> HIDE DEF large
<1>2. AllQuiet(OversizedCourse)
  <2>1. OversizedCourse = <<Refuses(large)>>
    BY Zenon DEF OversizedCourse, large
  <2> QED BY <1>1, <2>1 DEF AllQuiet
<1>3. AllQuiet(NoP1Course(given))
  BY MalformedIsRefused DEF AllQuiet, NoP1Course
<1>4. AllQuiet(NoP2Course(given))
  <2> DEFINE amount == IF Share > 1 THEN Share ELSE 1
             first == Refuses(split(Own(given), amount, hexH("one-output"), NoRef))
  <2>1. amount # NoAmount
    BY Money DEF Share, NoAmount
  <2> HIDE DEF amount
  <2>2. Quiet(first)
    BY <2>1, MalformedIsRefused
  <2>3. Quiet(Shows(Own(given)))
    <3>1. opens(Own(given)) /\ Own(given).q = "given"
      BY Names, Opening DEF Givens
    <3> QED BY <3>1, Eras, ShowsOne
  <2>4. NoP2Course(given) = <<first, Shows(Own(given))>>
    BY Zenon DEF NoP2Course, amount
  <2> HIDE DEF first
  <2> QED BY <2>2, <2>3, <2>4 DEF AllQuiet
<1> QED BY <1>2, <1>3, <1>4

\* The references of a note that is spent.
LEMMA SpentQuiet ==
  ASSUME fault = "none", Settled(notes, swaps, 2), NEW given \in Givens
  PROVE  AllQuiet(SpentCourse(given))
<1> DEFINE nobody == NotKnown(lookupRef(hexH("nobody-either")))
           first == InUse(lookupRef(cp1("given")))
           second == InUse(lookupRef(hexH("given")))
<1>1. /\ Books(notes, swaps, NamesTo(2), One("rotated")) /\ "given" \notin DOMAIN One("rotated")
      /\ "none" \notin NamesTo(2) /\ "nobody-either" \notin NamesTo(2)
  BY Eras, Strangers DEF One
<1>2. Quiet(nobody)
  BY <1>1, Names, NobodyKnows
<1>3. Quiet(first) /\ Quiet(second)
  BY <1>1, Names, SpentIsInUse
<1> HIDE DEF nobody, first, second
<1>4. SpentCourse(given) = IF given = "preimage" THEN <<first, second, nobody>> ELSE <<first, nobody>>
  BY Zenon DEF SpentCourse, nobody, first, second
<1> QED BY <1>2, <1>3, <1>4 DEF AllQuiet

\* The note after its rotate.
LEMMA RotatedShows ==
  ASSUME fault = "none", Settled(notes, swaps, 2)
  PROVE  /\ Books(notes, swaps, NamesTo(2), One("rotated"))
         /\ Quiet(Shows(Rotated)) /\ opens(Rotated) /\ Rotated.q = "rotated"
<1>1. opens(Rotated) /\ Rotated.q = "rotated"
  BY Names, Opening DEF Rotated
<1>2. Books(notes, swaps, NamesTo(2), One("rotated"))
  BY Eras
<1> QED BY <1>1, <1>2, ShowsOne

\* One note named twice, and the note looked at in between.
LEMMA DuplicateQuiet ==
  ASSUME fault = "none", Settled(notes, swaps, 2)
  PROVE  AllQuiet(DuplicateCourse) /\ AllQuiet(<<Shows(Rotated)>>)
<1> DEFINE first == Refuses(call(<<Rotated, Rotated>>, hexH("duplicate-first")))
           second == Refuses(call(<<Rotated, Long(Rotated)>>, hexH("duplicate-second")))
<1>1. Quiet(Shows(Rotated))
  BY RotatedShows
<1>2. Quiet(first) /\ Quiet(second)
  <2>1. Long(Rotated).q = Rotated.q
    BY Names
  <2> QED BY <2>1, MalformedIsRefused
<1>3. DuplicateCourse = <<first, Shows(Rotated), second, Shows(Rotated)>>
  BY Zenon DEF DuplicateCourse
<1> HIDE DEF first, second
<1> QED BY <1>1, <1>2, <1>3 DEF AllQuiet

\* A rotate into the note that was burned.
LEMMA BurnedP1Quiet ==
  ASSUME fault = "none", Settled(notes, swaps, 2), NEW given \in Givens
  PROVE  AllQuiet(BurnedP1Course(given))
<1> DEFINE first == InUse(call(<<Rotated>>, cp1("given")))
           second == InUse(call(<<Rotated>>, hexH("given")))
<1>1. Quiet(Shows(Rotated))
  BY RotatedShows
<1>2. Quiet(first) /\ Quiet(second)
  <2>1. /\ "given" \notin DOMAIN One("rotated") /\ DOMAIN One("rotated") = {Rotated.q}
        /\ "none" \notin NamesTo(2)
    BY Names, Strangers DEF One
  <2> QED BY <2>1, RotatedShows, SpentIsInUse, Names
<1> HIDE DEF first, second
<1>3. BurnedP1Course(given) =
        IF given = "preimage" THEN <<first, Shows(Rotated), second, Shows(Rotated)>>
        ELSE <<first, Shows(Rotated)>>
  BY Zenon DEF BurnedP1Course, first, second
<1> QED BY <1>1, <1>2, <1>3 DEF AllQuiet

\* A split into one note twice.
LEMMA TwinQuiet ==
  ASSUME fault = "none", Settled(notes, swaps, 2)
  PROVE  AllQuiet(TwinCourse)
<1> DEFINE first == Refuses(split(Rotated, Share, hexH("twin"), hexH("twin")))
           second == Refuses(split(Rotated, Share, hexH("twin"), cp1("twin")))
<1>1. Quiet(Shows(Rotated))
  BY RotatedShows
<1>2. Quiet(first) /\ Quiet(second)
  <2>1. Share \in Nat
    BY Money DEF Share
  <2>2. hexH("twin").q = "twin" /\ cp1("twin").q = "twin" /\ Rotated.q = "rotated"
    BY Names
  <2>3. Books(notes, swaps, NamesTo(2), One(Rotated.q))
    BY <2>2, RotatedShows
  <2> QED BY <2>1, <2>2, <2>3, BadSplitIsRefused
<1>3. TwinCourse = <<first, Shows(Rotated), second, Shows(Rotated)>>
  BY Zenon DEF TwinCourse
<1> HIDE DEF first, second
<1> QED BY <1>1, <1>2, <1>3 DEF AllQuiet

\* A POST and an OPTIONS, and the notes they did not make.
LEMMA MethodsQuiet ==
  ASSUME fault = "none", Settled(notes, swaps, 2)
  PROVE  AllQuiet(MethodsCourse)
<1> DEFINE first == Refuses(ByMethod(Rotated, "by-POST"))
           second == Refuses(ByMethod(Rotated, "by-OPTIONS"))
           one == NotKnown(lookup(bearer("by-POST")))
           other == NotKnown(lookup(bearer("by-OPTIONS")))
<1>1. Quiet(Shows(Rotated))
  BY RotatedShows
<1>2. Quiet(first) /\ Quiet(second)
  BY MalformedIsRefused
<1>3. Quiet(one) /\ Quiet(other)
  <2>1. "by-POST" \notin NamesTo(2) /\ "by-OPTIONS" \notin NamesTo(2) /\ "none" \notin NamesTo(2)
    BY Strangers
  <2> QED BY <2>1, RotatedShows, NobodyKnows, Names
<1>4. MethodsCourse = <<first, Shows(Rotated), one, second, Shows(Rotated), other>>
  BY Zenon DEF MethodsCourse
<1> HIDE DEF first, second, one, other
<1> QED BY <1>1, <1>2, <1>3, <1>4 DEF AllQuiet

\* A split that leaves less than the fee.
LEMMA ShortFeeQuiet ==
  ASSUME fault = "none", Settled(notes, swaps, 2)
  PROVE  AllQuiet(ShortFeeCourse)
<1> DEFINE amount == Value - BaseFee + 1
           first == Refuses(split(Rotated, amount, hexH("short"), hexH("short-change")))
<1>1. CASE amount \in 1 .. Value - 1
  <2>1. amount \in Nat /\ Value - amount - BaseFee < 1
    BY <1>1, Money
  <2>2. hexH("short").q # "none" /\ hexH("short-change").q # "none"
    BY Names
  <2>3. Books(notes, swaps, NamesTo(2), One(Rotated.q))
    BY Names, RotatedShows
  <2>4. ShortFeeCourse = <<first, Shows(Rotated)>>
    BY <1>1, Zenon DEF ShortFeeCourse
  <2> HIDE DEF amount
  <2>5. Quiet(first)
    BY <2>1, <2>2, <2>3, BadSplitIsRefused
  <2> HIDE DEF first
  <2> QED BY <2>4, <2>5, RotatedShows DEF AllQuiet
<1>2. CASE ~(amount \in 1 .. Value - 1)
  <2>1. ShortFeeCourse = << >>
    BY <1>2, Zenon DEF ShortFeeCourse
  <2> QED BY <2>1 DEF AllQuiet
<1> QED BY <1>1, <1>2

\* The first spend, replayed into another note.
LEMMA ReplayedBurnQuiet ==
  ASSUME fault = "none", Settled(notes, swaps, 4), NEW given \in Givens
  PROVE  AllQuiet(ReplayedBurnCourse(given))
<1> DEFINE first == InUse(call(<<Own(given)>>, hexH("replayed-first")))
           second == InUse(call(<<Long(Own(given))>>, hexH("replayed-second")))
<1>1. /\ AfterRetry.q \in {"rejoined", "retried"}
      /\ Own(given).q = "given" /\ Long(Own(given)).q = "given"
      /\ opens(Own(given)) /\ opens(Long(Own(given)))
  BY Names, Opening DEF AfterRetry, Givens
<1>2. /\ Books(notes, swaps, NamesTo(4), One(AfterRetry.q))
      /\ "given" \notin DOMAIN One(AfterRetry.q)
      /\ "none" \notin NamesTo(4) /\ "replayed-first" \notin NamesTo(4)
      /\ "replayed-second" \notin NamesTo(4)
  BY <1>1, Eras, Strangers DEF One
<1>3. Quiet(first) /\ Quiet(second)
  BY <1>1, <1>2, Names, SpentIsInUse
<1>4. ReplayedBurnCourse(given) = <<first, second>>
  BY Zenon DEF ReplayedBurnCourse
<1> HIDE DEF first, second
<1> QED BY <1>3, <1>4 DEF AllQuiet

\* A spend the mint must refuse, shown to both endpoints.
LEMMA ProbeQuiet ==
  ASSUME fault = "none", Settled(notes, swaps, 5), NEW probe \in Probes
  PROVE  AllQuiet(ProbeCourse(probe))
<1> DEFINE s == SpendBy("tree", probe)
           first == Refuses(lookup(s))
           second == Refuses(call(<<s>>, hexH(probe)))
           third == Step(lookupRef(cp1("tree")), Named("tree", Value))
<1>1. ~opens(s) /\ hexH(probe).q # "none"
  BY Names, Opening DEF Probes
<1>2. Books(notes, swaps, NamesTo(5), One("tree")) /\ "none" \notin NamesTo(5)
  BY Eras, Strangers
<1>3. Quiet(third)
  <2>1. cp1("tree").q = "tree"
    BY Names
  <2> QED BY <1>2, <2>1, NamesOne
<1>4. ProbeCourse(probe) = <<first, second, third>>
  BY Zenon DEF ProbeCourse
<1> HIDE DEF s
<1>5. Quiet(first) /\ Quiet(second)
  BY <1>1, <1>2, ClosedIsRefused
<1> HIDE DEF first, second, third
<1> QED BY <1>3, <1>4, <1>5 DEF AllQuiet

\* The key-path spends it must refuse, and the one it must not.
LEMMA KeyPathsQuiet ==
  ASSUME fault = "none", Settled(notes, swaps, 7)
  PROVE  AllQuiet(ForgedCourse) /\ AllQuiet(ElsewhereCourse)
<1> DEFINE e == SpendBy("key", "elsewhere")
           f == SpendBy("key", "forged")
           c == SpendBy("key", "ck1")
<1>1. ~opens(e) /\ ~opens(f) /\ opens(c) /\ c.q = "key" /\ hexH("elsewhere").q # "none"
  BY Names, Opening
<1>2. Books(notes, swaps, NamesTo(7), One("key"))
  BY Eras
<1> HIDE DEF e, f, c
<1>3. /\ Quiet(Refuses(lookup(e))) /\ Quiet(Refuses(lookup(f)))
      /\ Quiet(Refuses(call(<<e>>, hexH("elsewhere"))))
  BY <1>1, <1>2, ClosedIsRefused
<1>4. Quiet(Shows(c))
  BY <1>1, <1>2, ShowsOne
<1>5. /\ ForgedCourse = <<Refuses(lookup(e)), Refuses(lookup(f))>>
      /\ ElsewhereCourse = <<Refuses(call(<<e>>, hexH("elsewhere"))), Shows(c)>>
  BY Zenon DEF ForgedCourse, ElsewhereCourse, e, f, c
<1> QED BY <1>3, <1>4, <1>5 DEF AllQuiet

Served(step, k, i) ==
  LET done == handle(step.ask) IN
  /\ Matches(done.answer, step.says) /\ done.answer.status \in Replies
  /\ Book(done.notes, done.swaps, k, i)
Before(k, i) == Book(notes, swaps, k, i - 1) \/ Book(notes, swaps, k, i)

\* What the books are at each step of the checks that trade.
LEMMA Bookings ==
  ASSUME NEW map, NEW done, NEW i \in Nat
  PROVE  /\ Book(map, done, 8, 0) <=> Settled(map, done, 1)
         /\ i >= 1 => (Book(map, done, 8, i) <=>
              /\ Settled(map, done, 2) /\ KeptOne(done, Rotation("given", "rotated"), "rotated"))
         /\ i = 0 \/ ~Roomy => (Book(map, done, 17, i) <=> Settled(map, done, 2))
         /\ Roomy /\ i \in 1 .. 3 => (Book(map, done, 17, i) <=> SplitUp(map, done))
         /\ Roomy /\ i >= 4 => (Book(map, done, 17, i) <=>
              /\ Settled(map, done, 3)
              /\ KeptOne(done, Fusion("first-half", "second-half", "merged"), "merged"))
         /\ Book(map, done, 18, 0) <=> Settled(map, done, 3)
         /\ i \in 1 .. 8 \/ (i >= 9 /\ ~Roomy) => (Book(map, done, 18, i) <=> Retried(map, done))
         /\ Roomy /\ i \in 9 .. 14 => (Book(map, done, 18, i) <=> InPieces(map, done))
         /\ Roomy /\ i >= 15 => (Book(map, done, 18, i) <=>
              /\ Settled(map, done, 4)
              /\ KeptOne(done, Fusion("first-piece", "second-piece", "rejoined"), "rejoined"))
         /\ i <= 2 => (Book(map, done, 20, i) <=> Settled(map, done, 4))
         /\ i >= 3 => (Book(map, done, 20, i) <=>
              Settled(map, done, 5) /\ KeptOne(done, Rotation(AfterRetry.q, "tree"), "tree"))
         /\ i <= 1 => (Book(map, done, 27, i) <=> Settled(map, done, 5))
         /\ i >= 2 => (Book(map, done, 27, i) <=>
              Settled(map, done, 6) /\ KeptOne(done, Rotation("tree", Back.q), Back.q))
         /\ i <= 1 => (Book(map, done, 28, i) <=> Settled(map, done, 6))
         /\ i >= 2 => (Book(map, done, 28, i) <=>
              Settled(map, done, 7) /\ KeptOne(done, Rotation(Back.q, "key"), "key"))
         /\ i <= 1 => (Book(map, done, 31, i) <=> Settled(map, done, 7))
         /\ i >= 2 => (Book(map, done, 31, i) <=>
              Settled(map, done, 8) /\ KeptOne(done, Rotation("key", "home-by-key"), "home-by-key"))
<1>1. /\ Era(8) = 1 /\ Era(17) = 2 /\ Era(18) = 3 /\ Era(20) = 4 /\ Era(27) = 5
      /\ Era(28) = 6 /\ Era(31) = 7
  BY DEF Era
<1>2. /\ Book(map, done, 8, 0) <=> Settled(map, done, 1)
      /\ i >= 1 => (Book(map, done, 8, i) <=>
           /\ Settled(map, done, 2) /\ KeptOne(done, Rotation("given", "rotated"), "rotated"))
  BY <1>1 DEF Book, Untraded
<1>3. /\ i = 0 \/ ~Roomy => (Book(map, done, 17, i) <=> Settled(map, done, 2))
      /\ Roomy /\ i \in 1 .. 3 => (Book(map, done, 17, i) <=> SplitUp(map, done))
      /\ Roomy /\ i >= 4 => (Book(map, done, 17, i) <=>
           /\ Settled(map, done, 3)
           /\ KeptOne(done, Fusion("first-half", "second-half", "merged"), "merged"))
  BY <1>1 DEF Book, Untraded
<1>4. /\ Book(map, done, 18, 0) <=> Settled(map, done, 3)
      /\ i \in 1 .. 8 \/ (i >= 9 /\ ~Roomy) => (Book(map, done, 18, i) <=> Retried(map, done))
      /\ Roomy /\ i \in 9 .. 14 => (Book(map, done, 18, i) <=> InPieces(map, done))
      /\ Roomy /\ i >= 15 => (Book(map, done, 18, i) <=>
           /\ Settled(map, done, 4)
           /\ KeptOne(done, Fusion("first-piece", "second-piece", "rejoined"), "rejoined"))
  BY <1>1 DEF Book, Untraded
<1>5. /\ i <= 2 => (Book(map, done, 20, i) <=> Settled(map, done, 4))
      /\ i >= 3 => (Book(map, done, 20, i) <=>
           Settled(map, done, 5) /\ KeptOne(done, Rotation(AfterRetry.q, "tree"), "tree"))
  BY <1>1 DEF Book, Untraded
<1>6. /\ i <= 1 => (Book(map, done, 27, i) <=> Settled(map, done, 5))
      /\ i >= 2 => (Book(map, done, 27, i) <=>
           Settled(map, done, 6) /\ KeptOne(done, Rotation("tree", Back.q), Back.q))
  BY <1>1 DEF Book, Untraded
<1>7. /\ i <= 1 => (Book(map, done, 28, i) <=> Settled(map, done, 6))
      /\ i >= 2 => (Book(map, done, 28, i) <=>
           Settled(map, done, 7) /\ KeptOne(done, Rotation(Back.q, "key"), "key"))
  BY <1>1 DEF Book, Untraded
<1>8. /\ i <= 1 => (Book(map, done, 31, i) <=> Settled(map, done, 7))
      /\ i >= 2 => (Book(map, done, 31, i) <=>
           Settled(map, done, 8) /\ KeptOne(done, Rotation("key", "home-by-key"), "home-by-key"))
  BY <1>1 DEF Book, Untraded
<1> QED BY <1>2, <1>3, <1>4, <1>5, <1>6, <1>7, <1>8

\* A step that leaves the books alone is served.
LEMMA QuietServed ==
  ASSUME NEW step, NEW k, NEW i, Quiet(step), Book(notes, swaps, k, i)
  PROVE  Served(step, k, i)
BY DEF Quiet, Served

\* An exchange, the first time and when it is asked for again.
Exchanges(step, names, live, id, certificates) ==
  LET done == handle(step.ask) IN
  /\ Matches(done.answer, step.says) /\ done.answer.status \in Replies
  /\ Books(done.notes, done.swaps, names, live) /\ Kept(done.swaps, id, certificates)

\* A swap of one note for one, done now or already.
LEMMA SwapExchanges ==
  ASSUME NEW names, NEW more, NEW s, NEW p1, fault = "none", Ledger(notes),
         opens(s), p1.q # "none", p1.q \notin names, names \cup {p1.q} = more,
         \/ Books(notes, swaps, names, One(s.q))
         \/ /\ Books(notes, swaps, more, One(p1.q))
            /\ KeptOne(swaps, Rotation(s.q, p1.q), p1.q)
  PROVE  Exchanges(Swaps(<<s>>, p1), more, One(p1.q), Rotation(s.q, p1.q), <<Good(p1.q, Value)>>)
<1> DEFINE r == call(<<s>>, p1)
           says == Swapped(p1.q, Value)
<1>1. Swaps(<<s>>, p1).ask = r /\ Swaps(<<s>>, p1).says = says
  BY DEF Swaps, Step
<1>2. Matches(says, says) /\ says.status \in Replies
  BY AnswerFields, Matching DEF Replies
<1> HIDE DEF r, says
<1>3. CASE Books(notes, swaps, names, One(s.q))
  <2>1. /\ handle(r).answer = says
        /\ KeptOne(handle(r).swaps, Rotation(s.q, p1.q), p1.q)
        /\ Books(handle(r).notes, handle(r).swaps, names \cup {p1.q}, One(p1.q))
    BY <1>3, TradeOne DEF r, says
  <2>2. Kept(handle(r).swaps, Rotation(s.q, p1.q), <<Good(p1.q, Value)>>)
    BY <2>1 DEF KeptOne
  <2> QED BY <1>1, <1>2, <2>1, <2>2 DEF Exchanges
<1>4. CASE Books(notes, swaps, more, One(p1.q)) /\ KeptOne(swaps, Rotation(s.q, p1.q), p1.q)
  <2>1. s.q \in DOMAIN notes
    <3>1. Rotation(s.q, p1.q) \in DOMAIN swaps /\ Rotation(s.q, p1.q).inputs = {s.q}
      BY <1>4 DEF KeptOne, Kept, Rotation
    <3> QED BY <1>4, <3>1 DEF Books
  <2>2. handle(r) = Handled(says)
    BY <1>4, <2>1, Replays DEF r, says
  <2>3. /\ handle(r).answer = says /\ handle(r).notes = notes /\ handle(r).swaps = swaps
    BY <2>2 DEF Handled
  <2>4. Kept(swaps, Rotation(s.q, p1.q), <<Good(p1.q, Value)>>)
    BY <1>4 DEF KeptOne
  <2> QED BY <1>1, <1>2, <1>4, <2>3, <2>4 DEF Exchanges
<1> QED BY <1>3, <1>4

\* A split of one note, done now or already.
LEMMA SplitExchanges ==
  ASSUME NEW names, NEW more, NEW s, NEW p1, NEW p2, fault = "none", Ledger(notes),
         opens(s), Roomy, p1.q # p2.q, p1.q # "none", p2.q # "none",
         p1.q \notin names, p2.q \notin names, names \cup {p1.q, p2.q} = more,
         \/ Books(notes, swaps, names, One(s.q))
         \/ /\ Books(notes, swaps, more, Two(p1.q, p2.q))
            /\ KeptTwo(swaps, Division(s.q, p1.q, p2.q), p1.q, p2.q)
  PROVE  Exchanges(Step(split(s, Share, p1, p2), Divided(p1.q, Share, p2.q, Rest)), more,
                   Two(p1.q, p2.q), Division(s.q, p1.q, p2.q),
                   <<Good(p1.q, Share), Good(p2.q, Rest)>>)
<1> DEFINE r == split(s, Share, p1, p2)
           says == Divided(p1.q, Share, p2.q, Rest)
           id == Division(s.q, p1.q, p2.q)
           certificates == <<Good(p1.q, Share), Good(p2.q, Rest)>>
<1>1. Step(r, says).ask = r /\ Step(r, says).says = says
  BY DEF Step
<1>2. Matches(says, says) /\ says.status \in Replies
  BY AnswerFields, Matching DEF Replies
<1> HIDE DEF r, says
<1>3. CASE Books(notes, swaps, names, One(s.q))
  <2>1. /\ handle(r).answer = says
        /\ KeptTwo(handle(r).swaps, id, p1.q, p2.q)
        /\ Books(handle(r).notes, handle(r).swaps, names \cup {p1.q, p2.q}, Two(p1.q, p2.q))
    BY <1>3, TradeSplit DEF r, says
  <2>2. Kept(handle(r).swaps, id, certificates)
    BY <2>1 DEF KeptTwo
  <2>3. Exchanges(Step(r, says), more, Two(p1.q, p2.q), id, certificates)
    BY <1>1, <1>2, <2>1, <2>2 DEF Exchanges
  <2> QED BY <2>3 DEF r, says
<1>4. CASE Books(notes, swaps, more, Two(p1.q, p2.q)) /\ KeptTwo(swaps, id, p1.q, p2.q)
  <2>1. s.q \in DOMAIN notes
    <3>1. id \in DOMAIN swaps /\ id.inputs = {s.q}
      BY <1>4 DEF KeptTwo, Kept, Division, Cut
    <3> QED BY <1>4, <3>1 DEF Books
  <2>2. handle(r) = Handled(says)
    BY <1>4, <2>1, Replays DEF r, says
  <2>3. /\ handle(r).answer = says /\ handle(r).notes = notes /\ handle(r).swaps = swaps
    BY <2>2 DEF Handled
  <2>4. Kept(swaps, id, certificates)
    BY <1>4 DEF KeptTwo
  <2>5. Exchanges(Step(r, says), more, Two(p1.q, p2.q), id, certificates)
    BY <1>1, <1>2, <1>4, <2>3, <2>4 DEF Exchanges
  <2> QED BY <2>5 DEF r, says
<1> QED BY <1>3, <1>4

\* A merge of two notes, done now or already.
LEMMA JoinExchanges ==
  ASSUME NEW names, NEW more, NEW s1, NEW s2, NEW p1, fault = "none", Ledger(notes),
         opens(s1), opens(s2), Roomy, s1.q # s2.q,
         p1.q # "none", p1.q \notin names, names \cup {p1.q} = more,
         \/ Books(notes, swaps, names, Two(s1.q, s2.q))
         \/ /\ Books(notes, swaps, more, One(p1.q))
            /\ KeptOne(swaps, Fusion(s1.q, s2.q, p1.q), p1.q)
  PROVE  Exchanges(Swaps(<<s1, s2>>, p1), more, One(p1.q), Fusion(s1.q, s2.q, p1.q),
                   <<Good(p1.q, Value)>>)
<1> DEFINE r == call(<<s1, s2>>, p1)
           says == Swapped(p1.q, Value)
           id == Fusion(s1.q, s2.q, p1.q)
<1>1. Swaps(<<s1, s2>>, p1).ask = r /\ Swaps(<<s1, s2>>, p1).says = says
  BY DEF Swaps, Step
<1>2. Matches(says, says) /\ says.status \in Replies
  BY AnswerFields, Matching DEF Replies
<1> HIDE DEF r, says
<1>3. CASE Books(notes, swaps, names, Two(s1.q, s2.q))
  <2>1. /\ handle(r).answer = says
        /\ KeptOne(handle(r).swaps, id, p1.q)
        /\ Books(handle(r).notes, handle(r).swaps, names \cup {p1.q}, One(p1.q))
    BY <1>3, TradeJoin DEF r, says
  <2>2. Kept(handle(r).swaps, id, <<Good(p1.q, Value)>>)
    BY <2>1 DEF KeptOne
  <2> QED BY <1>1, <1>2, <2>1, <2>2 DEF Exchanges
<1>4. CASE Books(notes, swaps, more, One(p1.q)) /\ KeptOne(swaps, id, p1.q)
  <2>1. s1.q \in DOMAIN notes /\ s2.q \in DOMAIN notes /\ s2.q # s1.q
    <3>1. id \in DOMAIN swaps /\ id.inputs = {s1.q, s2.q}
      BY <1>4 DEF KeptOne, Kept, Fusion
    <3> QED BY <1>4, <3>1 DEF Books
  <2>2. handle(r) = Handled(says)
    BY <1>4, <2>1, Replays DEF r, says
  <2>3. /\ handle(r).answer = says /\ handle(r).notes = notes /\ handle(r).swaps = swaps
    BY <2>2 DEF Handled
  <2>4. Kept(swaps, id, <<Good(p1.q, Value)>>)
    BY <1>4 DEF KeptOne
  <2> QED BY <1>1, <1>2, <1>4, <2>3, <2>4 DEF Exchanges
<1> QED BY <1>3, <1>4

\* What the exchanges of a course leave in the books is what is booked.
LEMMA ExchangeServed ==
  ASSUME NEW step, NEW names, NEW live, NEW id, NEW certificates, NEW k, NEW i,
         Exchanges(step, names, live, id, certificates),
         \A map, done : Books(map, done, names, live) /\ Kept(done, id, certificates)
                        => Book(map, done, k, i)
  PROVE  Served(step, k, i)
BY DEF Exchanges, Served

\* The rotate, and the note looked at after it.
LEMMA RotateServed ==
  ASSUME NEW given \in Givens, NEW i \in 1 .. 3, fault = "none", Ledger(notes), Before(8, i)
  PROVE  Served(RotateCourse(given)[i], 8, i)
<1> DEFINE first == Swaps(<<Own(given)>>, hexH("rotated"))
           id == Rotation("given", "rotated")
<1>1. /\ Own(given).q = "given" /\ opens(Own(given)) /\ hexH("rotated").q = "rotated"
      /\ "rotated" \notin NamesTo(1) /\ NamesTo(1) \cup {"rotated"} = NamesTo(2)
  BY Names, Opening, Strangers, Growing DEF Givens
<1>2. RotateCourse(given) = <<first, Shows(Rotated), InUse(lookup(Own(given)))>>
  BY Zenon DEF RotateCourse
<1>3. CASE i = 1
  <2>1. \/ Books(notes, swaps, NamesTo(1), One("given"))
        \/ Books(notes, swaps, NamesTo(2), One("rotated")) /\ KeptOne(swaps, id, "rotated")
    BY <1>3, Bookings, Eras DEF Before
  <2>2. Exchanges(first, NamesTo(2), One("rotated"), id, <<Good("rotated", Value)>>)
    BY <1>1, <2>1, SwapExchanges
  <2>3. \A map, done : Books(map, done, NamesTo(2), One("rotated"))
                       /\ Kept(done, id, <<Good("rotated", Value)>>) => Book(map, done, 8, 1)
    BY Bookings, Eras DEF KeptOne
  <2> HIDE DEF first, id
  <2>4. Served(first, 8, 1)
    BY <2>2, <2>3, ExchangeServed
  <2> QED BY <1>2, <1>3, <2>4
<1>4. CASE i # 1
  <2>1. Settled(notes, swaps, 2) /\ Book(notes, swaps, 8, i)
    <3>1. i - 1 \in Nat /\ i - 1 >= 1
      BY <1>4
    <3> QED BY <3>1, Bookings DEF Before
  <2>2. Quiet(Shows(Rotated))
    BY <2>1, RotatedShows
  <2>3. Quiet(InUse(lookup(Own(given))))
    <3>1. "given" \notin DOMAIN One("rotated") /\ "none" \notin NamesTo(2)
      BY Strangers DEF One
    <3> QED BY <1>1, <2>1, <3>1, RotatedShows, SpentIsInUse
  <2> HIDE DEF first
  <2>4. Quiet(RotateCourse(given)[i])
    BY <1>2, <1>4, <2>2, <2>3
  <2> QED BY <2>1, <2>4, QuietServed
<1> QED BY <1>3, <1>4

\* The split and the merge.
LEMMA SplitServed ==
  ASSUME NEW i \in DOMAIN SplitCourse, fault = "none", Ledger(notes), Before(17, i)
  PROVE  Served(SplitCourse[i], 17, i)
<1> DEFINE halves == split(Rotated, Share, hexH("first-half"), hexH("second-half"))
           one == bearer("first-half")
           other == bearer("second-half")
           first == Step(halves, Divided("first-half", Share, "second-half", Rest))
           second == Step(lookup(one), Shown(one, Share))
           third == Step(lookup(other), Shown(other, Rest))
           fourth == Swaps(<<one, other>>, hexH("merged"))
           live == Two("first-half", "second-half")
           more == NamesTo(2) \cup {"first-half", "second-half"}
<1>0. /\ opens(Rotated) /\ opens(one) /\ opens(other) /\ opens(bearer("merged"))
      /\ one.q = "first-half" /\ other.q = "second-half" /\ Rotated.q = "rotated"
      /\ bearer("merged").q = "merged" /\ hexH("merged").q = "merged"
      /\ hexH("first-half").q = "first-half" /\ hexH("second-half").q = "second-half"
  BY Names, Opening DEF Rotated
<1>1. CASE ~Roomy
  <2>1. SplitCourse = <<Refuses(halves)>>
    BY <1>1, Zenon DEF SplitCourse
  <2> HIDE DEF halves
  <2>2. i = 1
    BY <2>1
  <2>3. Settled(notes, swaps, 2) /\ Book(notes, swaps, 17, 1)
    BY <1>1, <2>2, Bookings DEF Before
  <2>4. PICK reason : handle(halves) = Handled(fail(reason))
    <3>1. Books(notes, swaps, NamesTo(2), One(Rotated.q))
      BY <1>0, <2>3, Eras
    <3> QED BY <1>0, <1>1, <3>1, NoRoom DEF halves
  <2>5. Quiet(Refuses(halves))
    BY <2>4, QuietRefusal
  <2> QED BY <2>1, <2>2, <2>3, <2>5, QuietServed
<1>2. CASE Roomy
  <2>0. SplitCourse = <<first, second, third, fourth, Shows(bearer("merged"))>>
    BY <1>2, Zenon DEF SplitCourse
  <2>1. i \in 1 .. 5
    <3> HIDE DEF first, second, third, fourth
    <3> QED BY <2>0
  <2>2. /\ {"first-half", "second-half", "merged"} \cap NamesTo(2) = {}
        /\ more \cup {"merged"} = NamesTo(3)
    BY Strangers, Growing
  <2>3. CASE i = 1
    <3>1. Settled(notes, swaps, 2) \/ SplitUp(notes, swaps)
      BY <1>2, <2>3, Bookings DEF Before
    <3>2. \/ Books(notes, swaps, NamesTo(2), One(Rotated.q))
          \/ /\ Books(notes, swaps, more, live)
             /\ KeptTwo(swaps, Division(Rotated.q, "first-half", "second-half"),
                        "first-half", "second-half")
      BY <1>0, <3>1, Eras DEF SplitUp
    <3>3. Exchanges(first, more, live, Division(Rotated.q, "first-half", "second-half"),
                    <<Good("first-half", Share), Good("second-half", Rest)>>)
      <4>1. "first-half" \notin NamesTo(2) /\ "second-half" \notin NamesTo(2)
        BY <2>2
      <4> QED BY <1>0, <1>2, <3>2, <4>1, SplitExchanges
    <3>4. \A map, done :
            /\ Books(map, done, more, live)
            /\ Kept(done, Division(Rotated.q, "first-half", "second-half"),
                    <<Good("first-half", Share), Good("second-half", Rest)>>)
            => Book(map, done, 17, 1)
      BY <1>0, <1>2, Bookings DEF SplitUp, KeptTwo
    <3> HIDE DEF first, more, live
    <3>5. Served(first, 17, 1)
      BY <3>3, <3>4, ExchangeServed
    <3> QED BY <2>0, <2>3, <3>5
  <2>4. CASE i \in 2 .. 3
    <3>1. SplitUp(notes, swaps) /\ Book(notes, swaps, 17, i)
      <4>1. i - 1 \in 1 .. 3 /\ i - 1 \in Nat
        BY <2>4
      <4> QED BY <1>2, <2>4, <4>1, Bookings DEF Before
    <3>2. Books(notes, swaps, more, live)
      BY <3>1 DEF SplitUp
    <3>3. /\ {"first-half", "second-half"} \subseteq DOMAIN live
          /\ live["first-half"] = Share /\ live["second-half"] = Rest
      BY DEF Two
    <3> HIDE DEF more, live
    <3>4. Quiet(second) /\ Quiet(third)
      BY <1>0, <3>2, <3>3, ShowsLive
    <3> HIDE DEF first, second, third, fourth
    <3>5. Quiet(SplitCourse[i])
      BY <2>0, <2>4, <3>4
    <3> QED BY <3>1, <3>5, QuietServed
  <2>5. CASE i = 4
    <3> DEFINE id == Fusion(one.q, other.q, "merged")
    <3>1. SplitUp(notes, swaps) \/ Book(notes, swaps, 17, 4)
      BY <1>2, <2>5, Bookings DEF Before
    <3>2. \/ Books(notes, swaps, more, Two(one.q, other.q))
          \/ Books(notes, swaps, NamesTo(3), One("merged")) /\ KeptOne(swaps, id, "merged")
      <4>1. SplitUp(notes, swaps) => Books(notes, swaps, more, Two(one.q, other.q))
        BY <1>0 DEF SplitUp
      <4>2. AfterSplit.q = "merged"
        BY <1>0, <1>2 DEF AfterSplit
      <4>3. Book(notes, swaps, 17, 4) =>
              Books(notes, swaps, NamesTo(3), One("merged")) /\ KeptOne(swaps, id, "merged")
        BY <1>0, <1>2, <4>2, Bookings, Eras
      <4> QED BY <3>1, <4>1, <4>3
    <3>3. Exchanges(fourth, NamesTo(3), One("merged"), id, <<Good("merged", Value)>>)
      <4>1. "merged" \notin more /\ one.q # other.q
        BY <1>0, <2>2
      <4> HIDE DEF more
      <4> QED BY <1>0, <1>2, <2>2, <3>2, <4>1, JoinExchanges
    <3>4. \A map, done : Books(map, done, NamesTo(3), One("merged"))
                         /\ Kept(done, id, <<Good("merged", Value)>>) => Book(map, done, 17, 4)
      <4>1. AfterSplit.q = "merged"
        BY <1>0, <1>2 DEF AfterSplit
      <4> QED BY <1>0, <1>2, <4>1, Bookings, Eras DEF KeptOne
    <3> HIDE DEF fourth, id
    <3>5. Served(fourth, 17, 4)
      BY <3>3, <3>4, ExchangeServed
    <3> HIDE DEF first, second, third
    <3> QED BY <2>0, <2>5, <3>5
  <2>6. CASE i = 5
    <3>1. Settled(notes, swaps, 3) /\ Book(notes, swaps, 17, 5)
      BY <1>2, <2>6, Bookings DEF Before
    <3>2. AfterSplit.q = "merged"
      BY <1>0, <1>2 DEF AfterSplit
    <3>3. Books(notes, swaps, NamesTo(3), One(bearer("merged").q))
      BY <1>0, <3>1, <3>2, Eras
    <3>4. Quiet(Shows(bearer("merged")))
      BY <1>0, <3>3, ShowsOne
    <3> HIDE DEF first, second, third, fourth
    <3> QED BY <2>0, <2>6, <3>1, <3>4, QuietServed
  <2> QED BY <2>1, <2>3, <2>4, <2>5, <2>6
<1> QED BY <1>1, <1>2

\* The checks that trade one note for one, at their last step or but one.
LEMMA FullCw1Served ==
  ASSUME NEW i \in DOMAIN FullCw1Course, fault = "none", Ledger(notes), Before(20, i)
  PROVE  Served(FullCw1Course[i], 20, i)
<1> DEFINE third == Swaps(<<Long(AfterRetry)>>, cp1("tree"))
           leaf == SpendBy("tree", "leaf")
<1>0. /\ opens(AfterRetry) /\ opens(Long(AfterRetry)) /\ opens(leaf)
      /\ Long(AfterRetry).q = AfterRetry.q /\ leaf.q = "tree" /\ cp1("tree").q = "tree"
      /\ "tree" \notin NamesTo(4) /\ NamesTo(4) \cup {"tree"} = NamesTo(5)
  <2>1. "tree" \notin NamesTo(4) /\ NamesTo(4) \cup {"tree"} = NamesTo(5)
    BY Strangers, Growing
  <2>2. PICK q : AfterRetry = SpendBy(q, "preimage")
    BY Names DEF AfterRetry
  <2>3. Long(AfterRetry) = SpendBy(AfterRetry.q, "cw1") /\ leaf = SpendBy("tree", "leaf")
    BY Names
  <2>4. opens(AfterRetry) /\ opens(Long(AfterRetry)) /\ opens(leaf)
    BY <2>2, <2>3, Opening
  <2>5. Long(AfterRetry).q = AfterRetry.q /\ leaf.q = "tree" /\ cp1("tree").q = "tree"
    BY <2>3, Names
  <2> QED BY <2>1, <2>4, <2>5
<1>1. FullCw1Course = <<Shows(AfterRetry), Shows(Long(AfterRetry)), third, Shows(leaf)>>
  BY Zenon DEF FullCw1Course
<1>2. i \in 1 .. 4
  <2> HIDE DEF third
  <2> QED BY <1>1
<1>3. CASE i <= 2
  <2>1. Settled(notes, swaps, 4) /\ Book(notes, swaps, 20, i)
    <3>1. i - 1 \in Nat /\ i - 1 <= 2
      BY <1>2, <1>3
    <3> QED BY <1>2, <1>3, <3>1, Bookings DEF Before
  <2>2. Quiet(Shows(AfterRetry)) /\ Quiet(Shows(Long(AfterRetry)))
    <3>1. /\ Books(notes, swaps, NamesTo(4), One(AfterRetry.q))
          /\ Books(notes, swaps, NamesTo(4), One(Long(AfterRetry).q))
      BY <1>0, <2>1, Eras
    <3> QED BY <1>0, <3>1, ShowsOne
  <2> HIDE DEF third, leaf
  <2>3. Quiet(FullCw1Course[i])
    BY <1>1, <1>2, <1>3, <2>2
  <2> QED BY <2>1, <2>3, QuietServed
<1>4. CASE i = 3
  <2> DEFINE id == Rotation(AfterRetry.q, "tree")
  <2>1. \/ Books(notes, swaps, NamesTo(4), One(Long(AfterRetry).q))
        \/ Books(notes, swaps, NamesTo(5), One("tree")) /\ KeptOne(swaps, id, "tree")
    BY <1>0, <1>4, Bookings, Eras DEF Before
  <2>2. Exchanges(third, NamesTo(5), One("tree"), id, <<Good("tree", Value)>>)
    BY <1>0, <2>1, SwapExchanges
  <2>3. \A map, done : Books(map, done, NamesTo(5), One("tree"))
                       /\ Kept(done, id, <<Good("tree", Value)>>) => Book(map, done, 20, 3)
    BY Bookings, Eras DEF KeptOne
  <2> HIDE DEF third, id, leaf
  <2>4. Served(third, 20, 3)
    BY <2>2, <2>3, ExchangeServed
  <2> QED BY <1>1, <1>4, <2>4
<1>5. CASE i = 4
  <2>1. Settled(notes, swaps, 5) /\ Book(notes, swaps, 20, i)
    BY <1>5, Bookings DEF Before
  <2>2. Quiet(Shows(leaf))
    BY <1>0, <2>1, Eras, ShowsOne
  <2> HIDE DEF third, leaf
  <2> QED BY <1>1, <1>5, <2>1, <2>2, QuietServed
<1> QED BY <1>2, <1>3, <1>4, <1>5

\* A check that looks at its note, then swaps it.
LEMMA SecondSwapServed ==
  ASSUME NEW s, NEW p1, NEW k, NEW era, NEW i \in 1 .. 2, fault = "none", Ledger(notes),
         Before(k, i), opens(s), p1.q # "none", p1.q \notin NamesTo(era),
         NamesTo(era) \cup {p1.q} = NamesTo(era + 1),
         \A map, done : Settled(map, done, era) <=> Books(map, done, NamesTo(era), One(s.q)),
         \A map, done :
           Settled(map, done, era + 1) <=> Books(map, done, NamesTo(era + 1), One(p1.q)),
         \A j \in 0 .. 1 : \A map, done : Book(map, done, k, j) <=> Settled(map, done, era),
         \A map, done :
           Book(map, done, k, 2) <=>
             Settled(map, done, era + 1) /\ KeptOne(done, Rotation(s.q, p1.q), p1.q)
  PROVE  Served(<<Shows(s), Swaps(<<s>>, p1)>>[i], k, i)
<1> DEFINE second == Swaps(<<s>>, p1)
           id == Rotation(s.q, p1.q)
<1>1. CASE i = 1
  <2>1. Settled(notes, swaps, era) /\ Book(notes, swaps, k, 1)
    BY <1>1 DEF Before
  <2>2. Quiet(Shows(s))
    BY <2>1, ShowsOne
  <2>3. Served(Shows(s), k, 1)
    BY <2>1, <2>2, QuietServed
  <2> HIDE DEF second
  <2> QED BY <1>1, <2>3
<1>2. CASE i = 2
  <2>1. \/ Books(notes, swaps, NamesTo(era), One(s.q))
        \/ Books(notes, swaps, NamesTo(era + 1), One(p1.q)) /\ KeptOne(swaps, id, p1.q)
    BY <1>2 DEF Before
  <2>2. Exchanges(second, NamesTo(era + 1), One(p1.q), id, <<Good(p1.q, Value)>>)
    BY <2>1, SwapExchanges
  <2>3. \A map, done : Books(map, done, NamesTo(era + 1), One(p1.q))
                       /\ Kept(done, id, <<Good(p1.q, Value)>>) => Book(map, done, k, 2)
    BY DEF KeptOne
  <2> HIDE DEF second, id
  <2>4. Served(second, k, 2)
    BY <2>2, <2>3, ExchangeServed
  <2>5. Served(<<Shows(s), second>>[i], k, i)
    BY <1>2, <2>4
  <2> QED BY <2>5 DEF second
<1> QED BY <1>1, <1>2

\* The three checks that do: past, keyNote, keySpend.
LEMMA HomewardServed ==
  ASSUME NEW i \in 1 .. 2, fault = "none", Ledger(notes)
  PROVE  /\ Before(27, i) => Served(PastCourse[i], 27, i)
         /\ Before(28, i) => Served(KeyNoteCourse[i], 28, i)
         /\ Before(31, i) => Served(KeySpendCourse[i], 31, i)
<1>0. /\ PastCourse = <<Shows(SpendBy("tree", "past")),
                        Swaps(<<SpendBy("tree", "past")>>, hexH(Back.q))>>
      /\ KeyNoteCourse = <<Shows(Back), Swaps(<<Back>>, cp1("key"))>>
      /\ KeySpendCourse = <<Shows(SpendBy("key", "ck1")),
                            Swaps(<<SpendBy("key", "ck1")>>, hexH("home-by-key"))>>
  BY Zenon DEF PastCourse, KeyNoteCourse, KeySpendCourse
<1>1. /\ opens(SpendBy("tree", "past")) /\ opens(Back) /\ opens(SpendBy("key", "ck1"))
      /\ SpendBy("tree", "past").q = "tree" /\ SpendBy("key", "ck1").q = "key"
      /\ hexH(Back.q).q = Back.q /\ cp1("key").q = "key" /\ hexH("home-by-key").q = "home-by-key"
      /\ Back.q # "none"
  BY Names, Opening DEF Back
<1>2. /\ Back.q \notin NamesTo(5) /\ NamesTo(5) \cup {Back.q} = NamesTo(5 + 1)
      /\ "key" \notin NamesTo(6) /\ NamesTo(6) \cup {"key"} = NamesTo(6 + 1)
      /\ "home-by-key" \notin NamesTo(7) /\ NamesTo(7) \cup {"home-by-key"} = NamesTo(7 + 1)
  BY Strangers, Growing
<1>3. ASSUME Before(27, i) PROVE Served(PastCourse[i], 27, i)
  <2>1. \A j \in 0 .. 1 : \A map, done : Book(map, done, 27, j) <=> Settled(map, done, 5)
    BY Bookings
  <2>2. \A map, done : Book(map, done, 27, 2) <=>
          Settled(map, done, 5 + 1) /\ KeptOne(done, Rotation("tree", Back.q), Back.q)
    BY Bookings
  <2>3. \A map, done :
          /\ Settled(map, done, 5) <=> Books(map, done, NamesTo(5), One("tree"))
          /\ Settled(map, done, 5 + 1) <=> Books(map, done, NamesTo(5 + 1), One(Back.q))
    BY Eras
  <2> QED BY <1>0, <1>1, <1>2, <1>3, <2>1, <2>2, <2>3, SecondSwapServed
<1>4. ASSUME Before(28, i) PROVE Served(KeyNoteCourse[i], 28, i)
  <2>1. \A j \in 0 .. 1 : \A map, done : Book(map, done, 28, j) <=> Settled(map, done, 6)
    BY Bookings
  <2>2. \A map, done : Book(map, done, 28, 2) <=>
          Settled(map, done, 6 + 1) /\ KeptOne(done, Rotation(Back.q, "key"), "key")
    BY Bookings
  <2>3. \A map, done :
          /\ Settled(map, done, 6) <=> Books(map, done, NamesTo(6), One(Back.q))
          /\ Settled(map, done, 6 + 1) <=> Books(map, done, NamesTo(6 + 1), One("key"))
    BY Eras
  <2> QED BY <1>0, <1>1, <1>2, <1>4, <2>1, <2>2, <2>3, SecondSwapServed
<1>5. ASSUME Before(31, i) PROVE Served(KeySpendCourse[i], 31, i)
  <2>1. \A j \in 0 .. 1 : \A map, done : Book(map, done, 31, j) <=> Settled(map, done, 7)
    BY Bookings
  <2>2. \A map, done : Book(map, done, 31, 2) <=>
          Settled(map, done, 7 + 1) /\ KeptOne(done, Rotation("key", "home-by-key"), "home-by-key")
    BY Bookings
  <2>3. \A map, done :
          /\ Settled(map, done, 7) <=> Books(map, done, NamesTo(7), One("key"))
          /\ Settled(map, done, 7 + 1) <=> Books(map, done, NamesTo(7 + 1), One("home-by-key"))
    BY Eras
  <2> QED BY <1>0, <1>1, <1>2, <1>5, <2>1, <2>2, <2>3, SecondSwapServed
<1> QED BY <1>3, <1>4, <1>5

\* The retries: the rotate, then the same again in other words.
Again(spend, ref) == Swaps(<<spend>>, ref)
PiecesOf == split(bearer("retried"), Share, hexH("first-piece"), hexH("second-piece"))
Dividing == Step(PiecesOf, Divided("first-piece", Share, "second-piece", Rest))
FirstPiece == Step(lookup(bearer("first-piece")), Shown(bearer("first-piece"), Share))
SecondPiece == Step(lookup(bearer("second-piece")), Shown(bearer("second-piece"), Rest))
Rejoining == Swaps(<<bearer("first-piece"), bearer("second-piece")>>, hexH("rejoined"))

\* The retries as a list, with room for the pieces and without.
LEMMA RetrySteps ==
  /\ Roomy => RetryCourse =
       <<Again(AfterSplit, hexH("retried")), Shows(bearer("retried")),
         Again(AfterSplit, hexH("retried")), Shows(bearer("retried")),
         Again(Long(AfterSplit), hexH("retried")), Shows(bearer("retried")),
         Again(AfterSplit, cp1("retried")), Shows(bearer("retried")),
         Dividing, FirstPiece, SecondPiece, Dividing, FirstPiece, SecondPiece,
         Rejoining, Shows(bearer("rejoined"))>>
  /\ ~Roomy => RetryCourse =
       <<Again(AfterSplit, hexH("retried")), Shows(bearer("retried")),
         Again(AfterSplit, hexH("retried")), Shows(bearer("retried")),
         Again(Long(AfterSplit), hexH("retried")), Shows(bearer("retried")),
         Again(AfterSplit, cp1("retried")), Shows(bearer("retried")),
         Refuses(PiecesOf)>>
BY Zenon DEF RetryCourse, Again, PiecesOf, Dividing, FirstPiece, SecondPiece, Rejoining

\* The spends they use.
LEMMA RetrySpends ==
  ASSUME fault = "none"
  PROVE  /\ opens(AfterSplit) /\ opens(Long(AfterSplit)) /\ Long(AfterSplit).q = AfterSplit.q
         /\ AfterSplit.q \in {"merged", "rotated"}
         /\ opens(bearer("retried")) /\ opens(bearer("first-piece"))
         /\ opens(bearer("second-piece")) /\ opens(bearer("rejoined"))
<1>1. PICK q \in {"merged", "rotated"} : AfterSplit = SpendBy(q, "preimage")
  BY Names DEF AfterSplit
<1>2. Long(AfterSplit) = SpendBy(AfterSplit.q, "cw1") /\ AfterSplit.q = q
  BY <1>1, Names
<1>3. opens(AfterSplit) /\ opens(Long(AfterSplit)) /\ Long(AfterSplit).q = AfterSplit.q
  BY <1>1, <1>2, Names, Opening
<1>4. \A p : opens(bearer(p))
  BY Names, Opening
<1> QED BY <1>1, <1>2, <1>3, <1>4

\* While the rotated note is live, its rotate is granted again, however spelt.
LEMMA RetriedQuiet ==
  ASSUME fault = "none", Retried(notes, swaps)
  PROVE  /\ Quiet(Shows(bearer("retried")))
         /\ Quiet(Again(AfterSplit, hexH("retried"))) /\ Quiet(Again(Long(AfterSplit), hexH("retried")))
         /\ Quiet(Again(AfterSplit, cp1("retried")))
         /\ ~Roomy => Quiet(Refuses(PiecesOf))
<1>1. /\ Books(notes, swaps, NamesTo(3) \cup {"retried"}, One("retried"))
      /\ KeptOne(swaps, Rotation(AfterSplit.q, "retried"), "retried")
  BY DEF Retried
<1>2. Quiet(Shows(bearer("retried")))
  <2>1. bearer("retried").q = "retried"
    BY Names
  <2> QED BY <1>1, <2>1, RetrySpends, ShowsOne
<1>3. AfterSplit.q \in DOMAIN notes
  <2> DEFINE id == Rotation(AfterSplit.q, "retried")
  <2>1. id \in DOMAIN swaps /\ id.inputs = {AfterSplit.q}
    BY <1>1 DEF KeptOne, Kept, Rotation
  <2> QED BY <1>1, <2>1 DEF Books
<1>4. ASSUME NEW s, opens(s), s.q = AfterSplit.q, NEW p1, p1.q = "retried"
      PROVE  Quiet(Again(s, p1))
  <2>1. handle(call(<<s>>, p1)) = Handled(Swapped(p1.q, Value))
    BY <1>1, <1>3, <1>4, Replays
  <2>2. Matches(Swapped(p1.q, Value), Swapped(p1.q, Value)) /\ Swapped(p1.q, Value).status \in Replies
    BY AnswerFields, Matching DEF Replies
  <2> QED BY <2>1, <2>2, QuietAnswer DEF Again, Swaps
<1>5. ASSUME ~Roomy PROVE Quiet(Refuses(PiecesOf))
  <2>1. /\ bearer("retried").q = "retried" /\ hexH("first-piece").q # "none"
        /\ hexH("second-piece").q # "none"
    BY Names
  <2>2. PICK reason : handle(PiecesOf) = Handled(fail(reason))
    BY <1>1, <1>5, <2>1, NoRoom DEF PiecesOf
  <2> QED BY <2>2, QuietRefusal
<1> QED BY <1>2, <1>4, <1>5, RetrySpends, Names

\* And so is its split while the pieces are.
LEMMA PiecesQuiet ==
  ASSUME fault = "none", InPieces(notes, swaps)
  PROVE  Quiet(FirstPiece) /\ Quiet(SecondPiece) /\ Quiet(Dividing)
<1> DEFINE names == NamesTo(3) \cup {"retried", "first-piece", "second-piece"}
           live == Two("first-piece", "second-piece")
           id == Division("retried", "first-piece", "second-piece")
<1>1. Books(notes, swaps, names, live) /\ KeptTwo(swaps, id, "first-piece", "second-piece")
  BY DEF InPieces
<1>2. /\ {"first-piece", "second-piece"} \subseteq DOMAIN live
      /\ live["first-piece"] = Share /\ live["second-piece"] = Rest
  BY DEF Two
<1>3. "retried" \in DOMAIN notes
  <2>1. id \in DOMAIN swaps /\ id.inputs = {"retried"}
    BY <1>1 DEF KeptTwo, Kept, Division, Cut
  <2> HIDE DEF id, names, live
  <2> QED BY <1>1, <2>1 DEF Books
<1> HIDE DEF names, live
<1>4. Quiet(FirstPiece) /\ Quiet(SecondPiece)
  <2>1. bearer("first-piece").q = "first-piece" /\ bearer("second-piece").q = "second-piece"
    BY Names
  <2>2. Quiet(Step(lookup(bearer("first-piece")), Shown(bearer("first-piece"), Share)))
    BY <1>1, <1>2, <2>1, RetrySpends, ShowsLive
  <2>3. Quiet(Step(lookup(bearer("second-piece")), Shown(bearer("second-piece"), Rest)))
    BY <1>1, <1>2, <2>1, RetrySpends, ShowsLive
  <2> QED BY <2>2, <2>3 DEF FirstPiece, SecondPiece
<1>5. Quiet(Dividing)
  <2> DEFINE says == Divided("first-piece", Share, "second-piece", Rest)
  <2>1. /\ bearer("retried").q = "retried" /\ hexH("first-piece").q = "first-piece"
        /\ hexH("second-piece").q = "second-piece"
    BY Names
  <2>2. handle(PiecesOf) = Handled(says)
    BY <1>1, <1>3, <2>1, RetrySpends, Replays DEF PiecesOf
  <2>3. Matches(says, says) /\ says.status \in Replies
    BY AnswerFields, Matching DEF Replies
  <2> HIDE DEF says
  <2>4. Quiet(Step(PiecesOf, says))
    BY <2>2, <2>3, QuietAnswer
  <2> QED BY <2>4 DEF Dividing, says
<1> QED BY <1>4, <1>5

\* The three steps of it that trade.
LEMMA RetryTrades ==
  ASSUME fault = "none", Ledger(notes)
  PROVE  /\ Before(18, 1) => Served(Again(AfterSplit, hexH("retried")), 18, 1)
         /\ Roomy /\ Before(18, 9) => Served(Dividing, 18, 9)
         /\ Roomy /\ Before(18, 15) => Served(Rejoining, 18, 15)
<1>1. ASSUME Before(18, 1) PROVE Served(Again(AfterSplit, hexH("retried")), 18, 1)
  <2> DEFINE more == NamesTo(3) \cup {"retried"}
             id == Rotation(AfterSplit.q, "retried")
             step == Swaps(<<AfterSplit>>, hexH("retried"))
  <2>1. \/ Books(notes, swaps, NamesTo(3), One(AfterSplit.q))
        \/ Books(notes, swaps, more, One("retried")) /\ KeptOne(swaps, id, "retried")
    BY <1>1, Bookings, Eras DEF Before, Retried
  <2>2. hexH("retried").q = "retried" /\ "retried" \notin NamesTo(3)
    BY Names, Strangers
  <2>3. Exchanges(step, more, One("retried"), id, <<Good("retried", Value)>>)
    BY <2>1, <2>2, RetrySpends, SwapExchanges
  <2>4. \A map, done : Books(map, done, more, One("retried"))
                       /\ Kept(done, id, <<Good("retried", Value)>>) => Book(map, done, 18, 1)
    BY Bookings DEF Retried, KeptOne
  <2> HIDE DEF more, id, step
  <2>5. Served(step, 18, 1)
    BY <2>3, <2>4, ExchangeServed
  <2> QED BY <2>5 DEF step, Again
<1>2. ASSUME Roomy, Before(18, 9) PROVE Served(Dividing, 18, 9)
  <2> DEFINE names == NamesTo(3) \cup {"retried"}
             more == NamesTo(3) \cup {"retried", "first-piece", "second-piece"}
             live == Two("first-piece", "second-piece")
             id == Division("retried", "first-piece", "second-piece")
             certificates == <<Good("first-piece", Share), Good("second-piece", Rest)>>
  <2>1. Retried(notes, swaps) \/ InPieces(notes, swaps)
    <3>1. Book(notes, swaps, 18, 8) \/ Book(notes, swaps, 18, 9)
      BY <1>2 DEF Before
    <3> QED BY <1>2, <3>1, Bookings
  <2>2. \/ Books(notes, swaps, names, One("retried"))
        \/ /\ Books(notes, swaps, more, live)
           /\ KeptTwo(swaps, id, "first-piece", "second-piece")
    BY <2>1 DEF Retried, InPieces
  <2>3. /\ "first-piece" \notin names /\ "second-piece" \notin names
        /\ names \cup {"first-piece", "second-piece"} = more
    BY Strangers
  <2>4. /\ bearer("retried").q = "retried" /\ hexH("first-piece").q = "first-piece"
        /\ hexH("second-piece").q = "second-piece"
    BY Names
  <2>5. \A map, done : Books(map, done, more, live) /\ Kept(done, id, certificates)
                       => Book(map, done, 18, 9)
    BY <1>2, Bookings DEF InPieces, KeptTwo
  <2> HIDE DEF names, more
  <2>6. Exchanges(Dividing, more, live, id, certificates)
    BY <1>2, <2>2, <2>3, <2>4, RetrySpends, SplitExchanges DEF Dividing, PiecesOf
  <2> HIDE DEF live, id, certificates
  <2> QED BY <2>5, <2>6, ExchangeServed
<1>3. ASSUME Roomy, Before(18, 15) PROVE Served(Rejoining, 18, 15)
  <2> DEFINE names == NamesTo(3) \cup {"retried", "first-piece", "second-piece"}
             one == bearer("first-piece")
             other == bearer("second-piece")
             id == Fusion("first-piece", "second-piece", "rejoined")
  <2>1. InPieces(notes, swaps) \/ Book(notes, swaps, 18, 15)
    <3>1. Book(notes, swaps, 18, 14) \/ Book(notes, swaps, 18, 15)
      BY <1>3 DEF Before
    <3> QED BY <1>3, <3>1, Bookings
  <2>2. /\ one.q = "first-piece" /\ other.q = "second-piece" /\ hexH("rejoined").q = "rejoined"
        /\ AfterRetry.q = "rejoined"
    BY <1>3, Names DEF AfterRetry
  <2>3. \/ Books(notes, swaps, names, Two(one.q, other.q))
        \/ Books(notes, swaps, NamesTo(4), One("rejoined")) /\ KeptOne(swaps, id, "rejoined")
    <3>1. InPieces(notes, swaps) => Books(notes, swaps, names, Two(one.q, other.q))
      BY <2>2 DEF InPieces
    <3>2. Book(notes, swaps, 18, 15) =>
            Books(notes, swaps, NamesTo(4), One("rejoined")) /\ KeptOne(swaps, id, "rejoined")
      BY <1>3, <2>2, Bookings, Eras
    <3> QED BY <2>1, <3>1, <3>2
  <2>4. "rejoined" \notin names /\ names \cup {"rejoined"} = NamesTo(4)
    <3>1. names = NamesTo(3) \cup {"retried"} \cup {"first-piece", "second-piece"}
      OBVIOUS
    <3> QED BY <3>1, Strangers, Growing
  <2>5. \A map, done : Books(map, done, NamesTo(4), One("rejoined"))
                       /\ Kept(done, id, <<Good("rejoined", Value)>>) => Book(map, done, 18, 15)
    BY <1>3, <2>2, Bookings, Eras DEF KeptOne
  <2> HIDE DEF names
  <2>6. Exchanges(Swaps(<<one, other>>, hexH("rejoined")), NamesTo(4), One("rejoined"), id,
                  <<Good("rejoined", Value)>>)
    BY <1>3, <2>2, <2>3, <2>4, RetrySpends, JoinExchanges
  <2>7. Exchanges(Rejoining, NamesTo(4), One("rejoined"), id, <<Good("rejoined", Value)>>)
    BY <2>6 DEF Rejoining
  <2> HIDE DEF id
  <2> QED BY <2>5, <2>7, ExchangeServed
<1> QED BY <1>1, <1>2, <1>3

\* So each request of the retries is answered as the course says.
LEMMA RetryServed ==
  ASSUME NEW i \in DOMAIN RetryCourse, fault = "none", Ledger(notes), Before(18, i)
  PROVE  Served(RetryCourse[i], 18, i)
<1>0. /\ Roomy => i \in 1 .. 16
      /\ ~Roomy => i \in 1 .. 9
  BY RetrySteps
<1>1. CASE i = 1
  <2>1. RetryCourse[1] = Again(AfterSplit, hexH("retried"))
    BY RetrySteps
  <2> QED BY <1>1, <2>1, RetryTrades
<1>2. CASE i \in 2 .. 8 \/ (i = 9 /\ ~Roomy)
  <2>1. Retried(notes, swaps) /\ Book(notes, swaps, 18, i)
    <3>1. i \in Nat /\ i - 1 \in Nat /\ i - 1 \in 1 .. 8
      BY <1>2
    <3>2. Book(notes, swaps, 18, i - 1) => Retried(notes, swaps)
      BY <3>1, Bookings
    <3>3. Book(notes, swaps, 18, i) <=> Retried(notes, swaps)
      BY <1>2, <3>1, Bookings
    <3> QED BY <3>2, <3>3 DEF Before
  <2>2. Quiet(RetryCourse[i])
    BY <1>2, <2>1, RetrySteps, RetriedQuiet
  <2> QED BY <2>1, <2>2, QuietServed
<1>3. CASE i = 9 /\ Roomy
  <2>1. RetryCourse[9] = Dividing
    BY <1>3, RetrySteps
  <2> QED BY <1>3, <2>1, RetryTrades
<1>4. CASE i \in 10 .. 14 /\ Roomy
  <2>1. InPieces(notes, swaps) /\ Book(notes, swaps, 18, i)
    <3>1. i \in Nat /\ i - 1 \in Nat /\ i - 1 \in 9 .. 14
      BY <1>4
    <3>2. Book(notes, swaps, 18, i - 1) => InPieces(notes, swaps)
      BY <1>4, <3>1, Bookings
    <3>3. Book(notes, swaps, 18, i) <=> InPieces(notes, swaps)
      BY <1>4, <3>1, Bookings
    <3> QED BY <3>2, <3>3 DEF Before
  <2>2. Quiet(RetryCourse[i])
    BY <1>4, <2>1, RetrySteps, PiecesQuiet
  <2> QED BY <2>1, <2>2, QuietServed
<1>5. CASE i = 15 /\ Roomy
  <2>1. RetryCourse[15] = Rejoining
    BY <1>5, RetrySteps
  <2> QED BY <1>5, <2>1, RetryTrades
<1>6. CASE i = 16 /\ Roomy
  <2>1. Settled(notes, swaps, 4) /\ Book(notes, swaps, 18, 16)
    <3>1. Book(notes, swaps, 18, 15) \/ Book(notes, swaps, 18, 16)
      BY <1>6 DEF Before
    <3> QED BY <1>6, <3>1, Bookings
  <2>2. bearer("rejoined").q = "rejoined" /\ AfterRetry.q = "rejoined"
    BY <1>6, Names DEF AfterRetry
  <2>3. Books(notes, swaps, NamesTo(4), One(bearer("rejoined").q))
    BY <2>1, <2>2, Eras
  <2>4. Quiet(Shows(bearer("rejoined")))
    BY <2>3, RetrySpends, ShowsOne
  <2>5. RetryCourse[16] = Shows(bearer("rejoined"))
    BY <1>6, RetrySteps
  <2> QED BY <1>6, <2>1, <2>4, <2>5, QuietServed
<1> QED BY <1>0, <1>1, <1>2, <1>3, <1>4, <1>5, <1>6

\* The checks by their places.
LEMMA Places ==
  /\ Len(Checks) = 32
  /\ Checks[1] = "echo" /\ Checks[2] = "idempotent" /\ Checks[3] = "amount"
  /\ Checks[4] = "lookup" /\ Checks[5] = "oversized" /\ Checks[6] = "noP1"
  /\ Checks[7] = "noP2" /\ Checks[8] = "rotate" /\ Checks[9] = "certified"
  /\ Checks[10] = "spent" /\ Checks[11] = "infoCert" /\ Checks[12] = "duplicate"
  /\ Checks[13] = "burnedP1" /\ Checks[14] = "twin" /\ Checks[15] = "methods"
  /\ Checks[16] = "shortFee" /\ Checks[17] = "split" /\ Checks[18] = "retry"
  /\ Checks[19] = "replayedBurn" /\ Checks[20] = "fullCw1" /\ Checks[21] = "version"
  /\ Checks[22] = "success" /\ Checks[23] = "height" /\ Checks[24] = "future"
  /\ Checks[25] = "blocks" /\ Checks[26] = "unrun" /\ Checks[27] = "past"
  /\ Checks[28] = "keyNote" /\ Checks[29] = "forged" /\ Checks[30] = "elsewhere"
  /\ Checks[31] = "keySpend" /\ Checks[32] = "certificates"
BY DEF Checks

\* The courses by their places.
LEMMA Courses ==
  ASSUME NEW given
  PROVE  /\ \A k \in 1 .. 3 : Course(k, given) = EchoCourse(given)
         /\ Course(4, given) = LookupCourse(given) /\ Course(5, given) = OversizedCourse
         /\ Course(6, given) = NoP1Course(given) /\ Course(7, given) = NoP2Course(given)
         /\ Course(8, given) = RotateCourse(given) /\ Course(9, given) = << >>
         /\ Course(10, given) = SpentCourse(given) /\ Course(11, given) = <<Shows(Rotated)>>
         /\ Course(12, given) = DuplicateCourse /\ Course(13, given) = BurnedP1Course(given)
         /\ Course(14, given) = TwinCourse /\ Course(15, given) = MethodsCourse
         /\ Course(16, given) = ShortFeeCourse /\ Course(17, given) = SplitCourse
         /\ Course(18, given) = RetryCourse /\ Course(19, given) = ReplayedBurnCourse(given)
         /\ Course(20, given) = FullCw1Course
         /\ \A k \in 21 .. 26 : Course(k, given) = ProbeCourse(Checks[k])
         /\ Course(27, given) = PastCourse /\ Course(28, given) = KeyNoteCourse
         /\ Course(29, given) = ForgedCourse /\ Course(30, given) = ElsewhereCourse
         /\ Course(31, given) = KeySpendCourse
         /\ Course(32, given) = << >> /\ Course(33, given) = << >>
<1>1. /\ Course(1, given) = EchoCourse(given) /\ Course(2, given) = EchoCourse(given)
      /\ Course(3, given) = EchoCourse(given)
  BY DEF Course
<1>2. \A k \in 21 .. 26 : Course(k, given) = ProbeCourse(Checks[k])
  BY DEF Course
<1>3. /\ Course(4, given) = LookupCourse(given) /\ Course(5, given) = OversizedCourse
      /\ Course(6, given) = NoP1Course(given) /\ Course(7, given) = NoP2Course(given)
      /\ Course(8, given) = RotateCourse(given) /\ Course(9, given) = << >>
      /\ Course(10, given) = SpentCourse(given) /\ Course(11, given) = <<Shows(Rotated)>>
  BY DEF Course
<1>4. /\ Course(12, given) = DuplicateCourse /\ Course(13, given) = BurnedP1Course(given)
      /\ Course(14, given) = TwinCourse /\ Course(15, given) = MethodsCourse
      /\ Course(16, given) = ShortFeeCourse /\ Course(17, given) = SplitCourse
      /\ Course(18, given) = RetryCourse /\ Course(19, given) = ReplayedBurnCourse(given)
      /\ Course(20, given) = FullCw1Course
  BY DEF Course
<1>5. /\ Course(27, given) = PastCourse /\ Course(28, given) = KeyNoteCourse
      /\ Course(29, given) = ForgedCourse /\ Course(30, given) = ElsewhereCourse
      /\ Course(31, given) = KeySpendCourse
      /\ Course(32, given) = << >> /\ Course(33, given) = << >>
  BY DEF Course
<1>6. \A k \in 1 .. 3 : k = 1 \/ k = 2 \/ k = 3
  OBVIOUS
<1>7. \A k \in 1 .. 3 : Course(k, given) = EchoCourse(given)
  BY <1>1, <1>6
<1> QED BY <1>2, <1>3, <1>4, <1>5, <1>7

\* An honest mint gives every step of a course the answer it has there.
LEMMA Serves ==
  ASSUME NEW given \in Givens, NEW k \in 1 .. 33, NEW i \in DOMAIN Course(k, given),
         i \in Nat \ {0}, fault = "none", Ledger(notes), Before(k, i)
  PROVE  Served(Course(k, given)[i], k, i)
<1>1. CASE k \notin Trading
  <2>1. Settled(notes, swaps, Era(k)) /\ Book(notes, swaps, k, i)
    BY <1>1, Quietly DEF Before
  <2>2. AllQuiet(Course(k, given))
    <3>1. CASE k \in 1 .. 7
      <4>1. Settled(notes, swaps, 1)
        BY <2>1, <3>1 DEF Era
      <4>2. /\ AllQuiet(EchoCourse(given)) /\ AllQuiet(LookupCourse(given))
            /\ AllQuiet(OversizedCourse) /\ AllQuiet(NoP1Course(given))
            /\ AllQuiet(NoP2Course(given))
        BY <4>1, EchoQuiet, LookupQuiet, RefusalsQuiet
      <4>3. k \in 1 .. 3 \/ k = 4 \/ k = 5 \/ k = 6 \/ k = 7
        BY <3>1
      <4> QED BY <4>2, <4>3, Courses
    <3>2. CASE k \in 9 .. 16
      <4>1. k = 9 => AllQuiet(Course(k, given))
        BY Courses DEF AllQuiet
      <4>2. Settled(notes, swaps, 2)
        BY <2>1, <3>2 DEF Era
      <4>3. /\ AllQuiet(SpentCourse(given)) /\ AllQuiet(DuplicateCourse)
            /\ AllQuiet(<<Shows(Rotated)>>) /\ AllQuiet(BurnedP1Course(given))
            /\ AllQuiet(TwinCourse) /\ AllQuiet(MethodsCourse) /\ AllQuiet(ShortFeeCourse)
        BY <4>2, SpentQuiet, DuplicateQuiet, BurnedP1Quiet, TwinQuiet, MethodsQuiet, ShortFeeQuiet
      <4>4. k = 9 \/ k = 10 \/ k = 11 \/ k = 12 \/ k = 13 \/ k = 14 \/ k = 15 \/ k = 16
        BY <3>2
      <4> QED BY <4>1, <4>3, <4>4, Courses
    <3>3. CASE k = 19
      <4>1. Settled(notes, swaps, 4)
        BY <2>1, <3>3 DEF Era
      <4> QED BY <3>3, <4>1, ReplayedBurnQuiet, Courses
    <3>4. CASE k \in 21 .. 26
      <4>1. Settled(notes, swaps, 5)
        BY <2>1, <3>4 DEF Era
      <4>2. Checks[k] \in Probes
        <5>1. k = 21 \/ k = 22 \/ k = 23 \/ k = 24 \/ k = 25 \/ k = 26
          BY <3>4
        <5> QED BY <5>1, Places DEF Probes
      <4> QED BY <3>4, <4>1, <4>2, ProbeQuiet, Courses
    <3>5. CASE k \in 29 .. 30
      <4>1. Settled(notes, swaps, 7)
        BY <2>1, <3>5 DEF Era
      <4>2. k = 29 \/ k = 30
        BY <3>5
      <4> QED BY <4>1, <4>2, KeyPathsQuiet, Courses
    <3>6. CASE k \in 32 .. 33
      <4>1. k = 32 => AllQuiet(Course(k, given))
        BY Courses DEF AllQuiet
      <4>2. k = 33 => AllQuiet(Course(k, given))
        BY Courses DEF AllQuiet
      <4>3. k = 32 \/ k = 33
        BY <3>6
      <4> QED BY <4>1, <4>2, <4>3
    <3>7. k \in 1 .. 7 \/ k \in 9 .. 16 \/ k = 19 \/ k \in 21 .. 26 \/ k \in 29 .. 30 \/ k \in 32 .. 33
      BY <1>1 DEF Trading
    <3> QED BY <3>1, <3>2, <3>3, <3>4, <3>5, <3>6, <3>7
  <2>3. Quiet(Course(k, given)[i])
    BY <2>2 DEF AllQuiet
  <2> QED BY <2>1, <2>3, QuietServed
<1>2. CASE k = 8
  <2>1. i \in 1 .. 3
    <3>1. Course(8, given) = RotateCourse(given)
      BY Courses
    <3> DEFINE a == Swaps(<<Own(given)>>, hexH("rotated"))
               b == Shows(Rotated)
               c == InUse(lookup(Own(given)))
    <3>2. RotateCourse(given) = <<a, b, c>>
      BY Zenon DEF RotateCourse
    <3> HIDE DEF a, b, c
    <3> QED BY <1>2, <3>1, <3>2
  <2> QED BY <1>2, <2>1, RotateServed, Courses
<1>3. CASE k = 17
  BY <1>3, SplitServed, Courses
<1>4. CASE k = 18
  BY <1>4, RetryServed, Courses
<1>5. CASE k = 20
  BY <1>5, FullCw1Served, Courses
<1>6. CASE k \in {27, 28, 31}
  <2>1. i \in 1 .. 2
    <3> DEFINE a1 == Shows(SpendBy("tree", "past"))
               b1 == Swaps(<<SpendBy("tree", "past")>>, hexH(Back.q))
               a2 == Shows(Back)
               b2 == Swaps(<<Back>>, cp1("key"))
               a3 == Shows(SpendBy("key", "ck1"))
               b3 == Swaps(<<SpendBy("key", "ck1")>>, hexH("home-by-key"))
    <3>1. Course(27, given) = <<a1, b1>> /\ Course(28, given) = <<a2, b2>>
          /\ Course(31, given) = <<a3, b3>>
      <4>1. PastCourse = <<a1, b1>> /\ KeyNoteCourse = <<a2, b2>> /\ KeySpendCourse = <<a3, b3>>
        BY Zenon DEF PastCourse, KeyNoteCourse, KeySpendCourse
      <4> HIDE DEF a1, b1, a2, b2, a3, b3
      <4> QED BY <4>1, Courses
    <3> HIDE DEF a1, b1, a2, b2, a3, b3
    <3>2. k = 27 \/ k = 28 \/ k = 31
      BY <1>6
    <3> QED BY <3>1, <3>2
  <2> QED BY <1>6, <2>1, HomewardServed, Courses
<1>7. k \notin Trading \/ k = 8 \/ k = 17 \/ k = 18 \/ k = 20 \/ k \in {27, 28, 31}
  BY DEF Trading
<1> QED BY <1>1, <1>2, <1>3, <1>4, <1>5, <1>6, <1>7
=============================================================================
