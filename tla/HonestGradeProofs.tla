-------------------------- MODULE HonestGradeProofs --------------------------
(***************************************************************************)
(* That a grade at an honest mint stays on its course: whatever HTTP does  *)
(* short of losing anything, and whatever answer the grader acts on.  So it *)
(* accuses nobody, and holds the whole value between any two of its checks. *)
(***************************************************************************)
EXTENDS HonestMintProofs, SequenceTheorems

\* A course of so many steps, these.

Runs1(course, a1) ==
  /\ Len(course) = 1 /\ DOMAIN course = 1 .. 1
  /\ course[1] = a1

Runs2(course, a1, a2) ==
  /\ Len(course) = 2 /\ DOMAIN course = 1 .. 2
  /\ course[1] = a1 /\ course[2] = a2

Runs3(course, a1, a2, a3) ==
  /\ Len(course) = 3 /\ DOMAIN course = 1 .. 3
  /\ course[1] = a1 /\ course[2] = a2 /\ course[3] = a3

Runs4(course, a1, a2, a3, a4) ==
  /\ Len(course) = 4 /\ DOMAIN course = 1 .. 4
  /\ course[1] = a1 /\ course[2] = a2 /\ course[3] = a3 /\ course[4] = a4

Runs5(course, a1, a2, a3, a4, a5) ==
  /\ Len(course) = 5 /\ DOMAIN course = 1 .. 5
  /\ course[1] = a1 /\ course[2] = a2 /\ course[3] = a3 /\ course[4] = a4
  /\ course[5] = a5

Runs6(course, a1, a2, a3, a4, a5, a6) ==
  /\ Len(course) = 6 /\ DOMAIN course = 1 .. 6
  /\ course[1] = a1 /\ course[2] = a2 /\ course[3] = a3 /\ course[4] = a4
  /\ course[5] = a5 /\ course[6] = a6

\* They are read off the list.
LEMMA Runs ==
  /\ \A a1 : Runs1(<<a1>>, a1)
  /\ \A a1, a2 : Runs2(<<a1, a2>>, a1, a2)
  /\ \A a1, a2, a3 : Runs3(<<a1, a2, a3>>, a1, a2, a3)
  /\ \A a1, a2, a3, a4 : Runs4(<<a1, a2, a3, a4>>, a1, a2, a3, a4)
  /\ \A a1, a2, a3, a4, a5 : Runs5(<<a1, a2, a3, a4, a5>>, a1, a2, a3, a4, a5)
  /\ \A a1, a2, a3, a4, a5, a6 : Runs6(<<a1, a2, a3, a4, a5, a6>>, a1, a2, a3, a4, a5, a6)
BY DEF Runs1, Runs2, Runs3, Runs4, Runs5, Runs6

Proper(course) == Len(course) \in Nat /\ DOMAIN course = 1 .. Len(course)

\* A list that is written out is one.
LEMMA Lists ==
  /\ Proper(<< >>)
  /\ \A a1 : Proper(<<a1>>)
  /\ \A a1, a2 : Proper(<<a1, a2>>)
  /\ \A a1, a2, a3 : Proper(<<a1, a2, a3>>)
  /\ \A a1, a2, a3, a4 : Proper(<<a1, a2, a3, a4>>)
  /\ \A a1, a2, a3, a4, a5 : Proper(<<a1, a2, a3, a4, a5>>)
  /\ \A a1, a2, a3, a4, a5, a6 : Proper(<<a1, a2, a3, a4, a5, a6>>)
  /\ \A a1, a2, a3, a4, a5, a6, a7, a8, a9 : Proper(<<a1, a2, a3, a4, a5, a6, a7, a8, a9>>)
  /\ \A a1, a2, a3, a4, a5, a6, a7, a8, a9, a10, a11, a12, a13, a14, a15, a16 : Proper(<<a1, a2, a3, a4, a5, a6, a7, a8, a9, a10, a11, a12, a13, a14, a15, a16>>)
BY DEF Proper

\* Every course is a list of steps.
LEMMA Lengths ==
  ASSUME NEW given \in Givens, NEW k \in 1 .. 33
  PROVE  Proper(Course(k, given))
<1>1. /\ Proper(EchoCourse(given)) /\ Proper(OversizedCourse)
      /\ Proper(NoP1Course(given)) /\ Proper(NoP2Course(given)) /\ Proper(RotateCourse(given))
  BY Lists, Zenon DEF EchoCourse, OversizedCourse, NoP1Course, NoP2Course, RotateCourse
<1>2. Proper(LookupCourse(given))
  BY Lists, Zenon DEF LookupCourse
<1>3. Proper(SpentCourse(given))
  BY Lists, Zenon DEF SpentCourse
<1>4. Proper(BurnedP1Course(given))
  BY Lists, Zenon DEF BurnedP1Course
<1>5. Proper(<<Shows(Rotated)>>) /\ Proper(DuplicateCourse) /\ Proper(TwinCourse) /\ Proper(MethodsCourse)
  BY Lists, Zenon DEF DuplicateCourse, TwinCourse, MethodsCourse
<1>6. Proper(ShortFeeCourse)
  BY Lists, Zenon DEF ShortFeeCourse
<1>7. Proper(SplitCourse)
  BY Lists, Zenon DEF SplitCourse
<1>8. Proper(RetryCourse)
  BY Lists, RetrySteps, Zenon
<1>9. /\ Proper(ReplayedBurnCourse(given)) /\ Proper(FullCw1Course)
      /\ \A probe : Proper(ProbeCourse(probe))
  BY Lists, Zenon DEF ReplayedBurnCourse, FullCw1Course, ProbeCourse
<1>10. /\ Proper(PastCourse) /\ Proper(KeyNoteCourse) /\ Proper(ForgedCourse)
       /\ Proper(ElsewhereCourse) /\ Proper(KeySpendCourse) /\ Proper(<< >>)
  BY Lists, Zenon DEF PastCourse, KeyNoteCourse, ForgedCourse, ElsewhereCourse, KeySpendCourse
<1>11. \/ k \in 1 .. 3 \/ k \in 21 .. 26 \/ k = 4 \/ k = 5 \/ k = 6 \/ k = 7 \/ k = 8 \/ k = 9
       \/ k = 10 \/ k = 11 \/ k = 12 \/ k = 13 \/ k = 14 \/ k = 15 \/ k = 16 \/ k = 17 \/ k = 18
       \/ k = 19 \/ k = 20 \/ k = 27 \/ k = 28 \/ k = 29 \/ k = 30 \/ k = 31 \/ k = 32 \/ k = 33
  OBVIOUS
<1> QED BY <1>1, <1>2, <1>3, <1>4, <1>5, <1>6, <1>7, <1>8, <1>9, <1>10, <1>11, Courses

\* What HTTP has done is a sequence of its troubles.
Suffering == suffered \in Seq(Troubles)

\* One trouble more is one wait more, or none; and who is patient with all of
\* them was patient before.
LEMMA OneMore ==
  ASSUME Suffering, NEW trouble \in Troubles, suffered' = Append(suffered, trouble)
  PROVE  /\ Suffering'
         /\ Waits \in Nat /\ Waits' = Waits + (IF trouble = "limited" THEN 1 ELSE 0)
         /\ Patient' => Patient /\ trouble \in {"resent", "limited"} /\ Waits' <= Retries
<1> DEFINE W == {i \in DOMAIN suffered : suffered[i] = "limited"}
           V == {i \in DOMAIN suffered' : suffered'[i] = "limited"}
           l == Len(suffered)
<1>1. l \in Nat /\ DOMAIN suffered = 1 .. l
  BY DEF Suffering
<1>2. /\ suffered' \in Seq(Troubles) /\ DOMAIN suffered' = 1 .. l + 1
      /\ \A i \in 1 .. l : suffered'[i] = suffered[i]
      /\ suffered'[l + 1] = trouble
  BY <1>1 DEF Suffering
<1>3. IsFiniteSet(W) /\ Cardinality(W) \in Nat
  <2>1. IsFiniteSet(1 .. l)
    BY <1>1, FS_Interval
  <2> QED BY <1>1, <2>1, FS_Subset, FS_CardinalityType
<1>4. l + 1 \notin W
  BY <1>1
<1>5. V = IF trouble = "limited" THEN W \cup {l + 1} ELSE W
  <2>1. \A i : i \in 1 .. l + 1 <=> i \in 1 .. l \/ i = l + 1
    BY <1>1
  <2>2. \A i : i \in V <=> (i \in 1 .. l /\ suffered[i] = "limited") \/ (i = l + 1 /\ trouble = "limited")
    BY <1>1, <1>2, <2>1
  <2>3. \A i : i \in W <=> (i \in 1 .. l /\ suffered[i] = "limited")
    BY <1>1
  <2> HIDE DEF V, W
  <2> QED BY <2>2, <2>3
<1>6. Waits = Cardinality(W) /\ Waits' = Cardinality(V)
  BY DEF Waits
<1> HIDE DEF W, V
<1>7. Cardinality(W \cup {l + 1}) = Cardinality(W) + 1
  BY <1>3, <1>4, FS_AddElement
<1>8. Waits \in Nat /\ Waits' = Waits + (IF trouble = "limited" THEN 1 ELSE 0)
  BY <1>3, <1>5, <1>6, <1>7
<1>9. ASSUME Patient' PROVE Patient /\ trouble \in {"resent", "limited"} /\ Waits' <= Retries
  <2>1. Waits' <= Retries /\ \A i \in DOMAIN suffered' : suffered'[i] \in {"resent", "limited"}
    BY <1>9 DEF Patient, OnlySuffered, Waits
  <2>2. \A i \in DOMAIN suffered : suffered[i] \in {"resent", "limited"}
    <3> TAKE i \in DOMAIN suffered
    <3>1. i \in 1 .. l /\ i \in 1 .. l + 1
      BY <1>1
    <3> QED BY <1>2, <2>1, <3>1
  <2>3. trouble \in {"resent", "limited"}
    <3>1. l + 1 \in 1 .. l + 1
      BY <1>1
    <3> QED BY <1>2, <2>1, <3>1
  <2>4. Waits <= Retries
    BY <1>8, <2>1 DEF Retries
  <2> QED BY <2>1, <2>2, <2>3, <2>4 DEF Patient, OnlySuffered, Waits
<1> QED BY <1>2, <1>8, <1>9 DEF Suffering

\* The grader has been on its course: what it holds and remembers is of it.
LEMMA OfTheCourse ==
  ASSUME NEW k, OnCourse(k), GradeInv
  PROVE  /\ g.given \in Givens /\ Ledger(notes) /\ Len(log) \in Nat
         /\ \A i \in 1 .. Len(log) : log[i].status \in Replies
         /\ DOMAIN log = 1 .. Len(log)
<1>1. g.given \in Givens
  BY DEF OnCourse, Memory, Givens
<1>2. Len(log) \in Nat /\ DOMAIN log = 1 .. Len(log)
  BY DEF GradeInv, LogRead
<1> QED BY <1>1, <1>2 DEF OnCourse, Heard, GradeInv, Solvent

\* The mint gives the request in flight the answer of the course.
LEMMA NextServed ==
  ASSUME NEW k \in 1 .. 33, OnCourse(k), GradeInv, fault = "none", ask # Nothing
  PROVE  LET step == Course(k, g.given)[Len(log) + 1] IN
         ask = step.ask /\ Served(step, k, Len(log) + 1)
<1> DEFINE course == Course(k, g.given)
           i == Len(log) + 1
<1>1. g.given \in Givens /\ Ledger(notes) /\ i \in Nat \ {0} /\ i - 1 = Len(log)
  BY OfTheCourse
<1>2. i \in DOMAIN course /\ ask = course[i].ask
  <2>1. Len(log) < Len(course) /\ ask = course[i].ask
    BY DEF OnCourse, Sent
  <2>2. Len(course) \in Nat /\ DOMAIN course = 1 .. Len(course)
    BY <1>1, Lengths DEF Proper
  <2> HIDE DEF course
  <2> QED BY <1>1, <2>1, <2>2
<1>3. Before(k, i)
  <2>1. Book(notes, swaps, k, Len(log)) \/ Book(notes, swaps, k, i)
    BY DEF OnCourse, Booked
  <2> HIDE DEF i
  <2> QED BY <1>1, <2>1 DEF Before
<1> HIDE DEF course, i
<1>4. Served(course[i], k, i)
  BY <1>1, <1>2, <1>3, Serves DEF course
<1> QED BY <1>2, <1>4 DEF course, i

\* The grader stays on the course while it waits.
LEMMA StillWaiting ==
  ASSUME NEW k, OnCourse(k), ask # Nothing, UNCHANGED <<plan, log, ask, held, g>>,
         Booked(k)'
  PROVE  OnCourse(k)'
<1>1. Acted' = Acted
  BY DEF Acted
<1>2. Memory(held', g', k, Acted')
  BY <1>1 DEF OnCourse
<1>3. Heard(k)' /\ Sent(k)'
  BY DEF OnCourse, Heard, Sent
<1> QED BY <1>2, <1>3 DEF OnCourse

\* And when it is answered.
LEMMA AnsweredRight ==
  ASSUME NEW k \in 1 .. 33, OnCourse(k), GradeInv, ask # Nothing, NEW answer,
         log' = Append(log, answer), ask' = Nothing, UNCHANGED <<held, g>>,
         Matches(answer, Course(k, g.given)[Len(log) + 1].says), answer.status \in Replies,
         Book(notes', swaps', k, Len(log) + 1)
  PROVE  OnCourse(k)'
<1> DEFINE course == Course(k, g.given)
           l == Len(log)
           S == {log[i] : i \in DOMAIN log}
<1>1. log \in Seq(S) /\ l \in Nat
  BY DEF GradeInv, LogRead
<1>2. /\ Len(log') = l + 1 /\ \A i \in 1 .. l : log'[i] = log[i]
      /\ log'[l + 1] = answer
  <2>1. log \in Seq(S \cup {answer})
    BY <1>1
  <2> HIDE DEF S
  <2> QED BY <1>1, <2>1
<1>3. Len(course) \in Nat
  BY Lengths, OfTheCourse DEF Proper
<1>4. l < Len(course)
  BY DEF OnCourse, Sent
<1>5. \A i \in 1 .. l : Matches(log[i], course[i].says) /\ log[i].status \in Replies
  BY DEF OnCourse, Heard
<1>6. Course(k, g'.given) = course
  OBVIOUS
<1> HIDE DEF course
<1>7. \A i \in 1 .. l + 1 : Matches(log'[i], course[i].says) /\ log'[i].status \in Replies
  <2> TAKE i \in 1 .. l + 1
  <2>1. CASE i \in 1 .. l
    BY <1>2, <1>5, <2>1
  <2>2. CASE i = l + 1
    BY <1>2, <2>2 DEF course
  <2> QED BY <1>1, <2>1, <2>2
<1>8. Heard(k)'
  BY <1>1, <1>2, <1>3, <1>4, <1>6, <1>7 DEF Heard
<1>9. Sent(k)' /\ Booked(k)'
  BY <1>2 DEF Sent, Booked
<1>10. Acted = l /\ Acted' = l
  BY <1>1, <1>2 DEF Acted
<1>11. Memory(held', g', k, Acted')
  BY <1>10 DEF OnCourse
<1> QED BY <1>8, <1>9, <1>11 DEF OnCourse

\* So whatever HTTP does to a request, short of losing it.
LEMMA HttpFollows ==
  ASSUME NEW k \in 1 .. 33, Stands(k), OnCourse(k), GradeInv, Suffering, fault = "none",
         Patient, tries + Waits >= Retries, Http, UNCHANGED <<held, g, fault>>, Patient'
  PROVE  Stands(k)' /\ OnCourse(k)' /\ tries' + Waits' >= Retries /\ Failed' = Failed
<1> DEFINE step == Course(k, g.given)[Len(log) + 1]
<1>1. CASE Deliver
  <2> DEFINE done == handle(ask)
  <2>1. ask # Nothing /\ notes' = done.notes /\ swaps' = done.swaps
        /\ Delivered(IF done.answer.status = "timeout" THEN Lost ELSE done.answer)
    BY <1>1 DEF Deliver, Reaches
  <2>2. ask = step.ask /\ Served(step, k, Len(log) + 1)
    BY <2>1, NextServed
  <2> HIDE DEF step
  <2>3. /\ Matches(done.answer, step.says) /\ done.answer.status \in Replies
        /\ Book(done.notes, done.swaps, k, Len(log) + 1)
    BY <2>2 DEF Served
  <2>4. done.answer.status # "timeout"
    BY <2>3 DEF Replies
  <2> HIDE DEF done
  <2>5. Delivered(done.answer)
    BY <2>1, <2>4
  <2>6. log' = Append(log, done.answer) /\ ask' = Nothing
        /\ UNCHANGED <<plan, report, tries, suffered>>
    BY <2>5 DEF Delivered, Read
  <2>7. Book(notes', swaps', k, Len(log) + 1)
    BY <2>1, <2>3
  <2>8. OnCourse(k)'
    BY <2>1, <2>3, <2>6, <2>7, AnsweredRight DEF step
  <2>9. Waits' = Waits /\ Stands(k)' /\ Failed' = Failed
    BY <2>6 DEF Waits, Stands, Failed
  <2> QED BY <2>6, <2>8, <2>9
<1>2. CASE Reaches /\ Resent
  <2>1. /\ ask # Nothing /\ notes' = handle(ask).notes /\ swaps' = handle(ask).swaps
        /\ suffered' = Append(suffered, "resent") /\ UNCHANGED <<plan, report, log, ask, tries>>
    BY <1>2 DEF Reaches, Resent, Suffers
  <2>2. ask = step.ask /\ Served(step, k, Len(log) + 1)
    BY <2>1, NextServed
  <2>3. Book(notes', swaps', k, Len(log) + 1)
    BY <2>1, <2>2 DEF Served
  <2>4. Booked(k)'
    BY <2>1, <2>3 DEF Booked
  <2>5. Waits' = Waits
    <3>1. "resent" \in Troubles
      BY DEF Troubles
    <3> QED BY <2>1, <3>1, OneMore
  <2> QED BY <2>1, <2>4, <2>5, StillWaiting DEF Stands, Failed
<1>3. CASE Unreached /\ Limited
  <2>1. /\ ask # Nothing /\ UNCHANGED <<notes, swaps, plan, report>>
        /\ suffered' = Append(suffered, "limited")
        /\ \/ tries > 0 /\ tries' = tries - 1 /\ UNCHANGED <<log, ask>>
           \/ ~(tries > 0) /\ tries' = tries
    BY <1>3 DEF Unreached, Limited, LimitedBy, Suffers, retry
  <2>2. Waits \in Nat /\ Waits' = Waits + 1 /\ Waits' <= Retries
    <3>1. "limited" \in Troubles
      BY DEF Troubles
    <3> QED BY <2>1, <3>1, OneMore
  <2>3. tries \in 0 .. Retries
    BY DEF GradeInv, Waiting
  <2>4. tries > 0
    BY <2>2, <2>3 DEF Retries
  <2>5. tries' = tries - 1 /\ UNCHANGED <<log, ask>>
    BY <2>1, <2>4
  <2>6. Booked(k)'
    BY <2>1, <2>5 DEF OnCourse, Booked
  <2>7. tries' + Waits' >= Retries
    BY <2>2, <2>3, <2>5 DEF Retries
  <2> QED BY <2>1, <2>5, <2>6, <2>7, StillWaiting DEF Stands, Failed
<1>4. CASE ReplyLost \/ RequestLost \/ LimitedNotJson
  <2>1. PICK trouble \in {"replyLost", "requestLost", "limitedNotJson"} :
          suffered' = Append(suffered, trouble)
    BY <1>4 DEF ReplyLost, RequestLost, LimitedNotJson, Suffers
  <2>2. trouble \in Troubles /\ trouble \notin {"resent", "limited"}
    BY <2>1 DEF Troubles
  <2> QED BY <2>1, <2>2, OneMore
<1> QED BY <1>1, <1>2, <1>3, <1>4 DEF Http

\* HTTP makes no other troubles, and none is forgotten.
LEMMA StillSuffering ==
  ASSUME Suffering, GradeInv, [Next]_vars
  PROVE  Suffering' /\ (Patient' => Patient)
<1>1. CASE UNCHANGED suffered
  BY <1>1 DEF Suffering, Patient, OnlySuffered
<1>2. CASE \E trouble \in Troubles : suffered' = Append(suffered, trouble)
  BY <1>2, OneMore
<1>3. CASE Http
  BY <1>1, <1>2, <1>3 DEF Http, Deliver, Delivered, Resent, RequestLost, ReplyLost, Limited,
     LimitedNotJson, LimitedBy, Suffers, Troubles
<1>4. CASE Grade /\ GradeInv
  <2>1. Moves
    BY <1>4, GradeMoves
  <2>2. UNCHANGED suffered
    BY <2>1 DEF Moves, Leaves, Asks, Leave, Ask
  <2> QED BY <1>1, <2>2
<1> QED BY <1>1, <1>3, <1>4 DEF Next, Done, vars

\* A check ends with the books the next one begins with.
Through(k, i) ==
  \/ k \notin Trading \/ (k = 8 /\ i >= 1) \/ (k = 20 /\ i >= 3)
  \/ (k = 17 /\ (~Roomy \/ i >= 4)) \/ (k = 18 /\ (i >= 15 \/ (~Roomy /\ i >= 1)))
  \/ (k \in {27, 28, 31} /\ i >= 2)

\* The books after a check that went through are those the next one needs.
LEMMA Ends ==
  ASSUME NEW map, NEW done, NEW k \in 1 .. 32, NEW i \in Nat,
         Through(k, i), Book(map, done, k, i)
  PROVE  Book(map, done, k + 1, 0)
<1>1. Book(map, done, k + 1, 0) <=> Settled(map, done, Era(k + 1))
  BY DEF Book, Untraded
<1>2. CASE k \notin Trading
  <2>1. Settled(map, done, Era(k))
    BY <1>2, Quietly
  <2>2. Era(k + 1) = Era(k)
    BY <1>2 DEF Era, Trading
  <2> QED BY <1>1, <2>1, <2>2
<1>3. CASE k = 8
  <2>1. Settled(map, done, 2)
    BY <1>3, Bookings DEF Through, Trading
  <2> QED BY <1>1, <1>3, <2>1 DEF Era
<1>4. CASE k = 17
  <2>1. CASE Roomy
    <3>1. Settled(map, done, 3)
      BY <1>4, <2>1, Bookings DEF Through, Trading
    <3> QED BY <1>1, <1>4, <3>1 DEF Era
  <2>2. CASE ~Roomy
    <3>1. Books(map, done, NamesTo(2), One("rotated"))
      BY <1>4, <2>2, Bookings, Eras
    <3>2. AfterSplit.q = "rotated"
      BY <2>2, Names DEF AfterSplit
    <3>3. Books(map, done, NamesTo(3), One(AfterSplit.q))
      BY <3>1, <3>2, Growing, BooksGrow
    <3>4. Settled(map, done, 3)
      BY <3>3, Eras
    <3> QED BY <1>1, <1>4, <3>4 DEF Era
  <2> QED BY <2>1, <2>2
<1>5. CASE k = 18
  <2>1. CASE Roomy
    <3>1. Settled(map, done, 4)
      BY <1>5, <2>1, Bookings DEF Through, Trading
    <3> QED BY <1>1, <1>5, <3>1 DEF Era
  <2>2. CASE ~Roomy
    <3>1. i >= 1
      BY <1>5, <2>2 DEF Through, Trading
    <3>2. Retried(map, done)
      BY <1>5, <2>2, <3>1, Bookings
    <3>3. Books(map, done, NamesTo(3) \cup {"retried"}, One("retried"))
      BY <3>2 DEF Retried
    <3>4. AfterRetry.q = "retried"
      BY <2>2, Names DEF AfterRetry
    <3>5. Books(map, done, NamesTo(4), One(AfterRetry.q))
      BY <3>3, <3>4, Growing, BooksGrow
    <3>6. Settled(map, done, 4)
      BY <3>5, Eras
    <3> QED BY <1>1, <1>5, <3>6 DEF Era
  <2> QED BY <2>1, <2>2
<1>6. CASE k = 20
  <2>1. Settled(map, done, 5)
    BY <1>6, Bookings DEF Through, Trading
  <2> QED BY <1>1, <1>6, <2>1 DEF Era
<1>7. CASE k = 27
  <2>1. Settled(map, done, 6)
    BY <1>7, Bookings DEF Through, Trading
  <2> QED BY <1>1, <1>7, <2>1 DEF Era
<1>8. CASE k = 28
  <2>1. Settled(map, done, 7)
    BY <1>8, Bookings DEF Through, Trading
  <2> QED BY <1>1, <1>8, <2>1 DEF Era
<1>9. CASE k = 31
  <2>1. Settled(map, done, 8)
    BY <1>9, Bookings DEF Through, Trading
  <2> QED BY <1>1, <1>9, <2>1 DEF Era
<1> QED BY <1>2, <1>3, <1>4, <1>5, <1>6, <1>7, <1>8, <1>9 DEF Trading

\* What the grader makes of an answer: it asks what the course asks next, or
\* is done with the check, which accuses nobody of anything they might do.
Proceeds(k) ==
  /\ g'.given = g.given /\ g'.feeKnown = g.feeKnown
  /\ \/ /\ Len(log) < Len(Course(k, g.given)) /\ ask' # Nothing
        /\ Ask(Course(k, g.given)[Len(log) + 1].ask)
        /\ Memory(held', g', k, Len(log))
     \/ /\ Through(k, Len(log)) /\ Memory(held', g', k + 1, 0)
        /\ \E verdict : Verdict(verdict) /\ (FairlyAsked(g.feeKnown) => verdict # "fail")

\* The check under way, and the one after it.
LEMMA Standing ==
  ASSUME NEW k \in 1 .. 33, Stands(k)
  PROVE  /\ k = 33 <=> at = "done"
         /\ k <= 32 => at = Checks[k] /\ Tail(plan) = SubSeq(Checks, k + 1, Len(Checks))
<1>1. Len(Checks) = 32 /\ Checks \in Seq({Checks[i] : i \in 1 .. 32})
  BY Places DEF Checks
<1>2. \A i \in 1 .. 32 : Checks[i] # "done"
  <2>1. \A i \in 1 .. 32 :
          \/ i = 1 \/ i = 2 \/ i = 3 \/ i = 4 \/ i = 5 \/ i = 6 \/ i = 7 \/ i = 8
          \/ i = 9 \/ i = 10 \/ i = 11 \/ i = 12 \/ i = 13 \/ i = 14 \/ i = 15 \/ i = 16
          \/ i = 17 \/ i = 18 \/ i = 19 \/ i = 20 \/ i = 21 \/ i = 22 \/ i = 23 \/ i = 24
          \/ i = 25 \/ i = 26 \/ i = 27 \/ i = 28 \/ i = 29 \/ i = 30 \/ i = 31 \/ i = 32
    OBVIOUS
  <2> QED BY <2>1, Places
<1> DEFINE S == {Checks[i] : i \in 1 .. 32}
           C == Checks
<1>3. plan = SubSeq(C, k, 32)
  BY <1>1 DEF Stands
<1>4. C \in Seq(S) /\ Len(C) = 32
  BY <1>1
<1>5. at = IF plan = << >> THEN "done" ELSE plan[1]
  BY DEF at
<1> HIDE DEF S, C
<1>6. CASE k = 33
  <2>1. plan = << >>
    BY <1>3, <1>4, <1>6
  <2> QED BY <1>5, <1>6, <2>1
<1>7. CASE k \in 1 .. 32
  <2>1. Len(plan) = 33 - k /\ plan[1] = C[k]
    BY <1>3, <1>4, <1>7
  <2>2. plan # << >> /\ at = C[k]
    BY <1>5, <1>7, <2>1
  <2>3. Tail(plan) = SubSeq(C, k + 1, 32)
    <3>1. k \in 1 .. Len(C) /\ 32 \in k .. Len(C)
      BY <1>4, <1>7
    <3>2. Tail(SubSeq(C, k, 32)) = SubSeq(C, k + 1, 32)
      BY <1>4, <3>1, HeadTailOfSubSeq
    <3> QED BY <1>3, <3>2
  <2>4. at = Checks[k] /\ at # "done" /\ Tail(plan) = SubSeq(Checks, k + 1, 32)
    BY <1>2, <1>7, <2>2, <2>3 DEF C
  <2>5. Len(Checks) = 32
    BY <1>1
  <2>6. k # 33
    BY <1>7
  <2> QED BY <2>4, <2>5, <2>6
<1> QED BY <1>6, <1>7

\* Whoever proceeds is on the course of this check or of the next.
LEMMA Steps ==
  ASSUME NEW k \in 1 .. 33, Stands(k), OnCourse(k), ask = Nothing, Proceeds(k), k <= 32,
         tries + Waits >= Retries, Waits \in Nat, GradeInv, UNCHANGED <<notes, swaps>>
  PROVE  /\ \E j \in 1 .. 33 : Stands(j)' /\ OnCourse(j)'
         /\ tries' + Waits' >= Retries
         /\ g'.feeKnown = g.feeKnown
         /\ (FairlyAsked(g.feeKnown) /\ Failed = {}) => Failed' = {}
<1>1. Len(log) \in Nat
  BY OfTheCourse
<1>2. Book(notes, swaps, k, Len(log))
  BY DEF OnCourse, Booked
<1>3. CASE /\ Len(log) < Len(Course(k, g.given)) /\ ask' # Nothing
           /\ Ask(Course(k, g.given)[Len(log) + 1].ask)
           /\ Memory(held', g', k, Len(log))
  <2> DEFINE course == Course(k, g.given)
  <2>1. /\ ask' = course[Len(log) + 1].ask /\ tries' = Retries
        /\ UNCHANGED <<plan, log, report, suffered>>
    BY <1>3 DEF Ask
  <2>2. Course(k, g'.given) = course
    BY DEF Proceeds
  <2> HIDE DEF course
  <2>3. Sent(k)'
    BY <1>3, <2>1, <2>2 DEF Sent, course
  <2>4. Heard(k)'
    BY <2>1, <2>2 DEF OnCourse, Heard, course
  <2>5. Booked(k)'
    BY <1>2, <2>1 DEF Booked
  <2>6. Acted' = Len(log)
    BY <1>3, <2>1 DEF Acted
  <2>7. OnCourse(k)'
    BY <1>3, <2>3, <2>4, <2>5, <2>6 DEF OnCourse
  <2>8. Stands(k)' /\ Failed' = Failed
    BY <2>1 DEF Stands, Failed
  <2>9. tries' + Waits' >= Retries
    <3>1. Waits' = Waits
      BY <2>1 DEF Waits
    <3> QED BY <2>1, <3>1 DEF Retries
  <2> QED BY <2>7, <2>8, <2>9 DEF Proceeds
<1>4. ASSUME NEW verdict, Verdict(verdict), FairlyAsked(g.feeKnown) => verdict # "fail",
             Through(k, Len(log)), Memory(held', g', k + 1, 0)
      PROVE  /\ Stands(k + 1)' /\ OnCourse(k + 1)'
             /\ tries' + Waits' >= Retries
             /\ (FairlyAsked(g.feeKnown) /\ Failed = {}) => Failed' = {}
  <2>1. /\ report' = [check \in DOMAIN report \cup {at} |->
                        IF check \in DOMAIN report THEN report[check] ELSE verdict]
        /\ plan' = Tail(plan) /\ log' = << >> /\ ask' = Nothing
        /\ UNCHANGED <<tries, suffered>>
    BY <1>4 DEF Verdict, Leave, Only
  <2>2. Stands(k + 1)'
    BY <2>1, Standing DEF Stands
  <2>3. Book(notes', swaps', k + 1, 0)
    BY <1>1, <1>2, <1>4, Ends
  <2>4. Len(log') = 0
    BY <2>1
  <2>5. Acted' = 0
    BY <2>4 DEF Acted
  <2>6. Proper(Course(k + 1, g'.given))
    <3>1. g'.given \in Givens /\ k + 1 \in 1 .. 33
      BY OfTheCourse DEF Proceeds
    <3> QED BY <3>1, Lengths
  <2>7. Heard(k + 1)'
    BY <2>4, <2>6 DEF Heard, Proper
  <2>8. Sent(k + 1)' /\ Booked(k + 1)'
    BY <2>1, <2>3, <2>4 DEF Sent, Booked
  <2>9. OnCourse(k + 1)'
    BY <1>4, <2>5, <2>7, <2>8 DEF OnCourse
  <2>10. (FairlyAsked(g.feeKnown) /\ Failed = {}) => Failed' = {}
    BY <1>4, <2>1 DEF Failed
  <2>11. tries' + Waits' >= Retries
    BY <2>1 DEF Waits
  <2> QED BY <2>2, <2>9, <2>10, <2>11
<1>5. k + 1 \in 1 .. 33
  OBVIOUS
<1>6. g'.feeKnown = g.feeKnown
  BY DEF Proceeds
<1>7. CASE /\ Len(log) < Len(Course(k, g.given)) /\ ask' # Nothing
           /\ Ask(Course(k, g.given)[Len(log) + 1].ask)
           /\ Memory(held', g', k, Len(log))
  BY <1>3, <1>6, <1>7
<1>8. CASE /\ Through(k, Len(log)) /\ Memory(held', g', k + 1, 0)
           /\ \E verdict : Verdict(verdict) /\ (FairlyAsked(g.feeKnown) => verdict # "fail")
  <2>1. PICK verdict : Verdict(verdict) /\ (FairlyAsked(g.feeKnown) => verdict # "fail")
    BY <1>8
  <2>2. /\ Stands(k + 1)' /\ OnCourse(k + 1)' /\ tries' + Waits' >= Retries
        /\ (FairlyAsked(g.feeKnown) /\ Failed = {}) => Failed' = {}
    BY <1>4, <1>8, <2>1
  <2> QED BY <1>5, <1>6, <2>2
<1> QED BY <1>7, <1>8 DEF Proceeds

Underway(k) == k \in 1 .. 33 /\ Stands(k) /\ OnCourse(k) /\ GradeInv /\ fault = "none"

\* Which check it is by its name.
LEMMA AtPlace ==
  ASSUME NEW k, Underway(k), at # "done"
  PROVE  /\ k \in 1 .. 32 /\ at = Checks[k]
         /\ (at = "echo" => k = 1) /\ (at = "idempotent" => k = 2) /\ (at = "amount" => k = 3)
         /\ (at = "lookup" => k = 4) /\ (at = "oversized" => k = 5) /\ (at = "noP1" => k = 6)
         /\ (at = "noP2" => k = 7) /\ (at = "rotate" => k = 8) /\ (at = "certified" => k = 9)
         /\ (at = "spent" => k = 10) /\ (at = "infoCert" => k = 11)
         /\ (at = "duplicate" => k = 12) /\ (at = "burnedP1" => k = 13)
         /\ (at = "twin" => k = 14) /\ (at = "methods" => k = 15) /\ (at = "shortFee" => k = 16)
         /\ (at = "split" => k = 17) /\ (at = "retry" => k = 18)
         /\ (at = "replayedBurn" => k = 19) /\ (at = "fullCw1" => k = 20)
         /\ (at \in Probes => k \in 21 .. 26)
         /\ (at = "past" => k = 27) /\ (at = "keyNote" => k = 28) /\ (at = "forged" => k = 29)
         /\ (at = "elsewhere" => k = 30) /\ (at = "keySpend" => k = 31)
         /\ (at = "certificates" => k = 32)
<1>1. k \in 1 .. 32 /\ at = Checks[k]
  <2>1. k \in 1 .. 33 /\ Stands(k)
    BY DEF Underway
  <2>2. k # 33
    BY <2>1, Standing
  <2>3. k <= 32
    BY <2>1, <2>2
  <2>4. at = Checks[k]
    BY <2>1, <2>3, Standing
  <2> QED BY <2>1, <2>3, <2>4
<1>2. \/ k = 1 \/ k = 2 \/ k = 3 \/ k = 4 \/ k = 5 \/ k = 6 \/ k = 7 \/ k = 8
      \/ k = 9 \/ k = 10 \/ k = 11 \/ k = 12 \/ k = 13 \/ k = 14 \/ k = 15 \/ k = 16
      \/ k = 17 \/ k = 18 \/ k = 19 \/ k = 20 \/ k = 21 \/ k = 22 \/ k = 23 \/ k = 24
      \/ k = 25 \/ k = 26 \/ k = 27 \/ k = 28 \/ k = 29 \/ k = 30 \/ k = 31 \/ k = 32
  BY <1>1
<1> QED BY <1>1, <1>2, Places DEF Probes

\* The steps, field by field.
LEMMA StepFields ==
  /\ \A r, a : Step(r, a).ask = r /\ Step(r, a).says = a
  /\ \A s : Shows(s).ask = lookup(s) /\ Shows(s).says = Shown(s, Value)
  /\ \A r : NotKnown(r).ask = r /\ NotKnown(r).says = fail(UnknownNote)
  /\ \A r : InUse(r).ask = r /\ InUse(r).says = fail(AlreadyInUse)
  /\ \A r : Refuses(r).ask = r /\ Refuses(r).says = Refusal
  /\ \A k1s, p1 : /\ Swaps(k1s, p1).ask = call(k1s, p1)
                  /\ Swaps(k1s, p1).says = Swapped(p1.q, Value)
BY DEF Step, Shows, NotKnown, InUse, Refuses, Swaps

\* What the grader has read, answer by answer.
LEMMA Hears ==
  ASSUME NEW k, Underway(k), NEW i \in 1 .. Len(log)
  PROVE  LET step == Course(k, g.given)[i] IN
         /\ log[i].status \in Replies
         /\ \A s : step = Shows(s) => log[i] = Shown(s, Value)
         /\ \A r, s, v : step = Step(r, Shown(s, v)) => log[i] = Shown(s, v)
         /\ \A r, q, v : step = Step(r, Named(q, v)) => log[i] = Named(q, v)
         /\ \A r : step = NotKnown(r) => log[i] = fail(UnknownNote)
         /\ \A r : step = InUse(r) => log[i] = fail(AlreadyInUse)
         /\ \A r : step = Refuses(r) => log[i].status = "ERROR"
         /\ \A k1s, p1 : step = Swaps(k1s, p1) => log[i] = Swapped(p1.q, Value)
         /\ \A r, q1, v1, q2, v2 :
              step = Step(r, Divided(q1, v1, q2, v2)) => log[i] = Divided(q1, v1, q2, v2)
<1> DEFINE step == Course(k, g.given)[i]
<1>1. Matches(log[i], step.says) /\ log[i].status \in Replies
  BY DEF Underway, OnCourse, Heard
<1> HIDE DEF step
<1>2. /\ \A s : step = Shows(s) => log[i] = Shown(s, Value)
      /\ \A r, s, v : step = Step(r, Shown(s, v)) => log[i] = Shown(s, v)
      /\ \A r, q, v : step = Step(r, Named(q, v)) => log[i] = Named(q, v)
  BY <1>1, StepFields, Matching
<1>3. /\ \A r : step = NotKnown(r) => log[i] = fail(UnknownNote)
      /\ \A r : step = InUse(r) => log[i] = fail(AlreadyInUse)
      /\ \A r : step = Refuses(r) => log[i].status = "ERROR"
  BY <1>1, StepFields, Matching
<1>4. /\ \A k1s, p1 : step = Swaps(k1s, p1) => log[i] = Swapped(p1.q, Value)
      /\ \A r, q1, v1, q2, v2 :
           step = Step(r, Divided(q1, v1, q2, v2)) => log[i] = Divided(q1, v1, q2, v2)
  BY <1>1, StepFields, Matching
<1> QED BY <1>1, <1>2, <1>3, <1>4 DEF step

\* What it remembers as it begins a check, and as it reads.
LEMMA Recalls ==
  ASSUME NEW k, Underway(k), ask = Nothing
  PROVE  /\ g.given \in Givens /\ n = Len(log) /\ n \in Nat
         /\ n = 0 => Memory(held, g, k, 0)
         /\ n > 0 => Memory(held, g, k, n - 1) /\ body = log[n] /\ n \in 1 .. Len(log)
         /\ Proper(Course(k, g.given)) /\ n <= Len(Course(k, g.given))
         /\ \A i \in 1 .. n : log[i].status \notin Unanswered
<1>1. g.given \in Givens /\ Len(log) \in Nat
  BY OfTheCourse DEF Underway
<1>2. Memory(held, g, k, Acted) /\ Len(log) <= Len(Course(k, g.given))
  BY DEF Underway, OnCourse, Heard
<1>3. Proper(Course(k, g.given))
  BY <1>1, Lengths DEF Underway
<1>4. \A i \in 1 .. Len(log) : log[i].status \notin Unanswered
  BY Hears DEF Replies, Unanswered
<1> QED BY <1>1, <1>2, <1>3, <1>4 DEF Acted, n, body

\* The spend and the references of the note that was given.
LEMMA OriginalRefs ==
  ASSUME g.given \in Givens
  PROVE  /\ k1 = Own(g.given) /\ originalRefs[1] = cp1("given")
         /\ g.given = "preimage" => Len(originalRefs) = 2 /\ originalRefs[2] = hexH("given")
         /\ g.given # "preimage" => Len(originalRefs) = 1
<1> DEFINE a == cp1("given")
           b == hexH("given")
<1>1. originalRefs = <<a>> \o (IF g.given = "preimage" THEN <<b>> ELSE << >>)
  BY DEF originalRefs
<1> HIDE DEF a, b
<1>2. /\ originalRefs[1] = a
      /\ g.given = "preimage" => Len(originalRefs) = 2 /\ originalRefs[2] = b
      /\ g.given # "preimage" => Len(originalRefs) = 1
  BY <1>1
<1> QED BY <1>2 DEF k1, Own, a, b

---------------------------------------------------------------------------
\* The checks that the grader leaves with what it came with.
Onward == {2, 3, 5, 6, 7} \cup 9 .. 16 \cup {19} \cup 21 .. 26 \cup {29, 30, 32}

\* Most checks leave what is remembered as it was.
LEMMA Minds ==
  ASSUME NEW s, NEW m, NEW i \in Nat, NEW k \in 1 .. 32
  PROVE  /\ k \notin {4, 8, 17, 18, 20} => (Memory(s, m, k, i) <=> Memory(s, m, k, 0))
         /\ k \notin {8, 17, 18, 20} /\ Memory(s, m, k, i) => Memory(s, m, k, 0)
         /\ k \in Onward /\ Memory(s, m, k, 0) => Memory(s, m, k + 1, 0)
<1>1. k \notin {4, 8, 17, 18, 20} => (Memory(s, m, k, i) <=> Memory(s, m, k, 0))
  BY DEF Memory, Holds
<1>3. k \notin {8, 17, 18, 20} /\ Memory(s, m, k, i) => Memory(s, m, k, 0)
  BY DEF Memory, Holds
<1>2. ASSUME k \in Onward, Memory(s, m, k, 0) PROVE Memory(s, m, k + 1, 0)
  <2>1. Holds(k, 0, m.given) = HeldIn(Era(k), m.given)
    BY DEF Holds
  <2>2. Holds(k + 1, 0, m.given) = HeldIn(Era(k + 1), m.given)
    BY DEF Holds
  <2>3. Era(k + 1) = Era(k)
    BY <1>2 DEF Onward, Era
  <2>4. s = Holds(k + 1, 0, m.given)
    BY <1>2, <2>1, <2>2, <2>3 DEF Memory
  <2> HIDE DEF Holds
  <2> QED BY <1>2, <2>4 DEF Memory, Onward
<1> QED BY <1>1, <1>2, <1>3

\* The spend it holds.
LEMMA Hands ==
  ASSUME NEW s, NEW m, NEW k \in 1 .. 33, Memory(s, m, k, 0)
  PROVE  /\ k \in 1 .. 8 => s = Own(m.given)
         /\ k \in 9 .. 17 => s = Rotated
         /\ k = 18 => s = AfterSplit
         /\ k \in 19 .. 20 => s = AfterRetry
         /\ k \in 21 .. 27 => s = SpendBy("tree", "leaf")
         /\ k = 28 => s = Back
         /\ k \in 29 .. 31 => s = SpendBy("key", "ck1")
         /\ k > 1 => m.value = Value
         /\ k > 4 => m.offered = TRUE
         /\ k > 8 => m.first = "verifies"
         /\ k \in 21 .. 27 => m.tree = Value
         /\ k \in 29 .. 31 => m.keyed = Value
         /\ m.certs \subseteq {"verifies"}
<1>1. s = HeldIn(Era(k), m.given)
  BY DEF Memory, Holds
<1>2. /\ HeldIn(1, m.given) = Own(m.given) /\ HeldIn(2, m.given) = Rotated
      /\ HeldIn(3, m.given) = AfterSplit /\ HeldIn(4, m.given) = AfterRetry
      /\ HeldIn(5, m.given) = SpendBy("tree", "leaf") /\ HeldIn(6, m.given) = Back
      /\ HeldIn(7, m.given) = SpendBy("key", "ck1")
  BY DEF HeldIn
<1>3. /\ k \in 1 .. 8 => Era(k) = 1
      /\ k \in 9 .. 17 => Era(k) = 2
      /\ k = 18 => Era(k) = 3
      /\ k \in 19 .. 20 => Era(k) = 4
      /\ k \in 21 .. 27 => Era(k) = 5
      /\ k = 28 => Era(k) = 6
      /\ k \in 29 .. 31 => Era(k) = 7
  BY DEF Era
<1>4. /\ k > 1 => m.value = Value
      /\ k > 4 => m.offered = TRUE
      /\ k > 8 => m.first = "verifies"
      /\ k \in 21 .. 27 => m.tree = Value
      /\ k \in 29 .. 31 => m.keyed = Value
      /\ m.certs \subseteq {"verifies"}
  BY DEF Memory
<1> QED BY <1>1, <1>2, <1>3, <1>4

---------------------------------------------------------------------------
\* The two ways to proceed.
LEMMA AsksNext ==
  ASSUME NEW k, NEW r, NEW step, Ask(r), r # Nothing,
         g'.given = g.given, g'.feeKnown = g.feeKnown,
         Len(log) < Len(Course(k, g.given)), Course(k, g.given)[Len(log) + 1] = step,
         step.ask = r, Memory(held', g', k, Len(log))
  PROVE  Proceeds(k)
<1>1. ask' # Nothing
  BY DEF Ask
<1> QED BY <1>1 DEF Proceeds

\* Or the check is done with, and nobody accused.
LEMMA Passes ==
  ASSUME NEW k, NEW verdict, Verdict(verdict), FairlyAsked(g.feeKnown) => verdict # "fail",
         g'.given = g.given, g'.feeKnown = g.feeKnown,
         Through(k, Len(log)), Memory(held', g', k + 1, 0)
  PROVE  Proceeds(k)
BY DEF Proceeds

\* A check that changes nothing of what it holds and remembers passes.
LEMMA PassesAsItIs ==
  ASSUME NEW k \in Onward, k \notin Trading, NEW verdict, Verdict(verdict), verdict # "fail",
         Keep, NEW i \in Nat, Memory(held, g, k, i)
  PROVE  Proceeds(k)
<1>1. k \in 1 .. 32 /\ k \notin {4, 8, 17, 18, 20}
  BY DEF Onward, Trading
<1>2. Memory(held, g, k + 1, 0)
  BY <1>1, Minds
<1>3. Memory(held', g', k + 1, 0) /\ g'.given = g.given /\ g'.feeKnown = g.feeKnown
  BY <1>2 DEF Keep
<1>4. Through(k, Len(log))
  BY DEF Through
<1> QED BY <1>3, <1>4, Passes

\* Or asks on.
LEMMA AsksAsItIs ==
  ASSUME NEW k \in 1 .. 32, k \notin {4, 8, 17, 18, 20}, NEW r, NEW step, Ask(r), r # Nothing, Keep,
         Len(log) \in Nat, NEW i \in Nat, Memory(held, g, k, i),
         Len(log) < Len(Course(k, g.given)), Course(k, g.given)[Len(log) + 1] = step,
         step.ask = r
  PROVE  Proceeds(k)
<1>1. Memory(held, g, k, Len(log))
  <2>1. Memory(held, g, k, 0)
    BY Minds
  <2> QED BY <2>1, Minds
<1>2. Memory(held', g', k, Len(log)) /\ g'.given = g.given /\ g'.feeKnown = g.feeKnown
  BY <1>1 DEF Keep
<1> QED BY <1>2, AsksNext

\* A check that begins, on the course.
LEMMA BeginsWith ==
  ASSUME NEW k, NEW r, NEW step, Underway(k), ask = Nothing, n = 0, Keep, Ask(r), r # Nothing,
         Len(Course(k, g.given)) >= 1, Course(k, g.given)[1] = step, step.ask = r
  PROVE  Proceeds(k)
<1>1. Memory(held, g, k, 0) /\ Len(log) = 0 /\ Len(Course(k, g.given)) \in Nat
  BY Recalls DEF Proper
<1>2. Memory(held', g', k, 0) /\ g'.given = g.given /\ g'.feeKnown = g.feeKnown
  BY <1>1 DEF Keep
<1>3. Course(k, g.given)[Len(log) + 1] = step /\ Len(log) < Len(Course(k, g.given))
  BY <1>1
<1> QED BY <1>1, <1>2, <1>3, AsksNext

\* What each check begins with.
LEMMA Beginnings ==
  ASSUME Begin
  PROVE  /\ at # "done" /\ ask = Nothing /\ n = 0 /\ Keep
         /\ at \in {"echo", "idempotent", "amount"} => Ask(lookup(k1))
         /\ at = "lookup" => Ask(lookupRef(originalRefs[1]))
         /\ at = "oversized" =>
              Ask(call([i \in 1 .. Capped + 1 |-> bearer(Invented[i])], hexH("oversized")))
         /\ at = "noP1" => Ask(call(<<held>>, NoRef))
         /\ at = "noP2" =>
              Ask(split(held, IF half > 1 THEN half ELSE 1, hexH("one-output"), NoRef))
         /\ at = "rotate" => Ask(call(<<held>>, hexH("rotated")))
         /\ at = "certified" =>
              Verdict(IF g.first = "verifies" THEN "pass"
                      ELSE IF g.first = "wrong" THEN "fail" ELSE "warn")
         /\ at = "spent" => IF g.offered THEN Ask(lookupRef(originalRefs[1])) ELSE Verdict("warn")
         /\ at = "infoCert" => Ask(lookup(held))
         /\ at = "duplicate" => Ask(call(Twice[1], DuplicateOut(1)))
         /\ at = "burnedP1" => Ask(call(<<held>>, originalRefs[1]))
         /\ at = "twin" => IF half < 1 THEN Verdict("warn")
                           ELSE Ask(split(held, half, hexH("twin"), hexH("twin")))
         /\ at = "methods" => Ask(Method(1))
         /\ at = "shortFee" =>
              LET amount == g.value - BaseFee + 1 IN
              IF g.feeKnown /\ BaseFee # 0 /\ amount \in 1 .. g.value - 1
              THEN Ask(split(held, amount, hexH("short"), hexH("short-change")))
              ELSE Verdict("warn")
         /\ at = "split" =>
              IF half < 1 \/ (g.feeKnown /\ g.value - half < BaseFee + 1) THEN Verdict("warn")
              ELSE Ask(split(held, half, hexH(Half(1).q), hexH(Half(2).q)))
         /\ at = "retry" => Ask(call(<<held>>, hexH("retried")))
         /\ at = "replayedBurn" => Ask(call(<<k1>>, ReplayedOut(1)))
         /\ at = "fullCw1" => IF held.how = "preimage" THEN Ask(lookup(held)) ELSE Verdict("warn")
         /\ at \in Probes => IF g.tree # 0 THEN Ask(lookup(Leaf(at))) ELSE Verdict("warn")
         /\ at = "past" => IF g.tree # 0 THEN Ask(lookup(Leaf("past"))) ELSE Verdict("warn")
         /\ at = "keyNote" => Ask(lookup(held))
         /\ at = "forged" =>
              IF g.keyed # 0 THEN Ask(lookup(KeyNote("elsewhere"))) ELSE Verdict("warn")
         /\ at = "elsewhere" =>
              IF g.keyed # 0 THEN Ask(call(<<KeyNote("elsewhere")>>, hexH("elsewhere")))
              ELSE Verdict("warn")
         /\ at = "keySpend" => IF g.keyed # 0 THEN Ask(lookup(KeyNote("ck1"))) ELSE Verdict("warn")
         /\ at = "certificates" =>
              Verdict(IF "wrong" \in g.certs THEN "fail"
                      ELSE IF "missing" \in g.certs THEN "warn" ELSE "pass")
BY DEF Begin, Probes

Runs9(course, a1, a2, a3, a4, a5, a6, a7, a8, a9) ==
  /\ Len(course) = 9 /\ DOMAIN course = 1 .. 9
  /\ course[1] = a1 /\ course[2] = a2 /\ course[3] = a3 /\ course[4] = a4
  /\ course[5] = a5 /\ course[6] = a6 /\ course[7] = a7 /\ course[8] = a8
  /\ course[9] = a9

Runs16(course, a1, a2, a3, a4, a5, a6, a7, a8, a9, a10, a11, a12, a13, a14, a15, a16) ==
  /\ Len(course) = 16 /\ DOMAIN course = 1 .. 16
  /\ course[1] = a1 /\ course[2] = a2 /\ course[3] = a3 /\ course[4] = a4
  /\ course[5] = a5 /\ course[6] = a6 /\ course[7] = a7 /\ course[8] = a8
  /\ course[9] = a9 /\ course[10] = a10 /\ course[11] = a11 /\ course[12] = a12
  /\ course[13] = a13 /\ course[14] = a14 /\ course[15] = a15 /\ course[16] = a16

\* The retries, one by one.
LEMMA RetryRuns ==
  /\ Roomy => Runs16(RetryCourse,
       Again(AfterSplit, hexH("retried")), Shows(bearer("retried")),
       Again(AfterSplit, hexH("retried")), Shows(bearer("retried")),
       Again(Long(AfterSplit), hexH("retried")), Shows(bearer("retried")),
       Again(AfterSplit, cp1("retried")), Shows(bearer("retried")),
       Dividing, FirstPiece, SecondPiece, Dividing, FirstPiece, SecondPiece,
       Rejoining, Shows(bearer("rejoined")))
  /\ ~Roomy => Runs9(RetryCourse,
       Again(AfterSplit, hexH("retried")), Shows(bearer("retried")),
       Again(AfterSplit, hexH("retried")), Shows(bearer("retried")),
       Again(Long(AfterSplit), hexH("retried")), Shows(bearer("retried")),
       Again(AfterSplit, cp1("retried")), Shows(bearer("retried")), Refuses(PiecesOf))
<1>1. \A a1, a2, a3, a4, a5, a6, a7, a8, a9, a10, a11, a12, a13, a14, a15, a16 :
        Runs16(<<a1, a2, a3, a4, a5, a6, a7, a8, a9, a10, a11, a12, a13, a14, a15, a16>>,
               a1, a2, a3, a4, a5, a6, a7, a8, a9, a10, a11, a12, a13, a14, a15, a16)
  BY DEF Runs16
<1>2. \A a1, a2, a3, a4, a5, a6, a7, a8, a9 : Runs9(<<a1, a2, a3, a4, a5, a6, a7, a8, a9>>, a1, a2, a3, a4, a5, a6, a7, a8, a9)
  BY DEF Runs9
<1> QED BY <1>1, <1>2, RetrySteps, Zenon

\* The first of the two ways to name a note twice, and the second.
LEMMA TwiceStarts ==
  /\ Twice[1] = <<held, held>>
  /\ held.how = "preimage" => Len(Twice) = 2 /\ Twice[2] = <<held, Long(held)>>
<1> DEFINE a == <<held, held>>
           b == <<held, Long(held)>>
           longer == [i \in DOMAIN respell(held) |-> <<held, respell(held)[i]>>]
<1>1. Twice = <<a>> \o longer
  BY DEF Twice
<1>2. held.how = "preimage" => respell(held) = <<Long(held)>>
  BY DEF respell, Long
<1>3. held.how # "preimage" => respell(held) = << >>
  BY DEF respell
<1>4. held.how = "preimage" => longer \in Seq({b}) /\ Len(longer) = 1 /\ longer[1] = b
  BY <1>2
<1>5. held.how # "preimage" => longer = << >>
  BY <1>3
<1> HIDE DEF longer, a, b
<1>6. held.how = "preimage" => Twice[1] = a /\ Len(Twice) = 2 /\ Twice[2] = b
  <2> SUFFICES ASSUME held.how = "preimage"
               PROVE  Twice[1] = a /\ Len(Twice) = 2 /\ Twice[2] = b
    OBVIOUS
  <2>1. <<a>> \in Seq({a, b}) /\ longer \in Seq({a, b}) /\ Len(<<a>>) = 1 /\ <<a>>[1] = a
    BY <1>4
  <2>2. Len(longer) = 1 /\ longer[1] = b
    BY <1>4
  <2>3. /\ Len(<<a>> \o longer) = 2
        /\ \A i \in 1 .. 2 : (<<a>> \o longer)[i] = IF i <= 1 THEN <<a>>[i] ELSE longer[i - 1]
    <3>1. /\ Len(<<a>> \o longer) = Len(<<a>>) + Len(longer)
          /\ \A i \in 1 .. Len(<<a>>) + Len(longer) :
               (<<a>> \o longer)[i] = IF i <= Len(<<a>>) THEN <<a>>[i] ELSE longer[i - Len(<<a>>)]
      BY <2>1, Joined
    <3> QED BY <2>1, <2>2, <3>1
  <2> QED BY <1>1, <2>1, <2>2, <2>3
<1>7. held.how # "preimage" => Twice[1] = a
  BY <1>1, <1>5
<1> QED BY <1>6, <1>7 DEF a, b

\* The first request of each check is the first of its course.
LEMMA BeginProceeds ==
  ASSUME NEW k, Underway(k), Begin
  PROVE  Proceeds(k)
<1> DEFINE given == g.given
<1>1. at # "done" /\ ask = Nothing /\ n = 0 /\ Keep
  BY Beginnings
<1>2. k \in 1 .. 32 /\ given \in Givens /\ Memory(held, g, k, 0) /\ at = Checks[k]
  BY <1>1, AtPlace, Recalls
<1>3. k1 = Own(given) /\ originalRefs[1] = cp1("given")
  BY <1>2, OriginalRefs
<1>33. /\ k \in 1 .. 8 => held = Own(g.given)
       /\ k \in 9 .. 17 => held = Rotated
       /\ k = 18 => held = AfterSplit
       /\ k \in 19 .. 20 => held = AfterRetry
       /\ k \in 21 .. 27 => held = SpendBy("tree", "leaf")
       /\ k = 28 => held = Back
       /\ k \in 29 .. 31 => held = SpendBy("key", "ck1")
       /\ k > 1 => g.value = Value
       /\ k > 4 => g.offered = TRUE
       /\ k > 8 => g.first = "verifies"
       /\ k \in 21 .. 27 => g.tree = Value
       /\ k \in 29 .. 31 => g.keyed = Value
       /\ g.certs \subseteq {"verifies"}
  <2>1. k \in 1 .. 33
    BY DEF Underway
  <2> QED BY <1>2, <2>1, Hands
<1>4. k > 1 => g.value = Value /\ half = Share
  BY <1>33 DEF half, Share
<1> HIDE DEF given
<1>5. \A r, step : /\ Ask(r) /\ r # Nothing /\ Len(Course(k, given)) >= 1
                   /\ Course(k, given)[1] = step /\ step.ask = r
                   => Proceeds(k)
  BY <1>1, BeginsWith DEF given
<1>6. \A verdict : /\ Verdict(verdict) /\ verdict # "fail" /\ k \in Onward /\ k \notin Trading
                   => Proceeds(k)
  BY <1>1, <1>2, PassesAsItIs
<1>7. CASE at \in {"echo", "idempotent", "amount"}
  <2>1. k \in 1 .. 3 /\ Ask(lookup(k1))
    BY <1>1, <1>7, AtPlace, Beginnings
  <2>2. Course(k, given) = EchoCourse(given)
    BY <2>1, Courses
  <2>3. Runs1(EchoCourse(given), Shows(Own(given)))
    BY Runs, Zenon DEF EchoCourse
  <2> QED BY <1>3, <1>5, <2>1, <2>2, <2>3, StepFields, RequestFields DEF Runs1
<1>8. CASE at = "lookup"
  <2>1. k = 4 /\ Ask(lookupRef(cp1("given")))
    BY <1>1, <1>3, <1>8, AtPlace, Beginnings
  <2> DEFINE first == Step(lookupRef(cp1("given")), Named("given", Value))
  <2>2. Len(LookupCourse(given)) >= 1 /\ LookupCourse(given)[1] = first
    <3>1. \A a1, a2, a3, a4, a5, a6 :
            <<a1, a2, a3, a4, a5, a6>>[1] = a1 /\ Len(<<a1, a2, a3, a4, a5, a6>>) >= 1
      OBVIOUS
    <3>2. \A a1, a2, a3, a4, a5 : <<a1, a2, a3, a4, a5>>[1] = a1 /\ Len(<<a1, a2, a3, a4, a5>>) >= 1
      OBVIOUS
    <3> QED BY <3>1, <3>2, Zenon DEF LookupCourse
  <2>3. Course(k, given) = LookupCourse(given)
    BY <2>1, Courses
  <2> QED BY <1>5, <2>1, <2>2, <2>3, StepFields, RequestFields
<1>9. CASE at = "oversized"
  <2> DEFINE r == call([i \in 1 .. Capped + 1 |-> bearer(Invented[i])], hexH("oversized"))
  <2>1. k = 5 /\ Ask(r) /\ Course(k, given) = OversizedCourse
    BY <1>1, <1>9, AtPlace, Beginnings, Courses
  <2>2. Runs1(OversizedCourse, Refuses(r)) /\ r # Nothing
    BY Runs, RequestFields, Zenon DEF OversizedCourse
  <2> HIDE DEF r
  <2> QED BY <1>5, <2>1, <2>2, StepFields DEF Runs1
<1>10. CASE at = "noP1"
  <2>1. k = 6 /\ Ask(call(<<held>>, NoRef)) /\ held = Own(given)
    BY <1>1, <1>2, <1>10, AtPlace, <1>33, Beginnings DEF given
  <2>2. Runs1(NoP1Course(given), Refuses(call(<<Own(given)>>, NoRef)))
    BY Runs, Zenon DEF NoP1Course
  <2>3. Course(k, given) = NoP1Course(given)
    BY <2>1, Courses
  <2> QED BY <1>5, <2>1, <2>2, <2>3, StepFields, RequestFields DEF Runs1
<1>11. CASE at = "noP2"
  <2> DEFINE r == split(Own(given), IF Share > 1 THEN Share ELSE 1, hexH("one-output"), NoRef)
  <2>1. k = 7
    BY <1>1, <1>11, AtPlace
  <2>2. held = Own(given) /\ half = Share
    BY <1>2, <1>4, <2>1, <1>33 DEF given
  <2>3. Ask(r)
    BY <1>11, <2>2, Beginnings
  <2>4. Runs2(NoP2Course(given), Refuses(r), Shows(Own(given)))
    BY Runs, Zenon DEF NoP2Course
  <2>5. r # Nothing
    BY RequestFields
  <2>6. Course(k, given) = NoP2Course(given)
    BY <2>1, Courses
  <2> HIDE DEF r
  <2> QED BY <1>5, <2>3, <2>4, <2>5, <2>6, StepFields DEF Runs2
<1>12. CASE at = "rotate"
  <2>1. k = 8 /\ Ask(call(<<held>>, hexH("rotated"))) /\ held = Own(given)
    BY <1>1, <1>2, <1>12, AtPlace, <1>33, Beginnings DEF given
  <2>2. Runs3(RotateCourse(given), Swaps(<<Own(given)>>, hexH("rotated")), Shows(Rotated),
              InUse(lookup(Own(given))))
    BY Runs, Zenon DEF RotateCourse
  <2>3. Course(k, given) = RotateCourse(given)
    BY <2>1, Courses
  <2> QED BY <1>5, <2>1, <2>2, <2>3, StepFields, RequestFields DEF Runs3
<1>13. CASE at = "certified"
  <2>1. k = 9
    BY <1>1, <1>13, AtPlace
  <2>2. g.first = "verifies"
    BY <1>2, <2>1, <1>33
  <2>3. Verdict("pass")
    BY <1>13, <2>2, Beginnings
  <2> QED BY <1>6, <2>1, <2>3 DEF Onward, Trading
<1>14. CASE at = "spent"
  <2>1. k = 10
    BY <1>1, <1>14, AtPlace
  <2>2. g.offered = TRUE
    BY <1>2, <2>1, <1>33
  <2>3. Ask(lookupRef(cp1("given")))
    BY <1>3, <1>14, <2>2, Beginnings
  <2>4. Len(SpentCourse(given)) >= 1 /\ SpentCourse(given)[1] = InUse(lookupRef(cp1("given")))
    <3>1. \A a1, a2, a3 : <<a1, a2, a3>>[1] = a1 /\ Len(<<a1, a2, a3>>) >= 1
      OBVIOUS
    <3>2. \A a1, a2 : <<a1, a2>>[1] = a1 /\ Len(<<a1, a2>>) >= 1
      OBVIOUS
    <3> QED BY <3>1, <3>2, Zenon DEF SpentCourse
  <2>5. Course(k, given) = SpentCourse(given)
    BY <2>1, Courses
  <2> QED BY <1>5, <2>3, <2>4, <2>5, StepFields, RequestFields
<1>15. CASE at = "infoCert"
  <2>1. k = 11 /\ Ask(lookup(held)) /\ held = Rotated
    BY <1>1, <1>2, <1>15, AtPlace, <1>33, Beginnings
  <2>2. Course(k, given) = <<Shows(Rotated)>>
    BY <2>1, Courses
  <2>3. Runs1(Course(k, given), Shows(Rotated))
    BY <2>2, Runs
  <2> QED BY <1>5, <2>1, <2>3, StepFields, RequestFields DEF Runs1
<1>16. CASE at = "duplicate"
  <2> DEFINE r == call(<<Rotated, Rotated>>, hexH("duplicate-first"))
  <2>1. k = 12 /\ held = Rotated
    BY <1>1, <1>2, <1>16, AtPlace, <1>33
  <2>2. Twice[1] = <<held, held>>
    BY TwiceStarts
  <2>3. DuplicateOut(1) = hexH("duplicate-first")
    BY DEF DuplicateOut
  <2>4. Ask(r)
    BY <1>16, <2>1, <2>2, <2>3, Beginnings
  <2>5. Runs4(DuplicateCourse, Refuses(r), Shows(Rotated),
              Refuses(call(<<Rotated, Long(Rotated)>>, hexH("duplicate-second"))), Shows(Rotated))
    BY Runs, Zenon DEF DuplicateCourse
  <2>6. r # Nothing /\ Course(k, given) = DuplicateCourse
    BY <2>1, Courses, RequestFields
  <2> HIDE DEF r
  <2> QED BY <1>5, <2>4, <2>5, <2>6, StepFields DEF Runs4
<1>17. CASE at = "burnedP1"
  <2> DEFINE r == call(<<Rotated>>, cp1("given"))
  <2>1. k = 13 /\ held = Rotated
    BY <1>1, <1>2, <1>17, AtPlace, <1>33
  <2>2. Ask(r)
    BY <1>3, <1>17, <2>1, Beginnings
  <2>3. Len(BurnedP1Course(given)) >= 1 /\ BurnedP1Course(given)[1] = InUse(r)
    <3>1. \A a1, a2, a3, a4 : <<a1, a2, a3, a4>>[1] = a1 /\ Len(<<a1, a2, a3, a4>>) >= 1
      OBVIOUS
    <3>2. \A a1, a2 : <<a1, a2>>[1] = a1 /\ Len(<<a1, a2>>) >= 1
      OBVIOUS
    <3> QED BY <3>1, <3>2, Zenon DEF BurnedP1Course
  <2>4. r # Nothing /\ Course(k, given) = BurnedP1Course(given)
    BY <2>1, Courses, RequestFields
  <2> HIDE DEF r
  <2> QED BY <1>5, <2>2, <2>3, <2>4, StepFields
<1>18. CASE at = "twin"
  <2> DEFINE r == split(Rotated, Share, hexH("twin"), hexH("twin"))
  <2>1. k = 14 /\ held = Rotated
    BY <1>1, <1>2, <1>18, AtPlace, <1>33
  <2>2. Verdict("warn") \/ Ask(r)
    BY <1>4, <1>18, <2>1, Beginnings
  <2>3. Runs4(TwinCourse, Refuses(r), Shows(Rotated),
              Refuses(split(Rotated, Share, hexH("twin"), cp1("twin"))), Shows(Rotated))
    BY Runs, Zenon DEF TwinCourse
  <2>4. r # Nothing /\ Course(k, given) = TwinCourse
    BY <2>1, Courses, RequestFields
  <2>5. k \in Onward /\ k \notin Trading
    BY <2>1 DEF Onward, Trading
  <2> HIDE DEF r
  <2> QED BY <1>5, <1>6, <2>2, <2>3, <2>4, <2>5, StepFields DEF Runs4
<1>19. CASE at = "methods"
  <2> DEFINE r == ByMethod(Rotated, "by-POST")
  <2>1. k = 15 /\ held = Rotated
    BY <1>1, <1>2, <1>19, AtPlace, <1>33
  <2>2. Method(1) = r
    BY <2>1 DEF Method, MethodOut, ByMethod
  <2>3. Ask(r)
    BY <1>19, <2>2, Beginnings
  <2>4. MethodsCourse[1] = Refuses(r) /\ Len(MethodsCourse) >= 1
    <3>1. \A a1, a2, a3, a4, a5, a6 :
            <<a1, a2, a3, a4, a5, a6>>[1] = a1 /\ Len(<<a1, a2, a3, a4, a5, a6>>) >= 1
      OBVIOUS
    <3> QED BY <3>1, Zenon DEF MethodsCourse
  <2>5. r # Nothing /\ Course(k, given) = MethodsCourse
    BY <2>1, Courses, RequestFields
  <2> HIDE DEF r
  <2> QED BY <1>5, <2>3, <2>4, <2>5, StepFields
<1>20. CASE at = "shortFee"
  <2> DEFINE amount == Value - BaseFee + 1
             r == split(Rotated, amount, hexH("short"), hexH("short-change"))
  <2>1. k = 16 /\ held = Rotated /\ g.value = Value
    BY <1>1, <1>2, <1>20, AtPlace, <1>33
  <2>2. Verdict("warn") \/ (amount \in 1 .. Value - 1 /\ Ask(r))
    BY <1>20, <2>1, Beginnings
  <2>3. amount \in 1 .. Value - 1 => Runs2(ShortFeeCourse, Refuses(r), Shows(Rotated))
    BY Runs, Zenon DEF ShortFeeCourse
  <2>4. r # Nothing /\ Course(k, given) = ShortFeeCourse
    BY <2>1, Courses, RequestFields
  <2>5. k \in Onward /\ k \notin Trading
    BY <2>1 DEF Onward, Trading
  <2> HIDE DEF r, amount
  <2> QED BY <1>5, <1>6, <2>2, <2>3, <2>4, <2>5, StepFields DEF Runs2
<1>21. CASE at = "split"
  <2> DEFINE r == split(Rotated, Share, hexH("first-half"), hexH("second-half"))
  <2>1. k = 17 /\ held = Rotated /\ g.value = Value
    BY <1>1, <1>2, <1>21, AtPlace, <1>33
  <2>2. hexH(Half(1).q) = hexH("first-half") /\ hexH(Half(2).q) = hexH("second-half")
    <3>1. Half(1) = bearer("first-half") /\ Half(2) = bearer("second-half")
      BY DEF Half
    <3> QED BY <3>1, Names
  <2>3. half = Share
    BY <1>4, <2>1
  <2>4. IF Share < 1 \/ (g.feeKnown /\ Value - Share < BaseFee + 1) THEN Verdict("warn") ELSE Ask(r)
    BY <1>21, <2>1, <2>2, <2>3, Beginnings
  <2>5. r # Nothing /\ Course(k, given) = SplitCourse
    BY <2>1, Courses, RequestFields
  <2>6. CASE Ask(r)
    <3>1. Len(SplitCourse) >= 1 /\ SplitCourse[1].ask = r
      <4>1. \A a1, a2, a3, a4, a5 : <<a1, a2, a3, a4, a5>>[1] = a1 /\ Len(<<a1, a2, a3, a4, a5>>) >= 1
        OBVIOUS
      <4>2. \A a1 : <<a1>>[1] = a1 /\ Len(<<a1>>) >= 1
        OBVIOUS
      <4>3. /\ Len(SplitCourse) >= 1
            /\ \/ SplitCourse[1] = Step(r, Divided("first-half", Share, "second-half", Rest))
               \/ SplitCourse[1] = Refuses(r)
        BY <4>1, <4>2, Zenon DEF SplitCourse
      <4> HIDE DEF r
      <4> QED BY <4>3, StepFields
    <3> HIDE DEF r
    <3> QED BY <1>5, <2>5, <2>6, <3>1
  <2>7. CASE Share < 1 \/ (g.feeKnown /\ Value - Share < BaseFee + 1)
    <3>1. Verdict("warn")
      BY <2>4, <2>7
    <3>2. ~Roomy
      BY <2>7, Money DEF Roomy, Rest, Share
    <3>3. Through(17, Len(log))
      BY <3>2 DEF Through
    <3>4. held = Rotated /\ Memory(held, g, 18, 0)
      <4>1. AfterSplit = Rotated
        BY <3>2 DEF AfterSplit, Rotated
      <4>2. HeldIn(3, g.given) = AfterSplit /\ Era(18) = 3
        BY DEF HeldIn, Era
      <4>3. Holds(18, 0, g.given) = AfterSplit
        BY <4>2 DEF Holds
      <4>4. Memory(held, g, 17, 0)
        BY <1>2, <2>1
      <4> HIDE DEF Holds
      <4> QED BY <2>1, <4>1, <4>3, <4>4 DEF Memory
    <3>5. Memory(held', g', 18, 0) /\ g'.given = g.given /\ g'.feeKnown = g.feeKnown
      BY <1>1, <3>4 DEF Keep
    <3> QED BY <2>1, <3>1, <3>3, <3>5, Passes
  <2> QED BY <2>4, <2>6, <2>7
<1>22. CASE at = "retry"
  <2>1. k = 18 /\ Ask(call(<<held>>, hexH("retried"))) /\ held = AfterSplit
    BY <1>1, <1>2, <1>22, AtPlace, <1>33, Beginnings
  <2>2. Len(RetryCourse) >= 1 /\ RetryCourse[1] = Again(AfterSplit, hexH("retried"))
    <3> QED BY RetryRuns DEF Runs9, Runs16
  <2>3. Again(AfterSplit, hexH("retried")) = Swaps(<<AfterSplit>>, hexH("retried"))
    BY DEF Again
  <2>4. Course(k, given) = RetryCourse
    BY <2>1, Courses
  <2> QED BY <1>5, <2>1, <2>2, <2>3, <2>4, StepFields, RequestFields
<1>23. CASE at = "replayedBurn"
  <2> DEFINE r == call(<<Own(given)>>, hexH("replayed-first"))
  <2>1. k = 19 /\ Ask(call(<<k1>>, ReplayedOut(1)))
    BY <1>1, <1>23, AtPlace, Beginnings
  <2>2. ReplayedOut(1) = hexH("replayed-first")
    BY DEF ReplayedOut
  <2>3. Runs2(ReplayedBurnCourse(given), InUse(r),
              InUse(call(<<Long(Own(given))>>, hexH("replayed-second"))))
    BY Runs, Zenon DEF ReplayedBurnCourse
  <2>4. r # Nothing /\ Course(k, given) = ReplayedBurnCourse(given) /\ Ask(r)
    BY <1>3, <2>1, <2>2, Courses, RequestFields
  <2> HIDE DEF r
  <2> QED BY <1>5, <2>3, <2>4, StepFields DEF Runs2
<1>24. CASE at = "fullCw1"
  <2>1. k = 20 /\ held = AfterRetry
    BY <1>1, <1>2, <1>24, AtPlace, <1>33
  <2>2. held.how = "preimage"
    BY <2>1, Names DEF AfterRetry
  <2>3. Ask(lookup(AfterRetry))
    BY <1>24, <2>1, <2>2, Beginnings
  <2>4. Runs4(FullCw1Course, Shows(AfterRetry), Shows(Long(AfterRetry)),
              Swaps(<<Long(AfterRetry)>>, cp1("tree")), Shows(SpendBy("tree", "leaf")))
    BY Runs, Zenon DEF FullCw1Course
  <2>5. Course(k, given) = FullCw1Course
    BY <2>1, Courses
  <2> QED BY <1>5, <2>3, <2>4, <2>5, StepFields, RequestFields DEF Runs4
<1>25. CASE at \in Probes
  <2>1. k \in 21 .. 26
    BY <1>1, <1>25, AtPlace
  <2>2. g.tree # 0
    BY <1>2, <2>1, <1>33, Money
  <2> DEFINE r == lookup(SpendBy("tree", at))
  <2>3. Ask(r)
    BY <1>25, <2>2, Beginnings DEF Leaf
  <2>4. Runs3(ProbeCourse(at), Refuses(r), Refuses(call(<<SpendBy("tree", at)>>, hexH(at))),
              Step(lookupRef(cp1("tree")), Named("tree", Value)))
    BY Runs, Zenon DEF ProbeCourse
  <2>5. r # Nothing /\ Course(k, given) = ProbeCourse(at)
    BY <1>2, <2>1, Courses, RequestFields
  <2> HIDE DEF r
  <2> QED BY <1>5, <2>3, <2>4, <2>5, StepFields DEF Runs3
<1>26. CASE at = "past"
  <2>1. k = 27
    BY <1>1, <1>26, AtPlace
  <2>2. g.tree # 0
    BY <1>2, <2>1, <1>33, Money
  <2>3. Ask(lookup(SpendBy("tree", "past")))
    BY <1>26, <2>2, Beginnings DEF Leaf
  <2>4. Runs2(PastCourse, Shows(SpendBy("tree", "past")),
              Swaps(<<SpendBy("tree", "past")>>, hexH(Back.q)))
    BY Runs, Zenon DEF PastCourse
  <2>5. Course(k, given) = PastCourse
    BY <2>1, Courses
  <2> QED BY <1>5, <2>3, <2>4, <2>5, StepFields, RequestFields DEF Runs2
<1>27. CASE at = "keyNote"
  <2>1. k = 28 /\ Ask(lookup(held)) /\ held = Back
    BY <1>1, <1>2, <1>27, AtPlace, <1>33, Beginnings
  <2>2. Runs2(KeyNoteCourse, Shows(Back), Swaps(<<Back>>, cp1("key")))
    BY Runs, Zenon DEF KeyNoteCourse
  <2>3. Course(k, given) = KeyNoteCourse
    BY <2>1, Courses
  <2> QED BY <1>5, <2>1, <2>2, <2>3, StepFields, RequestFields DEF Runs2
<1>28. CASE at = "forged"
  <2>1. k = 29
    BY <1>1, <1>28, AtPlace
  <2>2. g.keyed # 0
    BY <1>2, <2>1, <1>33, Money
  <2>3. Ask(lookup(SpendBy("key", "elsewhere")))
    BY <1>28, <2>2, Beginnings DEF KeyNote
  <2>4. Runs2(ForgedCourse, Refuses(lookup(SpendBy("key", "elsewhere"))),
              Refuses(lookup(SpendBy("key", "forged"))))
    BY Runs, Zenon DEF ForgedCourse
  <2>5. Course(k, given) = ForgedCourse
    BY <2>1, Courses
  <2> QED BY <1>5, <2>3, <2>4, <2>5, StepFields, RequestFields DEF Runs2
<1>29. CASE at = "elsewhere"
  <2> DEFINE r == call(<<SpendBy("key", "elsewhere")>>, hexH("elsewhere"))
  <2>1. k = 30
    BY <1>1, <1>29, AtPlace
  <2>2. g.keyed # 0
    BY <1>2, <2>1, <1>33, Money
  <2>3. Ask(r)
    BY <1>29, <2>2, Beginnings DEF KeyNote
  <2>4. Runs2(ElsewhereCourse, Refuses(r), Shows(SpendBy("key", "ck1")))
    BY Runs, Zenon DEF ElsewhereCourse
  <2>5. r # Nothing /\ Course(k, given) = ElsewhereCourse
    BY <2>1, Courses, RequestFields
  <2> HIDE DEF r
  <2> QED BY <1>5, <2>3, <2>4, <2>5, StepFields DEF Runs2
<1>30. CASE at = "keySpend"
  <2>1. k = 31
    BY <1>1, <1>30, AtPlace
  <2>2. g.keyed # 0
    BY <1>2, <2>1, <1>33, Money
  <2>3. Ask(lookup(SpendBy("key", "ck1")))
    BY <1>30, <2>2, Beginnings DEF KeyNote
  <2>4. Runs2(KeySpendCourse, Shows(SpendBy("key", "ck1")),
              Swaps(<<SpendBy("key", "ck1")>>, hexH("home-by-key")))
    BY Runs, Zenon DEF KeySpendCourse
  <2>5. Course(k, given) = KeySpendCourse
    BY <2>1, Courses
  <2> QED BY <1>5, <2>3, <2>4, <2>5, StepFields, RequestFields DEF Runs2
<1>31. CASE at = "certificates"
  <2>1. k = 32
    BY <1>1, <1>31, AtPlace
  <2>2. "wrong" \notin g.certs /\ "missing" \notin g.certs
    BY <1>2, <1>33
  <2>3. Verdict("pass")
    BY <1>31, <2>2, Beginnings
  <2> QED BY <1>6, <2>1, <2>3 DEF Onward, Trading
<1>32. at \in {"echo", "idempotent", "amount", "lookup", "oversized", "noP1", "noP2", "rotate",
               "certified", "spent", "infoCert", "duplicate", "burnedP1", "twin", "methods",
               "shortFee", "split", "retry", "replayedBurn", "fullCw1", "past", "keyNote",
               "forged", "elsewhere", "keySpend", "certificates"} \cup Probes
  <2>1. \/ k = 1 \/ k = 2 \/ k = 3 \/ k = 4 \/ k = 5 \/ k = 6 \/ k = 7 \/ k = 8
        \/ k = 9 \/ k = 10 \/ k = 11 \/ k = 12 \/ k = 13 \/ k = 14 \/ k = 15 \/ k = 16
        \/ k = 17 \/ k = 18 \/ k = 19 \/ k = 20 \/ k = 21 \/ k = 22 \/ k = 23 \/ k = 24
        \/ k = 25 \/ k = 26 \/ k = 27 \/ k = 28 \/ k = 29 \/ k = 30 \/ k = 31 \/ k = 32
    BY <1>2
  <2> QED BY <1>2, <2>1, Places DEF Probes
<1> QED BY <1>7, <1>8, <1>9, <1>10, <1>11, <1>12, <1>13, <1>14, <1>15, <1>16, <1>17, <1>18,
           <1>19, <1>20, <1>21, <1>22, <1>23, <1>24, <1>25, <1>26, <1>27, <1>28, <1>29,
           <1>30, <1>31, <1>32

\* What every check that reads an answer knows.
InHand(s, m, k) ==
  /\ k \in 1 .. 8 => s = Own(m.given)
  /\ k \in 9 .. 17 => s = Rotated
  /\ k = 18 => s = AfterSplit
  /\ k \in 19 .. 20 => s = AfterRetry
  /\ k \in 21 .. 27 => s = SpendBy("tree", "leaf")
  /\ k = 28 => s = Back
  /\ k \in 29 .. 31 => s = SpendBy("key", "ck1")
  /\ k > 1 => m.value = Value
  /\ k > 4 => m.offered = TRUE
  /\ k > 8 => m.first = "verifies"
  /\ k \in 21 .. 27 => m.tree = Value
  /\ k \in 29 .. 31 => m.keyed = Value
  /\ m.certs \subseteq {"verifies"}

\* A check that reads an answer has one, and what it remembers is of the
\* answers before it.
LEMMA Reader ==
  ASSUME NEW k, Underway(k), ask = Nothing, n > 0, at # "done"
  PROVE  /\ k \in 1 .. 32 /\ g.given \in Givens /\ fault = "none"
         /\ n \in Nat /\ n >= 1 /\ n = Len(log) /\ body = log[n] /\ n - 1 \in Nat
         /\ n <= Len(Course(k, g.given))
         /\ Memory(held, g, k, n - 1)
         /\ k \notin {8, 17, 18, 20} => InHand(held, g, k) /\ Memory(held, g, k, 0)
<1>1. /\ g.given \in Givens /\ n = Len(log) /\ n \in Nat /\ Memory(held, g, k, n - 1)
      /\ body = log[n] /\ n \in 1 .. Len(log) /\ n <= Len(Course(k, g.given))
  BY Recalls
<1>2. k \in 1 .. 32 /\ k \in 1 .. 33 /\ fault = "none"
  BY AtPlace DEF Underway
<1>3. n >= 1 /\ n - 1 \in Nat
  BY <1>1
<1>4. ASSUME k \notin {8, 17, 18, 20} PROVE InHand(held, g, k) /\ Memory(held, g, k, 0)
  <2>1. Memory(held, g, k, 0)
    BY <1>1, <1>2, <1>3, <1>4, Minds
  <2> QED BY <1>2, <2>1, Hands DEF InHand
<1> QED BY <1>1, <1>2, <1>3, <1>4

\* The two ways on, for a check that reads without changing anything.
LEMMA ReadsToTheEnd ==
  ASSUME NEW k, Underway(k), ask = Nothing, n > 0, at # "done", k \in Onward, k \notin Trading,
         Keep, NEW verdict, Verdict(verdict), verdict # "fail"
  PROVE  Proceeds(k)
BY Reader, PassesAsItIs

\* Or it asks for more.
LEMMA ReadsOn ==
  ASSUME NEW k, Underway(k), ask = Nothing, n > 0, at # "done", k \notin {4, 8, 17, 18, 20},
         Keep, NEW r, Ask(r), r # Nothing, NEW step, n < Len(Course(k, g.given)),
         Course(k, g.given)[n + 1] = step, step.ask = r
  PROVE  Proceeds(k)
<1>1. /\ k \in 1 .. 32 /\ n \in Nat /\ n = Len(log) /\ n - 1 \in Nat /\ Memory(held, g, k, n - 1)
  BY Reader
<1>2. /\ Len(log) \in Nat /\ Len(log) < Len(Course(k, g.given))
      /\ Course(k, g.given)[Len(log) + 1] = step
  BY <1>1
<1> QED BY <1>1, <1>2, AsksAsItIs

\* The informational GET again, and with a lying amount.
LEMMA SameValueProceeds ==
  ASSUME NEW k, Underway(k), SameValue PROVE Proceeds(k)
<1>1. k \in 2 .. 3 /\ ask = Nothing /\ n > 0 /\ at # "done" /\ Keep /\ Judged(worth(body, g.value))
  BY AtPlace DEF SameValue, Reading
<1>12. /\ n \in Nat /\ n >= 1 /\ n = Len(log) /\ body = log[n] /\ n <= Len(Course(k, g.given))
       /\ InHand(held, g, k) /\ fault = "none" /\ g.given \in Givens
  BY <1>1, Reader
<1>2. Runs1(Course(k, g.given), Shows(Own(g.given)))
  <2>1. Course(k, g.given) = EchoCourse(g.given)
    <3>1. k \in 1 .. 3
      BY <1>1
    <3> QED BY <3>1, Courses
  <2>2. Runs1(EchoCourse(g.given), Shows(Own(g.given)))
    BY Runs, Zenon DEF EchoCourse
  <2> QED BY <2>1, <2>2
<1>3. n = 1 /\ n = Len(log) /\ body = log[1] /\ g.value = Value
  BY <1>1, <1>2, <1>12 DEF Runs1, InHand
<1>4. body = Shown(Own(g.given), Value)
  BY <1>2, <1>3, Hears DEF Runs1
<1>5. worth(body, g.value)
  BY <1>3, <1>4, AnswerFields DEF worth
<1>6. Verdict("pass")
  BY <1>1, <1>5 DEF Judged
<1> QED BY <1>1, <1>6, ReadsToTheEnd DEF Onward, Trading

\* More spends than the cap.
LEMMA OversizedProceeds ==
  ASSUME NEW k, Underway(k), Oversized PROVE Proceeds(k)
<1>1. k = 5 /\ ask = Nothing /\ n > 0 /\ at # "done" /\ Keep /\ Judged(~OK)
  BY AtPlace DEF Oversized, Reading
<1> DEFINE r == call([i \in 1 .. Capped + 1 |-> bearer(Invented[i])], hexH("oversized"))
<1>12. /\ n \in Nat /\ n >= 1 /\ n = Len(log) /\ body = log[n] /\ n <= Len(Course(k, g.given))
       /\ InHand(held, g, k) /\ fault = "none" /\ g.given \in Givens
  BY <1>1, Reader
<1>2. Runs1(Course(k, g.given), Refuses(r))
  <2>1. Runs1(OversizedCourse, Refuses(r))
    BY Runs, Zenon DEF OversizedCourse
  <2> QED BY <1>1, <2>1, Courses
<1> HIDE DEF r
<1>3. n = 1 /\ n = Len(log) /\ body = log[1]
  BY <1>2, <1>12 DEF Runs1
<1>4. body.status = "ERROR"
  BY <1>2, <1>3, Hears DEF Runs1
<1>5. Verdict("pass")
  BY <1>1, <1>4 DEF Judged, OK
<1> QED BY <1>1, <1>5, ReadsToTheEnd DEF Onward, Trading

\* No output.
LEMMA NoP1Proceeds ==
  ASSUME NEW k, Underway(k), NoP1 PROVE Proceeds(k)
<1>1. k = 6 /\ ask = Nothing /\ n > 0 /\ at # "done" /\ Keep /\ Judged(refused)
  BY AtPlace DEF NoP1, Reading
<1> DEFINE r == call(<<Own(g.given)>>, NoRef)
<1>12. /\ n \in Nat /\ n >= 1 /\ n = Len(log) /\ body = log[n] /\ n <= Len(Course(k, g.given))
       /\ InHand(held, g, k) /\ fault = "none" /\ g.given \in Givens
  BY <1>1, Reader
<1>2. Runs1(Course(k, g.given), Refuses(r))
  <2>1. Runs1(NoP1Course(g.given), Refuses(r))
    BY Runs, Zenon DEF NoP1Course
  <2> QED BY <1>1, <2>1, Courses
<1> HIDE DEF r
<1>3. n = 1 /\ n = Len(log) /\ body = log[1]
  BY <1>2, <1>12 DEF Runs1
<1>4. body.status = "ERROR"
  BY <1>2, <1>3, Hears DEF Runs1
<1>5. Verdict("pass")
  BY <1>1, <1>4 DEF Judged, refused
<1> QED BY <1>1, <1>5, ReadsToTheEnd DEF Onward, Trading

\* A split with one output.
LEMMA NoP2Proceeds ==
  ASSUME NEW k, Underway(k), NoP2 PROVE Proceeds(k)
<1>1. /\ k = 7 /\ ask = Nothing /\ n > 0 /\ at # "done" /\ Keep
      /\ IF n = 1 THEN Provided(refused, lookup(held)) ELSE Judged(~refused)
  BY AtPlace DEF NoP2, Reading
<1> DEFINE r == split(Own(g.given), IF Share > 1 THEN Share ELSE 1, hexH("one-output"), NoRef)
<1>12. /\ n \in Nat /\ n >= 1 /\ n = Len(log) /\ body = log[n] /\ n <= Len(Course(k, g.given))
       /\ InHand(held, g, k) /\ fault = "none" /\ g.given \in Givens
  BY <1>1, Reader
<1>2. Runs2(Course(k, g.given), Refuses(r), Shows(Own(g.given)))
  <2>1. Runs2(NoP2Course(g.given), Refuses(r), Shows(Own(g.given)))
    BY Runs, Zenon DEF NoP2Course
  <2> QED BY <1>1, <2>1, Courses
<1> HIDE DEF r
<1>3. n \in 1 .. 2 /\ n = Len(log) /\ body = log[n] /\ held = Own(g.given)
  <2>1. n \in 1 .. 2 /\ n = Len(log) /\ body = log[n]
    BY <1>2, <1>12 DEF Runs2
  <2>2. held = Own(g.given)
    BY <1>1, <1>12 DEF InHand
  <2> QED BY <2>1, <2>2
<1>4. CASE n = 1
  <2>1. body.status = "ERROR"
    BY <1>2, <1>3, <1>4, Hears DEF Runs2
  <2>2. Ask(lookup(Own(g.given)))
    BY <1>1, <1>3, <1>4, <2>1 DEF Provided, refused
  <2> QED BY <1>1, <1>2, <1>4, <2>2, ReadsOn, StepFields, RequestFields DEF Runs2
<1>5. CASE n = 2
  <2>1. body = Shown(Own(g.given), Value)
    BY <1>2, <1>3, <1>5, Hears DEF Runs2
  <2>2. Verdict("pass")
    BY <1>1, <1>5, <2>1, AnswerFields DEF Judged, refused
  <2> QED BY <1>1, <2>2, ReadsToTheEnd DEF Onward, Trading
<1> QED BY <1>3, <1>4, <1>5

\* The certificate of the informational GET.
LEMMA InfoCertificateProceeds ==
  ASSUME NEW k, Underway(k), InfoCertificate PROVE Proceeds(k)
<1> DEFINE verdict == judgeCertificate(body.c, held.q, body.value)
<1>1. /\ k = 11 /\ ask = Nothing /\ n > 0 /\ at # "done" /\ Keep
      /\ IF refused \/ verdict = "wrong" THEN Verdict("fail")
         ELSE Verdict(IF verdict = "missing" /\ body.legacy THEN "warn" ELSE "pass")
  BY AtPlace, Zenon DEF InfoCertificate, Reading
<1>12. /\ n \in Nat /\ n >= 1 /\ n = Len(log) /\ body = log[n] /\ n <= Len(Course(k, g.given))
       /\ InHand(held, g, k) /\ fault = "none" /\ g.given \in Givens
  BY <1>1, Reader
<1>2. Runs1(Course(k, g.given), Shows(Rotated))
  <2>1. Course(k, g.given) = <<Shows(Rotated)>>
    BY <1>1, <1>12, Courses
  <2> QED BY <2>1, Runs
<1>3. n = 1 /\ n = Len(log) /\ body = log[1] /\ held = Rotated
  <2>1. n = 1 /\ n = Len(log) /\ body = log[1]
    BY <1>2, <1>12 DEF Runs1
  <2>2. held = Rotated
    BY <1>1, <1>12 DEF InHand
  <2> QED BY <2>1, <2>2
<1>4. body = Shown(Rotated, Value)
  BY <1>2, <1>3, Hears DEF Runs1
<1>5. ~refused /\ verdict = "verifies"
  <2>1. body.status = "withdrawRequest" /\ body.value = Value /\ body.c = Good(Rotated.q, Value)
    BY <1>4, AnswerFields
  <2> QED BY <1>3, <2>1, HonestCertificates DEF refused, Underway
<1> HIDE DEF verdict
<1>6. Verdict("pass")
  BY <1>1, <1>5
<1> QED BY <1>1, <1>6, ReadsToTheEnd DEF Onward, Trading

\* A split that pays less than the fee.
LEMMA ShortFeeProceeds ==
  ASSUME NEW k, Underway(k), ShortFee PROVE Proceeds(k)
<1>1. /\ k = 16 /\ ask = Nothing /\ n > 0 /\ at # "done" /\ Keep
      /\ IF n = 1 THEN Provided(refused, lookup(held)) ELSE Judged(worth(body, g.value))
  BY AtPlace DEF ShortFee, Reading
<1> DEFINE amount == Value - BaseFee + 1
           r == split(Rotated, amount, hexH("short"), hexH("short-change"))
<1>12. /\ n \in Nat /\ n >= 1 /\ n = Len(log) /\ body = log[n] /\ n <= Len(Course(k, g.given))
       /\ InHand(held, g, k) /\ fault = "none" /\ g.given \in Givens
  BY <1>1, Reader
<1>2. Course(k, g.given) = ShortFeeCourse
  BY <1>1, <1>12, Courses
<1>3. n >= 1 /\ n <= Len(ShortFeeCourse) /\ n = Len(log) /\ body = log[n]
      /\ held = Rotated /\ g.value = Value /\ n \in Nat
  BY <1>1, <1>2, <1>12 DEF InHand
<1>4. Runs2(ShortFeeCourse, Refuses(r), Shows(Rotated))
  <2>1. amount \in 1 .. Value - 1 => Runs2(ShortFeeCourse, Refuses(r), Shows(Rotated))
    BY Runs, Zenon DEF ShortFeeCourse
  <2>2. amount \notin 1 .. Value - 1 => ShortFeeCourse = << >>
    BY Zenon DEF ShortFeeCourse
  <2> HIDE DEF r, amount
  <2>3. Len(<< >>) = 0
    OBVIOUS
  <2> QED BY <1>3, <2>1, <2>2, <2>3
<1> HIDE DEF r
<1>5. n \in 1 .. 2
  BY <1>3, <1>4 DEF Runs2
<1>6. CASE n = 1
  <2>1. body.status = "ERROR"
    BY <1>2, <1>3, <1>4, <1>6, Hears DEF Runs2
  <2>2. Ask(lookup(Rotated))
    BY <1>1, <1>3, <1>6, <2>1 DEF Provided, refused
  <2>3. lookup(Rotated) # Nothing /\ Shows(Rotated).ask = lookup(Rotated)
    BY StepFields, RequestFields
  <2>4. Len(Course(k, g.given)) = 2 /\ Course(k, g.given)[2] = Shows(Rotated)
    BY <1>2, <1>4 DEF Runs2
  <2>5. n < Len(Course(k, g.given)) /\ Course(k, g.given)[n + 1] = Shows(Rotated)
    BY <1>6, <2>4
  <2> HIDE DEF amount
  <2> QED BY <1>1, <2>2, <2>3, <2>5, ReadsOn
<1>7. CASE n = 2
  <2>1. body = Shown(Rotated, Value)
    BY <1>2, <1>3, <1>4, <1>7, Hears DEF Runs2
  <2>2. Verdict("pass")
    BY <1>1, <1>3, <1>7, <2>1, AnswerFields DEF Judged, worth
  <2> QED BY <1>1, <2>2, ReadsToTheEnd DEF Onward, Trading
<1> QED BY <1>5, <1>6, <1>7

\* The forged signatures.
LEMMA ForgedProceeds ==
  ASSUME NEW k, Underway(k), Forged PROVE Proceeds(k)
<1>1. /\ k = 29 /\ ask = Nothing /\ n > 0 /\ at # "done" /\ Keep
      /\ IF n = 1 THEN Provided(refused, lookup(KeyNote("forged"))) ELSE Judged(refused)
  BY AtPlace DEF Forged, Reading
<1>12. /\ n \in Nat /\ n >= 1 /\ n = Len(log) /\ body = log[n] /\ n <= Len(Course(k, g.given))
       /\ InHand(held, g, k) /\ fault = "none" /\ g.given \in Givens
  BY <1>1, Reader
<1>2. Runs2(Course(k, g.given), Refuses(lookup(SpendBy("key", "elsewhere"))),
            Refuses(lookup(SpendBy("key", "forged"))))
  <2>1. Runs2(ForgedCourse, Refuses(lookup(SpendBy("key", "elsewhere"))),
              Refuses(lookup(SpendBy("key", "forged"))))
    BY Runs, Zenon DEF ForgedCourse
  <2> QED BY <1>1, <2>1, Courses
<1>3. n \in 1 .. 2 /\ n = Len(log) /\ body = log[n]
  BY <1>2, <1>12 DEF Runs2
<1>4. body.status = "ERROR"
  BY <1>2, <1>3, Hears DEF Runs2
<1>5. n = 1 => Ask(lookup(SpendBy("key", "forged")))
  BY <1>1, <1>4 DEF Provided, refused, KeyNote
<1>6. n = 2 => Verdict("pass")
  BY <1>1, <1>4 DEF Judged, refused
<1>7. CASE n = 1
  BY <1>1, <1>2, <1>5, <1>7, ReadsOn, StepFields, RequestFields DEF Runs2
<1>8. CASE n = 2
  BY <1>1, <1>6, <1>8, ReadsToTheEnd DEF Onward, Trading
<1> QED BY <1>3, <1>7, <1>8

\* The signature for another mint.
LEMMA ElsewhereProceeds ==
  ASSUME NEW k, Underway(k), Elsewhere PROVE Proceeds(k)
<1>1. k = 30 /\ ask = Nothing /\ n > 0 /\ at # "done"
  BY AtPlace DEF Elsewhere, Reading
<1> DEFINE r == call(<<SpendBy("key", "elsewhere")>>, hexH("elsewhere"))
<1>12. /\ n \in Nat /\ n >= 1 /\ n = Len(log) /\ body = log[n] /\ n <= Len(Course(k, g.given))
       /\ InHand(held, g, k) /\ fault = "none" /\ g.given \in Givens
  BY <1>1, Reader
<1>2. Runs2(Course(k, g.given), Refuses(r), Shows(SpendBy("key", "ck1")))
  <2>1. Runs2(ElsewhereCourse, Refuses(r), Shows(SpendBy("key", "ck1")))
    BY Runs, Zenon DEF ElsewhereCourse
  <2> QED BY <1>1, <2>1, Courses
<1> HIDE DEF r
<1>3. n \in 1 .. 2 /\ n = Len(log) /\ body = log[n]
  BY <1>2, <1>12 DEF Runs2
<1>4. CASE n = 1
  <2>1. body.status = "ERROR"
    BY <1>2, <1>3, <1>4, Hears DEF Runs2
  <2>2. ~OK
    BY <2>1 DEF OK
  <2>3. Keep /\ Ask(lookup(KeyNote("ck1")))
    BY <1>4, <2>2 DEF Elsewhere
  <2>4. Ask(lookup(SpendBy("key", "ck1")))
    BY <2>3 DEF KeyNote
  <2> QED BY <1>1, <1>2, <1>4, <2>3, <2>4, ReadsOn, StepFields, RequestFields DEF Runs2
<1>5. CASE n = 2
  <2>1. body = Shown(SpendBy("key", "ck1"), Value)
    BY <1>2, <1>3, <1>5, Hears DEF Runs2
  <2>2. Keep /\ Judged(~refused)
    BY <1>5 DEF Elsewhere
  <2>3. Verdict("pass")
    BY <2>1, <2>2, AnswerFields DEF Judged, refused
  <2> QED BY <1>1, <2>2, <2>3, ReadsToTheEnd DEF Onward, Trading
<1> QED BY <1>3, <1>4, <1>5

\* The lookup of the spent note.
LEMMA SpentProceeds ==
  ASSUME NEW k, Underway(k), Spent PROVE Proceeds(k)
<1>1. k = 10 /\ ask = Nothing /\ n > 0 /\ at # "done"
  <2>1. Reading("spent")
    BY Zenon DEF Spent
  <2> QED BY <2>1, AtPlace DEF Reading
<1>2. /\ n \in Nat /\ n >= 1 /\ n = Len(log) /\ body = log[n] /\ n <= Len(Course(k, g.given))
      /\ InHand(held, g, k) /\ fault = "none" /\ g.given \in Givens
  BY <1>1, Reader
<1>3. /\ Keep
      /\ IF n <= Len(originalRefs)
         THEN Provided(refused /\ body.reason = AlreadyInUse,
                       lookupRef(IF n < Len(originalRefs) THEN originalRefs[n + 1]
                                 ELSE hexH("nobody-either")))
         ELSE Judged(refused /\ body.reason = UnknownNote)
  BY Zenon DEF Spent
<1> DEFINE nobody == lookupRef(hexH("nobody-either"))
<1>4. Course(k, g.given) = SpentCourse(g.given)
  BY <1>1, Courses
<1>5. nobody # Nothing /\ lookupRef(hexH("given")) # Nothing
  BY RequestFields
<1>6. CASE g.given = "preimage"
  <2>1. Runs3(SpentCourse(g.given), InUse(lookupRef(cp1("given"))),
              InUse(lookupRef(hexH("given"))), NotKnown(nobody))
    BY <1>6, Runs, Zenon DEF SpentCourse
  <2>2. Len(originalRefs) = 2 /\ originalRefs[2] = hexH("given")
    BY <1>2, <1>6, OriginalRefs
  <2> HIDE DEF nobody
  <2>3. n \in 1 .. 3
    BY <1>2, <1>4, <2>1 DEF Runs3
  <2>4. CASE n = 1
    <3>1. body = fail(AlreadyInUse)
      BY <1>2, <1>4, <2>1, <2>4, Hears DEF Runs3
    <3>2. Ask(lookupRef(hexH("given")))
      BY <1>3, <2>2, <2>4, <3>1, AnswerFields DEF Provided, refused
    <3> QED BY <1>1, <1>3, <1>4, <1>5, <2>1, <2>4, <3>2, ReadsOn, StepFields DEF Runs3
  <2>5. CASE n = 2
    <3>1. body = fail(AlreadyInUse)
      BY <1>2, <1>4, <2>1, <2>5, Hears DEF Runs3
    <3>2. Ask(nobody)
      BY <1>3, <2>2, <2>5, <3>1, AnswerFields DEF Provided, refused, nobody
    <3> QED BY <1>1, <1>3, <1>4, <1>5, <2>1, <2>5, <3>2, ReadsOn, StepFields DEF Runs3
  <2>6. CASE n = 3
    <3>1. body = fail(UnknownNote)
      BY <1>2, <1>4, <2>1, <2>6, Hears DEF Runs3
    <3>2. Verdict("pass")
      BY <1>3, <2>2, <2>6, <3>1, AnswerFields DEF Judged, refused
    <3> QED BY <1>1, <1>3, <3>2, ReadsToTheEnd DEF Onward, Trading
  <2> QED BY <2>3, <2>4, <2>5, <2>6
<1>7. CASE g.given # "preimage"
  <2>1. Runs2(SpentCourse(g.given), InUse(lookupRef(cp1("given"))), NotKnown(nobody))
    BY <1>7, Runs, Zenon DEF SpentCourse
  <2>2. Len(originalRefs) = 1
    BY <1>2, <1>7, OriginalRefs
  <2> HIDE DEF nobody
  <2>3. n \in 1 .. 2
    BY <1>2, <1>4, <2>1 DEF Runs2
  <2>4. CASE n = 1
    <3>1. body = fail(AlreadyInUse)
      BY <1>2, <1>4, <2>1, <2>4, Hears DEF Runs2
    <3>2. Ask(nobody)
      BY <1>3, <2>2, <2>4, <3>1, AnswerFields DEF Provided, refused, nobody
    <3> QED BY <1>1, <1>3, <1>4, <1>5, <2>1, <2>4, <3>2, ReadsOn, StepFields DEF Runs2
  <2>5. CASE n = 2
    <3>1. body = fail(UnknownNote)
      BY <1>2, <1>4, <2>1, <2>5, Hears DEF Runs2
    <3>2. Verdict("pass")
      BY <1>3, <2>2, <2>5, <3>1, AnswerFields DEF Judged, refused
    <3> QED BY <1>1, <1>3, <3>2, ReadsToTheEnd DEF Onward, Trading
  <2> QED BY <2>3, <2>4, <2>5
<1> QED BY <1>6, <1>7

\* One note named twice.
LEMMA DuplicateProceeds ==
  ASSUME NEW k, Underway(k), Duplicate PROVE Proceeds(k)
<1>1. k = 12 /\ ask = Nothing /\ n > 0 /\ at # "done"
  <2>1. Reading("duplicate")
    BY Zenon DEF Duplicate
  <2> QED BY <2>1, AtPlace DEF Reading
<1>2. /\ n \in Nat /\ n >= 1 /\ n = Len(log) /\ body = log[n] /\ n <= Len(Course(k, g.given))
      /\ InHand(held, g, k) /\ fault = "none" /\ g.given \in Givens
  BY <1>1, Reader
<1> DEFINE first == call(<<Rotated, Rotated>>, hexH("duplicate-first"))
           second == call(<<Rotated, Long(Rotated)>>, hexH("duplicate-second"))
<1>3. Runs4(Course(k, g.given), Refuses(first), Shows(Rotated), Refuses(second), Shows(Rotated))
  <2>1. Runs4(DuplicateCourse, Refuses(first), Shows(Rotated), Refuses(second), Shows(Rotated))
    BY Runs, Zenon DEF DuplicateCourse
  <2> QED BY <1>1, <2>1, Courses
<1>4. first # Nothing /\ second # Nothing /\ lookup(Rotated) # Nothing
  BY RequestFields
<1>5. n \in 1 .. 4
  BY <1>2, <1>3 DEF Runs4
<1>6. held = Rotated /\ g.value = Value
  BY <1>1, <1>2 DEF InHand
<1>7. /\ DuplicateOut(2) = hexH("duplicate-second")
      /\ held.q \notin {DuplicateOut(i).q : i \in 1 .. 2}
  <2>1. /\ DuplicateOut(1) = hexH("duplicate-first") /\ DuplicateOut(2) = hexH("duplicate-second")
        /\ \A i \in 1 .. 2 : i = 1 \/ i = 2
    BY DEF DuplicateOut
  <2>2. \A i \in 1 .. 2 : DuplicateOut(i).q # "rotated"
    BY <2>1, Names
  <2> QED BY <1>6, <2>1, <2>2, Names
<1>8. Len(Twice) = 2 /\ Twice[2] = <<Rotated, Long(Rotated)>>
  <2>1. held.how = "preimage"
    BY <1>6, Names DEF Rotated
  <2> QED BY <1>6, <2>1, TwiceStarts
<1>9. call(Twice[2], DuplicateOut(2)) = second
  BY <1>7, <1>8
<1> HIDE DEF first, second
<1>10. CASE n = 1 \/ n = 3
  <2>1. body.status = "ERROR"
    <3>1. CASE n = 1
      BY <1>2, <1>3, <3>1, Hears DEF Runs4
    <3>2. CASE n = 3
      BY <1>2, <1>3, <3>2, Hears DEF Runs4
    <3> QED BY <1>10, <3>1, <3>2
  <2>2. n % 2 = 1 /\ n % 2 # 0 /\ ~OK
    BY <1>10, <2>1 DEF OK
  <2>3. Keep /\ Ask(lookup(held))
    BY <2>2, Zenon DEF Duplicate
  <2>4. n < Len(Course(k, g.given)) /\ Course(k, g.given)[n + 1] = Shows(Rotated)
    BY <1>3, <1>10 DEF Runs4
  <2> QED BY <1>1, <1>4, <1>6, <2>3, <2>4, ReadsOn, StepFields
<1>11. CASE n = 2
  <2>1. body = Shown(Rotated, Value)
    BY <1>2, <1>3, <1>11, Hears DEF Runs4
  <2>2. n % 2 = 0 /\ n % 2 # 1 /\ (n + 1) \div 2 = 1 /\ 1 < Len(Twice) /\ 1 + 1 = 2
    BY <1>8, <1>11
  <2>3. worth(body, g.value)
    BY <1>6, <2>1, AnswerFields DEF worth
  <2>4. /\ Keep
        /\ IF (n + 1) \div 2 < Len(Twice) /\ worth(body, g.value)
           THEN Ask(call(Twice[(n + 1) \div 2 + 1], DuplicateOut((n + 1) \div 2 + 1)))
           ELSE Judged(worth(body, g.value))
    BY <1>7, <2>2, Zenon DEF Duplicate
  <2>5. Ask(second)
    BY <1>9, <2>2, <2>3, <2>4
  <2> QED BY <1>1, <1>3, <1>4, <1>11, <2>4, <2>5, ReadsOn, StepFields DEF Runs4
<1>12. CASE n = 4
  <2>1. body = Shown(Rotated, Value)
    BY <1>2, <1>3, <1>12, Hears DEF Runs4
  <2>2. n % 2 = 0 /\ n % 2 # 1 /\ (n + 1) \div 2 = 2 /\ ~(2 < Len(Twice))
    BY <1>8, <1>12
  <2>3. worth(body, g.value)
    BY <1>6, <2>1, AnswerFields DEF worth
  <2>4. /\ Keep
        /\ IF (n + 1) \div 2 < Len(Twice) /\ worth(body, g.value)
           THEN Ask(call(Twice[(n + 1) \div 2 + 1], DuplicateOut((n + 1) \div 2 + 1)))
           ELSE Judged(worth(body, g.value))
    BY <1>7, <2>2, Zenon DEF Duplicate
  <2>5. Verdict("pass")
    BY <2>2, <2>3, <2>4 DEF Judged
  <2> QED BY <1>1, <2>4, <2>5, ReadsToTheEnd DEF Onward, Trading
<1> QED BY <1>5, <1>10, <1>11, <1>12

\* An output that was burned.
LEMMA BurnedP1Proceeds ==
  ASSUME NEW k, Underway(k), BurnedP1 PROVE Proceeds(k)
<1>1. k = 13 /\ ask = Nothing /\ n > 0 /\ at # "done"
  <2>1. Reading("burnedP1")
    BY Zenon DEF BurnedP1
  <2> QED BY <2>1, AtPlace DEF Reading
<1>2. /\ n \in Nat /\ n >= 1 /\ n = Len(log) /\ body = log[n] /\ n <= Len(Course(k, g.given))
      /\ InHand(held, g, k) /\ fault = "none" /\ g.given \in Givens
  BY <1>1, Reader
<1> DEFINE first == call(<<Rotated>>, cp1("given"))
           second == call(<<Rotated>>, hexH("given"))
<1>3. held = Rotated /\ g.value = Value /\ Course(k, g.given) = BurnedP1Course(g.given)
  BY <1>1, <1>2, Courses DEF InHand
<1>4. first # Nothing /\ second # Nothing /\ lookup(Rotated) # Nothing
  BY RequestFields
<1>5. /\ n % 2 = 1 /\ ~OK => Keep /\ Ask(lookup(held))
      /\ n % 2 = 0 =>
           /\ Keep
           /\ LET fine == worth(body, g.value) /\ log[n - 1].reason = AlreadyInUse IN
              IF n < 2 * Len(originalRefs)
              THEN Provided(fine, call(<<held>>, originalRefs[n \div 2 + 1]))
              ELSE Judged(fine)
  <2>1. n % 2 = 1 => n % 2 # 0
    OBVIOUS
  <2>2. n % 2 = 0 => n % 2 # 1
    OBVIOUS
  <2> QED BY <2>1, <2>2, Zenon DEF BurnedP1
<1>6. CASE g.given = "preimage"
  <2>1. Runs4(BurnedP1Course(g.given), InUse(first), Shows(Rotated), InUse(second), Shows(Rotated))
    BY <1>6, Runs, Zenon DEF BurnedP1Course
  <2>2. Len(originalRefs) = 2 /\ originalRefs[2] = hexH("given")
    BY <1>2, <1>6, OriginalRefs
  <2>3. call(<<held>>, originalRefs[2]) = second
    BY <1>3, <2>2
  <2> HIDE DEF first, second
  <2>4. n \in 1 .. 4
    BY <1>2, <1>3, <2>1 DEF Runs4
  <2>5. CASE n = 1 \/ n = 3
    <3>1. body = fail(AlreadyInUse)
      BY <1>2, <1>3, <2>1, <2>5, Hears DEF Runs4
    <3>2. n % 2 = 1 /\ ~OK
      BY <2>5, <3>1, AnswerFields DEF OK
    <3>3. n < Len(Course(k, g.given)) /\ Course(k, g.given)[n + 1] = Shows(Rotated)
      BY <1>3, <2>1, <2>5 DEF Runs4
    <3> QED BY <1>1, <1>3, <1>4, <1>5, <3>2, <3>3, ReadsOn, StepFields
  <2>6. CASE n = 2
    <3>1. log[1] = fail(AlreadyInUse) /\ body = Shown(Rotated, Value)
      BY <1>2, <1>3, <2>1, <2>6, Hears DEF Runs4
    <3>2. worth(body, g.value) /\ log[n - 1].reason = AlreadyInUse
      BY <1>3, <2>6, <3>1, AnswerFields DEF worth
    <3>3. n % 2 = 0 /\ n < 2 * Len(originalRefs) /\ n \div 2 + 1 = 2
      BY <2>2, <2>6
    <3>4. Keep /\ Ask(second)
      BY <1>5, <2>3, <3>2, <3>3 DEF Provided
    <3> QED BY <1>1, <1>3, <1>4, <2>1, <2>6, <3>4, ReadsOn, StepFields DEF Runs4
  <2>7. CASE n = 4
    <3>1. log[3] = fail(AlreadyInUse) /\ body = Shown(Rotated, Value)
      BY <1>2, <1>3, <2>1, <2>7, Hears DEF Runs4
    <3>2. worth(body, g.value) /\ log[n - 1].reason = AlreadyInUse
      BY <1>3, <2>7, <3>1, AnswerFields DEF worth
    <3>3. n % 2 = 0 /\ ~(n < 2 * Len(originalRefs))
      BY <2>2, <2>7
    <3>4. Keep /\ Verdict("pass")
      BY <1>5, <3>2, <3>3 DEF Judged
    <3> QED BY <1>1, <3>4, ReadsToTheEnd DEF Onward, Trading
  <2> QED BY <2>4, <2>5, <2>6, <2>7
<1>7. CASE g.given # "preimage"
  <2>1. Runs2(BurnedP1Course(g.given), InUse(first), Shows(Rotated))
    BY <1>7, Runs, Zenon DEF BurnedP1Course
  <2>2. Len(originalRefs) = 1
    BY <1>2, <1>7, OriginalRefs
  <2> HIDE DEF first, second
  <2>4. n \in 1 .. 2
    BY <1>2, <1>3, <2>1 DEF Runs2
  <2>5. CASE n = 1
    <3>1. body = fail(AlreadyInUse)
      BY <1>2, <1>3, <2>1, <2>5, Hears DEF Runs2
    <3>2. n % 2 = 1 /\ ~OK
      BY <2>5, <3>1, AnswerFields DEF OK
    <3>3. n < Len(Course(k, g.given)) /\ Course(k, g.given)[n + 1] = Shows(Rotated)
      BY <1>3, <2>1, <2>5 DEF Runs2
    <3> QED BY <1>1, <1>3, <1>4, <1>5, <3>2, <3>3, ReadsOn, StepFields
  <2>6. CASE n = 2
    <3>1. log[1] = fail(AlreadyInUse) /\ body = Shown(Rotated, Value)
      BY <1>2, <1>3, <2>1, <2>6, Hears DEF Runs2
    <3>2. worth(body, g.value) /\ log[n - 1].reason = AlreadyInUse
      BY <1>3, <2>6, <3>1, AnswerFields DEF worth
    <3>3. n % 2 = 0 /\ ~(n < 2 * Len(originalRefs))
      BY <2>2, <2>6
    <3>4. Keep /\ Verdict("pass")
      BY <1>5, <3>2, <3>3 DEF Judged
    <3> QED BY <1>1, <3>4, ReadsToTheEnd DEF Onward, Trading
  <2> QED BY <2>4, <2>5, <2>6
<1> QED BY <1>6, <1>7

\* Two outputs that are one.
LEMMA TwinProceeds ==
  ASSUME NEW k, Underway(k), Twin PROVE Proceeds(k)
<1>1. k = 14 /\ ask = Nothing /\ n > 0 /\ at # "done"
  <2>1. Reading("twin")
    BY Zenon DEF Twin
  <2> QED BY <2>1, AtPlace DEF Reading
<1>2. /\ n \in Nat /\ n >= 1 /\ n = Len(log) /\ body = log[n] /\ n <= Len(Course(k, g.given))
      /\ InHand(held, g, k) /\ fault = "none" /\ g.given \in Givens
  BY <1>1, Reader
<1> DEFINE first == split(Rotated, Share, hexH("twin"), hexH("twin"))
           second == split(Rotated, Share, hexH("twin"), cp1("twin"))
<1>3. Runs4(Course(k, g.given), Refuses(first), Shows(Rotated), Refuses(second), Shows(Rotated))
  <2>1. Runs4(TwinCourse, Refuses(first), Shows(Rotated), Refuses(second), Shows(Rotated))
    BY Runs, Zenon DEF TwinCourse
  <2> QED BY <1>1, <2>1, Courses
<1>4. first # Nothing /\ second # Nothing /\ lookup(Rotated) # Nothing
  BY RequestFields
<1>5. n \in 1 .. 4
  BY <1>2, <1>3 DEF Runs4
<1>6. held = Rotated /\ g.value = Value /\ half = Share /\ held.q # "twin"
  <2>1. held = Rotated /\ g.value = Value
    BY <1>1, <1>2 DEF InHand
  <2> QED BY <2>1, Names DEF half, Share
<1>7. split(held, half, hexH("twin"), cp1("twin")) = second
  BY <1>6
<1> HIDE DEF first, second
<1>8. CASE n = 1 \/ n = 3
  <2>1. body.status = "ERROR"
    <3>1. CASE n = 1
      BY <1>2, <1>3, <3>1, Hears DEF Runs4
    <3>2. CASE n = 3
      BY <1>2, <1>3, <3>2, Hears DEF Runs4
    <3> QED BY <1>8, <3>1, <3>2
  <2>2. n % 2 = 1 /\ n % 2 # 0 /\ ~OK
    BY <1>8, <2>1 DEF OK
  <2>3. Keep /\ Ask(lookup(held))
    BY <2>2, Zenon DEF Twin
  <2>4. n < Len(Course(k, g.given)) /\ Course(k, g.given)[n + 1] = Shows(Rotated)
    BY <1>3, <1>8 DEF Runs4
  <2> QED BY <1>1, <1>4, <1>6, <2>3, <2>4, ReadsOn, StepFields
<1>9. CASE n = 2 \/ n = 4
  <2>1. body = Shown(Rotated, Value)
    BY <1>2, <1>3, <1>9, Hears DEF Runs4
  <2>2. n % 2 = 0 /\ n % 2 # 1
    BY <1>9
  <2>3. worth(body, g.value)
    BY <1>6, <2>1, AnswerFields DEF worth
  <2>4. /\ Keep
        /\ IF n = 2 THEN Provided(held.q # "twin" /\ worth(body, g.value),
                                  split(held, half, hexH("twin"), cp1("twin")))
           ELSE Judged(held.q # "twin" /\ worth(body, g.value))
    BY <2>2, Zenon DEF Twin
  <2>5. CASE n = 2
    <3>1. Ask(second)
      BY <1>6, <1>7, <2>3, <2>4, <2>5 DEF Provided
    <3> QED BY <1>1, <1>3, <1>4, <2>4, <2>5, <3>1, ReadsOn, StepFields DEF Runs4
  <2>6. CASE n = 4
    <3>1. Verdict("pass")
      BY <1>6, <2>3, <2>4, <2>6 DEF Judged
    <3> QED BY <1>1, <2>4, <3>1, ReadsToTheEnd DEF Onward, Trading
  <2> QED BY <1>9, <2>5, <2>6
<1> QED BY <1>5, <1>8, <1>9

\* The methods other than GET.
LEMMA MethodsProceeds ==
  ASSUME NEW k, Underway(k), Methods PROVE Proceeds(k)
<1>1. k = 15 /\ ask = Nothing /\ n > 0 /\ at # "done" /\ Keep
  <2>1. at = "methods" /\ ask = Nothing /\ n > 0 /\ Keep
    BY Zenon DEF Methods
  <2> QED BY <2>1, AtPlace
<1>2. /\ n \in Nat /\ n >= 1 /\ n = Len(log) /\ body = log[n] /\ n <= Len(Course(k, g.given))
      /\ InHand(held, g, k) /\ fault = "none" /\ g.given \in Givens
  BY <1>1, Reader
<1> DEFINE first == ByMethod(Rotated, "by-POST")
           second == ByMethod(Rotated, "by-OPTIONS")
           one == lookup(bearer("by-POST"))
           two == lookup(bearer("by-OPTIONS"))
<1>3. Runs6(Course(k, g.given), Refuses(first), Shows(Rotated), NotKnown(one),
            Refuses(second), Shows(Rotated), NotKnown(two))
  <2>1. Runs6(MethodsCourse, Refuses(first), Shows(Rotated), NotKnown(one),
              Refuses(second), Shows(Rotated), NotKnown(two))
    BY Runs, Zenon DEF MethodsCourse
  <2> QED BY <1>1, <2>1, Courses
<1>4. second # Nothing /\ one # Nothing /\ two # Nothing /\ lookup(Rotated) # Nothing
  BY RequestFields
<1>5. n \in 1 .. 6
  BY <1>2, <1>3 DEF Runs6
<1>6. held = Rotated
  BY <1>1, <1>2 DEF InHand
<1>7. Method(2) = second
  BY <1>6 DEF Method, MethodOut, ByMethod
<1>8. lookup(bearer(MethodOut(1))) = one /\ lookup(bearer(MethodOut(2))) = two
  BY DEF MethodOut
<1> HIDE DEF first, second, one, two
<1>9. CASE n = 1 \/ n = 4
  <2>1. n % 3 = 1
    BY <1>9
  <2>2. Ask(lookup(held))
    BY <2>1 DEF Methods
  <2>3. n < Len(Course(k, g.given)) /\ Course(k, g.given)[n + 1] = Shows(Rotated)
    BY <1>3, <1>9 DEF Runs6
  <2> QED BY <1>1, <1>4, <1>6, <2>2, <2>3, ReadsOn, StepFields
<1>10. CASE n = 2 \/ n = 5
  <2>1. body = Shown(Rotated, Value)
    BY <1>2, <1>3, <1>10, Hears DEF Runs6
  <2>2. n % 3 = 2
    BY <1>10
  <2>3. Ask(lookup(bearer(MethodOut(n \div 3 + 1))))
    BY <2>1, <2>2, AnswerFields DEF Methods, Provided, refused
  <2>4. CASE n = 2
    <3>1. n \div 3 + 1 = 1
      BY <2>4
    <3>2. Ask(one)
      BY <1>8, <2>3, <3>1
    <3> QED BY <1>1, <1>3, <1>4, <2>4, <3>2, ReadsOn, StepFields DEF Runs6
  <2>5. CASE n = 5
    <3>1. n \div 3 + 1 = 2
      BY <2>5
    <3>2. Ask(two)
      BY <1>8, <2>3, <3>1
    <3> QED BY <1>1, <1>3, <1>4, <2>5, <3>2, ReadsOn, StepFields DEF Runs6
  <2> QED BY <1>10, <2>4, <2>5
<1>11. CASE n = 3 \/ n = 6
  <2>1. body = fail(UnknownNote)
    BY <1>2, <1>3, <1>11, Hears DEF Runs6
  <2>2. refused
    BY <2>1, AnswerFields DEF refused
  <2>3. CASE n = 3
    <3>1. Ask(second)
      BY <1>7, <2>2, <2>3 DEF Methods, Provided
    <3> QED BY <1>1, <1>3, <1>4, <2>3, <3>1, ReadsOn, StepFields DEF Runs6
  <2>4. CASE n = 6
    <3>1. Verdict("pass")
      BY <2>2, <2>4 DEF Methods, Judged
    <3> QED BY <1>1, <3>1, ReadsToTheEnd DEF Onward, Trading
  <2> QED BY <1>11, <2>3, <2>4
<1> QED BY <1>5, <1>9, <1>10, <1>11

\* The replay into another output.
LEMMA ReplayedBurnProceeds ==
  ASSUME NEW k, Underway(k), ReplayedBurn PROVE Proceeds(k)
<1>1. k = 19 /\ ask = Nothing /\ n > 0 /\ at # "done"
  <2>1. Reading("replayedBurn")
    BY Zenon DEF ReplayedBurn
  <2> QED BY <2>1, AtPlace DEF Reading
<1>2. /\ n \in Nat /\ n >= 1 /\ n = Len(log) /\ body = log[n] /\ n <= Len(Course(k, g.given))
      /\ InHand(held, g, k) /\ fault = "none" /\ g.given \in Givens
  BY <1>1, Reader
<1> DEFINE first == call(<<Own(g.given)>>, hexH("replayed-first"))
           second == call(<<Long(Own(g.given))>>, hexH("replayed-second"))
<1>3. Runs2(Course(k, g.given), InUse(first), InUse(second))
  <2>1. Runs2(ReplayedBurnCourse(g.given), InUse(first), InUse(second))
    BY Runs, Zenon DEF ReplayedBurnCourse
  <2> QED BY <1>1, <2>1, Courses
<1>4. second # Nothing
  BY RequestFields
<1>5. n \in 1 .. 2
  BY <1>2, <1>3 DEF Runs2
<1>6. body.status = "ERROR"
  <2>1. body = fail(AlreadyInUse)
    BY <1>2, <1>3, <1>5, Hears DEF Runs2
  <2> QED BY <2>1, AnswerFields
<1>7. /\ Keep
      /\ IF n <= Len(respell(k1)) THEN Ask(call(respell(k1), ReplayedOut(2))) ELSE Verdict("pass")
  BY <1>6 DEF ReplayedBurn, OK, Keep
<1>8. CASE Verdict("pass")
  BY <1>1, <1>7, <1>8, ReadsToTheEnd DEF Onward, Trading
<1>9. CASE n <= Len(respell(k1)) /\ Ask(call(respell(k1), ReplayedOut(2)))
  <2>1. respell(k1) = IF k1.how = "preimage" THEN <<SpendBy(k1.q, "cw1")>> ELSE << >>
    BY DEF respell
  <2>2. respell(k1) = <<Long(Own(g.given))>>
    <3>1. Len(<< >>) = 0
      OBVIOUS
    <3>2. k1.how = "preimage"
      BY <1>2, <1>9, <2>1, <3>1
    <3> QED BY <1>2, <2>1, <3>2, OriginalRefs DEF Long
  <2>3. ReplayedOut(2) = hexH("replayed-second")
    BY DEF ReplayedOut
  <2>4. Ask(second)
    BY <1>9, <2>2, <2>3
  <2>5. n = 1
    <3>1. Len(respell(k1)) = 1
      BY <2>2
    <3> QED BY <1>2, <1>9, <3>1
  <2> HIDE DEF first, second
  <2> QED BY <1>1, <1>3, <1>4, <1>7, <2>4, <2>5, ReadsOn, StepFields DEF Runs2
<1> QED BY <1>7, <1>8, <1>9

\* The six spends that the tree does not allow.
LEMMA RefusedOnTreeProceeds ==
  ASSUME NEW k, Underway(k), RefusedOnTree PROVE Proceeds(k)
<1>1. k \in 21 .. 26 /\ ask = Nothing /\ n > 0 /\ at # "done" /\ at = Checks[k]
  <2>1. at \in Probes /\ Reading(at)
    BY Zenon DEF RefusedOnTree
  <2>2. at # "done"
    BY <2>1 DEF Probes
  <2> QED BY <2>1, <2>2, AtPlace DEF Reading
<1>2. /\ n \in Nat /\ n >= 1 /\ n = Len(log) /\ body = log[n] /\ n <= Len(Course(k, g.given))
      /\ InHand(held, g, k) /\ fault = "none" /\ g.given \in Givens
  BY <1>1, Reader
<1> DEFINE first == lookup(SpendBy("tree", at))
           second == call(<<SpendBy("tree", at)>>, hexH(at))
           third == lookupRef(cp1("tree"))
<1>3. Runs3(Course(k, g.given), Refuses(first), Refuses(second), Step(third, Named("tree", Value)))
  <2>1. Runs3(ProbeCourse(at), Refuses(first), Refuses(second), Step(third, Named("tree", Value)))
    BY Runs, Zenon DEF ProbeCourse
  <2> QED BY <1>1, <2>1, Courses
<1>4. second # Nothing /\ third # Nothing
  BY RequestFields
<1>5. n \in 1 .. 3
  BY <1>2, <1>3 DEF Runs3
<1>6. g.offered = TRUE /\ g.tree = Value
  BY <1>1, <1>2 DEF InHand
<1>7. call(<<Leaf(at)>>, Out(at)) = second
  BY DEF Leaf, Out
<1> HIDE DEF first, second, third
<1>8. CASE n = 1
  <2>1. Keep /\ Ask(call(<<Leaf(at)>>, Out(at)))
    BY <1>8 DEF RefusedOnTree
  <2>2. /\ n < Len(Course(k, g.given)) /\ k \notin {4, 8, 17, 18, 20}
        /\ Course(k, g.given)[n + 1] = Refuses(second)
    BY <1>1, <1>3, <1>8 DEF Runs3
  <2>3. Refuses(second).ask = second
    BY StepFields
  <2> QED BY <1>1, <1>4, <1>7, <2>1, <2>2, <2>3, ReadsOn
<1>9. CASE n = 2
  <2>1. body.status = "ERROR" /\ log[1].status = "ERROR"
    BY <1>2, <1>3, <1>9, Hears DEF Runs3
  <2>2. Keep /\ Ask(third)
    BY <1>6, <1>9, <2>1 DEF RefusedOnTree, OK, Provided, third
  <2>3. /\ n < Len(Course(k, g.given)) /\ k \notin {4, 8, 17, 18, 20}
        /\ Course(k, g.given)[n + 1] = Step(third, Named("tree", Value))
    BY <1>1, <1>3, <1>9 DEF Runs3
  <2>4. Step(third, Named("tree", Value)).ask = third
    BY StepFields
  <2> QED BY <1>1, <1>4, <2>2, <2>3, <2>4, ReadsOn
<1>10. CASE n = 3
  <2>1. body = Named("tree", Value)
    BY <1>2, <1>3, <1>10, Hears DEF Runs3
  <2>2. worth(body, g.tree)
    BY <1>6, <2>1, AnswerFields DEF worth
  <2>3. Keep /\ Verdict("pass")
    BY <1>10, <2>2 DEF RefusedOnTree, Judged
  <2>4. k \in Onward /\ k \notin Trading
    BY <1>1 DEF Onward, Trading
  <2> QED BY <1>1, <2>3, <2>4, ReadsToTheEnd
<1> QED BY <1>5, <1>8, <1>9, <1>10

\* What the grader remembers has all its fields.
AllThere(m) ==
  {"given", "feeKnown", "value", "certs", "offered", "first", "prior", "tree", "keyed"}
    \subseteq DOMAIN m

\* It has them all wherever it acts.
LEMMA AllThereWhereItActs ==
  ASSUME NEW k, Underway(k), ask = Nothing
  PROVE  AllThere(g)
<1>1. \E i : Memory(held, g, k, i)
  <2>1. n \in Nat /\ (n = 0 => Memory(held, g, k, 0)) /\ (n > 0 => Memory(held, g, k, n - 1))
    BY Recalls
  <2>2. n = 0 \/ n > 0
    BY <2>1
  <2> QED BY <2>1, <2>2
<1>2. {"given", "feeKnown"} \subseteq DOMAIN g
  BY <1>1 DEF Memory
<1> QED BY <1>2 DEF Underway, GradeInv, Remembered, AllThere

\* An honest certificate joins those that verify.
LEMMA Noted ==
  ASSUME fault = "none", g.certs \subseteq {"verifies"}, NEW q, NEW amount
  PROVE  /\ noteCertificate(Good(q, amount), q, amount) \subseteq {"verifies"}
         /\ judgeCertificate(Good(q, amount), q, amount) = "verifies"
<1>1. /\ noteCertificate(Good(q, amount), q, amount) = g.certs \cup {"verifies"}
      /\ judgeCertificate(Good(q, amount), q, amount) = "verifies"
  BY HonestCertificates
<1> QED BY <1>1

\* What it takes to begin a check with.
LEMMA Minded ==
  ASSUME NEW s, NEW m, NEW k \in 1 .. 33, AllThere(m), m.given \in Givens, InHand(s, m, k),
         k > 31 => s = bearer("home-by-key")
  PROVE  Memory(s, m, k, 0)
<1>1. s = HeldIn(Era(k), m.given)
  <2>1. /\ HeldIn(1, m.given) = Own(m.given) /\ HeldIn(2, m.given) = Rotated
        /\ HeldIn(3, m.given) = AfterSplit /\ HeldIn(4, m.given) = AfterRetry
        /\ HeldIn(5, m.given) = SpendBy("tree", "leaf") /\ HeldIn(6, m.given) = Back
        /\ HeldIn(7, m.given) = SpendBy("key", "ck1")
        /\ HeldIn(8, m.given) = bearer("home-by-key")
    BY DEF HeldIn
  <2>2. /\ k \in 1 .. 8 => Era(k) = 1
        /\ k \in 9 .. 17 => Era(k) = 2
        /\ k = 18 => Era(k) = 3
        /\ k \in 19 .. 20 => Era(k) = 4
        /\ k \in 21 .. 27 => Era(k) = 5
        /\ k = 28 => Era(k) = 6
        /\ k \in 29 .. 31 => Era(k) = 7
        /\ k \in 32 .. 33 => Era(k) = 8
    BY DEF Era
  <2>3. \/ k \in 1 .. 8 \/ k \in 9 .. 17 \/ k = 18 \/ k \in 19 .. 20 \/ k \in 21 .. 27
        \/ k = 28 \/ k \in 29 .. 31 \/ k \in 32 .. 33
    OBVIOUS
  <2> QED BY <2>1, <2>2, <2>3 DEF InHand
<1>2. s = Holds(k, 0, m.given)
  BY <1>1 DEF Holds
<1>3. {"given", "feeKnown"} \subseteq DOMAIN m
  BY DEF AllThere
<1> HIDE DEF Holds
<1> QED BY <1>2, <1>3 DEF Memory, InHand, Givens

\* The two ways on, for a check that changes what it holds or remembers.
LEMMA ReadsToNext ==
  ASSUME NEW k, Underway(k), ask = Nothing, n > 0, at # "done", Through(k, n),
         g'.given = g.given, g'.feeKnown = g.feeKnown, NEW verdict, Verdict(verdict),
         verdict # "fail", Memory(held', g', k + 1, 0)
  PROVE  Proceeds(k)
<1>1. n = Len(log)
  BY Reader
<1> QED BY <1>1, Passes

\* The other: it asks for more.
LEMMA ReadsToAsk ==
  ASSUME NEW k, Underway(k), ask = Nothing, n > 0, at # "done",
         g'.given = g.given, g'.feeKnown = g.feeKnown, NEW r, Ask(r), r # Nothing,
         NEW step, n < Len(Course(k, g.given)), Course(k, g.given)[n + 1] = step, step.ask = r,
         Memory(held', g', k, n)
  PROVE  Proceeds(k)
<1>1. n = Len(log)
  BY Reader
<1> QED BY <1>1, AsksNext

\* The first answer of all, which says what the note is worth.
LEMMA EchoProceeds ==
  ASSUME NEW k, Underway(k), Echo PROVE Proceeds(k)
<1>1. k = 1 /\ ask = Nothing /\ n > 0 /\ at # "done" /\ held' = held
  BY AtPlace DEF Echo, Reading
<1>12. /\ n \in Nat /\ n >= 1 /\ n = Len(log) /\ body = log[n] /\ n <= Len(Course(k, g.given))
       /\ InHand(held, g, k) /\ fault = "none" /\ g.given \in Givens
  BY <1>1, Reader
<1>2. Runs1(Course(k, g.given), Shows(Own(g.given)))
  <2>1. Runs1(EchoCourse(g.given), Shows(Own(g.given)))
    BY Runs, Zenon DEF EchoCourse
  <2>2. k \in 1 .. 3
    BY <1>1
  <2> QED BY <2>1, <2>2, Courses
<1>3. n = 1 /\ n = Len(log) /\ body = log[1]
  BY <1>2, <1>12 DEF Runs1
<1>4. body = Shown(Own(g.given), Value)
  BY <1>2, <1>3, Hears DEF Runs1
<1>5. /\ body.status = "withdrawRequest" /\ body.k1 = k1.how /\ body.value = Value
      /\ body.c = Good("given", Value)
  <2>1. k1 = Own(g.given) /\ Own(g.given).q = "given"
    BY <1>12, OriginalRefs, Names
  <2> QED BY <1>4, <2>1, AnswerFields
<1> DEFINE C == noteCertificate(body.c, "given", body.value)
<1>6. C \subseteq {"verifies"}
  BY <1>5, <1>12, Noted DEF InHand
<1>7. g' = [g EXCEPT !.value = Value, !.certs = C] /\ Verdict("pass")
  BY <1>5, Zenon DEF Echo
<1> HIDE DEF C
<1>8. AllThere(g)
  BY <1>1, AllThereWhereItActs
<1>9. /\ AllThere(g') /\ g'.given = g.given /\ g'.feeKnown = g.feeKnown /\ g'.value = Value
      /\ g'.certs = C
  BY <1>7, <1>8 DEF AllThere
<1>10. held' = Own(g'.given)
  BY <1>1, <1>9, <1>12 DEF InHand
<1>11. Memory(held', g', 2, 0)
  <2>1. InHand(held', g', 2)
    BY <1>6, <1>9, <1>10 DEF InHand
  <2> QED BY <1>9, <1>12, <2>1, Minded
<1>13. Through(k, n)
  BY <1>1 DEF Through, Trading
<1> QED BY <1>1, <1>7, <1>9, <1>11, <1>13, ReadsToNext

\* The course of the lookups, counted from the references of the note.
LEMMA LookupSteps ==
  ASSUME NEW given \in Givens, g.given = given
  PROVE  LET course == LookupCourse(given)
             refs == Len(originalRefs)
         IN
         /\ refs \in 1 .. 2 /\ (refs = 2 <=> given = "preimage")
         /\ Len(course) = refs + 4
         /\ \A i \in 1 .. refs : course[i] = Step(lookupRef(originalRefs[i]), Named("given", Value))
         /\ course[refs + 1] = NotKnown(lookupRef(hexH("nobody")))
         /\ course[refs + 2] = NotKnown(lookup(bearer("nobody")))
         /\ course[refs + 3] = NotKnown(lookupRef(cp1("no-key")))
         /\ course[refs + 4] = NotKnown(Both(Own(given), cp1("given")))
<1> DEFINE named(ref) == Step(lookupRef(ref), Named("given", Value))
           course == LookupCourse(given)
           refs == Len(originalRefs)
           one == NotKnown(lookupRef(hexH("nobody")))
           two == NotKnown(lookup(bearer("nobody")))
           three == NotKnown(lookupRef(cp1("no-key")))
           both == NotKnown(Both(Own(given), cp1("given")))
<1>1. /\ given = "preimage" =>
           Runs6(course, named(cp1("given")), named(hexH("given")), one, two, three, both)
      /\ given # "preimage" => Runs5(course, named(cp1("given")), one, two, three, both)
  BY Runs, Zenon DEF LookupCourse
<1>2. /\ originalRefs[1] = cp1("given")
      /\ given = "preimage" => refs = 2 /\ originalRefs[2] = hexH("given")
      /\ given # "preimage" => refs = 1
  BY OriginalRefs
<1> HIDE DEF course, named, one, two, three, both, refs
<1>3. CASE given = "preimage"
  <2>1. /\ Len(course) = 6 /\ course[1] = named(originalRefs[1])
        /\ course[2] = named(originalRefs[2]) /\ course[3] = one /\ course[4] = two
        /\ course[5] = three /\ course[6] = both
    BY <1>1, <1>2, <1>3 DEF Runs6
  <2>2. \A i \in 1 .. refs : i = 1 \/ i = 2
    BY <1>2, <1>3
  <2>3. \A i \in 1 .. refs : course[i] = named(originalRefs[i])
    BY <2>1, <2>2
  <2>4. refs + 1 = 3 /\ refs + 2 = 4 /\ refs + 3 = 5 /\ refs + 4 = 6
    BY <1>2, <1>3
  <2>5. /\ refs \in 1 .. 2 /\ (refs = 2 <=> given = "preimage") /\ Len(course) = refs + 4
        /\ course[refs + 1] = one /\ course[refs + 2] = two /\ course[refs + 3] = three
        /\ course[refs + 4] = both
    BY <1>2, <1>3, <2>1, <2>4
  <2> QED BY <2>3, <2>5, Zenon DEF course, named, one, two, three, both, refs
<1>4. CASE given # "preimage"
  <2>1. /\ Len(course) = 5 /\ course[1] = named(originalRefs[1])
        /\ course[2] = one /\ course[3] = two /\ course[4] = three /\ course[5] = both
    BY <1>1, <1>2, <1>4 DEF Runs5
  <2>2. \A i \in 1 .. refs : i = 1
    BY <1>2, <1>4
  <2>3. \A i \in 1 .. refs : course[i] = named(originalRefs[i])
    BY <2>1, <2>2
  <2>4. refs + 1 = 2 /\ refs + 2 = 3 /\ refs + 3 = 4 /\ refs + 4 = 5
    BY <1>2, <1>4
  <2> QED BY <1>2, <1>4, <2>1, <2>3, <2>4 DEF course, named, one, two, three, both, refs
<1> QED BY <1>3, <1>4

\* The lookup by reference.
LEMMA LookupProceeds ==
  ASSUME NEW k, Underway(k), Lookup PROVE Proceeds(k)
<1>1. k = 4 /\ ask = Nothing /\ n > 0 /\ at # "done" /\ held' = held
  BY AtPlace DEF Lookup, Reading
<1>2. /\ n \in Nat /\ n >= 1 /\ n = Len(log) /\ body = log[n] /\ n <= Len(Course(k, g.given))
      /\ InHand(held, g, k) /\ fault = "none" /\ g.given \in Givens
      /\ Memory(held, g, k, n - 1)
  BY <1>1, Reader
<1> DEFINE course == Course(k, g.given)
           refs == Len(originalRefs)
           one == lookupRef(hexH("nobody"))
           two == lookup(bearer("nobody"))
           three == lookupRef(cp1("no-key"))
           both == Both(Own(g.given), cp1("given"))
<1>3. /\ refs \in 1 .. 2 /\ (refs = 2 <=> g.given = "preimage")
      /\ Len(course) = refs + 4
      /\ \A i \in 1 .. refs : course[i] = Step(lookupRef(originalRefs[i]), Named("given", Value))
      /\ course[refs + 1] = NotKnown(one) /\ course[refs + 2] = NotKnown(two)
      /\ course[refs + 3] = NotKnown(three) /\ course[refs + 4] = NotKnown(both)
  <2>1. course = LookupCourse(g.given)
    BY <1>1, Courses
  <2> QED BY <1>2, <2>1, LookupSteps, Zenon
<1>4. one # Nothing /\ two # Nothing /\ three # Nothing /\ both # Nothing
      /\ \A ref : lookupRef(ref) # Nothing
  BY RequestFields
<1>5. [lookup(k1) EXCEPT !.ask = "both", !.p1 = originalRefs[1]] = both
  <2>1. k1 = Own(g.given) /\ originalRefs[1] = cp1("given")
    BY <1>2, OriginalRefs
  <2> QED BY <2>1 DEF Both
<1>6. AllThere(g) /\ g.value = Value
  BY <1>1, <1>2, AllThereWhereItActs DEF InHand
<1>7. \A i \in 1 .. n : \A r : course[i] = NotKnown(r) => log[i] = fail(UnknownNote)
  BY <1>2, Hears
<1>8. \A i \in 1 .. n : \A r, q, v : course[i] = Step(r, Named(q, v)) => log[i] = Named(q, v)
  BY <1>2, Hears
<1>9. n <= refs + 4
  BY <1>2, <1>3
<1> DEFINE after == <<one, two, three, both>>
<1>10. after[1] = one /\ after[2] = two /\ after[3] = three /\ after[4] = both
  OBVIOUS
<1> DEFINE answered == body.status = "withdrawRequest" /\ body.k1 = "none" /\ body.value = g.value
<1>11. IF n <= refs
       THEN /\ g' = IF answered
                    THEN [g EXCEPT !.certs = noteCertificate(body.c, "given", body.value),
                                   !.offered = (n = refs)]
                    ELSE g
            /\ Provided(answered, IF n < refs THEN lookupRef(originalRefs[n + 1]) ELSE after[1])
       ELSE /\ g' = g
            /\ CASE n = refs + 1 -> Ask(after[2])
                 [] n = refs + 2 -> Provided(log[n - 1].status = "ERROR" /\ refused
                                           /\ log[n - 1].reason = body.reason, after[3])
                 [] n = refs + 3 -> Provided(body.status # "withdrawRequest", after[4])
                 [] n = refs + 4 -> Judged(refused)
                 [] OTHER -> FALSE
  BY <1>5, Zenon DEF Lookup
<1> HIDE DEF after, one, two, three, both, refs
<1>12. CASE n <= refs
  <2>1. body = Named("given", Value)
    BY <1>2, <1>3, <1>8, <1>12
  <2>2. answered /\ body.value = Value /\ body.c = Good("given", Value)
    BY <1>6, <2>1, AnswerFields
  <2> DEFINE C == noteCertificate(body.c, "given", body.value)
             next == IF n < refs THEN lookupRef(originalRefs[n + 1]) ELSE one
  <2>3. C \subseteq {"verifies"}
    BY <1>2, <2>2, Noted DEF InHand
  <2>4. g' = [g EXCEPT !.certs = C, !.offered = (n = refs)] /\ Ask(next)
    BY <1>10, <1>11, <1>12, <2>2, Zenon DEF Provided
  <2> HIDE DEF C
  <2>5. /\ AllThere(g') /\ g'.given = g.given /\ g'.feeKnown = g.feeKnown /\ g'.value = Value
        /\ g'.certs = C /\ g'.offered = (n = refs)
    BY <1>6, <2>4 DEF AllThere
  <2>6. Memory(held', g', k, n)
    <3>1. held' = Own(g'.given)
      BY <1>1, <1>2, <2>5 DEF InHand
    <3>2. Holds(4, n, g'.given) = Own(g'.given)
      BY DEF Holds, Era, HeldIn
    <3>3. n >= 2 \/ (n = 1 /\ g'.given # "preimage") => g'.offered = TRUE
      <4>1. n >= 2 \/ (n = 1 /\ g.given # "preimage") => n = refs
        BY <1>2, <1>3, <1>12
      <4> QED BY <2>5, <4>1, Zenon
    <3>4. /\ {"given", "feeKnown"} \subseteq DOMAIN g'
          /\ g'.given \in {"preimage", "cw1"}
      BY <1>2, <2>5 DEF AllThere, Givens
    <3> HIDE DEF Holds
    <3> QED BY <1>1, <2>3, <2>5, <3>1, <3>2, <3>3, <3>4 DEF Memory
  <2>7. CASE n < refs
    <3>1. Ask(lookupRef(originalRefs[n + 1])) /\ n + 1 \in 1 .. refs
      BY <1>2, <1>3, <2>4, <2>7
    <3>2. /\ n < Len(course) /\ course[n + 1] = Step(lookupRef(originalRefs[n + 1]), Named("given", Value))
      BY <1>2, <1>3, <2>7, <3>1
    <3> HIDE DEF refs
    <3> QED BY <1>1, <1>4, <2>5, <2>6, <3>1, <3>2, ReadsToAsk, StepFields
  <2>8. CASE n = refs
    <3>1. Ask(one)
      BY <1>3, <2>4, <2>8
    <3>2. n < Len(course) /\ course[n + 1] = NotKnown(one)
      BY <1>3, <2>8
    <3> HIDE DEF refs
    <3> QED BY <1>1, <1>4, <2>5, <2>6, <3>1, <3>2, ReadsToAsk, StepFields
  <2> QED BY <1>2, <1>3, <1>12, <2>7, <2>8
<1>13. CASE n > refs
  <2>1. ~(n <= refs)
    BY <1>2, <1>3, <1>13
  <2>2. g' = g
    BY <1>11, <2>1
  <2>3. g.offered = TRUE
    <3>1. n - 1 >= 2 \/ (n - 1 = 1 /\ g.given # "preimage")
      BY <1>2, <1>3, <1>13
    <3> QED BY <1>1, <1>2, <3>1 DEF Memory
  <2>4. Memory(held', g', k, n) /\ Memory(held', g', k + 1, 0)
    <3>1. InHand(held, g, 5) /\ 5 \in 1 .. 33
      BY <1>1, <1>2, <2>3 DEF InHand
    <3>2. Memory(held, g, 5, 0)
      BY <1>2, <1>6, <3>1, Minded
    <3>3. Holds(4, n, g.given) = Holds(4, n - 1, g.given)
      BY DEF Holds
    <3>4. Memory(held, g, 4, n - 1)
      BY <1>1, <1>2
    <3>5. Memory(held, g, 4, n)
      BY <2>3, <3>3, <3>4 DEF Memory
    <3> QED BY <1>1, <2>2, <3>2, <3>5
  <2>5. CASE n = refs + 1
    <3>1. Ask(two)
      <4>1. Ask(after[2])
        <5>1. n # refs + 2 /\ n # refs + 3 /\ n # refs + 4
          BY <1>2, <1>3, <2>5
        <5> QED BY <1>11, <2>1, <2>5, <5>1, Zenon
      <4> QED BY <1>10, <4>1
    <3>2. n < Len(course) /\ course[n + 1] = NotKnown(two)
      BY <1>3, <2>5
    <3> HIDE DEF refs
    <3> QED BY <1>1, <1>4, <2>2, <2>4, <3>1, <3>2, ReadsToAsk, StepFields
  <2>6. CASE n = refs + 2
    <3>1. n - 1 = refs + 1 /\ n - 1 \in 1 .. n /\ n \in 1 .. n /\ n # refs + 1
      BY <1>2, <1>3, <2>6
    <3>2. log[n - 1] = fail(UnknownNote) /\ log[n] = fail(UnknownNote)
      BY <1>3, <1>7, <2>6, <3>1
    <3>3. log[n - 1].status = "ERROR" /\ refused /\ log[n - 1].reason = body.reason
      BY <1>2, <3>2, AnswerFields DEF refused
    <3>4. Ask(three)
      <4>1. Provided(log[n - 1].status = "ERROR" /\ refused
                     /\ log[n - 1].reason = body.reason, after[3])
        <5>1. n # refs + 1 /\ n # refs + 3 /\ n # refs + 4
          BY <1>2, <1>3, <2>6
        <5> QED BY <1>11, <2>1, <2>6, <5>1, Zenon
      <4> QED BY <1>10, <3>3, <4>1 DEF Provided
    <3>5. n < Len(course) /\ course[n + 1] = NotKnown(three)
      BY <1>3, <2>6
    <3> HIDE DEF refs
    <3> QED BY <1>1, <1>4, <2>2, <2>4, <3>4, <3>5, ReadsToAsk, StepFields
  <2>7. CASE n = refs + 3
    <3>1. n \in 1 .. n /\ n # refs + 1 /\ n # refs + 2
      BY <1>2, <1>3, <2>7
    <3>2. log[n] = fail(UnknownNote)
      BY <1>3, <1>7, <2>7, <3>1
    <3>3. body.status # "withdrawRequest"
      BY <1>2, <3>2, AnswerFields
    <3>4. Ask(both)
      <4>1. Provided(body.status # "withdrawRequest", after[4])
        <5>1. n # refs + 1 /\ n # refs + 2 /\ n # refs + 4
          BY <1>2, <1>3, <2>7
        <5> QED BY <1>11, <2>1, <2>7, <5>1, Zenon
      <4> QED BY <1>10, <3>3, <4>1 DEF Provided
    <3>5. n < Len(course) /\ course[n + 1] = NotKnown(both)
      BY <1>3, <2>7
    <3> HIDE DEF refs
    <3> QED BY <1>1, <1>4, <2>2, <2>4, <3>4, <3>5, ReadsToAsk, StepFields
  <2>8. CASE n = refs + 4
    <3>1. n \in 1 .. n /\ n # refs + 1 /\ n # refs + 2 /\ n # refs + 3
      BY <1>2, <1>3, <2>8
    <3>2. log[n] = fail(UnknownNote)
      BY <1>3, <1>7, <2>8, <3>1
    <3>3. refused
      BY <1>2, <3>2, AnswerFields DEF refused
    <3>4. Verdict("pass")
      BY <1>11, <2>1, <2>8, <3>1, <3>3, Zenon DEF Judged
    <3>5. Through(k, n)
      BY <1>1 DEF Through, Trading
    <3> QED BY <1>1, <2>2, <2>4, <3>4, <3>5, ReadsToNext
  <2>9. n = refs + 1 \/ n = refs + 2 \/ n = refs + 3 \/ n = refs + 4
    BY <1>2, <1>3, <1>9, <1>13
  <2> QED BY <2>5, <2>6, <2>7, <2>8, <2>9
<1> QED BY <1>2, <1>3, <1>12, <1>13

\* The rotate: from here the grader holds a note of its own.
LEMMA RotateProceeds ==
  ASSUME NEW k, Underway(k), Rotate PROVE Proceeds(k)
<1>1. k = 8 /\ ask = Nothing /\ n > 0 /\ at # "done"
  <2>1. Reading("rotate")
    BY Zenon DEF Rotate
  <2> QED BY <2>1, AtPlace DEF Reading
<1>2. /\ n \in Nat /\ n >= 1 /\ n = Len(log) /\ body = log[n] /\ n <= Len(Course(k, g.given))
      /\ fault = "none" /\ g.given \in Givens /\ Memory(held, g, 8, n - 1)
  BY <1>1, Reader
<1> DEFINE first == Swaps(<<Own(g.given)>>, hexH("rotated"))
           third == InUse(lookup(Own(g.given)))
<1>3. Runs3(Course(k, g.given), first, Shows(Rotated), third)
  <2>1. Runs3(RotateCourse(g.given), first, Shows(Rotated), third)
    BY Runs, Zenon DEF RotateCourse
  <2> QED BY <1>1, <2>1, Courses
<1>4. \A s : lookup(s) # Nothing
  BY RequestFields
<1>5. n \in 1 .. 3
  BY <1>2, <1>3 DEF Runs3
<1>6. AllThere(g) /\ g.value = Value /\ g.certs \subseteq {"verifies"} /\ g.offered = TRUE
  BY <1>1, <1>2, AllThereWhereItActs DEF Memory
<1> HIDE DEF first, third
<1>7. CASE n = 1
  <2>1. body = Swapped("rotated", Value)
    <3>1. body = Swapped(hexH("rotated").q, Value)
      BY <1>2, <1>3, <1>7, Hears DEF Runs3, first
    <3> QED BY <3>1, Names
  <2>2. OK /\ body.k1 = "none" /\ body.c = Good("rotated", Value)
    BY <2>1, AnswerFields DEF OK
  <2> DEFINE C == noteCertificate(body.c, "rotated", g.value)
  <2>3. C \subseteq {"verifies"} /\ judgeCertificate(body.c, "rotated", g.value) = "verifies"
    BY <1>2, <1>6, <2>2, Noted
  <2>4. n # 2 /\ n # 3
    BY <1>7
  <2>5. /\ held' = Rotated /\ g' = [g EXCEPT !.certs = C, !.first = "verifies"]
        /\ Ask(lookup(Rotated))
    <3>1. /\ adopt(bearer("rotated"))
          /\ g' = [g EXCEPT !.certs = C,
                            !.first = judgeCertificate(body.c, "rotated", g.value)]
          /\ Provided(body.k1 = "none", lookup(bearer("rotated")))
      BY <1>7, <2>2, <2>4, Zenon DEF Rotate
    <3> HIDE DEF C
    <3> QED BY <2>2, <2>3, <3>1 DEF adopt, Provided, Rotated
  <2> HIDE DEF C
  <2>6. /\ AllThere(g') /\ g'.given = g.given /\ g'.feeKnown = g.feeKnown /\ g'.value = Value
        /\ g'.certs = C /\ g'.first = "verifies" /\ g'.offered = TRUE
    BY <1>6, <2>5 DEF AllThere
  <2>7. Memory(held', g', 8, 1)
    BY <1>2, <2>3, <2>5, <2>6 DEF Memory, Holds, AllThere, Givens
  <2>8. 1 < Len(Course(k, g.given)) /\ Course(k, g.given)[2] = Shows(Rotated)
    BY <1>3 DEF Runs3
  <2>9. n < Len(Course(k, g.given)) /\ Course(k, g.given)[n + 1] = Shows(Rotated)
    BY <1>7, <2>8
  <2>10. Memory(held', g', k, n)
    BY <1>1, <1>7, <2>7
  <2> QED BY <1>1, <1>4, <2>5, <2>6, <2>9, <2>10, ReadsToAsk, StepFields
<1>8. ASSUME n > 1 PROVE held = Rotated /\ Memory(held, g, 8, n) /\ Memory(held, g, 9, 0)
  <2>1. n - 1 >= 1
    BY <1>2, <1>8
  <2>2. held = Rotated /\ g.first = "verifies"
    BY <1>2, <2>1 DEF Memory, Holds
  <2>3. InHand(held, g, 9) /\ 9 \in 1 .. 33
    BY <1>6, <2>2 DEF InHand
  <2>4. Memory(held, g, 9, 0)
    BY <1>2, <1>6, <2>3, Minded
  <2>5. Memory(held, g, 8, n)
    BY <1>2, <1>8, <2>1 DEF Memory, Holds
  <2> QED BY <2>2, <2>4, <2>5
<1>9. CASE n = 2
  <2>1. body = Shown(Rotated, Value)
    BY <1>2, <1>3, <1>9, Hears DEF Runs3
  <2>2. worth(body, g.value)
    BY <1>6, <2>1, AnswerFields DEF worth
  <2>3. n # 1 /\ n # 3
    BY <1>9
  <2>4. Keep /\ Ask(lookup(k1))
    BY <1>9, <2>2, <2>3, Zenon DEF Rotate, Provided
  <2>5. k1 = Own(g.given)
    BY <1>2, OriginalRefs
  <2>6. 2 < Len(Course(k, g.given)) /\ Course(k, g.given)[3] = third
    BY <1>3 DEF Runs3
  <2>7. n < Len(Course(k, g.given)) /\ Course(k, g.given)[n + 1] = third
    BY <1>9, <2>6
  <2>8. Ask(lookup(Own(g.given))) /\ third.ask = lookup(Own(g.given))
    BY <2>4, <2>5, StepFields DEF third
  <2>9. Memory(held', g', k, n) /\ g' = g
    BY <1>1, <1>8, <1>9, <2>4 DEF Keep
  <2> QED BY <1>1, <1>4, <2>7, <2>8, <2>9, ReadsToAsk
<1>10. CASE n = 3
  <2>1. body = fail(AlreadyInUse)
    BY <1>2, <1>3, <1>10, Hears DEF Runs3, third
  <2>2. refused
    BY <2>1, AnswerFields DEF refused
  <2>3. n # 1 /\ n # 2
    BY <1>10
  <2>4. Keep /\ Verdict("pass")
    BY <1>10, <2>2, <2>3, Zenon DEF Rotate, Judged
  <2>5. Memory(held', g', k + 1, 0) /\ g' = g
    BY <1>1, <1>8, <1>10, <2>4 DEF Keep
  <2>6. Through(k, n)
    BY <1>1, <1>2 DEF Through
  <2> QED BY <1>1, <2>4, <2>5, <2>6, ReadsToNext
<1> QED BY <1>5, <1>7, <1>9, <1>10

\* The script whose time has come, and the value is off the tree.
LEMMA PastProceeds ==
  ASSUME NEW k, Underway(k), Past PROVE Proceeds(k)
<1>1. k = 27 /\ ask = Nothing /\ n > 0 /\ at # "done"
  <2>1. Reading("past")
    BY Zenon DEF Past
  <2> QED BY <2>1, AtPlace DEF Reading
<1>2. /\ n \in Nat /\ n >= 1 /\ n = Len(log) /\ body = log[n] /\ n <= Len(Course(k, g.given))
      /\ fault = "none" /\ g.given \in Givens /\ InHand(held, g, 27) /\ Memory(held, g, 27, n - 1)
  BY <1>1, Reader
<1> DEFINE way == call(<<SpendBy("tree", "past")>>, hexH(Back.q))
           second == Swaps(<<SpendBy("tree", "past")>>, hexH(Back.q))
           ways == <<"past", "leaf", "keyPath">>
<1>3. Runs2(Course(k, g.given), Shows(SpendBy("tree", "past")), second)
  <2>1. Runs2(PastCourse, Shows(SpendBy("tree", "past")), second)
    BY Runs, Zenon DEF PastCourse
  <2> QED BY <1>1, <2>1, Courses
<1>4. way # Nothing /\ second.ask = way
  BY RequestFields, StepFields
<1>5. n \in 1 .. 2
  BY <1>2, <1>3 DEF Runs2
<1>6. AllThere(g) /\ g.tree = Value /\ g.certs \subseteq {"verifies"}
  BY <1>1, <1>2, AllThereWhereItActs DEF InHand
<1>7. Way(ways, 1) = way /\ Home(1) = Back.q
  BY Names DEF Way, Home, Leaf
<1>8. IF n = 1 THEN Keep /\ Ask(Way(ways, 1))
      ELSE WayOut(ways, n - 1, IF n = 2 /\ log[1].status # "ERROR" THEN "pass" ELSE "fail")
  BY Zenon DEF Past
<1> HIDE DEF way, second, ways
<1>9. CASE n = 1
  <2>1. Keep /\ Ask(way)
    BY <1>7, <1>8, <1>9
  <2>2. n < Len(Course(k, g.given)) /\ Course(k, g.given)[n + 1] = second
    BY <1>3, <1>9 DEF Runs2
  <2> QED BY <1>1, <1>4, <2>1, <2>2, ReadsOn
<1>10. CASE n = 2
  <2>1. body = Swapped(Back.q, Value) /\ log[1] = Shown(SpendBy("tree", "past"), Value)
    <3>1. body = Swapped(hexH(Back.q).q, Value) /\ log[1] = Shown(SpendBy("tree", "past"), Value)
      BY <1>2, <1>3, <1>10, Hears DEF Runs2, second
    <3> QED BY <3>1, Names
  <2>2. OK /\ body.c = Good(Back.q, Value) /\ log[1].status # "ERROR"
    BY <2>1, AnswerFields DEF OK
  <2> DEFINE C == noteCertificate(body.c, Home(1), g.tree)
  <2>3. C \subseteq {"verifies"}
    BY <1>2, <1>6, <1>7, <2>2, Noted
  <2>4. n # 1 /\ n - 1 = 1
    BY <1>10
  <2>5. WayOut(ways, 1, "pass")
    BY <1>8, <1>10, <2>2, <2>4
  <2>6. held' = bearer(Back.q) /\ g' = [g EXCEPT !.certs = C, !.tree = 0] /\ Verdict("pass")
    <3>1. adopt(bearer(Home(1))) /\ g' = [g EXCEPT !.certs = C, !.tree = 0] /\ Verdict("pass")
      BY <2>2, <2>5, Zenon DEF WayOut
    <3> QED BY <1>7, <3>1 DEF adopt
  <2> HIDE DEF C
  <2>7. /\ AllThere(g') /\ g'.given = g.given /\ g'.feeKnown = g.feeKnown /\ g'.value = g.value
        /\ g'.certs = C /\ g'.first = g.first /\ g'.offered = g.offered
    BY <1>6, <2>6 DEF AllThere
  <2>8. held' = Back
    BY <2>6, Names DEF Back
  <2>9. InHand(held', g', 28) /\ 28 \in 1 .. 33
    BY <1>2, <2>3, <2>7, <2>8 DEF InHand
  <2>10. Memory(held', g', k + 1, 0)
    BY <1>1, <1>2, <2>7, <2>9, Minded
  <2>11. Through(k, n)
    BY <1>1, <1>10 DEF Through
  <2> QED BY <1>1, <2>6, <2>7, <2>10, <2>11, ReadsToNext
<1> QED BY <1>5, <1>9, <1>10

\* The value goes into a note with a key.
LEMMA CreditsKeyNoteProceeds ==
  ASSUME NEW k, Underway(k), CreditsKeyNote PROVE Proceeds(k)
<1>1. k = 28 /\ ask = Nothing /\ n > 0 /\ at # "done"
  <2>1. Reading("keyNote")
    BY Zenon DEF CreditsKeyNote
  <2> QED BY <2>1, AtPlace DEF Reading
<1>2. /\ n \in Nat /\ n >= 1 /\ n = Len(log) /\ body = log[n] /\ n <= Len(Course(k, g.given))
      /\ fault = "none" /\ g.given \in Givens /\ InHand(held, g, 28) /\ Memory(held, g, 28, n - 1)
  BY <1>1, Reader
<1> DEFINE pays == call(<<Back>>, cp1("key"))
           second == Swaps(<<Back>>, cp1("key"))
<1>3. Runs2(Course(k, g.given), Shows(Back), second)
  <2>1. Runs2(KeyNoteCourse, Shows(Back), second)
    BY Runs, Zenon DEF KeyNoteCourse
  <2> QED BY <1>1, <2>1, Courses
<1>4. pays # Nothing /\ second.ask = pays
  BY RequestFields, StepFields
<1>5. n \in 1 .. 2
  BY <1>2, <1>3 DEF Runs2
<1>6. AllThere(g) /\ held = Back /\ g.certs \subseteq {"verifies"}
  BY <1>1, <1>2, AllThereWhereItActs DEF InHand
<1> HIDE DEF pays, second
<1>7. CASE n = 1
  <2>1. body = Shown(Back, Value)
    BY <1>2, <1>3, <1>7, Hears DEF Runs2
  <2>2. ~refused /\ n # 2
    BY <1>7, <2>1, AnswerFields DEF refused
  <2>3. Keep /\ Ask(call(<<held>>, cp1("key")))
    BY <1>7, <2>2, Zenon DEF CreditsKeyNote, Provided
  <2>4. Ask(pays)
    BY <1>6, <2>3 DEF pays
  <2>5. n < Len(Course(k, g.given)) /\ Course(k, g.given)[n + 1] = second
    BY <1>3, <1>7 DEF Runs2
  <2> QED BY <1>1, <1>4, <2>3, <2>4, <2>5, ReadsOn
<1>8. CASE n = 2
  <2>1. body = Swapped("key", Value) /\ log[1] = Shown(Back, Value)
    <3>1. body = Swapped(cp1("key").q, Value) /\ log[1] = Shown(Back, Value)
      BY <1>2, <1>3, <1>8, Hears DEF Runs2, second
    <3> QED BY <3>1, Names
  <2>2. OK /\ body.c = Good("key", Value) /\ log[1].value = Value /\ n # 1
    BY <1>8, <2>1, AnswerFields DEF OK
  <2> DEFINE C == noteCertificate(body.c, "key", log[1].value)
  <2>3. C \subseteq {"verifies"}
    BY <1>2, <1>6, <2>2, Noted
  <2>4. adopt(KeyNote("ck1")) /\ g' = [g EXCEPT !.keyed = log[1].value, !.certs = C]
        /\ Verdict("pass")
    BY <1>8, <2>2, Zenon DEF CreditsKeyNote
  <2> HIDE DEF C
  <2>5. /\ AllThere(g') /\ g'.given = g.given /\ g'.feeKnown = g.feeKnown /\ g'.value = g.value
        /\ g'.certs = C /\ g'.first = g.first /\ g'.offered = g.offered /\ g'.keyed = Value
    BY <1>6, <2>2, <2>4 DEF AllThere
  <2>6. held' = SpendBy("key", "ck1")
    BY <2>4 DEF adopt, KeyNote
  <2>7. InHand(held', g', 29) /\ 29 \in 1 .. 33
    BY <1>2, <2>3, <2>5, <2>6 DEF InHand
  <2>8. Memory(held', g', k + 1, 0)
    BY <1>1, <1>2, <2>5, <2>7, Minded
  <2>9. Through(k, n)
    BY <1>1, <1>8 DEF Through
  <2> QED BY <1>1, <2>4, <2>5, <2>8, <2>9, ReadsToNext
<1> QED BY <1>5, <1>7, <1>8

\* And comes out of it by a signature.
LEMMA SpendsKeyNoteProceeds ==
  ASSUME NEW k, Underway(k), SpendsKeyNote PROVE Proceeds(k)
<1>1. k = 31 /\ ask = Nothing /\ n > 0 /\ at # "done"
  <2>1. Reading("keySpend")
    BY Zenon DEF SpendsKeyNote
  <2> QED BY <2>1, AtPlace DEF Reading
<1>2. /\ n \in Nat /\ n >= 1 /\ n = Len(log) /\ body = log[n] /\ n <= Len(Course(k, g.given))
      /\ fault = "none" /\ g.given \in Givens /\ InHand(held, g, 31) /\ Memory(held, g, 31, n - 1)
  BY <1>1, Reader
<1> DEFINE key == SpendBy("key", "ck1")
           pays == call(<<key>>, hexH("home-by-key"))
           second == Swaps(<<key>>, hexH("home-by-key"))
<1>3. Runs2(Course(k, g.given), Shows(key), second)
  <2>1. Runs2(KeySpendCourse, Shows(key), second)
    BY Runs, Zenon DEF KeySpendCourse
  <2> QED BY <1>1, <2>1, Courses
<1>4. pays # Nothing /\ second.ask = pays
  BY RequestFields, StepFields
<1>5. n \in 1 .. 2
  BY <1>2, <1>3 DEF Runs2
<1>6. AllThere(g) /\ g.keyed = Value /\ g.certs \subseteq {"verifies"} /\ KeyNote("ck1") = key
      /\ key.q = "key" /\ key.how = "ck1"
  BY <1>1, <1>2, AllThereWhereItActs, Names DEF InHand, KeyNote
<1> HIDE DEF pays, second, key
<1>7. CASE n = 1
  <2>1. n # 2 /\ n # 3
    BY <1>7
  <2>2. Keep /\ Ask(call(<<KeyNote("ck1")>>, hexH("home-by-key")))
    BY <1>7, <2>1, Zenon DEF SpendsKeyNote
  <2>3. Ask(pays)
    BY <1>6, <2>2 DEF pays
  <2>4. n < Len(Course(k, g.given)) /\ Course(k, g.given)[n + 1] = second
    BY <1>3, <1>7 DEF Runs2
  <2> QED BY <1>1, <1>4, <2>2, <2>3, <2>4, ReadsOn
<1>8. CASE n = 2
  <2>1. body = Swapped("home-by-key", Value) /\ log[1] = Shown(key, Value)
    <3>1. body = Swapped(hexH("home-by-key").q, Value) /\ log[1] = Shown(key, Value)
      BY <1>2, <1>3, <1>8, Hears DEF Runs2, second
    <3> QED BY <3>1, Names
  <2>2. /\ OK /\ body.c = Good("home-by-key", Value) /\ n # 1 /\ n # 3
        /\ log[1].value = Value /\ log[1].c = Good("key", Value) /\ log[1].k1 = "ck1"
        /\ worth(log[1], g.keyed)
    BY <1>6, <1>8, <2>1, AnswerFields DEF OK, worth
  <2> DEFINE D == noteCertificate(body.c, "home-by-key", g.keyed)
             C == D \cup {judgeCertificate(log[1].c, "key", log[1].value)}
             fine == worth(log[1], g.keyed) /\ log[1].k1 = "ck1"
  <2>3. C \subseteq {"verifies"}
    BY <1>2, <1>6, <2>2, Noted
  <2>4. /\ adopt(bearer("home-by-key"))
        /\ g' = IF fine THEN [g EXCEPT !.certs = C, !.keyed = 0] ELSE [g EXCEPT !.certs = D]
        /\ Judged(fine)
    BY <1>8, <2>2, Zenon DEF SpendsKeyNote
  <2>5. fine
    BY <2>2
  <2> HIDE DEF C, D, fine
  <2>6. held' = bearer("home-by-key") /\ g' = [g EXCEPT !.certs = C, !.keyed = 0]
        /\ Verdict("pass")
    BY <2>4, <2>5 DEF adopt, Judged
  <2>7. /\ AllThere(g') /\ g'.given = g.given /\ g'.feeKnown = g.feeKnown /\ g'.value = g.value
        /\ g'.certs = C /\ g'.first = g.first /\ g'.offered = g.offered
    BY <1>6, <2>6 DEF AllThere
  <2>8. InHand(held', g', 32) /\ 32 \in 1 .. 33
    BY <1>2, <2>3, <2>7 DEF InHand
  <2>9. Memory(held', g', k + 1, 0)
    <3>1. Memory(held', g', 32, 0)
      BY <1>2, <2>6, <2>7, <2>8, Minded
    <3> QED BY <1>1, <3>1
  <2>10. Through(k, n)
    BY <1>1, <1>8 DEF Through
  <2> QED BY <1>1, <2>6, <2>7, <2>9, <2>10, ReadsToNext
<1> QED BY <1>5, <1>7, <1>8

\* The long form, and the value goes into a tree.
LEMMA FullCw1Proceeds ==
  ASSUME NEW k, Underway(k), FullCw1 PROVE Proceeds(k)
<1>1. k = 20 /\ ask = Nothing /\ n > 0 /\ at # "done"
  <2>1. Reading("fullCw1")
    BY Zenon DEF FullCw1
  <2> QED BY <2>1, AtPlace DEF Reading
<1>2. /\ n \in Nat /\ n >= 1 /\ n = Len(log) /\ body = log[n] /\ n <= Len(Course(k, g.given))
      /\ fault = "none" /\ g.given \in Givens /\ Memory(held, g, 20, n - 1)
  BY <1>1, Reader
<1> DEFINE long == Long(AfterRetry)
           pays == call(<<long>>, cp1("tree"))
           third == Swaps(<<long>>, cp1("tree"))
           leaf == SpendBy("tree", "leaf")
<1>3. Runs4(Course(k, g.given), Shows(AfterRetry), Shows(long), third, Shows(leaf))
  <2>1. Runs4(FullCw1Course, Shows(AfterRetry), Shows(long), third, Shows(leaf))
    BY Runs, Zenon DEF FullCw1Course
  <2> QED BY <1>1, <2>1, Courses
<1>4. /\ pays # Nothing /\ third.ask = pays /\ lookup(long) # Nothing /\ lookup(leaf) # Nothing
      /\ Shows(long).ask = lookup(long) /\ Shows(leaf).ask = lookup(leaf)
  BY RequestFields, StepFields
<1>5. n \in 1 .. 4
  BY <1>2, <1>3 DEF Runs4
<1>6. AllThere(g) /\ g.certs \subseteq {"verifies"} /\ g.value = Value /\ g.offered = TRUE
      /\ g.first = "verifies"
  BY <1>1, <1>2, AllThereWhereItActs DEF Memory
<1>7. \A s : s.how = "preimage" => respell(s) = <<Long(s)>>
  BY DEF respell, Long
<1>8. AfterRetry.how = "preimage" /\ long.how = "cw1" /\ respell(AfterRetry) = <<long>>
  <2>1. AfterRetry.how = "preimage"
    BY Names DEF AfterRetry
  <2> QED BY <1>7, <2>1, Names
<1> HIDE DEF pays, third, long, leaf
<1>9. n <= 3 => held = AfterRetry
  BY <1>2, <1>5 DEF Memory, Holds, Era, HeldIn
<1>10. n <= 2 => Memory(held, g, 20, n)
  BY <1>2, <1>5 DEF Memory, Holds
<1>11. CASE n = 1
  <2>1. n # 2 /\ n # 3 /\ n # 4 /\ ~(n > 4)
    BY <1>11
  <2>2. Keep /\ Ask(lookup(respell(held)[1]))
    BY <1>11, <2>1, Zenon DEF FullCw1
  <2>3. respell(held)[1] = long
    BY <1>8, <1>9, <1>11
  <2>4. n < Len(Course(k, g.given)) /\ Course(k, g.given)[n + 1] = Shows(long)
    BY <1>3, <1>11 DEF Runs4
  <2>5. Ask(lookup(long))
    BY <2>2, <2>3
  <2>6. Memory(held', g', k, n) /\ g' = g
    BY <1>1, <1>10, <1>11, <2>2 DEF Keep
  <2> QED BY <1>1, <1>4, <2>4, <2>5, <2>6, ReadsToAsk
<1>12. CASE n = 2
  <2>1. body = Shown(long, Value) /\ log[1] = Shown(AfterRetry, Value)
    BY <1>2, <1>3, <1>12, Hears DEF Runs4
  <2>2. log[1].status # "ERROR" /\ worth(body, log[1].value) /\ body.k1 = "cw1"
    BY <1>8, <2>1, AnswerFields DEF worth
  <2>3. n # 1 /\ n # 3 /\ n # 4 /\ ~(n > 4)
    BY <1>12
  <2>4. Keep /\ Ask(call(respell(held), cp1("tree")))
    BY <1>12, <2>2, <2>3, Zenon DEF FullCw1, Provided
  <2>5. Ask(pays)
    BY <1>8, <1>9, <1>12, <2>4 DEF pays
  <2>6. n < Len(Course(k, g.given)) /\ Course(k, g.given)[n + 1] = third
    BY <1>3, <1>12 DEF Runs4
  <2>7. Memory(held', g', k, n) /\ g' = g
    BY <1>1, <1>10, <1>12, <2>4 DEF Keep
  <2> QED BY <1>1, <1>4, <2>5, <2>6, <2>7, ReadsToAsk
<1>13. CASE n = 3
  <2>1. body = Swapped("tree", Value) /\ log[1] = Shown(AfterRetry, Value)
    <3>1. body = Swapped(cp1("tree").q, Value) /\ log[1] = Shown(AfterRetry, Value)
      BY <1>2, <1>3, <1>13, Hears DEF Runs4, third
    <3> QED BY <3>1, Names
  <2>2. OK /\ body.c = Good("tree", Value) /\ log[1].value = Value
    BY <2>1, AnswerFields DEF OK
  <2>3. n # 1 /\ n # 2 /\ n # 4 /\ ~(n > 4)
    BY <1>13
  <2> DEFINE C == noteCertificate(body.c, "tree", log[1].value)
  <2>4. C \subseteq {"verifies"}
    BY <1>2, <1>6, <2>2, Noted
  <2>5. /\ adopt(Leaf("leaf")) /\ g' = [g EXCEPT !.tree = log[1].value, !.certs = C]
        /\ Ask(lookup(Leaf("leaf")))
    BY <1>13, <2>2, <2>3, Zenon DEF FullCw1
  <2> HIDE DEF C
  <2>6. held' = leaf /\ g' = [g EXCEPT !.tree = Value, !.certs = C] /\ Ask(lookup(leaf))
    BY <2>2, <2>5 DEF adopt, Leaf, leaf
  <2>7. /\ AllThere(g') /\ g'.given = g.given /\ g'.feeKnown = g.feeKnown /\ g'.value = Value
        /\ g'.certs = C /\ g'.first = "verifies" /\ g'.offered = TRUE /\ g'.tree = Value
    BY <1>6, <2>6 DEF AllThere
  <2>8. Memory(held', g', 20, 3)
    BY <1>2, <2>4, <2>6, <2>7 DEF Memory, Holds, AllThere, Givens, leaf
  <2>9. n < Len(Course(k, g.given)) /\ Course(k, g.given)[n + 1] = Shows(leaf)
    BY <1>3, <1>13 DEF Runs4
  <2>10. Memory(held', g', k, n)
    BY <1>1, <1>13, <2>8
  <2> QED BY <1>1, <1>4, <2>6, <2>7, <2>9, <2>10, ReadsToAsk
<1>14. CASE n = 4
  <2>1. body = Shown(leaf, Value)
    BY <1>2, <1>3, <1>14, Hears DEF Runs4
  <2>2. Memory(held, g, 20, 3)
    BY <1>2, <1>14
  <2>3. held = leaf /\ g.tree = Value
    BY <2>2 DEF Memory, Holds, leaf
  <2>4. ~refused /\ body.value = g.tree
    BY <2>1, <2>3, AnswerFields DEF refused
  <2>5. n # 1 /\ n # 2 /\ n # 3 /\ ~(n > 4)
    BY <1>14
  <2>6. Keep /\ Verdict("pass")
    BY <1>14, <2>4, <2>5, Zenon DEF FullCw1, Judged
  <2>7. InHand(held, g, 21) /\ 21 \in 1 .. 33
    BY <1>6, <2>3 DEF InHand, leaf
  <2>8. Memory(held, g, 21, 0)
    BY <1>2, <1>6, <2>7, Minded
  <2>9. Memory(held', g', k + 1, 0) /\ g' = g
    BY <1>1, <2>6, <2>8 DEF Keep
  <2>10. Through(k, n)
    BY <1>1, <1>14 DEF Through
  <2> QED BY <1>1, <2>6, <2>9, <2>10, ReadsToNext
<1> QED BY <1>5, <1>11, <1>12, <1>13, <1>14

\* The split and the merge.  Only a grader that was not told the fee can get
\* here without room for both.
LEMMA SplitProceeds ==
  ASSUME NEW k, Underway(k), Short, Split PROVE Proceeds(k)
<1>1. k = 17 /\ ask = Nothing /\ n > 0 /\ at = "split" /\ at # "done"
  <2>1. Reading("split")
    BY Zenon DEF Split
  <2> QED BY <2>1, AtPlace DEF Reading
<1>2. /\ n \in Nat /\ n >= 1 /\ n = Len(log) /\ body = log[n] /\ n <= Len(Course(k, g.given))
      /\ fault = "none" /\ g.given \in Givens /\ Memory(held, g, 17, n - 1)
  BY <1>1, Reader
<1> DEFINE a == bearer("first-half")
           b == bearer("second-half")
           halves == split(Rotated, Share, hexH("first-half"), hexH("second-half"))
           divides == Step(halves, Divided("first-half", Share, "second-half", Rest))
           one == Step(lookup(a), Shown(a, Share))
           other == Step(lookup(b), Shown(b, Rest))
           merges == call(<<a, b>>, hexH("merged"))
           fourth == Swaps(<<a, b>>, hexH("merged"))
           merged == bearer("merged")
<1>3. /\ Roomy => Runs5(Course(k, g.given), divides, one, other, fourth, Shows(merged))
      /\ ~Roomy => Runs1(Course(k, g.given), Refuses(halves))
  <2>1. /\ Roomy => Runs5(SplitCourse, divides, one, other, fourth, Shows(merged))
        /\ ~Roomy => Runs1(SplitCourse, Refuses(halves))
    BY Runs, Zenon DEF SplitCourse
  <2> QED BY <1>1, <2>1, Courses
<1>4. /\ \A s : lookup(s) # Nothing
      /\ merges # Nothing /\ fourth.ask = merges /\ one.ask = lookup(a) /\ other.ask = lookup(b)
      /\ Shows(merged).ask = lookup(merged)
  BY RequestFields, StepFields
<1>5. AllThere(g) /\ g.certs \subseteq {"verifies"} /\ g.value = Value /\ g.offered = TRUE
      /\ g.first = "verifies"
  BY <1>1, <1>2, AllThereWhereItActs DEF Memory
<1>6. half = Share /\ Half(1) = a /\ Half(2) = b /\ a.q = "first-half" /\ b.q = "second-half"
  BY <1>5, Names DEF half, Share, Half
<1> HIDE DEF divides, one, other, fourth, merges, a, b, halves, merged
<1>7. CASE ~Roomy
  <2>1. n = 1
    <3>1. Runs1(Course(k, g.given), Refuses(halves))
      BY <1>3, <1>7
    <3> QED BY <1>2, <3>1 DEF Runs1
  <2>2. body.status = "ERROR"
    BY <1>2, <1>3, <1>7, <2>1, Hears DEF Runs1
  <2>3. ~OK /\ n # 2 /\ n # 3 /\ n # 4 /\ n # 5
    BY <2>1, <2>2 DEF OK
  <2>4. Keep /\ Verdict("fail")
    BY <2>1, <2>3, Zenon DEF Split, Provided
  <2>5. ~FairlyAsked(g.feeKnown)
    BY <1>1, <1>7 DEF Short
  <2>6. InHand(held, g, 18) /\ 18 \in 1 .. 33
    <3>1. held = Rotated
      BY <1>2, <2>1 DEF Memory, Holds, Era, HeldIn
    <3>2. AfterSplit = Rotated
      BY <1>7 DEF AfterSplit, Rotated
    <3> QED BY <1>5, <3>1, <3>2 DEF InHand
  <2>7. Memory(held, g, 18, 0)
    BY <1>2, <1>5, <2>6, Minded
  <2>8. Memory(held', g', k + 1, 0) /\ g' = g
    BY <1>1, <2>4, <2>7 DEF Keep
  <2>9. Through(k, Len(log))
    BY <1>1, <1>2, <1>7 DEF Through
  <2> QED BY <2>4, <2>5, <2>8, <2>9, Passes
<1>8. CASE Roomy
  <2>1. Runs5(Course(k, g.given), divides, one, other, fourth, Shows(merged))
    BY <1>3, <1>8
  <2>2. n \in 1 .. 5
    BY <1>2, <2>1 DEF Runs5
  <2>3. n <= 3 => Memory(held, g, 17, n)
    BY <1>2, <2>2 DEF Memory, Holds
  <2>4. log[1] = Divided("first-half", Share, "second-half", Rest)
    <3>1. 1 \in 1 .. Len(log)
      BY <1>2
    <3> QED BY <2>1, <3>1, Hears DEF Runs5, divides
  <2>5. n >= 2 => log[2] = Shown(a, Share)
    BY <1>2, <2>1, Hears DEF Runs5, one
  <2>6. n >= 3 => log[3] = Shown(b, Rest)
    BY <1>2, <2>1, Hears DEF Runs5, other
  <2>7. n >= 4 => log[4] = Swapped("merged", Value)
    <3>1. n >= 4 => log[4] = Swapped(hexH("merged").q, Value)
      BY <1>2, <2>1, Hears DEF Runs5, fourth
    <3> QED BY <3>1, Names
  <2>8. n >= 5 => log[5] = Shown(merged, Value)
    BY <1>2, <2>1, Hears DEF Runs5
  <2>9. CASE n = 1
    <3>1. OK
      BY <1>2, <2>4, <2>9, AnswerFields DEF OK
    <3>2. n # 2 /\ n # 3 /\ n # 4 /\ n # 5
      BY <2>9
    <3>3. Keep /\ Ask(lookup(Half(1)))
      BY <2>9, <3>1, <3>2, Zenon DEF Split, Provided
    <3>4. n < Len(Course(k, g.given)) /\ Course(k, g.given)[n + 1] = one
      BY <2>1, <2>9 DEF Runs5
    <3>5. Memory(held', g', k, n) /\ g' = g /\ Ask(lookup(a))
      BY <1>1, <1>6, <2>3, <2>9, <3>3 DEF Keep
    <3> QED BY <1>1, <1>4, <3>4, <3>5, ReadsToAsk
  <2>10. CASE n = 2
    <3>1. ~refused
      BY <1>2, <2>5, <2>10, AnswerFields DEF refused
    <3>2. n # 1 /\ n # 3 /\ n # 4 /\ n # 5
      BY <2>10
    <3>3. Keep /\ Ask(lookup(Half(2)))
      BY <2>10, <3>1, <3>2, Zenon DEF Split, Provided
    <3>4. n < Len(Course(k, g.given)) /\ Course(k, g.given)[n + 1] = other
      BY <2>1, <2>10 DEF Runs5
    <3>5. Memory(held', g', k, n) /\ g' = g /\ Ask(lookup(b))
      BY <1>1, <1>6, <2>3, <2>10, <3>3 DEF Keep
    <3> QED BY <1>1, <1>4, <3>4, <3>5, ReadsToAsk
  <2>11. CASE n = 3
    <3>1. /\ ~refused /\ log[2].value = Share /\ log[3].value = Rest
          /\ log[1].c = Good("first-half", Share) /\ log[1].c2 = Good("second-half", Rest)
      BY <1>2, <2>4, <2>5, <2>6, <2>11, AnswerFields DEF refused
    <3>2. n # 1 /\ n # 2 /\ n # 4 /\ n # 5
      BY <2>11
    <3> DEFINE C == noteCertificate(log[1].c, Half(1).q, log[2].value)
                    \cup noteCertificate(log[1].c2, Half(2).q, log[3].value)
               fine == log[2].value = half
                       /\ (IF g.feeKnown THEN log[3].value = g.value - half - BaseFee
                           ELSE log[2].value + log[3].value <= g.value)
    <3>3. C \subseteq {"verifies"}
      BY <1>2, <1>5, <1>6, <3>1, Noted
    <3>4. fine
      <4>1. Rest = Value - Share - BaseFee /\ Value \in Int /\ Share \in Int /\ BaseFee \in Nat
        BY Money DEF Rest, Share
      <4>2. Share + Rest <= Value
        BY <4>1
      <4> QED BY <1>5, <1>6, <3>1, <4>1, <4>2
    <3>5. /\ held' = held /\ With(C)
          /\ Provided(fine, call(<<Half(1), Half(2)>>, hexH("merged")))
      BY <2>11, <3>1, <3>2, Zenon DEF Split
    <3> HIDE DEF C, fine
    <3>6. g' = [g EXCEPT !.certs = C] /\ Ask(merges)
      BY <1>6, <3>4, <3>5 DEF Provided, With, merges
    <3>7. /\ AllThere(g') /\ g'.given = g.given /\ g'.feeKnown = g.feeKnown /\ g'.value = Value
          /\ g'.certs = C /\ g'.first = "verifies" /\ g'.offered = TRUE
      BY <1>5, <3>6 DEF AllThere
    <3>8. held' = Rotated
      <4>1. Memory(held, g, 17, 2)
        BY <1>2, <2>11
      <4> QED BY <3>5, <4>1 DEF Memory, Holds, Era, HeldIn
    <3>9. Memory(held', g', 17, 3)
      BY <1>2, <3>3, <3>7, <3>8 DEF Memory, Holds, AllThere, Givens, Era, HeldIn
    <3>10. n < Len(Course(k, g.given)) /\ Course(k, g.given)[n + 1] = fourth
      BY <2>1, <2>11 DEF Runs5
    <3>11. Memory(held', g', k, n)
      BY <1>1, <2>11, <3>9
    <3> QED BY <1>1, <1>4, <3>6, <3>7, <3>10, <3>11, ReadsToAsk
  <2>12. CASE n = 4
    <3>1. OK
      BY <1>2, <2>7, <2>12, AnswerFields DEF OK
    <3>2. n # 1 /\ n # 2 /\ n # 3 /\ n # 5
      BY <2>12
    <3>3. adopt(rejoined("merged")) /\ g' = g /\ Ask(lookup(bearer("merged")))
      BY <2>12, <3>1, <3>2, Zenon DEF Split
    <3>4. held' = merged /\ Ask(lookup(merged))
      BY <3>3 DEF adopt, rejoined, merged
    <3>5. n < Len(Course(k, g.given)) /\ Course(k, g.given)[n + 1] = Shows(merged)
      BY <2>1, <2>12 DEF Runs5
    <3>6. Memory(held', g', 17, 4)
      BY <1>2, <2>12, <3>3, <3>4 DEF Memory, Holds, merged
    <3>7. Memory(held', g', k, n)
      BY <1>1, <2>12, <3>6
    <3> QED BY <1>1, <1>4, <3>3, <3>4, <3>5, <3>7, ReadsToAsk
  <2>13. CASE n = 5
    <3>1. /\ ~refused /\ log[2].value = Share /\ log[3].value = Rest /\ body.value = Value
          /\ log[4].c = Good("merged", Value)
      BY <1>2, <2>5, <2>6, <2>7, <2>8, <2>13, AnswerFields DEF refused
    <3>2. n # 1 /\ n # 2 /\ n # 3 /\ n # 4
      BY <2>13
    <3> DEFINE C == noteCertificate(log[4].c, "merged", body.value)
               fine == IF g.feeKnown THEN body.value = log[2].value + log[3].value + BaseFee
                       ELSE body.value \in log[2].value + log[3].value .. g.value
    <3>3. C \subseteq {"verifies"}
      BY <1>2, <1>5, <3>1, Noted
    <3>4. fine
      <4>1. Rest = Value - Share - BaseFee /\ Value \in Int /\ Share \in Int /\ BaseFee \in Nat
        BY Money DEF Rest, Share
      <4>2. Value = Share + Rest + BaseFee /\ Value \in Share + Rest .. Value
        BY <4>1
      <4> QED BY <1>5, <3>1, <4>2
    <3>5. held' = held /\ With(C) /\ Judged(fine)
      BY <2>13, <3>1, <3>2, Zenon DEF Split
    <3> HIDE DEF C, fine
    <3>6. g' = [g EXCEPT !.certs = C] /\ Verdict("pass")
      BY <3>4, <3>5 DEF Judged, With
    <3>7. /\ AllThere(g') /\ g'.given = g.given /\ g'.feeKnown = g.feeKnown /\ g'.value = Value
          /\ g'.certs = C /\ g'.first = "verifies" /\ g'.offered = TRUE
      BY <1>5, <3>6 DEF AllThere
    <3>8. held' = AfterSplit
      <4>1. AfterSplit = bearer("merged")
        BY <1>8 DEF AfterSplit
      <4>2. Memory(held, g, 17, 4)
        BY <1>2, <2>13
      <4> QED BY <3>5, <4>1, <4>2 DEF Memory, Holds
    <3>9. InHand(held', g', 18) /\ 18 \in 1 .. 33
      BY <3>3, <3>7, <3>8 DEF InHand
    <3>10. Memory(held', g', k + 1, 0)
      BY <1>1, <1>2, <3>7, <3>9, Minded
    <3>11. Through(k, n)
      BY <1>1, <2>13 DEF Through
    <3> QED BY <1>1, <3>6, <3>7, <3>10, <3>11, ReadsToNext
  <2> QED BY <2>2, <2>9, <2>10, <2>11, <2>12, <2>13
<1> QED BY <1>7, <1>8

\* What is sent again after a rotate: its long form, and to a cp1.
LEMMA RespeltStarts ==
  ASSUME g.prior = AfterSplit
  PROVE  /\ Len(Respelt) = 2
         /\ Respelt[1] = call(<<Long(AfterSplit)>>, hexH("retried"))
         /\ Respelt[2] = call(<<AfterSplit>>, cp1("retried"))
<1> DEFINE a == call(<<Long(AfterSplit)>>, hexH("retried"))
           b == call(<<AfterSplit>>, cp1("retried"))
           longer == [i \in DOMAIN respell(g.prior) |->
                        call(<<respell(g.prior)[i]>>, hexH("retried"))]
<1>1. Respelt = longer \o <<b>>
  BY DEF Respelt
<1>2. respell(AfterSplit) = <<Long(AfterSplit)>>
  <2>1. AfterSplit.how = "preimage"
    BY Names DEF AfterSplit
  <2> QED BY <2>1 DEF respell, Long
<1>3. DOMAIN respell(g.prior) = 1 .. 1 /\ respell(g.prior)[1] = Long(AfterSplit)
  BY <1>2
<1>4. DOMAIN longer = 1 .. 1 /\ longer[1] = a
  BY <1>3
<1>5. longer = [i \in DOMAIN respell(g.prior) |->
                  call(<<respell(g.prior)[i]>>, hexH("retried"))]
  OBVIOUS
<1> HIDE DEF longer, a, b
<1>6. longer \in Seq({a}) /\ Len(longer) = 1
  <2>1. longer = [i \in 1 .. 1 |-> longer[i]]
    BY <1>3, <1>4, <1>5
  <2>2. \A i \in 1 .. 1 : longer[i] = a
    BY <1>4
  <2> QED BY <1>4, <2>1, <2>2
<1>7. <<b>> \in Seq({a, b}) /\ longer \in Seq({a, b}) /\ Len(<<b>>) = 1 /\ <<b>>[1] = b
  BY <1>6
<1>8. /\ Len(longer \o <<b>>) = Len(longer) + Len(<<b>>)
      /\ \A i \in 1 .. Len(longer) + Len(<<b>>) :
           (longer \o <<b>>)[i] = IF i <= Len(longer) THEN longer[i] ELSE <<b>>[i - Len(longer)]
  BY <1>7, Joined
<1>9. Len(Respelt) = 2 /\ Respelt[1] = a /\ Respelt[2] = b
  BY <1>1, <1>4, <1>6, <1>7, <1>8
<1> QED BY <1>9 DEF a, b

\* The rotate that will be retried.
LEMMA RetryStarts ==
  ASSUME Retry, n = 1, OK
  PROVE  /\ adopt(bearer("retried")) /\ g' = [g EXCEPT !.prior = held]
         /\ Ask(lookup(bearer("retried")))
<1> DEFINE m == 4 + 2 * Len(Respelt)
<1>1. Len(Respelt) \in Nat
  BY RespeltAsks
<1>2. n # 2 /\ ~(n \in 3 .. m - 1 /\ n % 2 = 1) /\ ~(n \in 4 .. m /\ n % 2 = 0)
      /\ n # m + 1 /\ n # m + 2 /\ n # m + 3 /\ n # m + 4 /\ n # m + 5 /\ n # m + 6
      /\ n # m + 7 /\ n # m + 8
  BY <1>1
<1> QED BY <1>2, Zenon DEF Retry

\* What the check does with each answer, when nothing is amiss.
LEMMA RetryArms ==
  ASSUME Retry, n \in Nat, Len(Respelt) = 2
  PROVE  LET worthNow == LiveValue(log[2])
             fine == /\ LiveValue(body) = worthNow
                     /\ log[n - 1].status = "OK" /\ log[n - 1].c = log[1].c
             small == worthNow \div 2 < 1
                      \/ (g.feeKnown /\ worthNow - worthNow \div 2 < BaseFee + 1)
         IN
         /\ n = 2 /\ worthNow # NoAmount =>
              /\ held' = held /\ With(noteCertificate(log[1].c, "retried", worthNow))
              /\ Ask(call(<<g.prior>>, hexH("retried")))
         /\ n = 3 =>
              Keep /\ Ask(lookup(bearer("retried")))
         /\ n = 4 /\ fine =>
              Keep /\ Ask(Respelt[1])
         /\ n = 5 =>
              Keep /\ Ask(lookup(bearer("retried")))
         /\ n = 6 /\ fine =>
              Keep /\ Ask(Respelt[2])
         /\ n = 7 =>
              Keep /\ Ask(lookup(bearer("retried")))
         /\ n = 8 /\ fine =>
              Keep /\ (IF small THEN Verdict("warn") ELSE Ask(Pieces(worthNow)))
         /\ n = 9 =>
              Keep /\ Provided(OK, lookup(Piece(1)))
         /\ n = 10 =>
              Keep /\ Ask(lookup(Piece(2)))
         /\ n = 11 =>
              /\ held' = held /\ Ask(Pieces(worthNow))
              /\ With(noteCertificate(log[9].c, Piece(1).q, LiveValue(log[10]))
                      \cup noteCertificate(log[9].c2, Piece(2).q, LiveValue(body)))
         /\ n = 12 =>
              Keep /\ Ask(lookup(Piece(1)))
         /\ n = 13 =>
              Keep /\ Ask(lookup(Piece(2)))
         /\ n = 14 =>
              /\ Keep
              /\ Provided(/\ LiveValue(log[13]) = LiveValue(log[10])
                          /\ LiveValue(body) = LiveValue(log[11])
                          /\ log[12].status = "OK"
                          /\ log[12].c = log[9].c /\ log[12].c2 = log[9].c2,
                          call(<<Piece(1), Piece(2)>>, hexH("rejoined")))
         /\ n = 15 /\ OK =>
              /\ adopt(rejoined("rejoined")) /\ g' = g
              /\ Ask(lookup(bearer("rejoined")))
         /\ n = 16 =>
              /\ held' = held /\ Verdict("pass")
              /\ With(noteCertificate(log[15].c, "rejoined", LiveValue(body)))
<1> DEFINE m == 4 + 2 * Len(Respelt)
           worthNow == LiveValue(log[2])
           fine == /\ LiveValue(body) = worthNow
                   /\ log[n - 1].status = "OK" /\ log[n - 1].c = log[1].c
           small == worthNow \div 2 < 1
                    \/ (g.feeKnown /\ worthNow - worthNow \div 2 < BaseFee + 1)
<1>1. m = 8
  OBVIOUS
<1>2. ASSUME n = 2, worthNow # NoAmount
      PROVE  /\ held' = held /\ With(noteCertificate(log[1].c, "retried", worthNow))
               /\ Ask(call(<<g.prior>>, hexH("retried")))
  <2>1. /\ ~(n = 1) /\ n = 2 /\ ~(n \in 3 .. m - 1 /\ n % 2 = 1) /\ ~(n \in 4 .. m /\ n % 2 = 0)
        /\ ~(n = m + 1) /\ ~(n = m + 2) /\ ~(n = m + 3) /\ ~(n = m + 4)
        /\ ~(n = m + 5) /\ ~(n = m + 6) /\ ~(n = m + 7) /\ ~(n = m + 8)
    BY <1>1, <1>2
  <2> QED BY <1>2, <2>1, Zenon DEF Retry
<1>3. ASSUME n = 3
      PROVE  Keep /\ Ask(lookup(bearer("retried")))
  <2>1. /\ ~(n = 1) /\ ~(n = 2) /\ (n \in 3 .. m - 1 /\ n % 2 = 1) /\ ~(n \in 4 .. m /\ n % 2 = 0)
        /\ ~(n = m + 1) /\ ~(n = m + 2) /\ ~(n = m + 3) /\ ~(n = m + 4)
        /\ ~(n = m + 5) /\ ~(n = m + 6) /\ ~(n = m + 7) /\ ~(n = m + 8)
    BY <1>1, <1>3
  <2> QED BY <1>3, <2>1, Zenon DEF Retry
<1>4. ASSUME n = 4, fine
      PROVE  Keep /\ Ask(Respelt[1])
  <2>1. /\ ~(n = 1) /\ ~(n = 2) /\ ~(n \in 3 .. m - 1 /\ n % 2 = 1) /\ (n \in 4 .. m /\ n % 2 = 0)
        /\ ~(n = m + 1) /\ ~(n = m + 2) /\ ~(n = m + 3) /\ ~(n = m + 4)
        /\ ~(n = m + 5) /\ ~(n = m + 6) /\ ~(n = m + 7) /\ ~(n = m + 8)
    BY <1>1, <1>4
  <2>4. n < m
    BY <1>1, <1>4
  <2>3. Keep /\ Ask(Respelt[n \div 2 - 1])
    BY <1>4, <2>1, <2>4, Zenon DEF Retry
  <2>5. n \div 2 - 1 = 1
    BY <1>4
  <2> QED BY <2>3, <2>5
<1>5. ASSUME n = 5
      PROVE  Keep /\ Ask(lookup(bearer("retried")))
  <2>1. /\ ~(n = 1) /\ ~(n = 2) /\ (n \in 3 .. m - 1 /\ n % 2 = 1) /\ ~(n \in 4 .. m /\ n % 2 = 0)
        /\ ~(n = m + 1) /\ ~(n = m + 2) /\ ~(n = m + 3) /\ ~(n = m + 4)
        /\ ~(n = m + 5) /\ ~(n = m + 6) /\ ~(n = m + 7) /\ ~(n = m + 8)
    BY <1>1, <1>5
  <2> QED BY <1>5, <2>1, Zenon DEF Retry
<1>6. ASSUME n = 6, fine
      PROVE  Keep /\ Ask(Respelt[2])
  <2>1. /\ ~(n = 1) /\ ~(n = 2) /\ ~(n \in 3 .. m - 1 /\ n % 2 = 1) /\ (n \in 4 .. m /\ n % 2 = 0)
        /\ ~(n = m + 1) /\ ~(n = m + 2) /\ ~(n = m + 3) /\ ~(n = m + 4)
        /\ ~(n = m + 5) /\ ~(n = m + 6) /\ ~(n = m + 7) /\ ~(n = m + 8)
    BY <1>1, <1>6
  <2>4. n < m
    BY <1>1, <1>6
  <2>3. Keep /\ Ask(Respelt[n \div 2 - 1])
    BY <1>6, <2>1, <2>4, Zenon DEF Retry
  <2>5. n \div 2 - 1 = 2
    BY <1>6
  <2> QED BY <2>3, <2>5
<1>7. ASSUME n = 7
      PROVE  Keep /\ Ask(lookup(bearer("retried")))
  <2>1. /\ ~(n = 1) /\ ~(n = 2) /\ (n \in 3 .. m - 1 /\ n % 2 = 1) /\ ~(n \in 4 .. m /\ n % 2 = 0)
        /\ ~(n = m + 1) /\ ~(n = m + 2) /\ ~(n = m + 3) /\ ~(n = m + 4)
        /\ ~(n = m + 5) /\ ~(n = m + 6) /\ ~(n = m + 7) /\ ~(n = m + 8)
    BY <1>1, <1>7
  <2> QED BY <1>7, <2>1, Zenon DEF Retry
<1>8. ASSUME n = 8, fine
      PROVE  Keep /\ (IF small THEN Verdict("warn") ELSE Ask(Pieces(worthNow)))
  <2>1. /\ ~(n = 1) /\ ~(n = 2) /\ ~(n \in 3 .. m - 1 /\ n % 2 = 1) /\ (n \in 4 .. m /\ n % 2 = 0)
        /\ ~(n = m + 1) /\ ~(n = m + 2) /\ ~(n = m + 3) /\ ~(n = m + 4)
        /\ ~(n = m + 5) /\ ~(n = m + 6) /\ ~(n = m + 7) /\ ~(n = m + 8)
    BY <1>1, <1>8
  <2>2. ~(n < m)
    BY <1>1, <1>8
  <2> QED BY <1>8, <2>1, <2>2, Zenon DEF Retry
<1>9. ASSUME n = 9
      PROVE  Keep /\ Provided(OK, lookup(Piece(1)))
  <2>1. /\ ~(n = 1) /\ ~(n = 2) /\ ~(n \in 3 .. m - 1 /\ n % 2 = 1) /\ ~(n \in 4 .. m /\ n % 2 = 0)
        /\ n = m + 1 /\ ~(n = m + 2) /\ ~(n = m + 3) /\ ~(n = m + 4)
        /\ ~(n = m + 5) /\ ~(n = m + 6) /\ ~(n = m + 7) /\ ~(n = m + 8)
    BY <1>1, <1>9
  <2> QED BY <1>9, <2>1, Zenon DEF Retry
<1>10. ASSUME n = 10
       PROVE  Keep /\ Ask(lookup(Piece(2)))
  <2>1. /\ ~(n = 1) /\ ~(n = 2) /\ ~(n \in 3 .. m - 1 /\ n % 2 = 1) /\ ~(n \in 4 .. m /\ n % 2 = 0)
        /\ ~(n = m + 1) /\ n = m + 2 /\ ~(n = m + 3) /\ ~(n = m + 4)
        /\ ~(n = m + 5) /\ ~(n = m + 6) /\ ~(n = m + 7) /\ ~(n = m + 8)
    BY <1>1, <1>10
  <2> QED BY <1>10, <2>1, Zenon DEF Retry
<1>11. ASSUME n = 11
       PROVE  /\ held' = held /\ Ask(Pieces(worthNow))
               /\ With(noteCertificate(log[9].c, Piece(1).q, LiveValue(log[10]))
                       \cup noteCertificate(log[9].c2, Piece(2).q, LiveValue(body)))
  <2>1. /\ ~(n = 1) /\ ~(n = 2) /\ ~(n \in 3 .. m - 1 /\ n % 2 = 1) /\ ~(n \in 4 .. m /\ n % 2 = 0)
        /\ ~(n = m + 1) /\ ~(n = m + 2) /\ n = m + 3 /\ ~(n = m + 4)
        /\ ~(n = m + 5) /\ ~(n = m + 6) /\ ~(n = m + 7) /\ ~(n = m + 8)
    BY <1>1, <1>11
  <2>2. m + 1 = 9 /\ m + 2 = 10
    BY <1>1
  <2> QED BY <1>11, <2>1, <2>2, Zenon DEF Retry
<1>12. ASSUME n = 12
       PROVE  Keep /\ Ask(lookup(Piece(1)))
  <2>1. /\ ~(n = 1) /\ ~(n = 2) /\ ~(n \in 3 .. m - 1 /\ n % 2 = 1) /\ ~(n \in 4 .. m /\ n % 2 = 0)
        /\ ~(n = m + 1) /\ ~(n = m + 2) /\ ~(n = m + 3) /\ n = m + 4
        /\ ~(n = m + 5) /\ ~(n = m + 6) /\ ~(n = m + 7) /\ ~(n = m + 8)
    BY <1>1, <1>12
  <2> QED BY <1>12, <2>1, Zenon DEF Retry
<1>13. ASSUME n = 13
       PROVE  Keep /\ Ask(lookup(Piece(2)))
  <2>1. /\ ~(n = 1) /\ ~(n = 2) /\ ~(n \in 3 .. m - 1 /\ n % 2 = 1) /\ ~(n \in 4 .. m /\ n % 2 = 0)
        /\ ~(n = m + 1) /\ ~(n = m + 2) /\ ~(n = m + 3) /\ ~(n = m + 4)
        /\ n = m + 5 /\ ~(n = m + 6) /\ ~(n = m + 7) /\ ~(n = m + 8)
    BY <1>1, <1>13
  <2> QED BY <1>13, <2>1, Zenon DEF Retry
<1>14. ASSUME n = 14
       PROVE  /\ Keep
               /\ Provided(/\ LiveValue(log[13]) = LiveValue(log[10])
                           /\ LiveValue(body) = LiveValue(log[11])
                           /\ log[12].status = "OK"
                           /\ log[12].c = log[9].c /\ log[12].c2 = log[9].c2,
                           call(<<Piece(1), Piece(2)>>, hexH("rejoined")))
  <2>1. /\ ~(n = 1) /\ ~(n = 2) /\ ~(n \in 3 .. m - 1 /\ n % 2 = 1) /\ ~(n \in 4 .. m /\ n % 2 = 0)
        /\ ~(n = m + 1) /\ ~(n = m + 2) /\ ~(n = m + 3) /\ ~(n = m + 4)
        /\ ~(n = m + 5) /\ n = m + 6 /\ ~(n = m + 7) /\ ~(n = m + 8)
    BY <1>1, <1>14
  <2>2. m + 1 = 9 /\ m + 2 = 10 /\ m + 3 = 11 /\ m + 4 = 12 /\ n - 1 = 13
    BY <1>1, <1>14
  <2> QED BY <1>14, <2>1, <2>2, Zenon DEF Retry
<1>15. ASSUME n = 15, OK
       PROVE  /\ adopt(rejoined("rejoined")) /\ g' = g
               /\ Ask(lookup(bearer("rejoined")))
  <2>1. /\ ~(n = 1) /\ ~(n = 2) /\ ~(n \in 3 .. m - 1 /\ n % 2 = 1) /\ ~(n \in 4 .. m /\ n % 2 = 0)
        /\ ~(n = m + 1) /\ ~(n = m + 2) /\ ~(n = m + 3) /\ ~(n = m + 4)
        /\ ~(n = m + 5) /\ ~(n = m + 6) /\ n = m + 7 /\ ~(n = m + 8)
    BY <1>1, <1>15
  <2> QED BY <1>15, <2>1, Zenon DEF Retry
<1>16. ASSUME n = 16
       PROVE  /\ held' = held /\ Verdict("pass")
               /\ With(noteCertificate(log[15].c, "rejoined", LiveValue(body)))
  <2>1. /\ ~(n = 1) /\ ~(n = 2) /\ ~(n \in 3 .. m - 1 /\ n % 2 = 1) /\ ~(n \in 4 .. m /\ n % 2 = 0)
        /\ ~(n = m + 1) /\ ~(n = m + 2) /\ ~(n = m + 3) /\ ~(n = m + 4)
        /\ ~(n = m + 5) /\ ~(n = m + 6) /\ ~(n = m + 7) /\ n = m + 8
    BY <1>1, <1>16
  <2>2. n - 1 = 15
    BY <1>16
  <2> QED BY <1>16, <2>1, <2>2, Zenon DEF Retry
<1> QED BY <1>2, <1>3, <1>4, <1>5, <1>6, <1>7, <1>8, <1>9, <1>10, <1>11, <1>12, <1>13, <1>14, <1>15, <1>16, Zenon

\* What a live note is worth.
LEMMA LiveValues ==
  /\ \A s, v : LiveValue(Shown(s, v)) = v
  /\ \A s, v : Step(lookup(s), Shown(s, v)).ask = lookup(s)
BY AnswerFields, StepFields DEF LiveValue

\* The course of the retries, whether there is room for pieces or not.
LEMMA RetryCourses ==
  ASSUME NEW course, course = RetryCourse
  PROVE  LET live == Shows(bearer("retried")) IN
         /\ Len(course) \in Nat /\ Len(course) >= 9
         /\ course[1] = Again(AfterSplit, hexH("retried")) /\ course[2] = live
         /\ course[3] = Again(AfterSplit, hexH("retried")) /\ course[4] = live
         /\ course[5] = Again(Long(AfterSplit), hexH("retried")) /\ course[6] = live
         /\ course[7] = Again(AfterSplit, cp1("retried")) /\ course[8] = live
         /\ ~Roomy => Len(course) = 9 /\ course[9] = Refuses(PiecesOf)
         /\ Roomy => /\ Len(course) = 16
                     /\ course[9] = Dividing /\ course[10] = FirstPiece
                     /\ course[11] = SecondPiece /\ course[12] = Dividing
                     /\ course[13] = FirstPiece /\ course[14] = SecondPiece
                     /\ course[15] = Rejoining /\ course[16] = Shows(bearer("rejoined"))
<1>1. CASE Roomy
  BY <1>1, RetryRuns DEF Runs16
<1>2. CASE ~Roomy
  BY <1>2, RetryRuns DEF Runs9
<1> QED BY <1>1, <1>2

\* The retries of a rotate and of a split.
LEMMA RetryProceeds ==
  ASSUME NEW k, Underway(k), Short, Retry PROVE Proceeds(k)
<1>1. k = 18 /\ ask = Nothing /\ n > 0 /\ at = "retry" /\ at # "done"
  <2>1. Reading("retry")
    BY Zenon DEF Retry
  <2> QED BY <2>1, AtPlace DEF Reading
<1>2. /\ n \in Nat /\ n >= 1 /\ n = Len(log) /\ body = log[n] /\ n <= Len(Course(k, g.given))
      /\ fault = "none" /\ g.given \in Givens /\ Memory(held, g, 18, n - 1)
  BY <1>1, Reader
<1> DEFINE course == Course(k, g.given)
           s == bearer("retried")
           live == Shows(s)
           p == bearer("first-piece")
           q == bearer("second-piece")
           joins == call(<<p, q>>, hexH("rejoined"))
           rejoin == bearer("rejoined")
<1>3. course = RetryCourse
  BY <1>1, Courses
<1>4. /\ Len(course) \in Nat /\ Len(course) >= 9
      /\ course[1] = Again(AfterSplit, hexH("retried")) /\ course[2] = live
      /\ course[3] = Again(AfterSplit, hexH("retried")) /\ course[4] = live
      /\ course[5] = Again(Long(AfterSplit), hexH("retried")) /\ course[6] = live
      /\ course[7] = Again(AfterSplit, cp1("retried")) /\ course[8] = live
      /\ ~Roomy => Len(course) = 9 /\ course[9] = Refuses(PiecesOf)
      /\ Roomy => /\ Len(course) = 16
                  /\ course[9] = Dividing /\ course[10] = FirstPiece
                  /\ course[11] = SecondPiece /\ course[12] = Dividing
                  /\ course[13] = FirstPiece /\ course[14] = SecondPiece
                  /\ course[15] = Rejoining /\ course[16] = Shows(rejoin)
  BY <1>3, RetryCourses
<1>5. /\ n \in 1 .. 16 /\ (~Roomy => n <= 9) /\ n <= Len(course)
  <2>1. Roomy => n <= 16
    BY <1>2, <1>4
  <2>2. ~Roomy => n <= 9
    BY <1>2, <1>4
  <2>3. n \in Nat /\ n >= 1 /\ n <= Len(course)
    BY <1>2
  <2> HIDE DEF course
  <2>4. n <= 16
    BY <2>1, <2>2, <2>3
  <2>5. n \in 1 .. 16
    BY <2>3, <2>4
  <2> QED BY <2>2, <2>3, <2>5
<1>6. AllThere(g) /\ g.certs \subseteq {"verifies"} /\ g.value = Value /\ g.offered = TRUE
      /\ g.first = "verifies"
  BY <1>1, <1>2, AllThereWhereItActs DEF Memory
<1>7. /\ \A r : lookup(r) # Nothing
      /\ \A k1s, ref : call(k1s, ref) # Nothing
      /\ live.ask = lookup(s) /\ live.says = Shown(s, Value)
      /\ \A r, ref : Again(r, ref).ask = call(<<r>>, ref)
      /\ PiecesOf # Nothing /\ Dividing.ask = PiecesOf /\ Refuses(PiecesOf).ask = PiecesOf
      /\ FirstPiece.ask = lookup(p) /\ SecondPiece.ask = lookup(q) /\ Rejoining.ask = joins
      /\ Shows(rejoin).ask = lookup(rejoin)
  BY RequestFields, StepFields DEF Again, PiecesOf, Dividing, FirstPiece, SecondPiece, Rejoining
<1>8. /\ Piece(1) = p /\ Piece(2) = q /\ p.q = "first-piece" /\ q.q = "second-piece"
      /\ s.q = "retried" /\ rejoin.q = "rejoined"
  BY Names DEF Piece
<1>9. \A i \in 1 .. n : /\ \A r : course[i] = Shows(r) => log[i] = Shown(r, Value)
                        /\ \A r, ref : course[i] = Again(r, ref) => log[i] = Swapped(ref.q, Value)
  <2> TAKE i \in 1 .. n
  <2>1. i \in 1 .. Len(log)
    BY <1>2
  <2> QED BY <2>1, Hears DEF Again
<1>10. /\ \A i \in 1 .. n : course[i] = Dividing =>
              log[i] = Divided("first-piece", Share, "second-piece", Rest)
       /\ \A i \in 1 .. n : course[i] = FirstPiece => log[i] = Shown(p, Share)
       /\ \A i \in 1 .. n : course[i] = SecondPiece => log[i] = Shown(q, Rest)
       /\ \A i \in 1 .. n : course[i] = Rejoining => log[i] = Swapped("rejoined", Value)
       /\ \A i \in 1 .. n : \A r : course[i] = Refuses(r) => log[i].status = "ERROR"
  <2> SUFFICES ASSUME NEW i \in 1 .. n
               PROVE  /\ course[i] = Dividing =>
                           log[i] = Divided("first-piece", Share, "second-piece", Rest)
                      /\ course[i] = FirstPiece => log[i] = Shown(p, Share)
                      /\ course[i] = SecondPiece => log[i] = Shown(q, Rest)
                      /\ course[i] = Rejoining => log[i] = Swapped("rejoined", Value)
                      /\ \A r : course[i] = Refuses(r) => log[i].status = "ERROR"
    OBVIOUS
  <2>1. i \in 1 .. Len(log)
    BY <1>2
  <2>2. course[i] = Rejoining => log[i] = Swapped(hexH("rejoined").q, Value)
    BY <2>1, Hears DEF Rejoining
  <2>3. hexH("rejoined").q = "rejoined"
    BY Names
  <2> QED BY <2>1, <2>2, <2>3, Hears DEF Dividing, FirstPiece, SecondPiece
<1> HIDE DEF course, s, live, p, q, joins, rejoin
<1>11. log[1] = Swapped("retried", Value) /\ log[1].c = Good("retried", Value)
       /\ log[1].status = "OK"
  <2>1. log[1] = Swapped(hexH("retried").q, Value)
    <3>1. 1 \in 1 .. n
      BY <1>2
    <3> QED BY <1>4, <1>9, <3>1
  <2> QED BY <2>1, Names, AnswerFields
<1>12. \A step, r : /\ n < Len(course) /\ course[n + 1] = step /\ step.ask = r /\ r # Nothing
                    /\ Ask(r) /\ g'.given = g.given /\ g'.feeKnown = g.feeKnown
                    /\ Memory(held', g', 18, n)
                    => Proceeds(k)
  <2> SUFFICES ASSUME NEW step, NEW r,
                      n < Len(course), course[n + 1] = step, step.ask = r, r # Nothing,
                      Ask(r), g'.given = g.given, g'.feeKnown = g.feeKnown,
                      Memory(held', g', 18, n)
               PROVE  Proceeds(k)
    OBVIOUS
  <2>1. Memory(held', g', k, n)
    BY <1>1
  <2>2. n < Len(Course(k, g.given)) /\ Course(k, g.given)[n + 1] = step
    BY DEF course
  <2> QED BY <1>1, <2>1, <2>2, ReadsToAsk
<1>13. CASE n = 1
  <2>1. OK
    BY <1>2, <1>11, <1>13 DEF OK
  <2>2. /\ adopt(bearer("retried")) /\ g' = [g EXCEPT !.prior = held]
        /\ Ask(lookup(bearer("retried")))
    BY <1>13, <2>1, RetryStarts
  <2>3. Memory(held, g, 18, 0)
    BY <1>2, <1>13
  <2>4. held = AfterSplit
    BY <2>3 DEF Memory, Holds, Era, HeldIn
  <2>5. /\ AllThere(g') /\ g'.given = g.given /\ g'.feeKnown = g.feeKnown /\ g'.value = Value
        /\ g'.certs = g.certs /\ g'.first = "verifies" /\ g'.offered = TRUE
        /\ g'.prior = AfterSplit
    BY <1>6, <2>2, <2>4 DEF AllThere
  <2>6. held' = s /\ Ask(lookup(s))
    BY <2>2 DEF adopt, s
  <2>7. Memory(held', g', 18, 1)
    BY <1>2, <1>6, <2>5, <2>6 DEF Memory, Holds, AllThere, Givens, s
  <2>8. n < Len(course) /\ course[n + 1] = live /\ Memory(held', g', 18, n)
    BY <1>4, <1>13, <2>7
  <2> QED BY <1>7, <1>12, <2>5, <2>6, <2>8
<1>14. CASE n > 1
  <2>1. g.prior = AfterSplit /\ (n < 16 => held = s) /\ (n = 16 => held = rejoin)
    <3>1. Memory(held, g, 18, n - 1) /\ n - 1 >= 1 /\ (n < 16 => n - 1 < 15)
          /\ (n = 16 => n - 1 >= 15)
      BY <1>2, <1>5, <1>14
    <3> QED BY <1>2, <3>1 DEF Memory, Holds, s, rejoin
  <2>2. n < 15 => Memory(held, g, 18, n)
    BY <1>2, <1>14, <2>1 DEF Memory, Holds, s
  <2>3. Len(Respelt) = 2 /\ Respelt[1] = call(<<Long(AfterSplit)>>, hexH("retried"))
        /\ Respelt[2] = call(<<AfterSplit>>, cp1("retried"))
    BY <2>1, RespeltStarts
  <2> DEFINE worthNow == LiveValue(log[2])
             fine == /\ LiveValue(body) = worthNow
                     /\ log[n - 1].status = "OK" /\ log[n - 1].c = log[1].c
             small == worthNow \div 2 < 1
                      \/ (g.feeKnown /\ worthNow - worthNow \div 2 < BaseFee + 1)
  <2>4. /\ n = 2 /\ worthNow # NoAmount =>
             /\ held' = held /\ With(noteCertificate(log[1].c, "retried", worthNow))
             /\ Ask(call(<<g.prior>>, hexH("retried")))
        /\ n = 3 =>
             Keep /\ Ask(lookup(bearer("retried")))
        /\ n = 4 /\ fine =>
             Keep /\ Ask(Respelt[1])
        /\ n = 5 =>
             Keep /\ Ask(lookup(bearer("retried")))
        /\ n = 6 /\ fine =>
             Keep /\ Ask(Respelt[2])
        /\ n = 7 =>
             Keep /\ Ask(lookup(bearer("retried")))
        /\ n = 8 /\ fine =>
             Keep /\ (IF small THEN Verdict("warn") ELSE Ask(Pieces(worthNow)))
        /\ n = 9 =>
             Keep /\ Provided(OK, lookup(Piece(1)))
        /\ n = 10 =>
             Keep /\ Ask(lookup(Piece(2)))
        /\ n = 11 =>
             /\ held' = held /\ Ask(Pieces(worthNow))
             /\ With(noteCertificate(log[9].c, Piece(1).q, LiveValue(log[10]))
                     \cup noteCertificate(log[9].c2, Piece(2).q, LiveValue(body)))
        /\ n = 12 =>
             Keep /\ Ask(lookup(Piece(1)))
        /\ n = 13 =>
             Keep /\ Ask(lookup(Piece(2)))
        /\ n = 14 =>
             /\ Keep
             /\ Provided(/\ LiveValue(log[13]) = LiveValue(log[10])
                         /\ LiveValue(body) = LiveValue(log[11])
                         /\ log[12].status = "OK"
                         /\ log[12].c = log[9].c /\ log[12].c2 = log[9].c2,
                         call(<<Piece(1), Piece(2)>>, hexH("rejoined")))
        /\ n = 15 /\ OK =>
             /\ adopt(rejoined("rejoined")) /\ g' = g
             /\ Ask(lookup(bearer("rejoined")))
        /\ n = 16 =>
             /\ held' = held /\ Verdict("pass")
             /\ With(noteCertificate(log[15].c, "rejoined", LiveValue(body)))
    BY <1>2, <2>3, RetryArms
  <2>5. worthNow = Value /\ worthNow # NoAmount
    <3>1. 2 \in 1 .. n
      BY <1>2, <1>14
    <3>2. log[2] = Shown(s, Value)
      BY <1>4, <1>9, <3>1 DEF live
    <3> QED BY <3>2, LiveValues, Money DEF NoAmount
  <2>6. held = s => Pieces(worthNow) = PiecesOf
    <3>1. hexH(Piece(1).q) = hexH("first-piece") /\ hexH(Piece(2).q) = hexH("second-piece")
      BY <1>8
    <3> QED BY <2>5, <3>1 DEF Pieces, PiecesOf, Share, s
  <2> HIDE DEF worthNow, fine, small
  <2>7. ASSUME NEW r, NEW step, Keep, Ask(r), r # Nothing, step.ask = r, n < 15,
               n < Len(course), course[n + 1] = step
        PROVE  Proceeds(k)
    <3>1. Memory(held', g', 18, n) /\ g' = g
      BY <2>2, <2>7 DEF Keep
    <3> QED BY <1>12, <2>7, <3>1
  <2>8. n > 8 /\ Roomy => n \in 9 .. 16 /\ Len(course) = 16
    <3>1. n > 8 => n \in 9 .. 16
      BY <1>5
    <3> QED BY <1>4, <3>1
  <2>9. CASE n = 2
    <3> DEFINE C == noteCertificate(log[1].c, "retried", worthNow)
    <3>1. held' = held /\ g' = [g EXCEPT !.certs = C] /\ Ask(call(<<g.prior>>, hexH("retried")))
      <4>1. held' = held /\ With(C) /\ Ask(call(<<g.prior>>, hexH("retried")))
        BY <2>4, <2>5, <2>9
      <4> QED BY <4>1 DEF With
    <3>2. C \subseteq {"verifies"}
      BY <1>2, <1>6, <1>11, <2>5, Noted
    <3> HIDE DEF C
    <3>3. /\ AllThere(g') /\ g'.given = g.given /\ g'.feeKnown = g.feeKnown /\ g'.value = Value
          /\ g'.certs = C /\ g'.first = "verifies" /\ g'.offered = TRUE
          /\ g'.prior = AfterSplit
      BY <1>6, <2>1, <3>1 DEF AllThere
    <3>4. held' = s
      BY <2>1, <2>9, <3>1
    <3>5. Memory(held', g', 18, 2)
      BY <1>2, <3>2, <3>3, <3>4 DEF Memory, Holds, AllThere, Givens, s
    <3>6. n < Len(course) /\ course[n + 1] = Again(AfterSplit, hexH("retried"))
          /\ Memory(held', g', 18, n)
      BY <1>4, <2>9, <3>5
    <3> QED BY <1>7, <1>12, <2>1, <3>1, <3>3, <3>6
  <2>10. CASE n = 3
    <3>1. Keep /\ Ask(lookup(s))
      BY <2>4, <2>10 DEF s
    <3>2. n < Len(course) /\ course[n + 1] = live /\ n < 15
      BY <1>4, <2>10
    <3> QED BY <1>7, <2>7, <3>1, <3>2
  <2>11. CASE n = 5
    <3>1. Keep /\ Ask(lookup(s))
      BY <2>4, <2>11 DEF s
    <3>2. n < Len(course) /\ course[n + 1] = live /\ n < 15
      BY <1>4, <2>11
    <3> QED BY <1>7, <2>7, <3>1, <3>2
  <2>12. CASE n = 7
    <3>1. Keep /\ Ask(lookup(s))
      BY <2>4, <2>12 DEF s
    <3>2. n < Len(course) /\ course[n + 1] = live /\ n < 15
      BY <1>4, <2>12
    <3> QED BY <1>7, <2>7, <3>1, <3>2
  <2>13. n \in {4, 6, 8} => fine
    <3> SUFFICES ASSUME n \in {4, 6, 8} PROVE fine
      OBVIOUS
    <3>1. n \in 1 .. n /\ n - 1 \in 1 .. n /\ n - 1 \in {3, 5, 7}
      BY <1>2
    <3>2. course[n] = live
      BY <1>4
    <3>3. log[n] = Shown(s, Value)
      BY <1>9, <3>1, <3>2 DEF live
    <3>4. \E r, ref : course[n - 1] = Again(r, ref) /\ ref.q = "retried"
      <4>1. hexH("retried").q = "retried" /\ cp1("retried").q = "retried"
        BY Names
      <4> QED BY <1>4, <3>1, <4>1
    <3>5. log[n - 1] = Swapped("retried", Value)
      BY <1>9, <3>1, <3>4
    <3>6. log[n - 1].status = "OK" /\ log[n - 1].c = log[1].c
      BY <1>11, <3>5, AnswerFields
    <3>7. LiveValue(body) = Value
      BY <1>2, <3>3, LiveValues
    <3> QED BY <2>5, <3>6, <3>7 DEF fine
  <2>14. CASE n = 4
    <3>1. Keep /\ Ask(Respelt[1])
      BY <2>4, <2>13, <2>14
    <3>2. n < Len(course) /\ course[n + 1] = Again(Long(AfterSplit), hexH("retried")) /\ n < 15
      BY <1>4, <2>14
    <3> QED BY <1>7, <2>3, <2>7, <3>1, <3>2
  <2>15. CASE n = 6
    <3>1. Keep /\ Ask(Respelt[2])
      BY <2>4, <2>13, <2>15
    <3>2. n < Len(course) /\ course[n + 1] = Again(AfterSplit, cp1("retried")) /\ n < 15
      BY <1>4, <2>15
    <3> QED BY <1>7, <2>3, <2>7, <3>1, <3>2
  <2>16. CASE n = 8
    <3>1. Keep /\ (IF small THEN Verdict("warn") ELSE Ask(Pieces(worthNow)))
      BY <2>4, <2>13, <2>16
    <3>2. Roomy => ~small
      <4>1. /\ Rest = Value - Share - BaseFee /\ Value \in Int /\ Share \in Int
            /\ BaseFee \in Nat /\ Value \div 2 = Share
        BY Money DEF Rest, Share
      <4>2. Rest >= 1 /\ Share >= 1 => ~(Value - Share < BaseFee + 1) /\ ~(Share < 1)
        BY <4>1
      <4> QED BY <2>5, <4>1, <4>2 DEF small, Roomy
    <3>3. CASE small
      <4>1. Keep /\ Verdict("warn") /\ ~Roomy
        BY <3>1, <3>2, <3>3
      <4>2. held = AfterRetry
        BY <2>1, <2>16, <4>1 DEF AfterRetry, s
      <4>3. InHand(held, g, 19) /\ 19 \in 1 .. 33
        BY <1>6, <4>2 DEF InHand
      <4>4. Memory(held, g, 19, 0)
        BY <1>2, <1>6, <4>3, Minded
      <4>5. Memory(held', g', k + 1, 0) /\ g' = g
        BY <1>1, <4>1, <4>4 DEF Keep
      <4>6. Through(k, n)
        BY <1>1, <2>16, <4>1 DEF Through
      <4> QED BY <1>1, <4>1, <4>5, <4>6, ReadsToNext
    <3>4. CASE ~small
      <4>1. Keep /\ Ask(PiecesOf)
        BY <2>1, <2>6, <2>16, <3>1, <3>4
      <4>2. /\ n < Len(course) /\ n < 15
            /\ course[n + 1] = Dividing \/ course[n + 1] = Refuses(PiecesOf)
        BY <1>4, <2>16
      <4> QED BY <1>7, <2>7, <4>1, <4>2
    <3> QED BY <3>3, <3>4
  <2>17. CASE n = 9 /\ ~Roomy
    <3>1. Keep /\ Provided(OK, lookup(Piece(1)))
      BY <2>4, <2>17
    <3>2. body.status = "ERROR"
      <4>1. n \in 1 .. n /\ course[n] = Refuses(PiecesOf)
        BY <1>2, <1>4, <2>17
      <4> QED BY <1>2, <1>10, <4>1
    <3>3. Verdict("fail")
      BY <3>1, <3>2 DEF OK, Provided
    <3>4. ~FairlyAsked(g.feeKnown)
      BY <1>1, <2>17 DEF Short
    <3>5. held = AfterRetry
      BY <2>1, <2>17 DEF AfterRetry, s
    <3>6. InHand(held, g, 19) /\ 19 \in 1 .. 33
      BY <1>6, <3>5 DEF InHand
    <3>7. Memory(held, g, 19, 0)
      BY <1>2, <1>6, <3>6, Minded
    <3>8. Memory(held', g', k + 1, 0) /\ g' = g
      BY <1>1, <3>1, <3>7 DEF Keep
    <3>9. Through(k, Len(log))
      BY <1>1, <1>2, <2>17 DEF Through
    <3> QED BY <3>3, <3>4, <3>8, <3>9, Passes
  <2>18. CASE n > 8 /\ Roomy
    <3>1. /\ course[9] = Dividing /\ course[10] = FirstPiece
          /\ course[11] = SecondPiece /\ course[12] = Dividing
          /\ course[13] = FirstPiece /\ course[14] = SecondPiece
          /\ course[15] = Rejoining /\ course[16] = Shows(rejoin) /\ Len(course) = 16
          /\ n \in 9 .. 16
      BY <1>4, <2>8, <2>18
    <3>2. log[9] = Divided("first-piece", Share, "second-piece", Rest)
      BY <1>10, <3>1
    <3>3. n >= 10 => log[10] = Shown(p, Share)
      BY <1>10, <3>1
    <3>4. n >= 11 => log[11] = Shown(q, Rest)
      BY <1>10, <3>1
    <3>5. n >= 12 => log[12] = Divided("first-piece", Share, "second-piece", Rest)
      BY <1>10, <3>1
    <3>6. n >= 13 => log[13] = Shown(p, Share)
      BY <1>10, <3>1
    <3>7. n >= 14 => log[14] = Shown(q, Rest)
      BY <1>10, <3>1
    <3>8. n >= 15 => log[15] = Swapped("rejoined", Value)
      BY <1>10, <3>1
    <3>9. n >= 16 => log[16] = Shown(rejoin, Value)
      BY <1>9, <3>1
    <3>10. CASE n = 9
      <4>1. OK
        BY <1>2, <3>2, <3>10, AnswerFields DEF OK
      <4>2. Keep /\ Ask(lookup(p))
        BY <1>8, <2>4, <3>10, <4>1 DEF Provided
      <4>3. n < Len(course) /\ course[n + 1] = FirstPiece /\ n < 15
        BY <3>1, <3>10
      <4> QED BY <1>7, <2>7, <4>2, <4>3
    <3>11. CASE n = 10
      <4>1. Keep /\ Ask(lookup(q))
        BY <1>8, <2>4, <3>11
      <4>2. n < Len(course) /\ course[n + 1] = SecondPiece /\ n < 15
        BY <3>1, <3>11
      <4> QED BY <1>7, <2>7, <4>1, <4>2
    <3>12. CASE n = 11
      <4> DEFINE C == noteCertificate(log[9].c, Piece(1).q, LiveValue(log[10]))
                      \cup noteCertificate(log[9].c2, Piece(2).q, LiveValue(body))
      <4>1. held' = held /\ Ask(PiecesOf) /\ g' = [g EXCEPT !.certs = C]
        <5>1. held' = held /\ Ask(Pieces(worthNow)) /\ With(C)
          BY <2>4, <3>12
        <5> QED BY <2>1, <2>6, <3>12, <5>1 DEF With
      <4>2. /\ log[9].c = Good("first-piece", Share) /\ log[9].c2 = Good("second-piece", Rest)
            /\ LiveValue(log[10]) = Share /\ LiveValue(body) = Rest
        BY <1>2, <3>2, <3>3, <3>4, <3>12, AnswerFields, LiveValues
      <4>3. C \subseteq {"verifies"}
        BY <1>2, <1>6, <1>8, <4>2, Noted
      <4> HIDE DEF C
      <4>4. /\ AllThere(g') /\ g'.given = g.given /\ g'.feeKnown = g.feeKnown /\ g'.value = Value
            /\ g'.certs = C /\ g'.first = "verifies" /\ g'.offered = TRUE
            /\ g'.prior = AfterSplit
        BY <1>6, <2>1, <4>1 DEF AllThere
      <4>5. held' = s
        BY <2>1, <3>12, <4>1
      <4>6. Memory(held', g', 18, 11)
        BY <1>2, <4>3, <4>4, <4>5 DEF Memory, Holds, AllThere, Givens, s
      <4>7. n < Len(course) /\ course[n + 1] = Dividing /\ Memory(held', g', 18, n)
        BY <3>1, <3>12, <4>6
      <4> QED BY <1>7, <1>12, <4>1, <4>4, <4>7
    <3>13. CASE n = 12
      <4>1. Keep /\ Ask(lookup(p))
        BY <1>8, <2>4, <3>13
      <4>2. n < Len(course) /\ course[n + 1] = FirstPiece /\ n < 15
        BY <3>1, <3>13
      <4> QED BY <1>7, <2>7, <4>1, <4>2
    <3>14. CASE n = 13
      <4>1. Keep /\ Ask(lookup(q))
        BY <1>8, <2>4, <3>14
      <4>2. n < Len(course) /\ course[n + 1] = SecondPiece /\ n < 15
        BY <3>1, <3>14
      <4> QED BY <1>7, <2>7, <4>1, <4>2
    <3>15. CASE n = 14
      <4>1. /\ LiveValue(log[13]) = LiveValue(log[10]) /\ LiveValue(body) = LiveValue(log[11])
            /\ log[12].status = "OK"
            /\ log[12].c = log[9].c /\ log[12].c2 = log[9].c2
        BY <1>2, <3>2, <3>3, <3>4, <3>5, <3>6, <3>7, <3>15, AnswerFields, LiveValues
      <4>2. Keep /\ Ask(call(<<Piece(1), Piece(2)>>, hexH("rejoined")))
        BY <2>4, <3>15, <4>1 DEF Provided
      <4>3. Ask(joins)
        BY <1>8, <4>2 DEF joins
      <4>4. n < Len(course) /\ course[n + 1] = Rejoining /\ n < 15
        BY <3>1, <3>15
      <4>5. joins # Nothing
        BY <1>7 DEF joins
      <4> QED BY <1>7, <2>7, <4>2, <4>3, <4>4, <4>5
    <3>16. CASE n = 15
      <4>1. OK
        BY <1>2, <3>8, <3>16, AnswerFields DEF OK
      <4>2. /\ adopt(rejoined("rejoined")) /\ g' = g /\ Ask(lookup(bearer("rejoined")))
        BY <2>4, <3>16, <4>1
      <4>3. held' = rejoin /\ Ask(lookup(rejoin))
        BY <4>2 DEF adopt, rejoined, rejoin
      <4>4. Memory(held', g', 18, 15)
        BY <1>2, <1>6, <2>1, <4>2, <4>3 DEF Memory, Holds, AllThere, Givens, rejoin
      <4>5. n < Len(course) /\ course[n + 1] = Shows(rejoin) /\ Memory(held', g', 18, n)
        BY <3>1, <3>16, <4>4
      <4> QED BY <1>7, <1>12, <4>2, <4>3, <4>5
    <3>17. CASE n = 16
      <4> DEFINE C == noteCertificate(log[15].c, "rejoined", LiveValue(body))
      <4>1. held' = held /\ Verdict("pass") /\ g' = [g EXCEPT !.certs = C]
        <5>1. held' = held /\ Verdict("pass") /\ With(C)
          BY <2>4, <3>17
        <5> QED BY <5>1 DEF With
      <4>2. log[15].c = Good("rejoined", Value) /\ LiveValue(body) = Value
        BY <1>2, <3>8, <3>9, <3>17, AnswerFields, LiveValues
      <4>3. C \subseteq {"verifies"}
        BY <1>2, <1>6, <4>2, Noted
      <4> HIDE DEF C
      <4>4. /\ AllThere(g') /\ g'.given = g.given /\ g'.feeKnown = g.feeKnown /\ g'.value = Value
            /\ g'.certs = C /\ g'.first = "verifies" /\ g'.offered = TRUE
        BY <1>6, <4>1 DEF AllThere
      <4>5. held' = AfterRetry
        BY <2>1, <2>18, <3>17, <4>1 DEF AfterRetry, rejoin
      <4>6. InHand(held', g', 19) /\ 19 \in 1 .. 33
        BY <4>3, <4>4, <4>5 DEF InHand
      <4>7. Memory(held', g', 19, 0)
        BY <1>2, <4>4, <4>6, Minded
      <4>8. Memory(held', g', k + 1, 0)
        BY <1>1, <4>7
      <4>9. Through(k, n)
        BY <1>1, <3>17 DEF Through
      <4> QED BY <1>1, <4>1, <4>4, <4>8, <4>9, ReadsToNext
    <3> QED BY <3>1, <3>10, <3>11, <3>12, <3>13, <3>14, <3>15, <3>16, <3>17
  <2>19. \/ n = 2 \/ n = 3 \/ n = 4 \/ n = 5 \/ n = 6 \/ n = 7 \/ n = 8
         \/ (n = 9 /\ ~Roomy) \/ (n > 8 /\ Roomy)
    <3>1. \/ n = 2 \/ n = 3 \/ n = 4 \/ n = 5 \/ n = 6 \/ n = 7 \/ n = 8
          \/ n = 9 \/ n > 9
      BY <1>5, <1>14
    <3>2. n > 9 => Roomy /\ n > 8
      BY <1>5
    <3>3. n = 9 => n > 8
      OBVIOUS
    <3>4. CASE Roomy
      BY <3>1, <3>2, <3>3, <3>4
    <3>5. CASE ~Roomy
      BY <3>1, <3>2, <3>3, <3>5
    <3> QED BY <3>4, <3>5
  <2> QED BY <2>9, <2>10, <2>11, <2>12, <2>14, <2>15, <2>16, <2>17, <2>18, <2>19
<1> QED BY <1>2, <1>13, <1>14

\* Who moves when a check is beginning, and when it is reading.
LEMMA WhoActs ==
  ASSUME Grade
  PROVE  /\ ask = Nothing
         /\ n = 0 => Begin
         /\ n # 0 /\ at = "retry" => Retry \/ Throw
<1>1. Begin => ask = Nothing /\ at # "done" /\ n = 0
  BY DEF Begin
<1>2. Throw => ask = Nothing /\ n > 0
  BY DEF Throw, Throws
<1>3. \A check : Reading(check) => ask = Nothing /\ n > 0 /\ at = check
  BY DEF Reading
<1>4. /\ Echo => Reading("echo")
      /\ SameValue => Reading("idempotent") \/ Reading("amount")
      /\ Lookup => Reading("lookup")
      /\ Oversized => Reading("oversized")
      /\ NoP1 => Reading("noP1")
      /\ NoP2 => Reading("noP2")
  BY Zenon DEF Echo, SameValue, Lookup, Oversized, NoP1, NoP2
<1>5. /\ Rotate => Reading("rotate")
      /\ Spent => Reading("spent")
      /\ InfoCertificate => Reading("infoCert")
      /\ Duplicate => Reading("duplicate")
      /\ BurnedP1 => Reading("burnedP1")
      /\ Twin => Reading("twin")
  BY Zenon DEF Rotate, Spent, InfoCertificate, Duplicate, BurnedP1, Twin
<1>6. Methods => at = "methods" /\ ask = Nothing /\ n > 0
  BY Zenon DEF Methods
<1>7. /\ ShortFee => Reading("shortFee")
      /\ Split => Reading("split")
      /\ ReplayedBurn => Reading("replayedBurn")
      /\ FullCw1 => Reading("fullCw1")
      /\ RefusedOnTree => at \in Probes /\ Reading(at)
      /\ Past => Reading("past")
  BY Zenon DEF ShortFee, Split, ReplayedBurn, FullCw1, RefusedOnTree, Past
<1>8. /\ CreditsKeyNote => Reading("keyNote")
      /\ Forged => Reading("forged")
      /\ Elsewhere => Reading("elsewhere")
      /\ SpendsKeyNote => Reading("keySpend")
      /\ Retry => Reading("retry")
  BY Zenon DEF CreditsKeyNote, Forged, Elsewhere, SpendsKeyNote, Retry
<1>9. ~("retry" \in Probes)
  BY DEF Probes
<1>10. CASE Begin
  BY <1>1, <1>10
<1>11. CASE Retry \/ Throw
  BY <1>2, <1>3, <1>8, <1>11
<1>12. CASE \E check : Reading(check) /\ check # "retry"
  BY <1>3, <1>12
<1>13. CASE Methods
  BY <1>6, <1>13
<1>14. \/ Begin \/ Retry \/ Throw \/ Methods
       \/ \E check : Reading(check) /\ check # "retry"
  <2>1. CASE Echo \/ SameValue \/ Lookup \/ Oversized \/ NoP1 \/ NoP2
    BY <1>4, <2>1
  <2>2. CASE Rotate \/ Spent \/ InfoCertificate \/ Duplicate \/ BurnedP1 \/ Twin
    BY <1>5, <2>2
  <2>3. CASE ShortFee \/ Split \/ ReplayedBurn \/ FullCw1 \/ Past
    BY <1>7, <2>3
  <2>4. CASE RefusedOnTree
    BY <1>7, <1>9, <2>4
  <2>5. CASE CreditsKeyNote \/ Forged \/ Elsewhere \/ SpendsKeyNote
    BY <1>8, <2>5
  <2> QED BY <2>1, <2>2, <2>3, <2>4, <2>5, Zenon DEF Grade
<1> QED BY <1>10, <1>11, <1>12, <1>13, <1>14

\* Whatever the grader does on the course, it proceeds.
LEMMA GradeProceeds ==
  ASSUME NEW k, Underway(k), Short, Grade
  PROVE  Proceeds(k)
<1>1. CASE Throw
  <2>1. ask = Nothing /\ n > 0 /\ body.status \in Unanswered
    BY <1>1 DEF Throw, Throws
  <2>2. n \in 1 .. Len(log) /\ n = Len(log) /\ body = log[n] /\ body.status \notin Unanswered
    BY <2>1, Recalls
  <2> QED BY <2>1, <2>2
<1>2. CASE Begin \/ Echo \/ SameValue \/ Lookup \/ Oversized \/ NoP1 \/ NoP2
  BY <1>2, BeginProceeds, EchoProceeds, SameValueProceeds, LookupProceeds, OversizedProceeds,
     NoP1Proceeds, NoP2Proceeds
<1>3. CASE Rotate \/ Spent \/ InfoCertificate \/ Duplicate \/ BurnedP1 \/ Twin \/ Methods
  BY <1>3, RotateProceeds, SpentProceeds, InfoCertificateProceeds, DuplicateProceeds,
     BurnedP1Proceeds, TwinProceeds, MethodsProceeds
<1>4. CASE ShortFee \/ Split \/ Retry \/ ReplayedBurn \/ FullCw1 \/ RefusedOnTree \/ Past
  BY <1>4, ShortFeeProceeds, SplitProceeds, RetryProceeds, ReplayedBurnProceeds,
     FullCw1Proceeds, RefusedOnTreeProceeds, PastProceeds
<1>5. CASE CreditsKeyNote \/ Forged \/ Elsewhere \/ SpendsKeyNote
  BY <1>5, CreditsKeyNoteProceeds, ForgedProceeds, ElsewhereProceeds, SpendsKeyNoteProceeds
<1> QED BY <1>1, <1>2, <1>3, <1>4, <1>5 DEF Grade

\* A verdict ends what was asked and read.
LEMMA VerdictEnds ==
  ASSUME NEW verdict, Verdict(verdict)
  PROVE  ask' = Nothing /\ log' = << >> /\ n' = 0
BY DEF Verdict, Leave, n

\* The grader asks for the pieces only of a note it takes to be large enough.
LEMMA PiecesAsked ==
  ASSUME Retry, n = 8, Len(Respelt) = 2, ask' # Nothing
  PROVE  LET worthNow == LiveValue(log[2]) IN
         ~(worthNow \div 2 < 1 \/ (g.feeKnown /\ worthNow - worthNow \div 2 < BaseFee + 1))
<1> DEFINE m == 4 + 2 * Len(Respelt)
           worthNow == LiveValue(log[2])
           fine == /\ LiveValue(body) = worthNow
                   /\ log[n - 1].status = "OK" /\ log[n - 1].c = log[1].c
           small == worthNow \div 2 < 1
                    \/ (g.feeKnown /\ worthNow - worthNow \div 2 < BaseFee + 1)
<1>1. m = 8
  OBVIOUS
<1>2. /\ ~(n = 1) /\ ~(n = 2) /\ ~(n \in 3 .. m - 1 /\ n % 2 = 1) /\ (n \in 4 .. m /\ n % 2 = 0)
      /\ ~(n = m + 1) /\ ~(n = m + 2) /\ ~(n = m + 3) /\ ~(n = m + 4)
      /\ ~(n = m + 5) /\ ~(n = m + 6) /\ ~(n = m + 7) /\ ~(n = m + 8)
  BY <1>1
<1>3. ~(n < m)
  BY <1>1
<1>4. Verdict("fail") \/ (IF small THEN Verdict("warn") ELSE Ask(Pieces(worthNow)))
  BY <1>2, <1>3, Zenon DEF Retry
<1> HIDE DEF small
<1>5. small => \E verdict : Verdict(verdict)
  BY <1>4
<1>6. ~small
  BY <1>4, <1>5, VerdictEnds
<1> QED BY <1>6 DEF small

\* So it is on to a split of a note too small for it only if nobody told it
\* the fee.
LEMMA Told ==
  ASSUME ~Roomy, ~(Share < 1), ~(g.feeKnown /\ Value - Share < BaseFee + 1)
  PROVE  ~FairlyAsked(g.feeKnown)
<1>1. Share \in Nat /\ Rest \in Int
  BY Money DEF Share, Rest
<1>2. Share >= 1
  BY <1>1
<1>3. Rest < 1
  BY <1>1, <1>2 DEF Roomy
<1>4. Value - Share < BaseFee + 1
  BY <1>1, <1>3, Money DEF Rest
<1> QED BY <1>4 DEF FairlyAsked

\* While it waits for an answer.
LEMMA ShortWaits ==
  ASSUME NEW k, Underway(k), Short, Http, UNCHANGED <<held, g, fault>>
  PROVE  Short'
<1>1. /\ ask # Nothing /\ plan' = plan
      /\ \/ log' = log /\ ask' = ask
         \/ ask' = Nothing /\ \E answer : log' = Append(log, answer)
  BY DEF Http, Deliver, Reaches, Delivered, Resent, RequestLost, ReplyLost, Limited,
     LimitedNotJson, LimitedBy, Suffers, Read
<1>2. n \in Nat /\ log \in Seq({log[i] : i \in DOMAIN log})
  BY OfTheCourse DEF Underway, n, GradeInv, LogRead
<1>3. at' = at
  BY <1>1 DEF at
<1>4. (n' = n /\ ask' = ask) \/ (ask' = Nothing /\ n' = n + 1)
  <2>1. CASE log' = log /\ ask' = ask
    BY <2>1 DEF n
  <2>2. ASSUME ask' = Nothing, NEW answer, log' = Append(log, answer)
        PROVE  n' = n + 1
    <3> DEFINE S == {log[i] : i \in DOMAIN log}
    <3>1. log \in Seq(S \cup {answer})
      BY <1>2
    <3> HIDE DEF S
    <3> QED BY <2>2, <3>1 DEF n
  <2> QED BY <1>1, <2>1, <2>2
<1>5. (FairlyAsked(g.feeKnown))' = FairlyAsked(g.feeKnown)
  BY DEF FairlyAsked
<1>6. /\ at = "split" => (~Roomy => ~FairlyAsked(g.feeKnown))
      /\ at = "retry" /\ (n' > 8 \/ (n' = 8 /\ ask' # Nothing)) =>
           (~Roomy => ~FairlyAsked(g.feeKnown))
  BY <1>1, <1>2, <1>4 DEF Short
<1> QED BY <1>3, <1>5, <1>6 DEF Short

\* And when it acts on one.
LEMMA ShortActs ==
  ASSUME NEW k, Underway(k), Short, Grade, Proceeds(k)
  PROVE  Short'
<1>1. ask = Nothing /\ at # "done"
  BY GradeMoves DEF Underway, Moves
<1>2. (FairlyAsked(g.feeKnown))' = FairlyAsked(g.feeKnown)
  BY DEF FairlyAsked, Proceeds
<1>3. CASE \E verdict : Verdict(verdict)
  <2>1. ask' = Nothing /\ n' = 0
    BY <1>3, VerdictEnds
  <2> QED BY <2>1 DEF Short
<1>4. ASSUME NEW r, Ask(r), ask' # Nothing, ~Roomy
      PROVE  /\ at = "split" => ~FairlyAsked(g.feeKnown)
             /\ at = "retry" /\ n >= 8 => ~FairlyAsked(g.feeKnown)
  <2>1. n \in Nat /\ n = Len(log)
    BY <1>1, Recalls
  <2>2. CASE at = "split" /\ n > 0
    BY <1>4, <2>2 DEF Short
  <2>3. CASE at = "retry" /\ n > 8
    BY <1>4, <2>3 DEF Short
  <2>4. ASSUME at = "split", n = 0 PROVE ~FairlyAsked(g.feeKnown)
    <3>1. k = 17 /\ Memory(held, g, k, 0)
      BY <1>1, <2>1, <2>4, AtPlace, Recalls
    <3>2. g.value = Value
      BY <3>1 DEF Memory
    <3>3. half = Share
      BY <3>2 DEF half, Share
    <3>4. IF half < 1 \/ (g.feeKnown /\ g.value - half < BaseFee + 1) THEN Verdict("warn")
          ELSE Ask(split(held, half, hexH(Half(1).q), hexH(Half(2).q)))
      BY <2>4, WhoActs, Beginnings
    <3>5. ~(half < 1 \/ (g.feeKnown /\ g.value - half < BaseFee + 1))
      BY <1>4, <3>4, VerdictEnds
    <3> QED BY <1>4, <3>2, <3>3, <3>5, Told
  <2>5. ASSUME at = "retry", n = 8 PROVE ~FairlyAsked(g.feeKnown)
    <3>1. k = 18
      BY <1>1, <2>5, AtPlace
    <3>2. Memory(held, g, k, n - 1) /\ body.status \notin Unanswered
      BY <1>1, <2>5, Recalls
    <3>3. Memory(held, g, 18, 7)
      BY <2>5, <3>1, <3>2
    <3>4. Len(Respelt) = 2
      BY <3>3, RespeltStarts DEF Memory
    <3>5. Retry
      BY <2>5, <3>2, WhoActs DEF Throw, Throws
    <3>6. LiveValue(log[2]) = Value
      <4> DEFINE course == Course(k, g.given)
      <4>1. course = RetryCourse
        BY <3>1, Courses
      <4> HIDE DEF course
      <4>2. course[2] = Shows(bearer("retried"))
        BY <4>1, RetryCourses
      <4>3. 2 \in 1 .. Len(log)
        BY <2>1, <2>5
      <4>4. log[2] = Shown(bearer("retried"), Value)
        BY <4>2, <4>3, Hears DEF course
      <4> QED BY <4>4, LiveValues
    <3>7. LET worthNow == LiveValue(log[2]) IN
          ~(worthNow \div 2 < 1 \/ (g.feeKnown /\ worthNow - worthNow \div 2 < BaseFee + 1))
      BY <1>4, <2>5, <3>4, <3>5, PiecesAsked
    <3>8. ~(Share < 1 \/ (g.feeKnown /\ Value - Share < BaseFee + 1))
      BY <3>6, <3>7 DEF Share
    <3> QED BY <1>4, <3>8, Told
  <2> QED BY <2>1, <2>2, <2>3, <2>4, <2>5
<1>5. CASE ask' # Nothing /\ \E r : Ask(r)
  <2>1. at' = at /\ n' = n
    BY <1>5 DEF Ask, at, n
  <2>2. n \in Nat
    BY <1>1, Recalls
  <2>3. ~Roomy => /\ at = "split" => ~FairlyAsked(g.feeKnown)
                  /\ at = "retry" /\ n >= 8 => ~FairlyAsked(g.feeKnown)
    BY <1>4, <1>5
  <2> QED BY <1>2, <2>1, <2>2, <2>3 DEF Short
<1> QED BY <1>3, <1>5 DEF Proceeds

\* The grader is called with what it needs to know of the fee.
CalledFairly == fault = "none" /\ Patient => FairlyAsked(g.feeKnown)

\* A grade begins on the course.
LEMMA CourseBegins ==
  Init => /\ Suffering /\ Follows
          /\ (\A calling \in Callings : FairlyAsked(calling.feeKnown)) => CalledFairly
<1> SUFFICES ASSUME Init
             PROVE  /\ Suffering /\ Follows
                    /\ (\A calling \in Callings : FairlyAsked(calling.feeKnown)) => CalledFairly
  OBVIOUS
<1>1. PICK calling \in Callings :
        /\ InitMint("given", calling.given = "preimage")
        /\ g = [given |-> calling.given, feeKnown |-> calling.feeKnown,
                value |-> 0, offered |-> FALSE, certs |-> {}, first |-> "none",
                prior |-> SpendBy("given", calling.given), tree |-> 0, keyed |-> 0]
  BY DEF Init
<1>2. /\ plan = Checks /\ log = << >> /\ ask = Nothing /\ tries = Retries
      /\ report = << >> /\ suffered = << >> /\ held = k1
  BY DEF Init, InitGrade
<1>3. /\ g.given = calling.given /\ g.feeKnown = calling.feeKnown /\ g.certs = {}
      /\ {"given", "feeKnown"} \subseteq DOMAIN g /\ g.given \in Givens
  <2>1. calling.given \in {"preimage", "cw1"}
    BY GradingAssumption
  <2> QED BY <1>1, <2>1 DEF Givens
<1>4. Suffering
  BY <1>2 DEF Suffering
<1>5. Waits = 0
  <2>1. {i \in DOMAIN suffered : suffered[i] = "limited"} = {}
    BY <1>2
  <2> QED BY <2>1, FS_EmptySet DEF Waits
<1>6. Stands(1)
  <2> DEFINE C == Checks
             S == {Checks[i] : i \in 1 .. 32}
  <2>1. C \in Seq(S) /\ Len(C) = 32
    BY Places DEF Checks
  <2> HIDE DEF C, S
  <2>2. SubSeq(C, 1, Len(C)) = C
    BY <2>1
  <2> QED BY <1>2, <2>2 DEF Stands, C
<1>7. Memory(held, g, 1, 0)
  <2>1. held = HeldIn(1, g.given)
    BY <1>2 DEF k1, HeldIn, Own
  <2>2. held = Holds(1, 0, g.given)
    BY <2>1 DEF Holds, Era
  <2> HIDE DEF Holds
  <2> QED BY <1>3, <2>2 DEF Memory, Givens
<1>8. Book(notes, swaps, 1, 0)
  <2>1. /\ DOMAIN notes = {"given"} /\ notes["given"].state = "outstanding"
        /\ notes["given"].amount = Value /\ DOMAIN swaps = {}
    BY <1>1 DEF InitMint
  <2>2. DOMAIN One("given") = {"given"} /\ One("given")["given"] = Value /\ Value \in Nat
    BY Money DEF One
  <2>3. {"given"} \subseteq NamesTo(1)
    BY DEF NamesTo
  <2>4. Books(notes, swaps, NamesTo(1), One("given"))
    BY <2>1, <2>2, <2>3 DEF Books
  <2>5. Settled(notes, swaps, 1)
    BY <2>4, Eras
  <2>6. 1 \in Nat /\ 1 \notin Trading /\ Era(1) = 1
    BY DEF Trading, Era
  <2> QED BY <2>5, <2>6, Quietly
<1>9. OnCourse(1)
  <2>1. Len(log) = 0
    BY <1>2
  <2>2. Proper(Course(1, g.given))
    BY <1>3, Lengths
  <2>3. Heard(1)
    BY <2>1, <2>2 DEF Heard, Proper
  <2>4. Sent(1) /\ Booked(1)
    BY <1>2, <1>8, <2>1 DEF Sent, Booked
  <2>5. Memory(held, g, 1, Acted)
    BY <1>7, <2>1 DEF Acted
  <2> QED BY <2>3, <2>4, <2>5 DEF OnCourse
<1>10. Short
  <2>1. at = "echo"
    BY <1>6, Standing, Places
  <2> QED BY <2>1 DEF Short
<1>11. Failed = {}
  BY <1>2 DEF Failed
<1>12. 1 \in 1 .. Len(Checks) + 1
  BY Places
<1>13. tries + Waits >= Retries
  BY <1>2, <1>5 DEF Retries
<1>14. Follows
  BY <1>6, <1>9, <1>10, <1>11, <1>12, <1>13 DEF Follows
<1> QED BY <1>3, <1>4, <1>14 DEF CalledFairly

\* And stays on it.
LEMMA CourseStays ==
  GradeInv /\ Suffering /\ Follows /\ [Next]_vars => /\ Suffering' /\ Follows'
                                                     /\ CalledFairly => CalledFairly'
<1> SUFFICES ASSUME GradeInv, Suffering, Follows, [Next]_vars
             PROVE  Suffering' /\ Follows' /\ (CalledFairly => CalledFairly')
  OBVIOUS
<1>1. Suffering' /\ (Patient' => Patient)
  BY StillSuffering
<1>2. fault' = fault
  BY DEF Next, Done, vars, mintVars
<1> SUFFICES ASSUME fault = "none", Patient'
             PROVE  /\ tries' + Waits' >= Retries
                    /\ \E k \in 1 .. Len(Checks) + 1 : Stands(k)' /\ OnCourse(k)'
                    /\ Short'
                    /\ FairlyAsked(g.feeKnown)' => Failed' = {}
                    /\ FairlyAsked(g.feeKnown) => FairlyAsked(g.feeKnown)'
  BY <1>1, <1>2 DEF Follows, CalledFairly
<1>3. /\ Patient /\ tries + Waits >= Retries /\ Short
      /\ FairlyAsked(g.feeKnown) => Failed = {}
  BY <1>1 DEF Follows
<1>4. Len(Checks) + 1 = 33
  BY Places
<1>5. PICK k \in 1 .. 33 : Stands(k) /\ OnCourse(k)
  BY <1>1, <1>4 DEF Follows
<1>6. Underway(k)
  BY <1>5 DEF Underway
<1>7. CASE Http /\ UNCHANGED <<held, g, fault>>
  <2>1. Stands(k)' /\ OnCourse(k)' /\ tries' + Waits' >= Retries /\ Failed' = Failed
    BY <1>3, <1>5, <1>7, HttpFollows
  <2>2. Short'
    BY <1>3, <1>6, <1>7, ShortWaits
  <2>3. FairlyAsked(g.feeKnown)' = FairlyAsked(g.feeKnown)
    BY <1>7 DEF FairlyAsked
  <2> QED BY <1>3, <1>4, <2>1, <2>2, <2>3
<1>8. CASE Grade /\ UNCHANGED mintVars
  <2>1. ask = Nothing /\ at # "done"
    BY <1>8, GradeMoves DEF Moves
  <2>2. k <= 32
    BY <1>6, <2>1, AtPlace
  <2>3. Proceeds(k)
    BY <1>3, <1>6, <1>8, GradeProceeds
  <2>4. UNCHANGED <<notes, swaps>>
    BY <1>8 DEF mintVars
  <2>5. Waits \in Nat
    <3>1. DOMAIN suffered = 1 .. Len(suffered) /\ Len(suffered) \in Nat
      BY DEF Suffering
    <3>2. IsFiniteSet(DOMAIN suffered)
      BY <3>1, FS_Interval
    <3>3. IsFiniteSet({i \in DOMAIN suffered : suffered[i] = "limited"})
      BY <3>2, FS_Subset
    <3> QED BY <3>3, FS_CardinalityType DEF Waits
  <2>6. /\ \E j \in 1 .. 33 : Stands(j)' /\ OnCourse(j)'
        /\ tries' + Waits' >= Retries
        /\ g'.feeKnown = g.feeKnown
        /\ (FairlyAsked(g.feeKnown) /\ Failed = {}) => Failed' = {}
    BY <1>3, <1>5, <2>1, <2>2, <2>3, <2>4, <2>5, Steps
  <2>7. Short'
    BY <1>3, <1>6, <1>8, <2>3, ShortActs
  <2>8. FairlyAsked(g.feeKnown)' = FairlyAsked(g.feeKnown)
    BY <2>6 DEF FairlyAsked
  <2> QED BY <1>3, <1>4, <2>6, <2>7, <2>8
<1>9. CASE UNCHANGED vars
  <2>1. UNCHANGED <<notes, swaps, plan, log, ask, tries, report, suffered, held, g>>
    BY <1>9 DEF vars, mintVars
  <2>2. at' = at /\ n' = n /\ Waits' = Waits /\ Failed' = Failed
    BY <2>1 DEF at, n, Waits, Failed
  <2>3. (FairlyAsked(g.feeKnown))' = FairlyAsked(g.feeKnown)
    BY <2>1 DEF FairlyAsked
  <2>4. Short'
    BY <1>3, <2>1, <2>2, <2>3 DEF Short
  <2>5. Stands(k)'
    BY <1>5, <2>1 DEF Stands
  <2>6. Heard(k)' /\ Sent(k)' /\ Booked(k)'
    BY <1>5, <2>1 DEF OnCourse, Heard, Sent, Booked
  <2>7. Memory(held', g', k, Acted')
    <3>1. Acted' = Acted
      BY <2>1 DEF Acted
    <3> QED BY <1>5, <2>1, <3>1 DEF OnCourse
  <2>8. OnCourse(k)'
    BY <2>6, <2>7 DEF OnCourse
  <2> QED BY <1>3, <1>4, <2>1, <2>2, <2>3, <2>4, <2>5, <2>8
<1> QED BY <1>7, <1>8, <1>9 DEF Next, Done

\* Where a check begins, the books are settled and what is held opens the one
\* note that lives.
LEMMA HoldingAll ==
  GradeInv /\ Follows => HoldsEverything
<1> SUFFICES ASSUME GradeInv, Follows, fault = "none", Patient, n = 0, ask = Nothing
             PROVE  Holding = Value
  BY DEF HoldsEverything
<1>1. PICK k \in 1 .. 33 : Stands(k) /\ OnCourse(k)
  BY Places DEF Follows
<1>2. Len(log) = 0 /\ Acted = 0
  BY DEF n, Acted
<1>3. Book(notes, swaps, k, 0) /\ Memory(held, g, k, 0)
  BY <1>1, <1>2 DEF OnCourse, Booked
<1>4. Settled(notes, swaps, Era(k))
  BY <1>3 DEF Book, Untraded
<1>5. held = HeldIn(Era(k), g.given) /\ g.given \in Givens
  BY <1>3 DEF Memory, Holds, Givens
<1>6. Era(k) \in 1 .. 8
  BY DEF Era
<1> DEFINE e == Era(k)
<1>7. /\ held.q = HeldIn(e, "preimage").q /\ held = SpendBy(held.q, held.how)
      /\ held.how \in {"preimage", "cw1", "leaf", "past", "ck1"}
  <2>1. e = 1 \/ e = 2 \/ e = 3 \/ e = 4 \/ e = 5 \/ e = 6 \/ e = 7 \/ e = 8
    BY <1>6
  <2>2. /\ HeldIn(1, g.given) = Own(g.given) /\ HeldIn(2, g.given) = Rotated
        /\ HeldIn(3, g.given) = AfterSplit /\ HeldIn(4, g.given) = AfterRetry
        /\ HeldIn(5, g.given) = SpendBy("tree", "leaf") /\ HeldIn(6, g.given) = Back
        /\ HeldIn(7, g.given) = SpendBy("key", "ck1")
        /\ HeldIn(8, g.given) = bearer("home-by-key")
        /\ HeldIn(1, "preimage") = Own("preimage") /\ HeldIn(2, "preimage") = Rotated
        /\ HeldIn(3, "preimage") = AfterSplit /\ HeldIn(4, "preimage") = AfterRetry
        /\ HeldIn(5, "preimage") = SpendBy("tree", "leaf") /\ HeldIn(6, "preimage") = Back
        /\ HeldIn(7, "preimage") = SpendBy("key", "ck1")
        /\ HeldIn(8, "preimage") = bearer("home-by-key")
    BY DEF HeldIn
  <2>3. \E how \in {"preimage", "cw1", "leaf", "past", "ck1"} :
          held = SpendBy(HeldIn(e, "preimage").q, how)
    <3>1. Own(g.given) = SpendBy("given", g.given) /\ Own("preimage").q = "given"
          /\ Rotated = SpendBy(Rotated.q, "preimage") /\ Back = SpendBy(Back.q, "preimage")
          /\ AfterSplit = SpendBy(AfterSplit.q, "preimage")
          /\ AfterRetry = SpendBy(AfterRetry.q, "preimage")
          /\ SpendBy("tree", "leaf").q = "tree" /\ SpendBy("key", "ck1").q = "key"
          /\ bearer("home-by-key") = SpendBy(bearer("home-by-key").q, "preimage")
      BY Names DEF Rotated, Back, AfterSplit, AfterRetry, bearer
    <3> HIDE DEF e
    <3> QED BY <1>5, <2>1, <2>2, <3>1 DEF Givens, e
  <2> QED BY <2>3, Names
<1>8. opens(held)
  BY <1>7, Opening
<1>9. /\ held.q \in DOMAIN notes /\ notes[held.q].state = "outstanding"
      /\ notes[held.q].amount = Value
  <2>1. held.q \in DOMAIN One(held.q) /\ One(held.q)[held.q] = Value
    BY DEF One
  <2>2. Books(notes, swaps, NamesTo(e), One(held.q))
    BY <1>4, <1>7 DEF Settled
  <2> HIDE DEF e
  <2> QED BY <2>1, <2>2 DEF Books
<1> QED BY <1>8, <1>9 DEF Holding, known

---------------------------------------------------------------------------
\* At an honest mint the grader holds a spend of all the value of the note it
\* was given between any two of its checks, whatever of its requests HTTP sends
\* twice and however often, within its patience, it is told to wait: runner
\* 1432-1433 ("Between steps held is the value"), with the condition it needs.
THEOREM GradeHoldsEverything ==
  Spec => []HoldsEverything
<1>1. Init => GradeInv /\ Suffering /\ Follows
  BY GradeInvBegins, CourseBegins
<1>2. GradeInv /\ Suffering /\ Follows /\ [Next]_vars => (GradeInv /\ Suffering /\ Follows)'
  BY GradeInvStays, CourseStays
<1>3. GradeInv /\ Suffering /\ Follows => HoldsEverything
  BY HoldingAll
<1> QED BY <1>1, <1>2, <1>3, PTL DEF Spec

\* And it accuses the mint of nothing: no check fails for a request that is sent
\* twice, for a rate limit that is waited out, or for anything such a mint
\* answers.  The condition is that whoever calls the grader tells it the mint's
\* fee, or the note has room for two notes and that fee, or is too small to be
\* halved.  A grader that reckons no fee asks for halves all the same, and takes
\* the mint's refusal for a fault (runner 1931-1938, 2039-2047).
THEOREM GradeHonestPasses ==
  ASSUME \A calling \in Callings : FairlyAsked(calling.feeKnown)
  PROVE  Spec => []HonestPasses
<1>1. Init => GradeInv /\ Suffering /\ Follows /\ CalledFairly
  BY GradeInvBegins, CourseBegins
<1>2. GradeInv /\ Suffering /\ Follows /\ CalledFairly /\ [Next]_vars
      => (GradeInv /\ Suffering /\ Follows /\ CalledFairly)'
  BY GradeInvStays, CourseStays
<1>3. Follows /\ CalledFairly => HonestPasses
  BY DEF Follows, CalledFairly, HonestPasses
<1> QED BY <1>1, <1>2, <1>3, PTL DEF Spec
=============================================================================
