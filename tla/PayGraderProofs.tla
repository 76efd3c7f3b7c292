-------------------------- MODULE PayGraderProofs --------------------------
(***************************************************************************)
(* What a grade of the pay side comes to, for any mint that keeps LUD-26   *)
(* and any requests that HTTP repeats or holds back.  The first part: it   *)
(* leaves no registration that the grader could still take down.  The      *)
(* second: a grade of the registrations blames nothing.                    *)
(***************************************************************************)
EXTENDS PayGrader, SequenceTheorems, FiniteSetTheorems, TLAPS

---------------------------------------------------------------------------
(***************************************************************************)
(* The invariant.                                                          *)
(***************************************************************************)
\* The checks of gradeRegistration in their order, and what is left of them.
Order == <<"mint@", "freeName", "preflight", "badProofs", "reserved", "register", "taken",
           "usedKey", "unpublished", "publishes", "noComment", "plainPayment", "sameMint",
           "plusTag", "noHint", "bothProofs", "noSuchName", "moves", "notOnFile",
           "unregisters", "neverAgain", "cors", "leaveNothing">>
Stage(k) == SubSeq(Order, k, 23)

\* What the mint has on file for the throwaway username: nothing, or the share
\* of one of the grader's keys, published where no fee is asked.
Serves(map, key) ==
  /\ DOMAIN map = {"user"}
  /\ map["user"].cx1 = Share(key) /\ (map["user"].paid <=> addressFee = 0)
Vacant == DOMAIN registrations = {}
Filed(key) == Serves(registrations, key)
Known == (g.registered => Filed(g.onFile)) /\ (~g.registered => Vacant)

\* An answer that grants a request, before the check has read it.
Granted(check) == at = check /\ ask = Nothing /\ Len(log) = 1 /\ log[1].status = "OK"

\* The grader knows what is on file, but for the answer it has yet to read.
\* It ends with nothing there, or with what waits for a fee.
Settled == at = "done" \/ (at = "leaveNothing" /\ Len(log) > 0)
InStep ==
  /\ Settled => Vacant \/ (addressFee > 0 /\ Filed(g.onFile))
  /\ Granted("register") => Filed("first")
  /\ Granted("moves") => Filed("second")
  /\ Granted("unregisters") => Vacant
  /\ Settled \/ Granted("register") \/ Granted("moves") \/ Granted("unregisters") \/ Known

\* The requests that change what is on file, each sent by one check.
Changes == at \in {"register", "moves", "unregisters", "leaveNothing"} /\ Len(log) = 0
Changing ==
  CASE at = "register" -> ask = registeringBy("first", "user")
    [] at = "moves" -> ask = move("first", "second", "user")
    [] at = "leaveNothing" -> ask = taking(g.onFile, "user") /\ g.registered /\ ~g.held
    [] OTHER -> ask = taking(g.onFile, "user")

\* The rest: what only reads, and what a mint that keeps the rules refuses.
Mutating == {"POST", "PUT", "DELETE"}
Proven(r, sig) ==
  sig.by = r.cx1.x /\ sig.over = Message("register", "here", r.name, r.cx1)
Futile(r) ==
  /\ r.ask = "POST" =>
       \/ r.name \in {"mint", "user+tag"}
       \/ r.name = "user" /\ ~Proven(r, r.sig)
       \/ r.name = "user" /\ g.registered
       \/ r.name \in {"user", "userb"} /\ g.onFile # "none" /\ r.cx1.x = "first"
  /\ r.ask = "PUT" =>
       \/ r.name = "userc"
       \/ r.name = "user" /\ ~Proven(r, r.newsig)
       \/ r.name = "user" /\ r.cx1.x = "first"
       \/ r.name = "user" /\ (r.sig.by = "stranger" \/ r.sig.over.cx1 # r.cx1)
  /\ r.ask = "DELETE" =>
       \/ r.name \in {"mint", "user+tag", "userb"}
       \/ /\ r.name = "user"
          /\ r.sig.by \notin {"first", "second"} \/ r.sig.by # g.onFile
             \/ r.sig.over.domain # "here"

\* What it knows where.
Remembers ==
  /\ {"registered", "held", "onFile"} \subseteq DOMAIN g
  /\ g.registered \in BOOLEAN /\ g.held \in BOOLEAN
  /\ g.onFile \in {"none", "first", "second"}
  /\ g.registered => g.onFile # "none"
Before == {"mint@", "freeName", "preflight", "badProofs", "reserved", "register"}
WhileRegistered ==
  {"taken", "usedKey", "unpublished", "publishes", "noComment", "plainPayment", "sameMint",
   "plusTag", "noHint", "bothProofs", "noSuchName", "moves", "notOnFile"}
Afterwards == {"neverAgain", "cors", "leaveNothing"}
Knows ==
  /\ at \in Before => ~g.registered
  /\ at \in WhileRegistered => g.registered
  /\ at = "unregisters" =>
       (g.registered <=> Len(log) = 0 \/ (Len(log) = 1 /\ ask = Nothing))
  /\ at \in {"unregisters", "neverAgain"} => g.onFile # "none"
  /\ at = "unpublished" => g.held
  /\ at = "done" => ask = Nothing /\ Len(log) = 0

\* A request that changes what is on file gets its answer, unless every retry
\* met a rate limit: that costs a grade Retries + 1 troubles each time.
Sending ==
  /\ ask # Nothing => (Changes => Changing) /\ (~Changes => Futile(ask))
  /\ at \in {"register", "neverAgain", "leaveNothing"} => ask = Nothing \/ Len(log) = 0
  /\ at \in {"register", "neverAgain"} => Len(log) <= 1
  /\ at = "neverAgain" => ask = Nothing \/ ask.ask = "POST"
  /\ at = "neverAgain" /\ Len(log) > 0 => log[1].status # "OK"
FirstUsed == g.onFile # "none" \/ ~Vacant => \E used \in usedKeys : used.x = "first"
Waited ==
  /\ tries <= Retries
  /\ Len(suffered) >= Retries - tries
  /\ at = "unregisters" /\ Len(log) = 1 /\ ask = Nothing /\ log[1].status # "OK"
     => Len(suffered) >= Retries + 1
  /\ at \in Afterwards /\ g.registered /\ ~g.held
     => Len(suffered) >= Retries + 1 + (IF ask = Nothing THEN 0 ELSE Retries - tries)
Undisturbed == Conforming /\ OnlySuffered({"resent", "limited"})

RegistrationInv ==
  /\ \E k \in 1 .. 24 : plan = Stage(k)
  /\ Remembers /\ Knows
  /\ Undisturbed =>
       /\ InStep /\ Sending /\ FirstUsed /\ Waited
       /\ g.held => addressFee > 0

\* Every other grade only reads.
ReadingInv ==
  /\ \A name \in DOMAIN registrations : registrations[name].cx1 = Share("user")
  /\ ask # Nothing => ask.ask \notin Mutating

CleanInv ==
  /\ log \in Seq({log[i] : i \in DOMAIN log})
  /\ suffered \in Seq(Hazards) /\ tries \in Int /\ target \in Targets
  /\ target = "registration" => RegistrationInv
  /\ target # "registration" => ReadingInv
---------------------------------------------------------------------------
(***************************************************************************)
(* What a mint that keeps the rules answers.                               *)
(***************************************************************************)
\* It charges what it advertises.
LEMMA ChargesAsAdvertised ==
  ASSUME Conforming PROVE addressFeeCharged = addressFee /\ addressFee \in {0, 21}
BY DEF Conforming, addressFeeCharged, addressFee, Has

\* And leaves out none of the rules of LUD-26.
LEMMA KeepsTheRules ==
  ASSUME Conforming
  PROVE  /\ ~Has("acceptsReservedUsernames") /\ ~Has("overwritesRegistration")
         /\ ~Has("registrationUnverified") /\ ~Has("registrationWithoutCx1")
         /\ ~Has("reusesCx1") /\ ~Has("reusesCx1 afterUnregister") /\ ~Has("reusesCx1 byCx1")
         /\ ~Has("updateChecksOnly sig") /\ ~Has("updateChecksOnly newsig")
         /\ ~Has("unregisterUnverified")
BY DEF Has, Conforming

\* Only three methods write.
LEMMA ReadersWriteNothing ==
  ASSUME NEW r, r.ask \notin Mutating
  PROVE  /\ handle(r).registrations = registrations
         /\ handle(r).usedKeys = usedKeys
BY DEF Mutating, handle, Same, quote

\* A method is handled by its handler.
LEMMA Methods ==
  /\ \A r : r.ask = "POST" => handle(r) = register(r)
  /\ \A r : r.ask = "PUT" => handle(r) = update(r)
  /\ \A r : r.ask = "DELETE" => handle(r) = unregister(r)
BY DEF handle

\* What a proof is over.
LEMMA MessageParts ==
  \A action, domain, name, cx1 :
    /\ Message(action, domain, name, cx1).domain = domain
    /\ Message(action, domain, name, cx1).cx1 = cx1
BY DEF Message

\* Nothing comes of a futile request.
LEMMA FutileIsRefused ==
  ASSUME Conforming, Remembers, Known, FirstUsed, NEW r, Futile(r)
  PROVE  /\ handle(r).registrations = registrations
         /\ handle(r).usedKeys = usedKeys
         /\ r.ask = "POST" => handle(r).answer.status # "OK"
<1>1. \A reason : /\ Refused(reason).registrations = registrations
                  /\ Refused(reason).usedKeys = usedKeys
                  /\ Refused(reason).answer.status = "ERROR"
  BY DEF Refused, Same, fail, Said
<1>3. CASE r.ask = "POST"
  <2>1. \E reason : register(r) = Refused(reason)
    <3>1. CASE r.name \in {"mint", "user+tag"}
      BY KeepsTheRules, <3>1 DEF register, lower, untagged
    <3>2. CASE r.name = "user" /\ ~Proven(r, r.sig)
      BY KeepsTheRules, <3>2 DEF register, lower, untagged, signedBy, verifyProof, Proven
    <3>3. CASE r.name = "user" /\ g.registered
      BY KeepsTheRules, <3>3 DEF register, lower, untagged, Known, Filed, Serves
    <3>4. CASE r.name \in {"user", "userb"} /\ g.onFile # "none" /\ r.cx1.x = "first"
      <4>1. cx1Used(r.cx1)
        BY KeepsTheRules, <3>4 DEF cx1Used, FirstUsed
      <4> QED BY KeepsTheRules, <3>4, <4>1 DEF register, lower, untagged
    <3> QED BY <1>3, <3>1, <3>2, <3>3, <3>4 DEF Futile
  <2> QED BY <1>1, <1>3, <2>1, Methods
<1>4. CASE r.ask = "PUT"
  <2>1. \E reason : update(r) = Refused(reason)
    <3>1. CASE r.name = "userc"
      BY KeepsTheRules, <3>1 DEF update, lower, Known, Filed, Serves, Vacant
    <3>2. CASE r.name = "user" /\ ~Proven(r, r.newsig)
      BY KeepsTheRules, <3>2 DEF update, lower, signedBy, verifyProof, Proven
    <3>3. CASE r.name = "user" /\ r.cx1.x = "first"
      <4>1. ~Vacant => cx1Used(r.cx1)
        BY KeepsTheRules, <3>3 DEF cx1Used, FirstUsed
      <4> QED BY KeepsTheRules, <3>3, <4>1 DEF update, lower, Vacant
    <3>4. CASE r.name = "user" /\ (r.sig.by = "stranger" \/ r.sig.over.cx1 # r.cx1)
      <4>1. ~Vacant => registrations["user"].cx1.x \in {"first", "second"}
        BY DEF Known, Filed, Serves, Remembers, Share
      <4>2. ASSUME NEW x \in {"first", "second"} PROVE ~signedBy("update", r, r.sig, x)
        <5> DEFINE message == Message("update", "here", lower(r.name), r.cx1)
        <5>1. signedBy("update", r, r.sig, x) => r.sig.by = x /\ r.sig.over = message
          BY KeepsTheRules DEF signedBy, verifyProof
        <5>2. message.cx1 = r.cx1
          BY MessageParts
        <5> HIDE DEF message
        <5> QED BY <3>4, <5>1, <5>2
      <4> QED BY KeepsTheRules, <3>4, <4>1, <4>2 DEF update, lower, Vacant
    <3> QED BY <1>4, <3>1, <3>2, <3>3, <3>4 DEF Futile
  <2> QED BY <1>1, <1>4, <2>1, Methods
<1>5. CASE r.ask = "DELETE"
  <2>1. \E reason : unregister(r) = Refused(reason)
    <3>1. CASE r.name \in {"mint", "user+tag", "userb"}
      BY KeepsTheRules, <3>1 DEF unregister, lower, Known, Filed, Serves, Vacant
    <3>2. CASE /\ r.name = "user"
               /\ r.sig.by \notin {"first", "second"} \/ r.sig.by # g.onFile
                  \/ r.sig.over.domain # "here"
      <4>1. ~Vacant => /\ registrations["user"].cx1.x = g.onFile
                       /\ registrations["user"].cx1.x \in {"first", "second"}
        BY DEF Known, Filed, Serves, Remembers, Share
      <4>2. ASSUME NEW x \in {"first", "second"}, x = g.onFile
            PROVE  ~verifyProof(Message("unregister", "here", "user", Unbound), r.sig, x)
        <5> DEFINE message == Message("unregister", "here", "user", Unbound)
        <5>1. verifyProof(message, r.sig, x) => r.sig.by = x /\ r.sig.over = message
          BY KeepsTheRules DEF verifyProof
        <5>2. message.domain = "here"
          BY MessageParts
        <5> HIDE DEF message
        <5>3. ~verifyProof(message, r.sig, x)
          BY <3>2, <4>2, <5>1, <5>2
        <5> QED BY <5>3 DEF message
      <4> QED BY KeepsTheRules, <3>2, <4>1, <4>2 DEF unregister, lower, Vacant
    <3> QED BY <1>5, <3>1, <3>2 DEF Futile
  <2> QED BY <1>1, <1>5, <2>1, Methods
<1> QED BY <1>3, <1>4, <1>5, ReadersWriteNothing DEF Mutating

\* The first registration: granted, or nothing comes of it.
LEMMA RegisterAnswers ==
  ASSUME Conforming, Vacant, NEW r, r = registeringBy("first", "user")
  PROVE  \/ /\ handle(r).answer.status = "OK"
            /\ Serves(handle(r).registrations, "first")
            /\ \E used \in handle(r).usedKeys : used.x = "first"
         \/ /\ handle(r).answer.status # "OK"
            /\ handle(r).registrations = registrations /\ handle(r).usedKeys = usedKeys
<1>1. /\ r.ask = "POST" /\ r.name = "user" /\ r.cx1 = Share("first") /\ lower(r.name) = "user"
  BY DEF registeringBy, registering, asked, Nothing, lower
<1>2. handle(r) = register(r)
  BY <1>1, Methods
<1>3. \/ \E reason : register(r) = Refused(reason)
      \/ register(r) = Accepted("user", Share("first"), addressFee = 0, addressFee)
  BY <1>1, ChargesAsAdvertised DEF register
<1>4. \A reason : /\ Refused(reason).registrations = registrations
                  /\ Refused(reason).usedKeys = usedKeys
                  /\ Refused(reason).answer.status = "ERROR"
  BY DEF Refused, Same, fail, Said
<1> DEFINE done == Accepted("user", Share("first"), addressFee = 0, addressFee)
<1>5. /\ done.answer.status = "OK" /\ done.usedKeys = usedKeys \cup {Share("first")}
      /\ done.registrations =
           [user \in DOMAIN registrations \cup {"user"} |->
              IF user = "user" THEN [cx1 |-> Share("first"), paid |-> addressFee = 0]
              ELSE registrations[user]]
  BY DEF Accepted, Said
<1>6. Serves(done.registrations, "first")
  <2> DEFINE entry == [cx1 |-> Share("first"), paid |-> addressFee = 0]
  <2>1. DOMAIN done.registrations = {"user"} /\ done.registrations["user"] = entry
    BY <1>5 DEF Vacant
  <2>2. entry.cx1 = Share("first") /\ (entry.paid <=> addressFee = 0)
    OBVIOUS
  <2> HIDE DEF entry, done
  <2> QED BY <2>1, <2>2 DEF Serves
<1>7. \E used \in done.usedKeys : used.x = "first"
  BY <1>5 DEF Share
<1> QED BY <1>2, <1>3, <1>4, <1>5, <1>6, <1>7

\* Moving the username, while the mint has it on file for one of the keys.
LEMMA MoveAnswers ==
  ASSUME Conforming, Remembers, g.registered, Filed(g.onFile), NEW r, r = move("first", "second", "user")
  PROVE  /\ \/ handle(r).answer.status = "OK" /\ Serves(handle(r).registrations, "second")
            \/ handle(r).answer.status # "OK" /\ handle(r).registrations = registrations
         /\ usedKeys \subseteq handle(r).usedKeys
<1>1. /\ r.ask = "PUT" /\ r.name = "user" /\ r.cx1 = Share("second") /\ lower(r.name) = "user"
  BY DEF move, moving, asked, Nothing, lower
<1>2. handle(r) = update(r)
  BY <1>1, Methods
<1>3. \/ \E reason : update(r) = Refused(reason)
      \/ registrations["user"].paid /\ update(r) = Accepted("user", Share("second"), TRUE, 0)
  BY <1>1 DEF update
<1>4. \A reason : /\ Refused(reason).registrations = registrations
                  /\ Refused(reason).usedKeys = usedKeys
                  /\ Refused(reason).answer.status = "ERROR"
  BY DEF Refused, Same, fail, Said
<1> DEFINE done == Accepted("user", Share("second"), TRUE, 0)
<1>5. /\ done.answer.status = "OK" /\ done.usedKeys = usedKeys \cup {Share("second")}
      /\ done.registrations =
           [user \in DOMAIN registrations \cup {"user"} |->
              IF user = "user" THEN [cx1 |-> Share("second"), paid |-> TRUE]
              ELSE registrations[user]]
  BY DEF Accepted, Said
<1>6. registrations["user"].paid => Serves(done.registrations, "second")
  <2> DEFINE entry == [cx1 |-> Share("second"), paid |-> TRUE]
  <2>1. DOMAIN done.registrations = {"user"} /\ done.registrations["user"] = entry
    BY <1>5 DEF Filed, Serves
  <2>2. entry.cx1 = Share("second") /\ entry.paid
    OBVIOUS
  <2> HIDE DEF entry, done
  <2> QED BY <2>1, <2>2 DEF Filed, Serves
<1>7. \/ \E reason : handle(r) = Refused(reason)
      \/ registrations["user"].paid /\ handle(r) = done
  BY <1>2, <1>3
<1> HIDE DEF done
<1> QED BY <1>4, <1>5, <1>6, <1>7

\* Taking it down.
LEMMA TakingAnswers ==
  ASSUME Conforming, Remembers, g.registered, Filed(g.onFile), NEW r, r = taking(g.onFile, "user")
  PROVE  /\ handle(r).answer.status = "OK" /\ DOMAIN handle(r).registrations = {}
         /\ handle(r).usedKeys = usedKeys
<1>1. /\ r.ask = "DELETE" /\ r.name = "user" /\ lower(r.name) = "user"
      /\ r.sig = Signed(g.onFile, Message("unregister", "here", "user", Unbound))
  BY DEF taking, leaving, proof, proofBy, asked, Nothing, lower
<1>2. handle(r) = unregister(r)
  BY <1>1, Methods
<1>3. DOMAIN registrations = {"user"} /\ registrations["user"].cx1.x = g.onFile
  BY DEF Filed, Serves, Share
<1>4. verifyProof(Message("unregister", "here", "user", Unbound), r.sig,
                  registrations["user"].cx1.x)
  BY <1>1, <1>3 DEF verifyProof, Signed
<1> DEFINE told == [Said EXCEPT !.status = "OK", !.cors = ~Has("noMutationCors")]
<1>5. unregister(r) =
        [answer |-> told,
         bound |-> bound, usedKeys |-> usedKeys,
         registrations |-> [other \in DOMAIN registrations \ {"user"} |-> registrations[other]]]
  BY <1>1, <1>3, <1>4 DEF unregister
<1>6. told.status = "OK"
  <2>1. \A c : [Said EXCEPT !.status = "OK", !.cors = c].status = "OK"
    BY DEF Said
  <2> QED BY <2>1, Zenon
<1> HIDE DEF told
<1> QED BY <1>2, <1>3, <1>5, <1>6

---------------------------------------------------------------------------
(***************************************************************************)
(* The order of the checks.                                                *)
(***************************************************************************)
\* There are twenty-three.
LEMMA Positions ==
  ASSUME NEW k \in 1 .. 23
  PROVE  k \in {1, 2, 3, 4, 5, 6, 7, 8, 9, 10, 11, 12, 13, 14, 15, 16, 17, 18, 19, 20, 21, 22, 23}
OBVIOUS

\* Each has its place.
LEMMA Places ==
  /\ Order[1] = "mint@" /\ Order[2] = "freeName" /\ Order[3] = "preflight"
  /\ Order[4] = "badProofs" /\ Order[5] = "reserved" /\ Order[6] = "register"
  /\ Order[7] = "taken" /\ Order[8] = "usedKey" /\ Order[9] = "unpublished"
  /\ Order[10] = "publishes" /\ Order[11] = "noComment" /\ Order[12] = "plainPayment"
  /\ Order[13] = "sameMint" /\ Order[14] = "plusTag" /\ Order[15] = "noHint"
  /\ Order[16] = "bothProofs" /\ Order[17] = "noSuchName" /\ Order[18] = "moves"
  /\ Order[19] = "notOnFile" /\ Order[20] = "unregisters" /\ Order[21] = "neverAgain"
  /\ Order[22] = "cors" /\ Order[23] = "leaveNothing"
BY DEF Order

\* So they are a sequence.
LEMMA Ordered ==
  Order \in Seq({Order[i] : i \in 1 .. 23}) /\ Len(Order) = 23
<1>1. Len(Order) = 23 /\ DOMAIN Order = 1 .. 23 /\ Order = [i \in 1 .. 23 |-> Order[i]]
  BY DEF Order
<1> QED BY <1>1

\* What is left of them from the k-th on.
LEMMA Stages ==
  ASSUME NEW k \in 1 .. 24
  PROVE  /\ Stage(k) \in Seq({Order[i] : i \in 1 .. 23})
         /\ Len(Stage(k)) = 24 - k /\ DOMAIN Stage(k) = 1 .. 24 - k
         /\ \A i \in 1 .. 24 - k : Stage(k)[i] = Order[k + i - 1]
<1> DEFINE S == {Order[i] : i \in 1 .. 23}
<1>1. \A i \in k .. 23 : Order[i] \in S
  OBVIOUS
<1> HIDE DEF S
<1>2. /\ SubSeq(Order, k, 23) \in Seq(S)
      /\ Len(SubSeq(Order, k, 23)) = IF k <= 23 THEN 23 - k + 1 ELSE 0
      /\ \A i \in 1 .. 23 - k + 1 : SubSeq(Order, k, 23)[i] = Order[k + i - 1]
  BY <1>1, SubSeqProperties
<1>3. \A s \in Seq(S) : DOMAIN s = 1 .. Len(s)
  OBVIOUS
<1>4. 23 - k + 1 = 24 - k /\ (k <= 23 \/ 24 - k = 0)
  OBVIOUS
<1> QED BY <1>2, <1>3, <1>4 DEF Stage, S

\* The check under way at each.
LEMMA FirstOfStage ==
  ASSUME NEW k \in 1 .. 24
  PROVE  /\ k # 24 => Stage(k) # << >> /\ Stage(k)[1] = Order[k]
         /\ k = 24 => Stage(k) = << >>
<1> DEFINE S == {Order[i] : i \in 1 .. 23}
<1>0. /\ Stage(k) \in Seq(S) /\ Len(Stage(k)) = 24 - k
      /\ \A i \in 1 .. 24 - k : Stage(k)[i] = Order[k + i - 1]
  BY Stages
<1> HIDE DEF S
<1>1. k # 24 => Stage(k)[1] = Order[k] /\ Stage(k) # << >>
  BY <1>0
<1>2. k = 24 => Stage(k) = << >>
  BY <1>0
<1> QED BY <1>1, <1>2

\* No two are the same.
LEMMA Distinct ==
  ASSUME NEW k \in 1 .. 23, NEW m \in 1 .. 23, Order[k] = Order[m] PROVE k = m
<1>1. CASE m <= 8
  BY <1>1, Places, Positions
<1>2. CASE m > 8 /\ m <= 16
  BY <1>2, Places, Positions
<1>3. CASE m > 16
  BY <1>3, Places, Positions
<1> QED BY <1>1, <1>2, <1>3

\* Which of them come before, during and after the registration.
LEMMA Periods ==
  ASSUME NEW k \in 1 .. 23
  PROVE  /\ Order[k] # "done"
         /\ Order[k] \in Before <=> k <= 6
         /\ Order[k] \in WhileRegistered <=> k \in 7 .. 19
         /\ Order[k] \in Afterwards <=> k >= 21
         /\ Order[k] = "unregisters" <=> k = 20
         /\ Order[k] = "neverAgain" <=> k = 21
         /\ Order[k] = "unpublished" <=> k = 9
<1>1. Order[k] # "done"
  BY Places, Positions
<1>2. Order[k] \in Before <=> k <= 6
  BY Places, Positions DEF Before
<1>3. Order[k] \in WhileRegistered <=> k \in 7 .. 19
  BY Places, Positions DEF WhileRegistered
<1>4. Order[k] \in Afterwards <=> k >= 21
  BY Places, Positions DEF Afterwards
<1>5. /\ Order[k] = "unregisters" <=> k = 20
      /\ Order[k] = "neverAgain" <=> k = 21
      /\ Order[k] = "unpublished" <=> k = 9
  BY Places, Positions
<1> QED BY <1>1, <1>2, <1>3, <1>4, <1>5

\* The next.
LEMMA TailOfStage ==
  ASSUME NEW k \in 1 .. 23 PROVE Tail(Stage(k)) = Stage(k + 1)
<1>1. k \in 1 .. Len(Order) /\ 23 \in k .. Len(Order)
  BY Ordered
<1> QED BY <1>1, Ordered, HeadTailOfSubSeq DEF Stage

\* A check that jumps.
LEMMA FromStage ==
  ASSUME NEW k \in 1 .. 23, NEW m \in {9, 10, 16, 22}, k <= m, plan = Stage(k)
  PROVE  From(Order[m]) = Stage(m)
<1> DEFINE i == CHOOSE j \in DOMAIN plan : plan[j] = Order[m]
<1>1. /\ DOMAIN plan = 1 .. 24 - k /\ Len(plan) = 24 - k
      /\ \A j \in 1 .. 24 - k : plan[j] = Order[k + j - 1]
  <2>1. k \in 1 .. 24
    OBVIOUS
  <2> QED BY <2>1, Stages
<1>2. \A j \in 1 .. 23 : Order[j] = Order[m] => j = m
  <2> TAKE j \in 1 .. 23
  <2>1. CASE m = 9
    BY <2>1, Places, Positions
  <2>2. CASE m = 10
    BY <2>2, Places, Positions
  <2>3. CASE m = 16
    BY <2>3, Places, Positions
  <2>4. CASE m = 22
    BY <2>4, Places, Positions
  <2> QED BY <2>1, <2>2, <2>3, <2>4
<1>3. i \in 1 .. 24 - k /\ plan[i] = Order[m]
  <2>1. m - k + 1 \in 1 .. 24 - k /\ plan[m - k + 1] = Order[k + (m - k + 1) - 1]
    BY <1>1
  <2>2. k + (m - k + 1) - 1 = m
    OBVIOUS
  <2> QED BY <1>1, <2>1, <2>2
<1> HIDE DEF i
<1>4. i = m - k + 1
  <2>1. k + i - 1 \in 1 .. 23 /\ Order[k + i - 1] = Order[m]
    BY <1>1, <1>3
  <2>2. k + i - 1 = m
    BY <1>2, <2>1
  <2> QED BY <1>3, <2>2
<1>5. From(Order[m]) = SubSeq(SubSeq(Order, k, 23), m - k + 1, 23 - k + 1)
  <2>1. From(Order[m]) = SubSeq(plan, i, Len(plan))
    BY DEF From, i
  <2>2. Len(plan) = 23 - k + 1 /\ plan = SubSeq(Order, k, 23)
    BY <1>1 DEF Stage
  <2> QED BY <1>4, <2>1, <2>2
<1>6. /\ k \in 1 .. Len(Order) /\ 23 \in 1 .. Len(Order)
      /\ m - k + 1 \in 1 .. 23 - k + 1 /\ 23 - k + 1 \in 1 .. 23 - k + 1
      /\ k + (m - k + 1) - 1 = m /\ k + (23 - k + 1) - 1 = 23
  BY Ordered
<1> QED BY <1>5, <1>6, Ordered, SubSeqOfSubSeq DEF Stage

---------------------------------------------------------------------------
(***************************************************************************)
(* HTTP.                                                                   *)
(***************************************************************************)
\* One more answer.
LEMMA LogGrows ==
  ASSUME log \in Seq({log[i] : i \in DOMAIN log}), NEW answer, log' = Append(log, answer)
  PROVE  /\ log' \in Seq({log'[i] : i \in DOMAIN log'})
         /\ Len(log) \in Nat /\ Len(log') = Len(log) + 1
         /\ Len(log) = 0 => log'[1] = answer
         /\ Len(log) > 0 => log'[1] = log[1]
<1> DEFINE S == {log[i] : i \in DOMAIN log}
<1>1. log \in Seq(S \cup {answer}) /\ Len(log) \in Nat
  OBVIOUS
<1> HIDE DEF S
<1>2. /\ log' \in Seq(S \cup {answer}) /\ Len(log') = Len(log) + 1
      /\ \A i \in 1 .. Len(log) : log'[i] = log[i]
      /\ log'[Len(log) + 1] = answer
  BY <1>1
<1> QED BY <1>1, <1>2

\* One more trouble.
LEMMA Suffering ==
  ASSUME suffered \in Seq(Hazards), NEW trouble, Suffers(trouble), UNCHANGED fault
  PROVE  /\ suffered' \in Seq(Hazards) /\ Len(suffered') = Len(suffered) + 1
         /\ Len(suffered) \in Nat /\ Len(suffered) < Budget
         /\ Undisturbed' => Undisturbed /\ trouble \in {"resent", "limited"}
<1>1. /\ suffered' = Append(suffered, trouble) /\ trouble \in Hazards
      /\ Len(suffered) < Budget
  BY DEF Suffers
<1>2. /\ suffered' \in Seq(Hazards) /\ Len(suffered') = Len(suffered) + 1
      /\ Len(suffered) \in Nat
      /\ DOMAIN suffered' = 1 .. Len(suffered) + 1 /\ DOMAIN suffered = 1 .. Len(suffered)
      /\ \A i \in 1 .. Len(suffered) : suffered'[i] = suffered[i]
      /\ suffered'[Len(suffered) + 1] = trouble
  BY <1>1
<1>3. Undisturbed' => Undisturbed /\ trouble \in {"resent", "limited"}
  BY <1>2 DEF Undisturbed, OnlySuffered, Conforming
<1> QED BY <1>1, <1>2, <1>3

\* The mint answers.
LEMMA AnswersKeepStep ==
  ASSUME CleanInv, target = "registration", Deliver, UNCHANGED <<fault, notes, target, g>>
  PROVE  RegistrationInv'
<1> DEFINE done == handle(ask)
<1>1. /\ ask # Nothing /\ ask' = Nothing /\ log' = Append(log, done.answer)
      /\ registrations' = done.registrations /\ usedKeys' = done.usedKeys
      /\ UNCHANGED <<plan, report, tries, suffered>>
  BY DEF Deliver, Reaches, Delivered, Read
<1> HIDE DEF done
<1>2. /\ Len(log) \in Nat /\ Len(log') = Len(log) + 1
      /\ Len(log) = 0 => log'[1] = done.answer
      /\ Len(log) > 0 => log'[1] = log[1]
  BY <1>1, LogGrows DEF CleanInv
<1>3. at' = at /\ (Undisturbed' <=> Undisturbed)
  BY <1>1 DEF at, Undisturbed, OnlySuffered, Conforming
<1>4. RegistrationInv
  BY DEF CleanInv
<1>5. Remembers' /\ Knows'
  BY <1>1, <1>2, <1>3, <1>4 DEF RegistrationInv, Remembers, Knows
<1>7. at # "done" /\ Len(suffered) \in Nat /\ tries \in Int
  BY <1>1, <1>4 DEF RegistrationInv, Knows, CleanInv
<1>6. ASSUME Undisturbed
      PROVE  /\ InStep' /\ Sending' /\ FirstUsed' /\ Waited'
             /\ g'.held => addressFee' > 0
  <2>0. /\ InStep /\ Conforming /\ FirstUsed /\ Sending /\ Waited /\ Remembers
        /\ at = "leaveNothing" => Len(log) = 0
    BY <1>1, <1>2, <1>4, <1>6 DEF RegistrationInv, Undisturbed, Sending
  <2>1. Known /\ Conforming /\ FirstUsed /\ Sending /\ Waited /\ Remembers
    <3>1. ~Settled
      BY <1>7, <2>0 DEF Settled
    <3>2. \A check : ~Granted(check)
      BY <1>1 DEF Granted
    <3> QED BY <2>0, <3>1, <3>2 DEF InStep
  <2>2. addressFee' = addressFee /\ (g.held => addressFee > 0)
    BY <1>4, <1>6 DEF RegistrationInv, addressFee
  <2>3. CASE ~Changes
    <3>1. /\ done.registrations = registrations /\ done.usedKeys = usedKeys
          /\ ask.ask = "POST" => done.answer.status # "OK"
      BY <1>1, <2>1, <2>3, FutileIsRefused DEF Sending, done
    <3>2. Known' /\ FirstUsed'
      BY <1>1, <2>1, <2>2, <3>1 DEF Known, Filed, Serves, Vacant, FirstUsed
    <3>3. at # "leaveNothing" /\ at # "done"
      BY <1>7, <2>0, <2>3 DEF Changes
    <3>4. InStep'
      BY <1>1, <1>2, <1>3, <2>3, <3>2, <3>3 DEF InStep, Settled, Granted, Changes
    <3>5. Sending' /\ Waited'
      <4>1. Sending'
        BY <1>1, <1>2, <1>3, <2>1, <2>3, <3>1, <3>3 DEF Sending, Changes
      <4>2. Waited'
        BY <1>1, <1>2, <1>3, <1>7, <2>1, <2>3, <3>3 DEF Waited, Changes, Retries
      <4> QED BY <4>1, <4>2
    <3> QED BY <2>2, <3>2, <3>4, <3>5
  <2>4. CASE Changes /\ at = "register"
    <3>1. Vacant /\ ask = registeringBy("first", "user")
      BY <1>1, <1>4, <2>1, <2>4 DEF RegistrationInv, Knows, Before, Known, Sending, Changing
    <3>2. \/ /\ done.answer.status = "OK" /\ Serves(done.registrations, "first")
             /\ \E used \in done.usedKeys : used.x = "first"
          \/ /\ done.answer.status # "OK"
             /\ done.registrations = registrations /\ done.usedKeys = usedKeys
      BY <2>1, <3>1, RegisterAnswers DEF done
    <3>3. InStep'
      BY <1>1, <1>2, <1>3, <2>1, <2>2, <2>4, <3>2
         DEF InStep, Settled, Granted, Changes, Known, Filed, Serves, Vacant
    <3>4. Sending' /\ Waited' /\ FirstUsed'
      BY <1>1, <1>2, <1>3, <2>1, <2>4, <3>2
         DEF Sending, Waited, Retries, Afterwards, FirstUsed, Vacant
    <3> QED BY <2>2, <3>3, <3>4
  <2>5. CASE Changes /\ at = "moves"
    <3>1. g.registered /\ Filed(g.onFile) /\ ask = move("first", "second", "user")
      BY <1>1, <1>4, <2>1, <2>5
         DEF RegistrationInv, Knows, WhileRegistered, Known, Sending, Changing
    <3>2. /\ \/ done.answer.status = "OK" /\ Serves(done.registrations, "second")
             \/ done.answer.status # "OK" /\ done.registrations = registrations
          /\ usedKeys \subseteq done.usedKeys
      BY <2>1, <3>1, MoveAnswers DEF done
    <3>3. InStep'
      BY <1>1, <1>2, <1>3, <2>1, <2>2, <2>5, <3>1, <3>2
         DEF InStep, Settled, Granted, Changes, Known, Filed, Serves, Vacant
    <3>4. Sending' /\ Waited' /\ FirstUsed'
      BY <1>1, <1>2, <1>3, <1>4, <2>1, <2>5, <3>1, <3>2
         DEF Sending, Waited, Retries, Afterwards, FirstUsed, Vacant, Remembers
    <3> QED BY <2>2, <3>3, <3>4
  <2>6. CASE Changes /\ at \in {"unregisters", "leaveNothing"}
    <3>1. g.registered /\ Filed(g.onFile) /\ ask = taking(g.onFile, "user")
      BY <1>1, <1>4, <2>1, <2>6
         DEF RegistrationInv, Knows, Known, Sending, Changing, Changes
    <3>2. /\ done.answer.status = "OK" /\ DOMAIN done.registrations = {}
          /\ done.usedKeys = usedKeys
      BY <2>1, <3>1, TakingAnswers DEF done
    <3>3. Len(log) = 0 /\ Len(log') = 1 /\ Vacant' /\ log'[1].status = "OK"
      BY <1>1, <1>2, <2>6, <3>2 DEF Changes, Vacant
    <3>4. InStep'
      BY <1>1, <1>3, <1>7, <2>6, <3>3 DEF InStep, Settled, Granted
    <3>5. Sending' /\ FirstUsed'
      BY <1>1, <1>3, <2>1, <2>6, <3>2, <3>3 DEF Sending, FirstUsed
    <3>6. Waited'
      BY <1>1, <1>3, <1>7, <2>1, <2>6, <3>3 DEF Waited, Retries, Afterwards
    <3> QED BY <2>2, <3>4, <3>5, <3>6
  <2> QED BY <2>3, <2>4, <2>5, <2>6 DEF Changes
<1> QED BY <1>1, <1>3, <1>4, <1>5, <1>6 DEF RegistrationInv

\* What HTTP leaves alone, answered or not.
LEMMA HttpKeepsPlace ==
  ASSUME CleanInv, target = "registration", UNCHANGED <<plan, g>>,
         \/ UNCHANGED <<log, ask>>
         \/ ask # Nothing /\ ask' = Nothing /\ \E answer : log' = Append(log, answer)
  PROVE  at' = at /\ (\E k \in 1 .. 24 : plan' = Stage(k)) /\ Remembers' /\ Knows'
<1>1. at' = at /\ RegistrationInv
  BY DEF at, CleanInv
<1>2. CASE UNCHANGED <<log, ask>>
  BY <1>1, <1>2 DEF RegistrationInv, Remembers, Knows
<1>3. CASE ask # Nothing /\ ask' = Nothing /\ \E answer : log' = Append(log, answer)
  <2>1. Len(log) \in Nat /\ Len(log') = Len(log) + 1
    BY <1>3, LogGrows DEF CleanInv
  <2> QED BY <1>1, <1>3, <2>1 DEF RegistrationInv, Remembers, Knows
<1> QED BY <1>2, <1>3

\* A request sent twice, and one that a rate limit holds back.
LEMMA HeldUpKeepsStep ==
  ASSUME CleanInv, target = "registration", UNCHANGED <<fault, plan, log, ask, g>>,
         NEW trouble, Suffers(trouble), UNCHANGED <<registrations, usedKeys>>,
         tries' = tries \/ tries' = tries - 1
  PROVE  RegistrationInv'
<1>1. /\ at' = at /\ (\E k \in 1 .. 24 : plan' = Stage(k)) /\ Remembers' /\ Knows'
  BY HttpKeepsPlace
<1>2. /\ Len(suffered') = Len(suffered) + 1 /\ Len(suffered) \in Nat
      /\ Undisturbed' => Undisturbed
  BY Suffering DEF CleanInv
<1>3. RegistrationInv /\ addressFee' = addressFee
  BY DEF CleanInv, addressFee
<1>4. ASSUME Undisturbed
      PROVE  InStep' /\ Sending' /\ FirstUsed' /\ Waited' /\ (g'.held => addressFee' > 0)
  <2>1. InStep'
    BY <1>1, <1>3, <1>4
       DEF RegistrationInv, InStep, Settled, Granted, Known, Vacant, Filed, Serves
  <2>2. Sending'
    BY <1>1, <1>3, <1>4
       DEF RegistrationInv, Sending, Changes, Changing, Futile, Proven
  <2>3. FirstUsed'
    BY <1>3, <1>4 DEF RegistrationInv, FirstUsed, Vacant
  <2>4. Waited'
    BY <1>1, <1>2, <1>3, <1>4 DEF RegistrationInv, Waited, Retries, CleanInv
  <2> QED BY <1>3, <1>4, <2>1, <2>2, <2>3, <2>4 DEF RegistrationInv
<1> QED BY <1>1, <1>2, <1>4 DEF RegistrationInv

\* A rate limit that outlasts the retries: the budget allows it once.
LEMMA GivenUpKeepsStep ==
  ASSUME CleanInv, target = "registration", UNCHANGED <<fault, plan, g>>,
         UNCHANGED <<registrations, usedKeys, tries>>, Budget < 2 * (Retries + 1),
         Suffers("limited"), ~retry, ask # Nothing, ask' = Nothing,
         log' = Append(log, [status |-> "limited"])
  PROVE  RegistrationInv'
<1>1. /\ at' = at /\ (\E k \in 1 .. 24 : plan' = Stage(k)) /\ Remembers' /\ Knows'
  BY HttpKeepsPlace
<1>2. /\ Len(suffered') = Len(suffered) + 1 /\ Len(suffered) \in Nat /\ Len(suffered) < Budget
      /\ Undisturbed' => Undisturbed
  BY Suffering DEF CleanInv
<1>3. RegistrationInv /\ addressFee' = addressFee /\ at # "done"
  BY DEF CleanInv, addressFee, RegistrationInv, Knows
<1>4. /\ Len(log) \in Nat /\ Len(log') = Len(log) + 1
      /\ Len(log) = 0 => log'[1].status # "OK"
      /\ Len(log) > 0 => log'[1] = log[1]
  BY LogGrows DEF CleanInv
<1>5. ASSUME Undisturbed
      PROVE  InStep' /\ Sending' /\ FirstUsed' /\ Waited' /\ (g'.held => addressFee' > 0)
  <2>1. /\ InStep /\ Sending /\ FirstUsed /\ Waited /\ (g.held => addressFee > 0)
        /\ Remembers /\ Knows
    BY <1>3, <1>5 DEF RegistrationInv
  <2>2. at # "leaveNothing"
    <3> SUFFICES ASSUME at = "leaveNothing" PROVE FALSE
      OBVIOUS
    <3>1. g.registered /\ ~g.held
      BY <2>1 DEF Sending, Changes, Changing
    <3>2. Len(suffered) >= Retries + 1 + (Retries - tries) /\ tries \in Int /\ ~(tries > 0)
      BY <2>1, <3>1 DEF Waited, Afterwards, retry, CleanInv
    <3> QED BY <1>2, <3>2, GradingAssumption DEF Retries
  <2>3. Known
    BY <1>3, <2>1, <2>2 DEF InStep, Settled, Granted
  <2>4. Known' /\ FirstUsed'
    BY <1>3, <2>1, <2>3 DEF Known, Filed, Serves, Vacant, FirstUsed
  <2>5. InStep'
    BY <1>1, <1>3, <1>4, <2>2, <2>4 DEF InStep, Settled, Granted
  <2>6. Sending'
    BY <1>1, <1>4, <2>1, <2>2 DEF Sending
  <2>7. Waited'
    BY <1>1, <1>2, <1>4, <2>1 DEF Waited, Retries, retry, CleanInv
  <2> QED BY <1>3, <2>1, <2>4, <2>5, <2>6, <2>7
<1> QED BY <1>1, <1>2, <1>5 DEF RegistrationInv

\* Any other trouble is none that the property is about.
LEMMA DisturbedKeepsPlace ==
  ASSUME CleanInv, target = "registration", UNCHANGED <<fault, plan, g>>,
         NEW trouble, Suffers(trouble), trouble \notin {"resent", "limited"},
         ask # Nothing, ask' = Nothing, \E answer : log' = Append(log, answer)
  PROVE  RegistrationInv'
BY HttpKeepsPlace, Suffering DEF RegistrationInv, CleanInv

\* HTTP writes by the mint's hand alone, and never by a repeated GET.
LEMMA RepeatsWriteNothing ==
  ASSUME Reaches, ask.ask \notin {"POST", "PUT", "DELETE"}
  PROVE  UNCHANGED <<registrations, usedKeys>>
BY ReadersWriteNothing DEF Reaches, Mutating

\* Every step of HTTP keeps what a grade of the registrations relies on.
LEMMA HttpKeepsRegistration ==
  ASSUME CleanInv, target = "registration", Budget < 2 * (Retries + 1), Http
  PROVE  RegistrationInv'
<1>1. CASE Deliver
  BY <1>1, AnswersKeepStep DEF Http
<1>2. CASE Reaches /\ ask.ask \notin {"POST", "PUT", "DELETE"} /\ Resent
  BY <1>2, RepeatsWriteNothing, HeldUpKeepsStep DEF Http, Resent
<1>3. CASE (Reaches \/ Unreached) /\ (ReplyLost \/ RequestLost \/ LimitedNotJson)
  <2>1. /\ UNCHANGED <<fault, plan, g>> /\ ask # Nothing /\ ask' = Nothing
        /\ \E answer : log' = Append(log, answer)
    BY <1>3, Zenon DEF Http, ReplyLost, RequestLost, LimitedNotJson, Suffers, Read
  <2>2. \E trouble : Suffers(trouble) /\ trouble \notin {"resent", "limited"}
    <3>1. \/ Suffers("replyLost") \/ Suffers("requestLost")
          \/ Suffers("limitedNotJson")
      BY <1>3, Zenon DEF ReplyLost, RequestLost, LimitedNotJson
    <3>2. \A trouble \in {"replyLost", "requestLost", "limitedNotJson"} :
            trouble \notin {"resent", "limited"}
      BY Zenon
    <3> QED BY <3>1, <3>2, Zenon
  <2> QED BY <2>1, <2>2, DisturbedKeepsPlace
<1>4. CASE Unreached /\ Limited
  <2>1. /\ UNCHANGED <<fault, plan, g, registrations, usedKeys>> /\ Suffers("limited")
        /\ ask # Nothing
    BY <1>4 DEF Http, Unreached, Limited, LimitedBy, Suffers
  <2>2. CASE retry
    BY <1>4, <2>1, <2>2, HeldUpKeepsStep DEF Limited, LimitedBy
  <2>3. CASE ~retry
    BY <1>4, <2>1, <2>3, GivenUpKeepsStep DEF Limited, LimitedBy, Read
  <2> QED BY <2>2, <2>3
<1> QED BY <1>1, <1>2, <1>3, <1>4, Zenon DEF Http

\* The sequences of a grade stay sequences.
LEMMA HttpKeepsSequences ==
  ASSUME CleanInv, Http
  PROVE  /\ log' \in Seq({log'[i] : i \in DOMAIN log'})
         /\ suffered' \in Seq(Hazards) /\ tries' \in Int
<1>1. \/ UNCHANGED log
      \/ \E answer : log' = Append(log, answer)
  BY Zenon DEF Http, Deliver, Delivered, Resent, ReplyLost, RequestLost, Limited, LimitedBy,
     LimitedNotJson, Read
<1>2. UNCHANGED suffered \/ \E trouble : Suffers(trouble)
  BY Zenon DEF Http, Deliver, Delivered, Resent, ReplyLost, RequestLost, Limited, LimitedBy,
     LimitedNotJson
<1>3. UNCHANGED tries \/ tries' = tries - 1
  BY Zenon DEF Http, Deliver, Delivered, Resent, ReplyLost, RequestLost, Limited, LimitedBy,
     LimitedNotJson
<1>4. UNCHANGED fault
  BY DEF Http
<1> QED BY <1>1, <1>2, <1>3, <1>4, LogGrows, Suffering DEF CleanInv

---------------------------------------------------------------------------
(***************************************************************************)
(* The grader.                                                             *)
(***************************************************************************)
\* What it knows of the registration stays as it is.
Unmoved ==
  /\ {"registered", "held", "onFile"} \subseteq DOMAIN g'
  /\ g'.registered = g.registered /\ g'.held = g.held /\ g'.onFile = g.onFile

\* Whatever else it notes.
LEMMA NotesElsewhere ==
  ASSUME Remembers, \/ Keep \/ Noted
                    \/ \E new : Remember([g EXCEPT !.mint = new])
                    \/ \E new : Remember([g EXCEPT !.pay = new])
  PROVE  Unmoved /\ Remembers'
<1>1. Unmoved
  BY DEF Remembers, Unmoved, Keep, Noted, Noting, Remember
<1> QED BY <1>1 DEF Unmoved, Remembers

\* The mint does nothing while the grader runs.
LEMMA NothingElse ==
  ASSUME CleanInv, UNCHANGED mintVars, UNCHANGED suffered
  PROVE  /\ (Undisturbed' <=> Undisturbed) /\ addressFee' = addressFee
         /\ (Vacant' <=> Vacant) /\ (FirstUsed /\ (g'.onFile # "none" => g.onFile # "none")
                                     => FirstUsed')
         /\ \A key : Filed(key)' <=> Filed(key)
BY DEF mintVars, Undisturbed, OnlySuffered, Conforming, addressFee, Vacant, FirstUsed, Filed, Serves

\* Still the same to it.
LEMMA StillKnown ==
  ASSUME UNCHANGED mintVars, UNCHANGED suffered, CleanInv, Unmoved
  PROVE  /\ (Known' <=> Known) /\ (FirstUsed => FirstUsed')
         /\ g'.held => g.held
BY NothingElse DEF Known, Unmoved, Vacant, FirstUsed, Filed, Serves

\* A check ends and the m-th begins.
LEMMA CheckBegins ==
  ASSUME CleanInv, target = "registration", UNCHANGED mintVars, UNCHANGED <<suffered, tries>>,
         NEW m \in 1 .. 23, plan' = Stage(m), log' = << >>, ask' = Nothing, Remembers',
         m <= 20 => (g'.registered <=> m > 6),
         m \in {20, 21} => g'.onFile # "none",
         m = 9 => g'.held,
         Undisturbed => /\ Known' /\ FirstUsed' /\ (g'.held => addressFee > 0)
                        /\ m > 20 /\ g'.registered /\ ~g'.held => Len(suffered) >= Retries + 1
  PROVE  RegistrationInv'
<1>1. at' = Order[m] /\ Len(log') = 0
  BY FirstOfStage DEF at
<1>2. /\ at' # "done"
      /\ at' \in Before <=> m <= 6
      /\ at' \in WhileRegistered <=> m \in 7 .. 19
      /\ at' \in Afterwards <=> m >= 21
      /\ at' = "unregisters" <=> m = 20
      /\ at' = "neverAgain" <=> m = 21
      /\ at' = "unpublished" <=> m = 9
  BY <1>1, Periods
<1>3. Knows'
  BY <1>1, <1>2 DEF Knows
<1>4. ASSUME Undisturbed
      PROVE  InStep' /\ Sending' /\ FirstUsed' /\ Waited' /\ (g'.held => addressFee' > 0)
  <2>1. InStep'
    BY <1>1, <1>2, <1>4 DEF InStep, Settled, Granted
  <2>2. Sending'
    BY <1>1 DEF Sending
  <2>3. Waited'
    <3>1. Waited /\ tries' = tries /\ suffered' = suffered /\ Len(suffered) \in Nat
      BY <1>4 DEF CleanInv, RegistrationInv
    <3> QED BY <1>1, <1>2, <1>4, <3>1 DEF Waited, Retries
  <2> QED BY <1>4, <2>1, <2>2, <2>3, NothingElse
<1>5. \E k \in 1 .. 24 : plan' = Stage(k)
  OBVIOUS
<1> QED BY <1>3, <1>4, <1>5, NothingElse DEF RegistrationInv

\* A check asks for something futile.
LEMMA AskingKeepsStep ==
  ASSUME CleanInv, target = "registration", UNCHANGED mintVars, NEW request, Ask(request),
         ask = Nothing, request # Nothing, ~Changes,
         at \notin {"done", "register", "leaveNothing"},
         at = "neverAgain" => Len(log) = 0 /\ request.ask = "POST",
         Futile(ask)', Remembers', Knows',
         Undisturbed => /\ Known' /\ FirstUsed' /\ (g'.held => addressFee > 0)
                        /\ at \in Afterwards /\ g'.registered /\ ~g'.held
                           => g.registered /\ ~g.held
  PROVE  RegistrationInv'
<1>1. /\ UNCHANGED <<plan, log, suffered>> /\ at' = at /\ ask' = request /\ tries' = Retries
  BY DEF Ask, at
<1>2. /\ RegistrationInv /\ (Undisturbed' <=> Undisturbed) /\ addressFee' = addressFee
      /\ Len(log) \in Nat /\ Len(suffered) \in Nat
  BY <1>1, NothingElse DEF CleanInv
<1>3. ASSUME Undisturbed
      PROVE  InStep' /\ Sending' /\ Waited'
  <2>1. ~Settled'
    BY <1>1 DEF Settled
  <2>2. InStep'
    BY <1>1, <1>3, <2>1 DEF InStep, Granted
  <2>3. Sending /\ Waited
    BY <1>2, <1>3 DEF RegistrationInv
  <2>4. ~Changes'
    BY <1>1 DEF Changes
  <2>5. Sending'
    BY <1>1, <2>3, <2>4 DEF Sending
  <2>6. Waited'
    BY <1>1, <1>2, <1>3, <2>3 DEF Waited, Retries
  <2> QED BY <2>2, <2>5, <2>6
<1> QED BY <1>1, <1>2, <1>3 DEF RegistrationInv

\* The grade ends.
LEMMA GradeEnds ==
  ASSUME CleanInv, target = "registration", UNCHANGED mintVars, UNCHANGED <<suffered, tries>>,
         plan' = << >>, log' = << >>, ask' = Nothing, Remembers', Unmoved,
         Undisturbed => Vacant \/ (addressFee > 0 /\ Filed(g.onFile))
  PROVE  RegistrationInv'
<1>1. at' = "done" /\ Len(log') = 0 /\ Len(suffered) \in Nat
  BY DEF at, CleanInv
<1>2. RegistrationInv
  BY DEF CleanInv
<1>3. \E k \in 1 .. 24 : plan' = Stage(k)
  BY FirstOfStage
<1>4. Knows'
  BY <1>1 DEF Knows, Before, WhileRegistered
<1>5. ASSUME Undisturbed
      PROVE  InStep' /\ Sending' /\ FirstUsed' /\ Waited' /\ (g'.held => addressFee' > 0)
  <2>1. Waited /\ FirstUsed /\ (g.held => addressFee > 0)
    BY <1>2, <1>5 DEF RegistrationInv
  <2>0. addressFee' = addressFee /\ registrations' = registrations
    BY DEF addressFee, mintVars
  <2>2. FirstUsed' /\ (g'.held => addressFee' > 0)
    BY <2>0, <2>1, StillKnown
  <2>3. Vacant' \/ (addressFee' > 0 /\ Filed(g.onFile)')
    BY <1>5, <2>0 DEF Unmoved, Filed, Serves, Vacant
  <2>4. InStep'
    BY <1>1, <2>3 DEF InStep, Settled, Granted
  <2>5. Sending'
    BY <1>1 DEF Sending
  <2>6. Waited'
    BY <1>1, <2>1 DEF Waited, Retries, Afterwards
  <2> QED BY <2>2, <2>4, <2>5, <2>6
<1> QED BY <1>3, <1>4, <1>5, NothingElse DEF RegistrationInv

\* Between the requests that change what is on file the grader knows it.
LEMMA Informed ==
  ASSUME RegistrationInv, Undisturbed, NEW k \in 1 .. 23, plan = Stage(k),
         k \notin {6, 18, 20, 23}
  PROVE  Known
<1>1. at = Order[k]
  BY FirstOfStage DEF at
<1>2. at \notin {"done", "register", "moves", "unregisters", "leaveNothing"}
  BY <1>1, Distinct, Places, Periods
<1> QED BY <1>2 DEF RegistrationInv, InStep, Settled, Granted

\* A check that learns nothing of the registration ends.
LEMMA VerdictKeepsStep ==
  ASSUME CleanInv, target = "registration", UNCHANGED mintVars, Unmoved, Remembers',
         NEW verdict, Verdict(verdict),
         NEW k \in 1 .. 23, plan = Stage(k), k \notin {6, 8, 9, 18, 20, 23}
  PROVE  RegistrationInv'
<1>1. /\ UNCHANGED <<suffered, tries>> /\ plan' = Stage(k + 1) /\ log' = << >>
      /\ ask' = Nothing
  <2>1. /\ UNCHANGED <<suffered, tries>> /\ plan' = Tail(plan) /\ log' = << >>
        /\ ask' = Nothing
    BY Zenon DEF Verdict, Leave
  <2> QED BY <2>1, TailOfStage, Zenon
<1>2. at = Order[k] /\ RegistrationInv
  <2>1. at = Order[k]
    BY FirstOfStage DEF at
  <2> QED BY <2>1 DEF CleanInv
<1>3. /\ k <= 5 => ~g.registered
      /\ k \in 7 .. 19 => g.registered /\ g.onFile # "none"
      /\ k = 21 => g.onFile # "none"
  BY <1>2, Periods DEF RegistrationInv, Knows, Remembers
<1>4. ASSUME Undisturbed
      PROVE  /\ Known' /\ FirstUsed' /\ (g'.held => addressFee > 0)
             /\ k + 1 > 20 /\ g'.registered /\ ~g'.held => Len(suffered) >= Retries + 1
  <2>1. Known /\ FirstUsed /\ Waited /\ (g.held => addressFee > 0)
    BY <1>2, <1>4, Informed DEF RegistrationInv
  <2>2. k + 1 > 20 => at \in Afterwards
    BY <1>2, Periods
  <2>3. k + 1 > 20 /\ g'.registered /\ ~g'.held => Len(suffered) >= Retries + 1
    BY <2>1, <2>2 DEF Unmoved, Waited, Retries, CleanInv
  <2> QED BY <2>1, <2>3, <1>1, StillKnown
<1>5. k + 1 \in 1 .. 23
  OBVIOUS
<1>6. /\ k + 1 <= 20 => (g'.registered <=> k + 1 > 6)
      /\ k + 1 \in {20, 21} => g'.onFile # "none"
      /\ k + 1 # 9
  BY <1>3 DEF Unmoved
<1> QED BY <1>1, <1>4, <1>5, <1>6, CheckBegins

\* One that asks for what only reads, or for what is refused.
LEMMA RequestKeepsStep ==
  ASSUME CleanInv, target = "registration", UNCHANGED mintVars, Unmoved, Remembers',
         ask = Nothing, NEW request, Ask(request), request # Nothing, Futile(request),
         NEW k \in 1 .. 23, plan = Stage(k), k \notin {6, 18, 20, 21, 23}
  PROVE  RegistrationInv'
<1>1. at = Order[k]
  BY FirstOfStage DEF at
<1>2. RegistrationInv
  BY DEF CleanInv
<1>3. at \notin {"done", "register", "moves", "unregisters", "neverAgain", "leaveNothing"}
  BY <1>1, Distinct, Places, Periods
<1>4. UNCHANGED <<plan, log, suffered>> /\ at' = at /\ ask' = request
  BY DEF Ask, at
<1>5. Knows'
  BY <1>2, <1>3, <1>4 DEF Knows, Unmoved, RegistrationInv
<1>6. Futile(ask)'
  BY <1>4 DEF Futile, Unmoved, Proven
<1>7. ASSUME Undisturbed
      PROVE  /\ Known' /\ FirstUsed' /\ (g'.held => addressFee > 0)
             /\ at \in Afterwards /\ g'.registered /\ ~g'.held => g.registered /\ ~g.held
  <2>1. Known /\ FirstUsed /\ (g.held => addressFee > 0)
    BY <1>2, <1>7, Informed DEF RegistrationInv
  <2>2. /\ at \in Afterwards /\ g'.registered /\ ~g'.held => g.registered /\ ~g.held
    BY DEF Unmoved
  <2> QED BY <1>4, <2>1, <2>2, StillKnown
<1> QED BY <1>3, <1>4, <1>5, <1>6, <1>7, AskingKeepsStep DEF Changes

\* The requests.
LEMMA Requests ==
  /\ \A what, name : asked(what, name).ask = what /\ asked(what, name).name = name
  /\ \A name, share, sig :
       LET r == registering(name, share, sig) IN
       r.ask = "POST" /\ r.name = name /\ r.cx1 = share /\ r.sig = sig
  /\ \A name, share, sig, newsig :
       LET r == moving(name, share, sig, newsig) IN
       r.ask = "PUT" /\ r.name = name /\ r.cx1 = share /\ r.sig = sig /\ r.newsig = newsig
  /\ \A name, sig :
       LET r == leaving(name, sig) IN r.ask = "DELETE" /\ r.name = name /\ r.sig = sig
  /\ \A name : quoteAt(name).ask = "quote"
  /\ Nothing.ask = "nothing"
<1>1. \A what, name : asked(what, name).ask = what /\ asked(what, name).name = name
  BY DEF asked, Nothing
<1>2. \A name, share, sig :
       LET r == registering(name, share, sig) IN
       r.ask = "POST" /\ r.name = name /\ r.cx1 = share /\ r.sig = sig
  BY DEF asked, Nothing, registering
<1>3. \A name, share, sig, newsig :
       LET r == moving(name, share, sig, newsig) IN
       r.ask = "PUT" /\ r.name = name /\ r.cx1 = share /\ r.sig = sig /\ r.newsig = newsig
  BY DEF asked, Nothing, moving
<1>4. \A name, sig :
       LET r == leaving(name, sig) IN r.ask = "DELETE" /\ r.name = name /\ r.sig = sig
  BY DEF asked, Nothing, leaving
<1>5. \A name : quoteAt(name).ask = "quote"
  BY DEF asked, Nothing, quoteAt
<1>6. Nothing.ask = "nothing"
  BY DEF Nothing
<1> QED BY <1>1, <1>2, <1>3, <1>4, <1>5, <1>6

\* A proof is one key's, over one message.
LEMMA Proofs ==
  /\ \A key, message : Signed(key, message).by = key /\ Signed(key, message).over = message
  /\ \A action, domain, name, cx1 :
       LET message == Message(action, domain, name, cx1) IN
       /\ message.action = action /\ message.domain = domain
       /\ message.name = name /\ message.cx1 = cx1
  /\ \A x, y : Share(x).x = x /\ (x # y => Share(x) # Share(y))
  /\ Unbound.x = "none"
<1>1. \A key, message : Signed(key, message).by = key /\ Signed(key, message).over = message
  BY DEF Signed
<1>2. \A action, domain, name, cx1 :
       LET message == Message(action, domain, name, cx1) IN
       /\ message.action = action /\ message.domain = domain
       /\ message.name = name /\ message.cx1 = cx1
  BY DEF Message
<1>3. \A x : Share(x).x = x
  BY DEF Share
<1>4. Unbound.x = "none"
  BY DEF Unbound
<1> QED BY <1>1, <1>2, <1>3, <1>4

---------------------------------------------------------------------------
(***************************************************************************)
(* What the checks ask for in vain.                                        *)
(***************************************************************************)
\* Reading.
LEMMA Readings ==
  ASSUME NEW r, r.ask \notin Mutating \cup {"nothing"} PROVE Futile(r) /\ r # Nothing
BY Requests DEF Futile, Mutating

\* A registration under a proof of something else, whatever is on file.
LEMMA BadProofsFail ==
  ASSUME NEW i \in 1 .. 5, NEW r, r = registering("user", Share("first"), BadProof(i))
  PROVE  r.ask = "POST" /\ r.name = "user" /\ ~Proven(r, r.sig)
<1>1. r.ask = "POST" /\ r.name = "user" /\ r.cx1 = Share("first") /\ r.sig = BadProof(i)
  BY Requests
<1>2. r.cx1.x = "first"
  BY <1>1, Proofs
<1>3. \/ BadProof(i).by # "first"
      \/ BadProof(i).over # Message("register", "here", "user", Share("first"))
  <2> DEFINE asserted == Message("register", "here", "user", Share("first"))
  <2>1. CASE i = 1
    <3>1. BadProof(i) = proofBy("stranger", "register", "user", Share("first"))
      BY <2>1 DEF BadProof
    <3> QED BY <3>1, Proofs DEF proofBy
  <2>2. CASE i = 2
    <3>1. BadProof(i).over = Message("register", "elsewhere", "user", Share("first"))
      BY <2>2, Proofs DEF BadProof
    <3> QED BY <3>1, Proofs
  <2>3. CASE i = 3
    <3>1. BadProof(i) = proof("register", "first", "userx")
      BY <2>3 DEF BadProof
    <3>2. BadProof(i).over = Message("register", "here", "userx", Share("first"))
      BY <3>1, Proofs DEF proof, proofBy
    <3> QED BY <3>2, Proofs
  <2>4. CASE i = 4
    <3>1. BadProof(i).over = Message("register", "here", "user", Unbound)
      BY <2>4, Proofs DEF BadProof
    <3> QED BY <3>1, Proofs
  <2>5. CASE i = 5
    <3>1. BadProof(i) = NoProof
      BY <2>5 DEF BadProof
    <3> QED BY <3>1, Proofs DEF NoProof
  <2> QED BY <2>1, <2>2, <2>3, <2>4, <2>5
<1> QED BY <1>1, <1>2, <1>3 DEF Proven

\* So nothing comes of one, ...
LEMMA BadProofsFutile ==
  ASSUME NEW i \in 1 .. 5, NEW r, r = registering("user", Share("first"), BadProof(i))
  PROVE  Futile(r) /\ r # Nothing
BY BadProofsFail, Requests DEF Futile

\* ... of a name that nobody may have, or of the one that is taken, or with a
\* share that has been on file.
LEMMA RefusedNamesFutile ==
  /\ \A key : \A name \in {"mint", "user+tag"} :
       Futile(registeringBy(key, name)) /\ registeringBy(key, name) # Nothing
  /\ g.registered => \A key :
       Futile(registeringBy(key, "user")) /\ registeringBy(key, "user") # Nothing
  /\ g.onFile # "none" =>
       Futile(registeringBy("first", "user")) /\ registeringBy("first", "user") # Nothing
  /\ g.onFile # "none" => \A i \in 1 .. 2 : Futile(reuse(i)) /\ reuse(i) # Nothing
<1>1. \A key, name : /\ registeringBy(key, name).ask = "POST"
                      /\ registeringBy(key, name).name = name
                      /\ registeringBy(key, name).cx1.x = key
  BY Requests, Proofs DEF registeringBy
<1>2. \A i \in 1 .. 2 : /\ reuse(i).ask = "POST" /\ reuse(i).name = "userb"
                        /\ reuse(i).cx1.x = "first"
  <2> TAKE i \in 1 .. 2
  <2>1. reuse(i).ask = "POST" /\ reuse(i).name = "userb" /\ reuse(i).cx1 = UsedShare(i)
    BY Requests DEF reuse
  <2>2. UsedShare(i).x = "first"
    BY Proofs DEF UsedShare
  <2> QED BY <2>1, <2>2
<1>3. \A r : r.ask = "POST" => r # Nothing
  BY Requests
<1> QED BY <1>1, <1>2, <1>3 DEF Futile

\* A move without either proof, whatever is on file.
LEMMA HalvesFail ==
  ASSUME NEW i \in 1 .. 4
  PROVE  LET r == Halfproven(i) IN
         /\ r.ask = "PUT" /\ r.name = "user"
         /\ ~Proven(r, r.newsig) \/ r.sig.by = "stranger" \/ r.sig.over.cx1 # r.cx1
<1> DEFINE r == Halfproven(i)
<1> SUFFICES /\ r.ask = "PUT" /\ r.name = "user"
             /\ ~Proven(r, r.newsig) \/ r.sig.by = "stranger" \/ r.sig.over.cx1 # r.cx1
  OBVIOUS
<1>1. CASE i = 1
  <2>1. /\ r.ask = "PUT" /\ r.name = "user"
        /\ r.sig = proofBy("stranger", "update", "user", second)
    BY <1>1, Requests DEF Halfproven
  <2>2. r.sig.by = "stranger"
    BY <2>1, Proofs DEF proofBy
  <2> HIDE DEF r
  <2> QED BY <2>1, <2>2
<1>2. CASE i = 2
  <2>1. /\ r.ask = "PUT" /\ r.name = "user" /\ r.cx1 = second
        /\ r.newsig = proofBy("stranger", "register", "user", second)
    BY <1>2, Requests DEF Halfproven
  <2>2. r.newsig.by = "stranger" /\ r.cx1.x = "second"
    BY <2>1, Proofs DEF proofBy, second
  <2> HIDE DEF r
  <2> QED BY <2>1, <2>2 DEF Proven
<1>3. CASE i = 3
  <2>1. /\ r.ask = "PUT" /\ r.name = "user" /\ r.cx1 = second
        /\ r.sig = proofBy("first", "update", "user", Share("stranger"))
    BY <1>3, Requests DEF Halfproven
  <2>2. r.sig.over.cx1 = Share("stranger")
    BY <2>1, Proofs DEF proofBy
  <2>3. Share("stranger") # second
    BY Proofs DEF second
  <2> HIDE DEF r
  <2> QED BY <2>1, <2>2, <2>3
<1>4. CASE i = 4
  <2>1. /\ r.ask = "PUT" /\ r.name = "user" /\ r.cx1 = second /\ r.newsig = NoProof
    BY <1>4, Requests DEF Halfproven
  <2>2. r.newsig.by = "nobody" /\ r.cx1.x = "second"
    BY <2>1, Proofs DEF second, NoProof
  <2> HIDE DEF r
  <2> QED BY <2>1, <2>2 DEF Proven
<1> QED BY <1>1, <1>2, <1>3, <1>4

\* Nothing comes of that, nor of one of a name nobody has, or back to the share
\* that has been on file.
LEMMA MovesFutile ==
  /\ \A i \in 1 .. 4 : Futile(Halfproven(i)) /\ Halfproven(i) # Nothing
  /\ \A to : Futile(move("first", to, "userc")) /\ move("first", to, "userc") # Nothing
  /\ \A from : Futile(move(from, "first", "user")) /\ move(from, "first", "user") # Nothing
<1>1. \A r : r.ask = "PUT" => r # Nothing
  BY Requests
<1>2. ASSUME NEW i \in 1 .. 4 PROVE Futile(Halfproven(i)) /\ Halfproven(i) # Nothing
  BY <1>1, HalvesFail DEF Futile
<1>3. \A from, to, name : LET r == move(from, to, name) IN
        r.ask = "PUT" /\ r.name = name /\ r.cx1.x = to
  BY Requests, Proofs DEF move
<1> QED BY <1>1, <1>2, <1>3 DEF Futile

\* A removal: of a name nobody has, or without the key on file's proof of it.
LEMMA RemovalsFutile ==
  /\ \A key : \A name \in {"mint", "user+tag", "userb"} :
       Futile(taking(key, name)) /\ taking(key, name) # Nothing
  /\ Futile(taking(Stale, "user")) /\ taking(Stale, "user") # Nothing
  /\ LET r == leaving("user", Signed(g.onFile, Message("unregister", "elsewhere", "user", Unbound)))
     IN  Futile(r) /\ r # Nothing
<1>1. \A r : r.ask = "DELETE" => r # Nothing
  BY Requests
<1>2. \A key, name : LET r == taking(key, name) IN
        r.ask = "DELETE" /\ r.name = name /\ r.sig.by = key
  BY Requests, Proofs DEF taking, proof, proofBy
<1>3. LET r == leaving("user", Signed(g.onFile, Message("unregister", "elsewhere", "user", Unbound)))
      IN  r.ask = "DELETE" /\ r.name = "user" /\ r.sig.over.domain = "elsewhere"
  BY Requests, Proofs
<1>4. Stale # g.onFile \/ Stale = "stranger"
  BY DEF Stale
<1> QED BY <1>1, <1>2, <1>3, <1>4 DEF Futile

---------------------------------------------------------------------------
(***************************************************************************)
(* The checks.                                                             *)
(***************************************************************************)
\* A check of the registrations has its place.
LEMMA Placed ==
  ASSUME CleanInv, target = "registration", at # "done"
  PROVE  \E k \in 1 .. 23 : plan = Stage(k) /\ at = Order[k]
<1>1. PICK k \in 1 .. 24 : plan = Stage(k)
  BY DEF CleanInv, RegistrationInv
<1>2. k # 24
  BY <1>1, FirstOfStage DEF at
<1> QED BY <1>1, <1>2, FirstOfStage DEF at

\* Most only look on.
Inquires == ask = Nothing /\ \E request : Ask(request) /\ Futile(request) /\ request # Nothing
LEMMA LookingOn ==
  ASSUME CleanInv, target = "registration", UNCHANGED mintVars, Unmoved, Remembers',
         at \notin {"done", "register", "moves", "unregisters", "neverAgain", "leaveNothing"},
         Inquires \/ (at \notin {"usedKey", "unpublished"} /\ \E verdict : Verdict(verdict))
  PROVE  RegistrationInv'
<1>1. PICK k \in 1 .. 23 : plan = Stage(k) /\ at = Order[k]
  BY Placed
<1>2. /\ k \notin {6, 18, 20, 21, 23}
      /\ at \notin {"usedKey", "unpublished"} => k \notin {8, 9}
  BY <1>1, Places
<1> QED BY <1>1, <1>2, VerdictKeepsStep, RequestKeepsStep DEF Inquires

\* And leave at once for a later one.
LEMMA Jumping ==
  ASSUME CleanInv, target = "registration", NEW k \in 1 .. 23, NEW m \in {9, 10, 16, 22},
         k <= m, plan = Stage(k), NEW verdicts, Leave(From(Order[m]), verdicts)
  PROVE  /\ UNCHANGED <<suffered, tries>> /\ plan' = Stage(m) /\ log' = << >>
         /\ ask' = Nothing
<1>1. /\ UNCHANGED <<suffered, tries>> /\ plan' = From(Order[m]) /\ log' = << >>
      /\ ask' = Nothing
  BY Zenon DEF Leave
<1> QED BY <1>1, FromStage

\* How those that do end.
LEMMA Endings ==
  ASSUME NEW verdict, Ends(verdict)
  PROVE  /\ at = "register" /\ ~g'.registered => \E verdicts : Leave(From("cors"), verdicts)
         /\ at = "usedKey" /\ g.held => \E verdicts : Leave(From("unpublished"), verdicts)
         /\ at = "usedKey" /\ ~g.held => \E verdicts : Leave(From("publishes"), verdicts)
         /\ at = "unpublished" => \E verdicts : Leave(From("cors"), verdicts)
         /\ at = "publishes" => \/ Verdict(verdict)
                               \/ \E verdicts : Leave(From("bothProofs"), verdicts)
         /\ at = "register" /\ g'.registered => Verdict(verdict)
         /\ at \notin {"register", "usedKey", "unpublished", "publishes"} => Verdict(verdict)
<1>1. CASE at = "register"
  BY <1>1 DEF Ends
<1>2. CASE at = "usedKey"
  BY <1>2 DEF Ends
<1>3. CASE at = "unpublished"
  BY <1>3 DEF Ends
<1>4. CASE at = "publishes"
  BY <1>4 DEF Ends
<1>5. CASE at \notin {"register", "usedKey", "unpublished", "publishes"}
  BY <1>5 DEF Ends
<1> QED BY <1>1, <1>2, <1>3, <1>4, <1>5

\* A check that learns nothing of the registration leaves it as it is.
LEMMA EndingKeepsStep ==
  ASSUME CleanInv, target = "registration", UNCHANGED mintVars, Unmoved, Remembers',
         NEW verdict, Ends(verdict),
         at \notin {"done", "register", "moves", "unregisters", "neverAgain", "leaveNothing"}
  PROVE  RegistrationInv'
<1>1. PICK k \in 1 .. 23 : plan = Stage(k) /\ at = Order[k]
  BY Placed
<1>2. RegistrationInv
  BY DEF CleanInv
<1>3. ASSUME NEW m \in {9, 10, 16, 22}, k <= m, g.registered, m \in {9, 22} => g.held,
             k \notin {6, 18, 20, 23}, NEW verdicts, Leave(From(Order[m]), verdicts)
      PROVE  RegistrationInv'
  <2>1. /\ UNCHANGED <<suffered, tries>> /\ plan' = Stage(m) /\ log' = << >>
        /\ ask' = Nothing
    BY <1>1, <1>3, Jumping
  <2>2. ASSUME Undisturbed
        PROVE  /\ Known' /\ FirstUsed' /\ (g'.held => addressFee > 0)
               /\ m > 20 /\ g'.registered /\ ~g'.held => Len(suffered) >= Retries + 1
    <3>1. Known /\ FirstUsed /\ (g.held => addressFee > 0)
      BY <1>1, <1>2, <1>3, <2>2, Informed DEF RegistrationInv
    <3>2. m > 20 => g'.held
      BY <1>3 DEF Unmoved
    <3> QED BY <2>1, <3>1, <3>2, StillKnown
  <2>3. /\ m <= 20 => (g'.registered <=> m > 6)
        /\ m \in {20, 21} => g'.onFile # "none"
        /\ m = 9 => g'.held
    BY <1>3 DEF Unmoved
  <2> QED BY <2>1, <2>2, <2>3, CheckBegins
<1>4. k \in 7 .. 19 => g.registered
  BY <1>1, <1>2, Periods DEF RegistrationInv, Knows
<1>5. CASE at = "usedKey"
  <2>1. k = 8
    BY <1>1, <1>5, Positions, Places
  <2>2. CASE g.held
    <3>1. PICK verdicts : Leave(From(Order[9]), verdicts)
      BY <1>5, <2>2, Endings, Places
    <3> QED BY <1>3, <1>4, <2>1, <2>2, <3>1
  <2>3. CASE ~g.held
    <3>1. PICK verdicts : Leave(From(Order[10]), verdicts)
      BY <1>5, <2>3, Endings, Places
    <3> QED BY <1>3, <1>4, <2>1, <3>1
  <2> QED BY <2>2, <2>3
<1>6. CASE at = "unpublished"
  <2>1. k = 9 /\ g.held
    BY <1>1, <1>2, <1>6, Periods DEF RegistrationInv, Knows
  <2>2. PICK verdicts : Leave(From(Order[22]), verdicts)
    BY <1>6, Endings, Places
  <2> QED BY <1>3, <1>4, <2>1, <2>2
<1>7. CASE at = "publishes" /\ ~Verdict(verdict)
  <2>1. k = 10
    BY <1>1, <1>7, Positions, Places
  <2>2. PICK verdicts : Leave(From(Order[16]), verdicts)
    BY <1>7, Endings, Places
  <2> QED BY <1>3, <1>4, <2>1, <2>2
<1>8. CASE at \notin {"usedKey", "unpublished"} /\ Verdict(verdict)
  BY <1>8, LookingOn
<1> QED BY <1>5, <1>6, <1>7, <1>8, Endings

\* Reading is asking in vain.
LEMMA ReadingInquires ==
  ASSUME ask = Nothing,
         Ask(reading) \/ (\E name : Ask(asked("payRequest", name)) \/ Ask(asked("OPTIONS", name)))
         \/ \E name : Ask(quoteAt(name))
  PROVE  Inquires
BY Readings, Requests DEF Inquires, reading, Mutating

\* The checks that come before the registration.
LEMMA EarlyChecksKeepStep ==
  ASSUME CleanInv, target = "registration", UNCHANGED mintVars,
         FreeName \/ Preflight \/ BadProofs \/ Reserved
  PROVE  RegistrationInv'
<1>0. Remembers /\ Len(log) \in Nat
  BY DEF CleanInv, RegistrationInv
<1>1. CASE FreeName
  <2>1. /\ at = "freeName" /\ ask = Nothing /\ Keep
        /\ Ask(reading) \/ \E verdict : Verdict(verdict)
    BY <1>1, Zenon DEF FreeName, Beginning, Reading, Judged
  <2> QED BY <1>0, <2>1, ReadingInquires, NotesElsewhere, LookingOn
<1>2. CASE Preflight
  <2>1. /\ at = "preflight" /\ ask = Nothing /\ Keep
        /\ Ask(asked("OPTIONS", "user")) \/ \E verdict : Verdict(verdict)
    BY <1>2, Zenon DEF Preflight, Beginning, Reading, Judged
  <2> QED BY <1>0, <2>1, ReadingInquires, NotesElsewhere, LookingOn
<1>3. CASE BadProofs
  <2>1. /\ at = "badProofs" /\ ask = Nothing /\ (Keep \/ Noted)
        /\ \/ Ask(registering("user", Share("first"), BadProof(1)))
           \/ n > 0 /\ n < 5 /\ Ask(registering("user", Share("first"), BadProof(n + 1)))
           \/ Ask(reading)
           \/ \E verdict : Verdict(verdict)
    BY <1>3, Zenon DEF BadProofs, Beginning, Reading, Judged, Provided
  <2>2. n > 0 /\ n < 5 => n + 1 \in 1 .. 5
    BY <1>0 DEF n
  <2>3. Inquires \/ \E verdict : Verdict(verdict)
    BY <2>1, <2>2, BadProofsFutile, ReadingInquires DEF Inquires
  <2> QED BY <1>0, <2>1, <2>3, NotesElsewhere, LookingOn
<1>4. CASE Reserved
  <2>1. /\ at = "reserved" /\ ask = Nothing /\ (Keep \/ Noted)
        /\ \/ \E key : \E name \in {"mint", "user+tag"} :
                Ask(registeringBy(key, name)) \/ Ask(taking(key, name))
           \/ \E verdict : Verdict(verdict)
    BY <1>4 DEF Reserved, Beginning, Reading, Judged, Provided
  <2>2. Inquires \/ \E verdict : Verdict(verdict)
    BY <2>1, RefusedNamesFutile, RemovalsFutile DEF Inquires
  <2> QED BY <1>0, <2>1, <2>2, NotesElsewhere, LookingOn
<1> QED BY <1>1, <1>2, <1>3, <1>4

\* The checks of the registration as it is on file.
LEMMA FiledChecksKeepStep ==
  ASSUME CleanInv, target = "registration", UNCHANGED mintVars,
         Taken \/ UsedKey \/ Unpublished \/ Publishes
  PROVE  RegistrationInv'
<1>0. /\ Remembers /\ Len(log) \in Nat
      /\ at \in WhileRegistered => g.registered /\ g.onFile # "none"
  BY DEF CleanInv, RegistrationInv, Knows, Remembers
<1>1. CASE Taken
  <2>1. /\ at = "taken" /\ ask = Nothing /\ (Keep \/ Noted)
        /\ Ask(registeringBy("another", "user")) \/ \E verdict : Verdict(verdict)
    BY <1>1, Zenon DEF Taken, Beginning, Reading, Judged
  <2>2. Inquires \/ \E verdict : Verdict(verdict)
    BY <1>0, <2>1, RefusedNamesFutile DEF Inquires, WhileRegistered
  <2> QED BY <1>0, <2>1, <2>2, NotesElsewhere, LookingOn
<1>2. CASE UsedKey
  <2>1. /\ at = "usedKey" /\ ask = Nothing /\ (Keep \/ Noted)
        /\ \/ Ask(reuse(1)) \/ Ask(reuse(2)) \/ Ask(taking("first", "userb"))
           \/ \E verdict : Ends(verdict)
    BY <1>2, Zenon DEF UsedKey, Beginning, Reading, Decides
  <2>2. Inquires \/ \E verdict : Ends(verdict)
    BY <1>0, <2>1, RefusedNamesFutile, RemovalsFutile DEF Inquires, WhileRegistered
  <2> QED BY <1>0, <2>1, <2>2, NotesElsewhere, LookingOn, EndingKeepsStep
<1>3. CASE Unpublished
  <2>1. /\ at = "unpublished" /\ ask = Nothing /\ Keep
        /\ Ask(reading) \/ \E verdict : Ends(verdict)
    BY <1>3, Zenon DEF Unpublished, Beginning, Reading, Decides
  <2> QED BY <1>0, <2>1, ReadingInquires, NotesElsewhere, LookingOn, EndingKeepsStep
<1>4. CASE Publishes
  <2>1. /\ at = "publishes" /\ ask = Nothing
        /\ Keep \/ \E new : Remember([g EXCEPT !.pay = new])
        /\ \/ Ask(reading) \/ Ask(asked("payRequest", "USER"))
           \/ \E verdict : Ends(verdict)
    BY <1>4, Zenon DEF Publishes, Beginning, Reading, Decides
  <2> QED BY <1>0, <2>1, ReadingInquires, NotesElsewhere, LookingOn, EndingKeepsStep
<1> QED BY <1>1, <1>2, <1>3, <1>4

\* Those of the address, of which none writes.
LEMMA AddressChecksRead ==
  ASSUME gradeAddressRules
  PROVE  /\ at \in {"noComment", "plainPayment", "sameMint", "plusTag", "noHint"}
         /\ ask = Nothing /\ Keep
         /\ \/ Ask(quoteAt("user")) \/ \E name : Ask(asked("payRequest", name))
            \/ \E verdict : Verdict(verdict)
<1>1. CASE NoComment
  BY <1>1 DEF NoComment, Beginning, Judged
<1>2. CASE PlainPayment
  BY <1>2 DEF PlainPayment, Beginning, Reading, Judged, Provided
<1>3. CASE SameMint
  BY <1>3 DEF SameMint, Beginning, Reading, Judged
<1>4. CASE PlusTag
  BY <1>4 DEF PlusTag, Beginning, Reading, Judged
<1>5. CASE NoHint
  BY <1>5 DEF NoHint, Beginning
<1> QED BY <1>1, <1>2, <1>3, <1>4, <1>5 DEF gradeAddressRules

\* So they keep what the grade of the registrations relies on.
LEMMA AddressChecksKeepStep ==
  ASSUME CleanInv, target = "registration", UNCHANGED mintVars, gradeAddressRules
  PROVE  RegistrationInv'
<1>1. Remembers
  BY DEF CleanInv, RegistrationInv
<1> QED BY <1>1, AddressChecksRead, ReadingInquires, NotesElsewhere, LookingOn

\* The checks after it.
LEMMA LateChecksKeepStep ==
  ASSUME CleanInv, target = "registration", UNCHANGED mintVars,
         BothProofs \/ NoSuchName \/ NotOnFile \/ Cors
  PROVE  RegistrationInv'
<1>0. Remembers /\ Len(log) \in Nat
  BY DEF CleanInv, RegistrationInv
<1>1. CASE BothProofs
  <2>1. /\ at = "bothProofs" /\ ask = Nothing /\ (Keep \/ Noted)
        /\ \/ Ask(Halfproven(1))
           \/ n > 0 /\ n < 4 /\ Ask(Halfproven(n + 1))
           \/ \E verdict : Verdict(verdict)
    BY <1>1, Zenon DEF BothProofs, Beginning, Reading, Judged, Provided
  <2>2. n > 0 /\ n < 4 => n + 1 \in 1 .. 4
    BY <1>0 DEF n
  <2>3. Inquires \/ \E verdict : Verdict(verdict)
    BY <2>1, <2>2, MovesFutile DEF Inquires
  <2> QED BY <1>0, <2>1, <2>3, NotesElsewhere, LookingOn
<1>2. CASE NoSuchName
  <2>1. /\ at = "noSuchName" /\ ask = Nothing /\ (Keep \/ Noted)
        /\ Ask(move("first", "newcomer", "userc")) \/ \E verdict : Verdict(verdict)
    BY <1>2, Zenon DEF NoSuchName, Beginning, Reading, Judged
  <2>2. Inquires \/ \E verdict : Verdict(verdict)
    BY <2>1, MovesFutile DEF Inquires
  <2> QED BY <1>0, <2>1, <2>2, NotesElsewhere, LookingOn
<1>3. CASE NotOnFile
  <2>1. /\ at = "notOnFile" /\ ask = Nothing /\ (Keep \/ Noted)
        /\ \/ Ask(taking(Stale, "user")) \/ Ask(reading)
           \/ Ask(leaving("user",
                 Signed(g.onFile, Message("unregister", "elsewhere", "user", Unbound))))
           \/ \E verdict : Verdict(verdict)
    BY <1>3, Zenon DEF NotOnFile, Beginning, Reading, Judged, Provided
  <2>2. Inquires \/ \E verdict : Verdict(verdict)
    BY <2>1, RemovalsFutile, ReadingInquires DEF Inquires
  <2> QED BY <1>0, <2>1, <2>2, NotesElsewhere, LookingOn
<1>4. CASE Cors
  <2>1. at = "cors" /\ Keep /\ \E verdict : Verdict(verdict)
    BY <1>4, Zenon DEF Cors, Beginning, Judged
  <2> QED BY <1>0, <2>1, NotesElsewhere, LookingOn
<1> QED BY <1>1, <1>2, <1>3, <1>4

\* Asking for what changes what is on file.
LEMMA ChangingKeepsStep ==
  ASSUME CleanInv, target = "registration", UNCHANGED mintVars, Unmoved, Remembers',
         at \in {"register", "moves", "unregisters", "leaveNothing"}, ask = Nothing,
         Len(log) = 0, NEW request, Ask(request), request # Nothing, Changing'
  PROVE  RegistrationInv'
<1>1. /\ UNCHANGED <<plan, log, suffered>> /\ at' = at /\ ask' = request /\ tries' = Retries
  BY DEF Ask, at
<1>2. /\ RegistrationInv /\ (Undisturbed' <=> Undisturbed) /\ addressFee' = addressFee
      /\ Len(suffered) \in Nat
  BY <1>1, NothingElse DEF CleanInv
<1>3. Knows'
  BY <1>1, <1>2 DEF RegistrationInv, Knows, Unmoved
<1>4. ASSUME Undisturbed
      PROVE  InStep' /\ Sending' /\ FirstUsed' /\ Waited' /\ (g'.held => addressFee' > 0)
  <2>1. InStep /\ FirstUsed /\ Waited /\ (g.held => addressFee > 0)
    BY <1>2, <1>4 DEF RegistrationInv
  <2>2. Known
    BY <2>1 DEF InStep, Settled, Granted
  <2>3. Known' /\ FirstUsed' /\ (g'.held => addressFee' > 0)
    BY <1>1, <1>2, <2>1, <2>2, StillKnown
  <2>4. InStep'
    BY <1>1, <2>3 DEF InStep, Settled, Granted
  <2>5. Sending'
    BY <1>1 DEF Sending, Changes
  <2>6. Waited'
    BY <1>1, <1>2, <2>1 DEF Waited, Retries, Unmoved
  <2> QED BY <2>3, <2>4, <2>5, <2>6
<1> QED BY <1>1, <1>2, <1>3, <1>4 DEF RegistrationInv

\* A verdict, and the next check begins.
LEMMA NextCheck ==
  ASSUME NEW verdict, Verdict(verdict), NEW k \in 1 .. 23, plan = Stage(k)
  PROVE  /\ UNCHANGED <<suffered, tries>> /\ plan' = Stage(k + 1) /\ log' = << >>
         /\ ask' = Nothing
<1>1. /\ UNCHANGED <<suffered, tries>> /\ plan' = Tail(plan) /\ log' = << >>
      /\ ask' = Nothing
  BY Zenon DEF Verdict, Leave
<1> QED BY <1>1, TailOfStage, Zenon

\* A grade that never sees the mint's own document ends there.
LEMMA NoMintAt ==
  ASSUME CleanInv, target = "registration", UNCHANGED mintVars, Unmoved, Remembers',
         at = "mint@", NEW verdict, LastVerdict(verdict)
  PROVE  RegistrationInv'
<1>1. PICK k \in 1 .. 23 : plan = Stage(k) /\ at = Order[k]
  BY Placed
<1>2. k = 1
  BY <1>1, Positions, Places
<1>3. RegistrationInv /\ ~g.registered
  BY DEF CleanInv, RegistrationInv, Knows, Before
<1>4. /\ UNCHANGED <<suffered, tries>> /\ plan' = << >> /\ log' = << >> /\ ask' = Nothing
  BY Zenon DEF LastVerdict, Leave
<1>5. Undisturbed => Vacant
  BY <1>1, <1>2, <1>3, Informed DEF Known
<1> QED BY <1>4, <1>5, GradeEnds

\* The mint's own document.
LEMMA MintAtKeepsStep ==
  ASSUME CleanInv, target = "registration", UNCHANGED mintVars, MintAt
  PROVE  RegistrationInv'
<1>0. Remembers
  BY DEF CleanInv, RegistrationInv
<1>1. /\ at = "mint@" /\ ask = Nothing
      /\ Keep \/ \E new : Remember([g EXCEPT !.mint = new])
      /\ \/ Ask(asked("payRequest", "mint")) \/ \E verdict : Verdict(verdict)
         \/ \E verdict : LastVerdict(verdict)
  BY Zenon DEF MintAt, Beginning, Reading
<1> QED BY <1>0, <1>1, ReadingInquires, NotesElsewhere, LookingOn, NoMintAt

\* What the grader notes of an answer.
LEMMA Notes ==
  ASSUME Remembers
  PROVE  /\ \A r, key, h : Noting([g EXCEPT !.registered = r, !.onFile = key, !.held = h]) =>
               /\ DOMAIN g' = DOMAIN g
               /\ g'.registered = r /\ g'.onFile = key /\ g'.held = h
         /\ \A key : Noting([g EXCEPT !.onFile = key]) =>
               /\ DOMAIN g' = DOMAIN g
               /\ g'.registered = g.registered /\ g'.onFile = key /\ g'.held = g.held
         /\ \A r : Noting([g EXCEPT !.registered = r]) =>
               /\ DOMAIN g' = DOMAIN g
               /\ g'.registered = r /\ g'.onFile = g.onFile /\ g'.held = g.held
         /\ \A r, key : Noting([g EXCEPT !.registered = r, !.onFile = key]) =>
               /\ DOMAIN g' = DOMAIN g
               /\ g'.registered = r /\ g'.onFile = key /\ g'.held = g.held
BY DEF Remembers, Noting

\* A registration the mint refuses, or never answers.
LEMMA UnregisteredKeepsStep ==
  ASSUME CleanInv, target = "registration", UNCHANGED mintVars, Unmoved, Remembers',
         at = "register", ask = Nothing, Len(log) > 0, log[Len(log)].status # "OK",
         NEW verdict, Ends(verdict)
  PROVE  RegistrationInv'
<1>1. PICK k \in 1 .. 23 : plan = Stage(k) /\ at = Order[k]
  BY Placed
<1>2. k = 6
  BY <1>1, Positions, Places
<1>0. RegistrationInv /\ Len(log) \in Nat
  BY DEF CleanInv
<1>3. ~g.registered /\ ~g'.registered
  BY <1>0 DEF RegistrationInv, Knows, Before, Unmoved
<1>4. PICK verdicts : Leave(From(Order[22]), verdicts)
  BY <1>3, Endings, Places
<1>5. /\ UNCHANGED <<suffered, tries>> /\ plan' = Stage(22) /\ log' = << >>
      /\ ask' = Nothing
  BY <1>1, <1>2, <1>4, Jumping
<1>6. ASSUME Undisturbed PROVE Known' /\ FirstUsed' /\ (g'.held => addressFee > 0)
  <2>1. /\ InStep /\ FirstUsed /\ Sending /\ (g.held => addressFee > 0)
    BY <1>0, <1>6 DEF RegistrationInv
  <2>2. Len(log) = 1
    <3>1. Len(log) <= 1
      BY <2>1, Zenon DEF Sending
    <3>2. \A l \in Nat : l > 0 /\ l <= 1 => l = 1
      OBVIOUS
    <3> QED BY <1>0, <3>1, <3>2, Zenon
  <2>3. Known
    BY <2>1, <2>2 DEF InStep, Settled, Granted
  <2> QED BY <1>5, <2>1, <2>3, StillKnown
<1>7. /\ 22 <= 20 => (g'.registered <=> 22 > 6)
      /\ 22 \notin {20, 21} /\ 22 # 9 /\ 22 \in 1 .. 23
  OBVIOUS
<1> QED BY <1>3, <1>5, <1>6, <1>7, CheckBegins

\* The registration.
LEMMA RegisterKeepsStep ==
  ASSUME CleanInv, target = "registration", UNCHANGED mintVars, Register
  PROVE  RegistrationInv'
<1>0. RegistrationInv /\ Remembers /\ Len(log) \in Nat
  BY DEF CleanInv, RegistrationInv
<1>1. CASE /\ at = "register" /\ ask = Nothing /\ Len(log) = 0 /\ Keep
           /\ Ask(registeringBy("first", "user"))
  <2>1. registeringBy("first", "user") # Nothing
    BY Requests DEF registeringBy
  <2>2. Changing'
    <3>1. at' = at /\ ask' = registeringBy("first", "user")
      BY <1>1 DEF Ask, at
    <3> QED BY <1>1, <3>1 DEF Changing
  <2> QED BY <1>0, <1>1, <2>1, <2>2, NotesElsewhere, ChangingKeepsStep
<1>2. CASE /\ at = "register" /\ ask = Nothing /\ Len(log) > 0 /\ log[Len(log)].status = "OK"
           /\ \E h \in BOOLEAN :
                /\ h => addressFee > 0
                /\ Noting([g EXCEPT !.registered = TRUE, !.onFile = "first", !.held = h])
           /\ \E verdict : Ends(verdict)
  <2>1. PICK k \in 1 .. 23 : plan = Stage(k) /\ at = Order[k]
    BY <1>2, Placed
  <2>2. k = 6
    BY <1>2, <2>1, Positions, Places
  <2>3. /\ DOMAIN g' = DOMAIN g /\ g'.registered /\ g'.onFile = "first"
        /\ g'.held \in BOOLEAN /\ (g'.held => addressFee > 0) /\ g'.registered \in BOOLEAN
    BY <1>0, <1>2, Notes
  <2>4. PICK verdict : Verdict(verdict)
    BY <1>2, <2>3, Endings
  <2>5. /\ UNCHANGED <<suffered, tries>> /\ plan' = Stage(7) /\ log' = << >>
        /\ ask' = Nothing
    BY <2>1, <2>2, <2>4, NextCheck
  <2>6. Remembers'
    BY <1>0, <2>3 DEF Remembers
  <2>7. ASSUME Undisturbed PROVE Known' /\ FirstUsed'
    <3>1. InStep /\ FirstUsed /\ Sending
      BY <1>0, <2>7 DEF RegistrationInv
    <3>2. Len(log) = 1
      BY <1>0, <1>2, <3>1 DEF Sending
    <3>3. Filed("first")
      BY <1>2, <3>1, <3>2 DEF InStep, Granted
    <3>4. registrations' = registrations /\ usedKeys' = usedKeys /\ addressFee' = addressFee
      BY DEF mintVars, addressFee
    <3>5. ~Vacant
      BY <3>3 DEF Filed, Serves, Vacant
    <3> QED BY <2>3, <3>1, <3>3, <3>4, <3>5 DEF Known, Filed, Serves, FirstUsed, Vacant
  <2> QED BY <2>3, <2>5, <2>6, <2>7, CheckBegins
<1>3. CASE /\ at = "register" /\ ask = Nothing /\ Len(log) > 0 /\ log[Len(log)].status # "OK"
           /\ Noted /\ \E verdict : Ends(verdict)
  BY <1>0, <1>3, NotesElsewhere, UnregisteredKeepsStep
<1> QED
  <2> DEFINE h == addressFee > 0 /\ body.pr > 0
  <2>1. h \in BOOLEAN /\ (h => addressFee > 0)
    OBVIOUS
  <2>2. CASE Beginning("register") /\ Keep /\ Ask(registeringBy("first", "user"))
    BY <1>1, <2>2 DEF Beginning, n
  <2>3. CASE /\ Reading("register") /\ accepted
             /\ Noting([g EXCEPT !.registered = TRUE, !.onFile = "first", !.held = h])
             /\ \E verdict : Ends(verdict)
    <3> HIDE DEF h
    <3> QED BY <1>2, <2>1, <2>3 DEF Reading, accepted, body, n
  <2>4. CASE Reading("register") /\ ~accepted /\ Noted /\ \E verdict : Ends(verdict)
    BY <1>3, <2>4 DEF Reading, accepted, body, n
  <2> QED BY <2>2, <2>3, <2>4, Zenon DEF Register, Decides

\* The check of the move ends, with what is on file known.
LEMMA MovesEnds ==
  ASSUME CleanInv, target = "registration", UNCHANGED mintVars, at = "moves",
         Remembers', g'.registered, Undisturbed => Known' /\ FirstUsed' /\ (g'.held => addressFee > 0),
         NEW verdict, Verdict(verdict)
  PROVE  RegistrationInv'
<1>1. PICK k \in 1 .. 23 : plan = Stage(k) /\ at = Order[k]
  BY Placed
<1>2. k = 18
  BY <1>1, Positions, Places
<1>3. /\ UNCHANGED <<suffered, tries>> /\ plan' = Stage(19) /\ log' = << >> /\ ask' = Nothing
  BY <1>1, <1>2, NextCheck
<1> QED BY <1>3, CheckBegins

\* An answer to the move that does not grant it changes nothing.
LEMMA UnmovedEnds ==
  ASSUME CleanInv, target = "registration", UNCHANGED mintVars, at = "moves",
         Unmoved, Remembers', ask = Nothing, Len(log) = 1 => log[1].status # "OK",
         NEW verdict, Verdict(verdict)
  PROVE  RegistrationInv'
<1>1. RegistrationInv /\ g'.registered
  BY DEF CleanInv, RegistrationInv, Knows, WhileRegistered, Unmoved
<1>2. UNCHANGED suffered
  BY Zenon DEF Verdict, Leave
<1>3. ASSUME Undisturbed PROVE Known' /\ FirstUsed' /\ (g'.held => addressFee > 0)
  <2>1. /\ InStep /\ FirstUsed /\ (g.held => addressFee > 0)
    BY <1>1, <1>3 DEF RegistrationInv
  <2>2. Known
    BY <2>1 DEF InStep, Settled, Granted
  <2> QED BY <1>2, <2>1, <2>2, StillKnown
<1> QED BY <1>1, <1>3, MovesEnds

\* The move.
LEMMA MovesKeepsStep ==
  ASSUME CleanInv, target = "registration", UNCHANGED mintVars, Moves
  PROVE  RegistrationInv'
<1>0. /\ RegistrationInv /\ Remembers /\ Len(log) \in Nat
      /\ at = "moves" => g.registered
  BY DEF CleanInv, RegistrationInv, Knows, WhileRegistered
<1>1. CASE /\ at = "moves" /\ ask = Nothing /\ Len(log) = 0 /\ Keep
           /\ Ask(move("first", "second", "user"))
  <2>1. move("first", "second", "user") # Nothing
    BY Requests DEF move
  <2>2. Changing'
    <3>1. at' = at /\ ask' = move("first", "second", "user")
      BY <1>1 DEF Ask, at
    <3> QED BY <1>1, <3>1 DEF Changing
  <2> QED BY <1>0, <1>1, <2>1, <2>2, NotesElsewhere, ChangingKeepsStep
<1>2. CASE /\ at = "moves" /\ ask = Nothing /\ Len(log) = 1 /\ log[1].status = "OK"
           /\ Noting([g EXCEPT !.onFile = "second"])
           /\ \/ Ask(move("second", "first", "user"))
              \/ \E verdict : Verdict(verdict)
  <2>1. /\ DOMAIN g' = DOMAIN g /\ g'.registered = g.registered /\ g'.onFile = "second"
        /\ g'.held = g.held
    BY <1>0, <1>2, Notes
  <2>2. Remembers' /\ g'.registered
    BY <1>0, <1>2, <2>1 DEF Remembers
  <2>3. UNCHANGED suffered
    BY <1>2, Zenon DEF Verdict, Leave, Ask
  <2>4. ASSUME Undisturbed PROVE Known' /\ FirstUsed' /\ (g'.held => addressFee > 0)
    <3>1. InStep /\ FirstUsed /\ (g.held => addressFee > 0)
      BY <1>0, <2>4 DEF RegistrationInv
    <3>2. Filed("second")
      BY <1>2, <3>1 DEF InStep, Granted
    <3>3. registrations' = registrations /\ usedKeys' = usedKeys /\ addressFee' = addressFee
      BY DEF mintVars, addressFee
    <3>4. ~Vacant
      BY <3>2 DEF Filed, Serves, Vacant
    <3>5. Known'
      BY <2>1, <2>2, <3>2, <3>3 DEF Known, Filed, Serves, Vacant
    <3> QED BY <2>1, <3>1, <3>3, <3>4, <3>5 DEF FirstUsed, Vacant
  <2>5. CASE Ask(move("second", "first", "user"))
    <3> DEFINE r == move("second", "first", "user")
    <3>1. r.ask = "PUT" /\ r.name = "user" /\ r.cx1.x = "first" /\ r # Nothing
      BY Requests, Proofs DEF move
    <3> HIDE DEF r
    <3>2. /\ UNCHANGED <<plan, log>> /\ at' = at /\ ask' = r
      BY <2>5 DEF Ask, at, r
    <3>3. Futile(ask)'
      BY <3>1, <3>2 DEF Futile
    <3>4. Knows'
      BY <1>2, <2>2, <3>2 DEF Knows, Before
    <3>5. ~Changes /\ at \notin Afterwards
      BY <1>2 DEF Changes, Afterwards
    <3>6. Ask(r)
      BY <2>5 DEF r
    <3> QED BY <1>2, <2>2, <2>4, <3>1, <3>3, <3>4, <3>5, <3>6, AskingKeepsStep
  <2>6. CASE \E verdict : Verdict(verdict)
    BY <1>2, <2>2, <2>4, <2>6, MovesEnds
  <2> QED BY <1>2, <2>5, <2>6
<1>3. CASE /\ at = "moves" /\ ask = Nothing /\ (Len(log) = 1 => log[1].status # "OK") /\ Noted
           /\ \E verdict : Verdict(verdict)
  BY <1>0, <1>3, NotesElsewhere, UnmovedEnds
<1> QED
  <2>1. CASE Beginning("moves") /\ Keep /\ Ask(move("first", "second", "user"))
    BY <1>1, <2>1 DEF Beginning, n
  <2>2. CASE /\ Reading("moves") /\ n = 1
             /\ Noting(IF accepted THEN [g EXCEPT !.onFile = movedTo] ELSE g)
             /\ Provided(accepted /\ body.pr = 0, move("second", "first", "user"))
    <3>1. CASE accepted
      BY <1>2, <2>2, <3>1 DEF Reading, accepted, body, n, Provided, movedTo
    <3>2. CASE ~accepted
      BY <1>3, <2>2, <3>2 DEF Reading, accepted, body, n, Provided, Noted
    <3> QED BY <3>1, <3>2
  <2>3. CASE Reading("moves") /\ n = 2 /\ Noted /\ \E verdict : Verdict(verdict)
    BY <1>3, <2>3 DEF Reading, n
  <2> QED BY <2>1, <2>2, <2>3, Zenon DEF Moves, Judged

\* The check of the removal ends.
LEMMA UnregistersEnds ==
  ASSUME CleanInv, target = "registration", UNCHANGED mintVars, at = "unregisters",
         Unmoved, Remembers', ask = Nothing, Len(log) > 0, Len(log) = 1 => log[1].status # "OK",
         NEW verdict, Verdict(verdict)
  PROVE  RegistrationInv'
<1>1. PICK k \in 1 .. 23 : plan = Stage(k) /\ at = Order[k]
  BY Placed
<1>2. k = 20
  BY <1>1, Positions, Places
<1>3. /\ UNCHANGED <<suffered, tries>> /\ plan' = Stage(21) /\ log' = << >> /\ ask' = Nothing
  BY <1>1, <1>2, NextCheck
<1>4. RegistrationInv /\ Knows
  BY DEF CleanInv, RegistrationInv
<1>5. ASSUME Undisturbed
      PROVE  /\ Known' /\ FirstUsed' /\ (g'.held => addressFee > 0)
             /\ g'.registered => Len(suffered) >= Retries + 1
  <2>1. /\ InStep /\ FirstUsed /\ Waited /\ (g.held => addressFee > 0)
    BY <1>4, <1>5 DEF RegistrationInv
  <2>2. Known
    BY <2>1 DEF InStep, Settled, Granted
  <2>3. g.registered => Len(log) = 1
    BY <1>4 DEF Knows
  <2>4. g.registered => Len(suffered) >= Retries + 1
    BY <2>1, <2>3 DEF Waited
  <2>5. g'.registered => Len(suffered) >= Retries + 1
    BY <2>4 DEF Unmoved
  <2> QED BY <1>3, <2>1, <2>2, <2>5, StillKnown
<1>6. g'.onFile # "none"
  BY <1>4 DEF Knows, Unmoved
<1> QED BY <1>3, <1>5, <1>6, CheckBegins

\* The removal.
LEMMA UnregistersKeepsStep ==
  ASSUME CleanInv, target = "registration", UNCHANGED mintVars, Unregisters
  PROVE  RegistrationInv'
<1>0. /\ RegistrationInv /\ Remembers /\ Knows /\ Len(log) \in Nat
  BY DEF CleanInv, RegistrationInv
<1>1. CASE /\ at = "unregisters" /\ ask = Nothing /\ Len(log) = 0 /\ Keep
           /\ Ask(taking(g.onFile, "user"))
  <2>1. taking(g.onFile, "user") # Nothing
    BY Requests DEF taking
  <2>2. Changing'
    <3>1. at' = at /\ ask' = taking(g.onFile, "user") /\ g' = g
      BY <1>1 DEF Ask, at, Keep
    <3>2. ask' = taking(g'.onFile, "user")
      BY <3>1, Zenon
    <3> QED BY <1>1, <3>1, <3>2 DEF Changing
  <2> QED BY <1>0, <1>1, <2>1, <2>2, NotesElsewhere, ChangingKeepsStep
<1>2. CASE /\ at = "unregisters" /\ ask = Nothing /\ Len(log) = 1 /\ log[1].status = "OK"
           /\ Noting([g EXCEPT !.registered = FALSE]) /\ Ask(reading)
  <2>1. /\ DOMAIN g' = DOMAIN g /\ g'.registered = FALSE /\ g'.onFile = g.onFile
        /\ g'.held = g.held
    BY <1>0, <1>2, Notes
  <2>2. Remembers' /\ ~g'.registered
    BY <1>0, <2>1 DEF Remembers
  <2>3. UNCHANGED <<plan, log, suffered>> /\ at' = at /\ ask' = reading
    BY <1>2 DEF Ask, at
  <2>4. ASSUME Undisturbed PROVE Known' /\ FirstUsed' /\ (g'.held => addressFee > 0)
    <3>1. InStep /\ FirstUsed /\ (g.held => addressFee > 0)
      BY <1>0, <2>4 DEF RegistrationInv
    <3>2. Vacant
      BY <1>2, <3>1 DEF InStep, Granted
    <3>3. registrations' = registrations /\ usedKeys' = usedKeys
      BY DEF mintVars
    <3> QED BY <2>1, <2>2, <3>1, <3>2, <3>3 DEF Known, FirstUsed, Vacant
  <2>5. reading.ask \notin Mutating \cup {"nothing"}
    BY Requests DEF reading, Mutating
  <2>6. reading # Nothing /\ Futile(ask)'
    BY <2>3, <2>5, Requests DEF Futile, Mutating
  <2>7. Knows'
    <3>1. at' = "unregisters" /\ log' = log /\ Len(log) # 0 /\ ask' # Nothing
      BY <1>2, <2>3, <2>6
    <3>2. g'.onFile # "none"
      BY <1>0, <1>2, <2>1 DEF Knows
    <3> QED BY <2>2, <3>1, <3>2 DEF Knows, Before, WhileRegistered
  <2>8. ~Changes /\ at \notin Afterwards
    BY <1>2 DEF Changes, Afterwards
  <2> QED BY <1>2, <2>2, <2>4, <2>6, <2>7, <2>8, AskingKeepsStep
<1>3. CASE /\ at = "unregisters" /\ ask = Nothing /\ Len(log) > 0
           /\ (Len(log) = 1 => log[1].status # "OK")
           /\ Noted \/ Keep
           /\ \E verdict : Verdict(verdict)
  BY <1>0, <1>3, NotesElsewhere, UnregistersEnds
<1>4. CASE /\ at = "unregisters" /\ ask = Nothing /\ Len(log) = 1 /\ log[1].status # "OK"
           /\ Noting([g EXCEPT !.registered = TRUE]) /\ \E verdict : Verdict(verdict)
  <2>1. /\ DOMAIN g' = DOMAIN g /\ g'.registered = TRUE /\ g'.onFile = g.onFile
        /\ g'.held = g.held
    BY <1>0, <1>4, Notes
  <2>2. g.registered = TRUE
    BY <1>0, <1>4 DEF Knows, Remembers
  <2>3. Unmoved /\ Remembers'
    BY <1>0, <2>1, <2>2 DEF Unmoved, Remembers
  <2> QED BY <1>4, <2>3, UnregistersEnds
<1> QED
  <2>1. CASE Beginning("unregisters") /\ Keep /\ Ask(taking(g.onFile, "user"))
    BY <1>1, <2>1 DEF Beginning, n
  <2>2. CASE /\ Reading("unregisters") /\ n = 1 /\ Noting([g EXCEPT !.registered = ~accepted])
             /\ Provided(accepted, reading)
    <3>1. CASE accepted
      <4>1. (~accepted) = FALSE
        BY <3>1
      <4>2. Noting([g EXCEPT !.registered = FALSE])
        BY <2>2, <4>1, Zenon
      <4> QED BY <1>2, <2>2, <3>1, <4>2 DEF Reading, accepted, body, n, Provided
    <3>2. CASE ~accepted
      <4>1. (~accepted) = TRUE
        BY <3>2
      <4>2. Noting([g EXCEPT !.registered = TRUE])
        BY <2>2, <4>1, Zenon
      <4> QED BY <1>4, <2>2, <3>2, <4>2 DEF Reading, accepted, body, n, Provided
    <3> QED BY <3>1, <3>2
  <2>3. CASE Reading("unregisters") /\ n = 2 /\ Keep /\ \E verdict : Verdict(verdict)
    BY <1>3, <2>3 DEF Reading, n
  <2> QED BY <2>1, <2>2, <2>3, Zenon DEF Unregisters, Judged

\* A name taken down is not to be had again.
LEMMA NeverAgainKeepsStep ==
  ASSUME CleanInv, target = "registration", UNCHANGED mintVars, NeverAgain
  PROVE  RegistrationInv'
<1>0. /\ RegistrationInv /\ Remembers /\ Knows /\ Len(log) \in Nat
  BY DEF CleanInv, RegistrationInv
<1>1. at = "neverAgain" => \E k \in 1 .. 23 : plan = Stage(k) /\ at = Order[k] /\ k = 21
  BY Placed, Positions, Places
<1>2. CASE at = "neverAgain" /\ (Keep \/ Noted) /\ \E verdict : Verdict(verdict)
  BY <1>0, <1>1, <1>2, NotesElsewhere, VerdictKeepsStep
<1>3. CASE /\ at = "neverAgain" /\ ask = Nothing /\ Len(log) = 0 /\ Keep
           /\ Ask(registeringBy("first", "user"))
  <2> DEFINE r == registeringBy("first", "user")
  <2>1. r.ask = "POST" /\ r.name = "user" /\ r.cx1.x = "first" /\ r # Nothing
    BY Requests, Proofs DEF registeringBy
  <2> HIDE DEF r
  <2>2. /\ UNCHANGED <<plan, log, suffered>> /\ at' = at /\ ask' = r /\ Ask(r)
    BY <1>3 DEF Ask, at, r
  <2>3. Unmoved /\ Remembers'
    BY <1>0, <1>3, NotesElsewhere
  <2>4. g'.onFile # "none"
    BY <1>0, <1>3, <2>3 DEF Knows, Unmoved
  <2>5. Futile(ask)'
    BY <2>1, <2>2, <2>4 DEF Futile
  <2>6. Knows'
    BY <1>3, <2>2, <2>4 DEF Knows, Before, WhileRegistered
  <2>7. ASSUME Undisturbed
        PROVE  /\ Known' /\ FirstUsed' /\ (g'.held => addressFee > 0)
               /\ at \in Afterwards /\ g'.registered /\ ~g'.held => g.registered /\ ~g.held
    <3>1. /\ InStep /\ FirstUsed /\ (g.held => addressFee > 0)
      BY <1>0, <2>7 DEF RegistrationInv
    <3>2. Known
      BY <1>3, <3>1 DEF InStep, Settled, Granted
    <3>3. at \in Afterwards /\ g'.registered /\ ~g'.held => g.registered /\ ~g.held
      BY <2>3 DEF Unmoved
    <3> QED BY <2>2, <2>3, <3>1, <3>2, <3>3, StillKnown
  <2>8. ~Changes
    BY <1>3 DEF Changes
  <2> QED BY <1>3, <2>1, <2>2, <2>3, <2>5, <2>6, <2>7, <2>8, AskingKeepsStep
<1>4. CASE /\ at = "neverAgain" /\ Len(log) > 0 /\ log[Len(log)].status = "OK"
           /\ Noting([g EXCEPT !.registered = TRUE, !.onFile = "first"])
           /\ \E verdict : Verdict(verdict)
  <2>1. PICK k \in 1 .. 23 : plan = Stage(k) /\ k = 21
    BY <1>1, <1>4
  <2>2. /\ UNCHANGED <<suffered, tries>> /\ plan' = Stage(22) /\ log' = << >> /\ ask' = Nothing
    BY <1>4, <2>1, NextCheck
  <2>3. /\ DOMAIN g' = DOMAIN g /\ g'.registered = TRUE /\ g'.onFile = "first"
        /\ g'.held = g.held
    BY <1>0, <1>4, Notes
  <2>4. Remembers'
    BY <1>0, <2>3 DEF Remembers
  <2>5. ~Undisturbed
    <3>1. Undisturbed => Len(log) <= 1 /\ log[1].status # "OK"
      BY <1>0, <1>4 DEF RegistrationInv, Sending
    <3>2. \A l \in Nat : l > 0 /\ l <= 1 => l = 1
      OBVIOUS
    <3> QED BY <1>0, <1>4, <3>1, <3>2
  <2> QED BY <2>2, <2>4, <2>5, CheckBegins
<1> QED
  <2>1. CASE /\ Beginning("neverAgain") /\ Keep
             /\ IF g.registered THEN Verdict("warn") ELSE Ask(registeringBy("first", "user"))
    BY <1>2, <1>3, <2>1 DEF Beginning, n
  <2>2. CASE /\ Reading("neverAgain") /\ \E verdict : Verdict(verdict)
             /\ Noting(IF accepted THEN [g EXCEPT !.registered = TRUE, !.onFile = "first"] ELSE g)
    <3>1. CASE accepted
      BY <1>4, <2>2, <3>1 DEF Reading, accepted, body, n
    <3>2. CASE ~accepted
      BY <1>2, <2>2, <3>2 DEF Reading, Noted
    <3> QED BY <3>1, <3>2
  <2> QED BY <2>1, <2>2, Zenon DEF NeverAgain, Judged

\* Leaving nothing behind.
LEMMA LeaveNothingKeepsStep ==
  ASSUME CleanInv, target = "registration", UNCHANGED mintVars, LeaveNothing
  PROVE  RegistrationInv'
<1>0. /\ RegistrationInv /\ Remembers /\ Len(log) \in Nat
  BY DEF CleanInv, RegistrationInv
<1>1. at = "leaveNothing" /\ ask = Nothing /\ Keep /\ Unmoved /\ Remembers'
  BY <1>0, NotesElsewhere DEF LeaveNothing
<1>2. CASE Len(log) = 0 /\ g.registered /\ ~g.held /\ Ask(taking(g.onFile, "user"))
  <2>1. taking(g.onFile, "user") # Nothing
    BY Requests DEF taking
  <2>2. Changing'
    <3>1. at' = at /\ ask' = taking(g.onFile, "user") /\ g' = g
      BY <1>1, <1>2 DEF Ask, at, Keep
    <3>2. ask' = taking(g'.onFile, "user")
      BY <3>1, Zenon
    <3>3. g'.registered /\ ~g'.held
      BY <1>2, <3>1
    <3> QED BY <1>1, <3>1, <3>2, <3>3 DEF Changing
  <2> QED BY <1>0, <1>1, <1>2, <2>1, <2>2, ChangingKeepsStep
<1>3. CASE ~(Len(log) = 0 /\ g.registered /\ ~g.held) /\ Leave(<< >>, << >>)
  <2>1. /\ UNCHANGED <<suffered, tries>> /\ plan' = << >> /\ log' = << >> /\ ask' = Nothing
    BY <1>3, Zenon DEF Leave
  <2>2. ASSUME Undisturbed PROVE Vacant \/ (addressFee > 0 /\ Filed(g.onFile))
    <3>1. /\ InStep /\ (g.held => addressFee > 0)
      BY <1>0, <2>2 DEF RegistrationInv
    <3>2. CASE Len(log) = 0
      <4>1. Known
        BY <1>1, <3>1, <3>2 DEF InStep, Settled, Granted
      <4> QED BY <1>3, <3>1, <3>2, <4>1 DEF Known
    <3>3. CASE Len(log) > 0
      BY <1>1, <3>1, <3>3 DEF InStep, Settled
    <3> QED BY <1>0, <3>2, <3>3
  <2> QED BY <1>1, <2>1, <2>2, GradeEnds
<1> QED BY <1>2, <1>3 DEF LeaveNothing, n

\* What a check throws.
LEMMA RegistrationThrowKeepsStep ==
  ASSUME CleanInv, target = "registration", UNCHANGED mintVars, RegistrationThrow
  PROVE  RegistrationInv'
<1>0. /\ RegistrationInv /\ Remembers /\ Knows /\ Len(log) \in Nat
  BY DEF CleanInv, RegistrationInv
<1>1. /\ ask = Nothing /\ Len(log) > 0 /\ log[Len(log)].status # "OK" /\ Keep
      /\ at # "leaveNothing"
      /\ \/ at = "mint@" /\ \E verdict : LastVerdict(verdict)
         \/ at # "mint@" /\ \E verdict : Ends(verdict)
  <2>1. \A status \in Unanswered : status # "OK"
    BY Zenon DEF Unanswered
  <2> QED BY <2>1, Zenon DEF RegistrationThrow, Throws, body, n
<1>2. Unmoved /\ Remembers'
  BY <1>0, <1>1, NotesElsewhere
<1>3. at # "done"
  BY <1>0, <1>1 DEF Knows
<1>4. CASE at = "mint@"
  BY <1>1, <1>2, <1>4, NoMintAt
<1>5. CASE at = "register"
  BY <1>1, <1>2, <1>5, UnregisteredKeepsStep
<1>6. CASE at \in {"moves", "unregisters", "neverAgain"}
  <2>1. PICK verdict : Verdict(verdict)
    BY <1>1, <1>6, Endings
  <2>2. at = "neverAgain" => \E k \in 1 .. 23 : plan = Stage(k) /\ k = 21
    BY Placed, Positions, Places
  <2> QED BY <1>1, <1>2, <1>6, <2>1, <2>2, UnmovedEnds, UnregistersEnds, VerdictKeepsStep
<1>7. CASE at \notin {"mint@", "register", "moves", "unregisters", "neverAgain"}
  BY <1>1, <1>2, <1>3, <1>7, EndingKeepsStep
<1> QED BY <1>4, <1>5, <1>6, <1>7

\* A probe that the mint accepted is taken down again.
LEMMA CleanedKeepsStep ==
  ASSUME CleanInv, target = "registration", UNCHANGED mintVars, Cleaned
  PROVE  RegistrationInv'
<1>1. /\ at \in {"reserved", "usedKey"} /\ (Keep \/ Noted) /\ \E verdict : Ends(verdict)
  BY Zenon DEF Cleaned, Cleaning
<1>2. Remembers
  BY DEF CleanInv, RegistrationInv
<1> QED BY <1>1, <1>2, NotesElsewhere, EndingKeepsStep

\* Every step of the grade keeps what it relies on.
LEMMA GraderKeepsRegistration ==
  ASSUME CleanInv, target = "registration", UNCHANGED mintVars, gradeRegistration
  PROVE  RegistrationInv'
<1>1. CASE FreeName \/ Preflight \/ BadProofs \/ Reserved
  BY <1>1, EarlyChecksKeepStep
<1>2. CASE Taken \/ UsedKey \/ Unpublished \/ Publishes
  BY <1>2, FiledChecksKeepStep
<1>3. CASE BothProofs \/ NoSuchName \/ NotOnFile \/ Cors
  BY <1>3, LateChecksKeepStep
<1> QED BY <1>1, <1>2, <1>3, MintAtKeepsStep, CleanedKeepsStep, RegisterKeepsStep,
           AddressChecksKeepStep, MovesKeepsStep, UnregistersKeepsStep, NeverAgainKeepsStep,
           LeaveNothingKeepsStep, RegistrationThrowKeepsStep DEF gradeRegistration

---------------------------------------------------------------------------
(***************************************************************************)
(* The other grades.                                                       *)
(***************************************************************************)
\* Steps of a script, none of which writes.
ReadsOnly(steps) ==
  /\ steps \in Seq({steps[i] : i \in DOMAIN steps})
  /\ \A i \in 1 .. Len(steps) : steps[i].request.ask \notin Mutating

\* One after the other.
LEMMA Joined ==
  ASSUME NEW s, NEW t, ReadsOnly(s), ReadsOnly(t) PROVE ReadsOnly(s \o t)
<1> DEFINE S == {s[i] : i \in DOMAIN s} \cup {t[i] : i \in DOMAIN t}
<1>1. s \in Seq(S) /\ t \in Seq(S)
  BY DEF ReadsOnly
<1> HIDE DEF S
<1>2. /\ s \o t \in Seq(S) /\ Len(s \o t) = Len(s) + Len(t)
      /\ Len(s) \in Nat /\ Len(t) \in Nat /\ DOMAIN (s \o t) = 1 .. Len(s) + Len(t)
      /\ \A i \in 1 .. Len(s) + Len(t) :
           (s \o t)[i] = IF i <= Len(s) THEN s[i] ELSE t[i - Len(s)]
  BY <1>1
<1> DEFINE u == s \o t
<1>5. u \in Seq(S)
  BY <1>2
<1> HIDE DEF u
<1>3. u \in Seq({u[i] : i \in DOMAIN u})
  BY <1>5
<1>4. \A i \in 1 .. Len(u) : u[i].request.ask \notin Mutating
  <2> TAKE i \in 1 .. Len(u)
  <2>1. CASE i <= Len(s)
    BY <1>2, <2>1 DEF ReadsOnly, u
  <2>2. CASE i > Len(s)
    <3>1. i - Len(s) \in 1 .. Len(t) /\ u[i] = t[i - Len(s)]
      BY <1>2, <2>2 DEF u
    <3> QED BY <3>1 DEF ReadsOnly
  <2> QED BY <1>2, <2>1, <2>2 DEF u
<1> QED BY <1>3, <1>4 DEF ReadsOnly, u

\* From a list.
LEMMA Listed ==
  ASSUME NEW m \in Nat, NEW q, q = [i \in 1 .. m |-> q[i]],
         \A i \in 1 .. m : q[i].request.ask \notin Mutating
  PROVE  ReadsOnly(q)
<1>1. DOMAIN q = 1 .. m
  OBVIOUS
<1>2. q \in Seq({q[i] : i \in DOMAIN q}) /\ Len(q) = m
  OBVIOUS
<1> QED BY <1>1, <1>2 DEF ReadsOnly

\* Steps that look a note up, or name it by a comment and an h at once.
Lookup(h, expects) == Step([asked("info", "mint") EXCEPT !.h = h], expects)
Twice(comment, h, expects) == Step([withComment(graded, comment) EXCEPT !.h = h], expects)

\* What they ask for.
LEMMA Quotes ==
  /\ \A spelling, value, beside, amount : quoteWith(spelling, value, beside, amount).ask = "quote"
  /\ \A spelling, amount : quoteNamed(spelling, amount).ask = "quote"
  /\ \A name, comment, h : /\ withComment(name, comment).ask = "quote"
                           /\ [withComment(name, comment) EXCEPT !.h = h].ask = "quote"
  /\ \A name, comment, h, amount :
       [withComment(name, comment) EXCEPT !.h = h, !.amount = amount].ask = "quote"
  /\ \A h : [asked("info", "mint") EXCEPT !.h = h].ask = "info"
  /\ \A request, expects : Step(request, expects).request = request
  /\ \A h, expects : Lookup(h, expects).request.ask = "info"
  /\ \A comment, h, expects : Twice(comment, h, expects).request.ask = "quote"
<1>1. \A name : LET r == quoteAt(name) IN
        /\ r = [x \in DOMAIN r |-> r[x]] /\ r.ask = "quote"
        /\ {"ask", "h", "comment", "amount"} \subseteq DOMAIN r
  BY DEF quoteAt, asked, Nothing
<1>2. \A spelling, value, beside, amount :
        quoteWith(spelling, value, beside, amount).ask = "quote"
  BY <1>1 DEF quoteWith
<1>3. \A name, comment, h : /\ withComment(name, comment).ask = "quote"
                           /\ [withComment(name, comment) EXCEPT !.h = h].ask = "quote"
  BY <1>1 DEF withComment
<1>4. \A h : [asked("info", "mint") EXCEPT !.h = h].ask = "info"
  BY DEF asked, Nothing
<1>5. \A request, expects : Step(request, expects).request = request
  BY DEF Step
<1>6. ASSUME NEW h, NEW expects
      PROVE  Lookup(h, expects).request.ask = "info"
  <2> DEFINE r == [asked("info", "mint") EXCEPT !.h = h]
  <2>1. r.ask = "info"
    BY <1>4
  <2> HIDE DEF r
  <2>2. Step(r, expects).request.ask = "info"
    BY <1>5, <2>1
  <2>3. Lookup(h, expects) = Step(r, expects)
    BY DEF r, Lookup
  <2> QED BY <2>2, <2>3
<1>7. ASSUME NEW comment, NEW h, NEW expects
      PROVE  Twice(comment, h, expects).request.ask = "quote"
  <2> DEFINE r == [withComment(graded, comment) EXCEPT !.h = h]
  <2>1. r.ask = "quote"
    BY <1>3
  <2> HIDE DEF r
  <2>2. Step(r, expects).request.ask = "quote"
    BY <1>5, <2>1
  <2>3. Twice(comment, h, expects) = Step(r, expects)
    BY DEF r, Twice
  <2> QED BY <2>2, <2>3
<1>8. \A spelling, amount : quoteNamed(spelling, amount).ask = "quote"
  BY <1>2 DEF quoteNamed
<1>9. \A name, comment, h, amount :
        [withComment(name, comment) EXCEPT !.h = h, !.amount = amount].ask = "quote"
  BY <1>1 DEF withComment
<1> QED BY <1>2, <1>3, <1>4, <1>5, <1>6, <1>7, <1>8, <1>9

\* So no step of the script of naming writes.
LEMMA ScriptReads ==
  /\ ReadsOnly(Script)
  /\ \A i \in 1 .. 2 : Binding[i].request.ask \notin Mutating
<1>0. DOMAIN probed = 1 .. 2 /\ DOMAIN Wrong = 1 .. 5
  BY DEF probed, Wrong
<1>q. "quote" \notin Mutating /\ "info" \notin Mutating
  BY DEF Mutating
<1>1. ReadsOnly(Binding) /\ \A i \in 1 .. 2 : Binding[i].request.ask \notin Mutating
  <2>1. Binding = [i \in 1 .. 2 |-> Step(quoteNamed(probed[i], Usually), "invoice")]
    BY <1>0, Zenon DEF Binding, Each
  <2>2. /\ Binding = [i \in 1 .. 2 |-> Binding[i]]
        /\ \A i \in 1 .. 2 : Binding[i].request.ask \notin Mutating
    BY <1>q, <2>1, Quotes
  <2> QED BY <2>2, Listed
<1>2. ASSUME NEW q, q = Each(probed, LAMBDA s :
                Step([asked("info", "mint") EXCEPT !.h = Named(s)], "refused"))
      PROVE  ReadsOnly(q)
  <2> DEFINE looked(i) == Lookup(Named(probed[i]), "refused")
  <2>1. q = [i \in 1 .. 2 |-> looked(i)]
    BY <1>0, <1>2, Zenon DEF Each, Lookup
  <2>3. \A i : looked(i).request.ask \notin Mutating
    BY <1>q, Quotes
  <2> HIDE DEF looked
  <2>2. /\ q = [i \in 1 .. 2 |-> q[i]] /\ \A i \in 1 .. 2 : q[i].request.ask \notin Mutating
    BY <2>1, <2>3
  <2> QED BY <2>2, Listed
<1>3. ASSUME NEW s PROVE ReadsOnly(Malforming(s))
  <2> DEFINE q == Malforming(s)
             told(i) == IF s = "h" /\ ~hClaimed THEN "anything" ELSE "refused"
  <2>1. q = [i \in 1 .. 5 |-> Step(quoteWith(s, Wrong[i], hexH(Beside[i]), Usually), told(i))]
    BY <1>0, Zenon DEF Malforming
  <2> HIDE DEF told, q
  <2>2. /\ q = [i \in 1 .. 5 |-> q[i]] /\ \A i \in 1 .. 5 : q[i].request.ask \notin Mutating
    BY <1>q, <2>1, Quotes
  <2>3. ReadsOnly(q)
    BY <2>2, Listed
  <2> QED BY <2>3 DEF q
<1>4. ReadsOnly(<<Step(withComment(graded, cp1("keyed")), "invoice"),
                  Step(quoteAt(graded), "refused")>>)
  <2>1. ASSUME NEW s, NEW t, s.request.ask \notin Mutating, t.request.ask \notin Mutating
        PROVE  ReadsOnly(<<s, t>>)
    <3>1. <<s, t>> = [i \in 1 .. 2 |-> <<s, t>>[i]]
      OBVIOUS
    <3>2. \A i \in 1 .. 2 : <<s, t>>[i].request.ask \notin Mutating
      BY <2>1
    <3> QED BY <3>1, <3>2, Listed
  <2>2. /\ Step(withComment(graded, cp1("keyed")), "invoice").request.ask \notin Mutating
        /\ Step(quoteAt(graded), "refused").request.ask \notin Mutating
    BY <1>q, Quotes, Requests
  <2> QED BY <2>1, <2>2
<1>5. ReadsOnly(<< >>)
  BY DEF ReadsOnly
<1>6. ASSUME NEW s, s.request.ask \notin Mutating PROVE ReadsOnly(<<s>>)
  <2>1. <<s>> = [i \in 1 .. 1 |-> <<s>>[i]]
    OBVIOUS
  <2>2. \A i \in 1 .. 1 : <<s>>[i].request.ask \notin Mutating
    BY <1>6
  <2> QED BY <2>1, <2>2, Listed
<1>7. ReadsOnly(IF hClaimed
                THEN <<Step([withComment(graded, hexH("one")) EXCEPT !.h = hexH("another")],
                            "refused")>>
                ELSE << >>)
  <2> DEFINE two == Twice(hexH("one"), hexH("another"), "refused")
  <2>1. two.request.ask \notin Mutating
    BY <1>q, Quotes
  <2> HIDE DEF two
  <2>2. ReadsOnly(<<two>>)
    BY <2>1, <1>6, Zenon
  <2>3. ReadsOnly(IF hClaimed THEN <<two>> ELSE << >>)
    BY <2>2, <1>5, Zenon
  <2> QED BY <2>3 DEF two, Twice
<1>8. ASSUME NEW q, NEW p, p = probed \/ p = <<"comment">>,
             q = Each(p, LAMBDA s : Step(quoteNamed(s, otherAmount), "soft"))
      PROVE  ReadsOnly(q)
  <2>1. PICK m \in Nat : DOMAIN p = 1 .. m
    <3>1. DOMAIN <<"comment">> = 1 .. 1
      OBVIOUS
    <3> QED BY <1>0, <1>8, <3>1
  <2>2. q = [i \in 1 .. m |-> Step(quoteNamed(p[i], otherAmount), "soft")]
    BY <1>8, <2>1, Zenon DEF Each
  <2>3. /\ q = [i \in 1 .. m |-> q[i]] /\ \A i \in 1 .. m : q[i].request.ask \notin Mutating
    BY <1>q, <2>2, Quotes
  <2> QED BY <2>3, Listed
<1>9. ReadsOnly(IF otherAmount = Usually THEN << >>
                ELSE Each(IF hClaimed THEN probed ELSE <<"comment">>,
                          LAMBDA s : Step(quoteNamed(s, otherAmount), "soft")))
  BY <1>5, <1>8
<1>10. ReadsOnly(Probing)
  BY <1>2, <1>3, <1>4, <1>7, <1>9, Joined DEF Probing
<1> QED BY <1>1, <1>5, <1>10, Joined DEF Script
\* Requests to look a note up, and to have one at a comment and an h at once.
Seek(h) == [asked("info", "mint") EXCEPT !.h = h]
Pair(name, comment, h, amount) ==
  [withComment(name, comment) EXCEPT !.h = h, !.amount = amount]

\* They write nothing either.
LEMMA Questions ==
  /\ \A h : Seek(h).ask \notin Mutating
  /\ \A name, comment, h, amount : Pair(name, comment, h, amount).ask \notin Mutating
  /\ \A name, comment : withComment(name, comment).ask \notin Mutating
  /\ \A name : quoteAt(name).ask \notin Mutating
  /\ \A what, name : what \notin Mutating => asked(what, name).ask \notin Mutating
<1>1. "quote" \notin Mutating /\ "info" \notin Mutating
  BY DEF Mutating
<1>2. \A h : Seek(h).ask = "info"
  BY DEF Seek, asked, Nothing
<1>3. \A name, comment, h, amount : Pair(name, comment, h, amount).ask = "quote"
  BY Quotes DEF Pair
<1>4. \A name, comment : withComment(name, comment).ask = "quote"
  BY Quotes
<1> QED BY <1>1, <1>2, <1>3, <1>4, Requests

\* A step of such a check: it asks what changes nothing, or it is over.
Looks == \E request : request.ask \notin Mutating /\ Ask(request)
Leaves == \E rest, verdicts : Leave(rest, verdicts)

\* A verdict ends it.
LEMMA VerdictsLeave ==
  /\ (\E verdict : Verdict(verdict)) => Leaves
  /\ (\E verdict : LastVerdict(verdict)) => Leaves
BY Zenon DEF Leaves, Verdict, LastVerdict

\* The checks of the documents look.
LEMMA DocumentsRead ==
  ASSUME PayRequest \/ WithdrawLink \/ Metadata \/ Invoice \/ VerifyServesNoSecret
         \/ UnknownNote \/ MintAddress \/ Liabilities
  PROVE  Looks \/ Leaves
<1>0. {"payRequest", "verify", "mintAddress", "stats"} \cap Mutating = {}
  BY DEF Mutating
<1>1. CASE PayRequest
  <2>1. Ask(asked("payRequest", graded)) \/ \E verdict : Verdict(verdict)
    BY <1>1, Zenon DEF PayRequest, Judged
  <2> QED BY <1>0, <2>1, Questions, VerdictsLeave DEF Looks
<1>2. CASE WithdrawLink \/ Metadata
  <2>1. \E verdict : Verdict(verdict)
    BY <1>2, Zenon DEF WithdrawLink, Metadata, Judged
  <2> QED BY <2>1, VerdictsLeave
<1>3. CASE Invoice
  <2>1. (\E comment : Ask(withComment(graded, comment))) \/ \E verdict : Verdict(verdict)
    BY <1>3, Zenon DEF Invoice, Judged, Provided, withComment
  <2> QED BY <2>1, Questions, VerdictsLeave DEF Looks
<1>4. CASE VerifyServesNoSecret
  <2>1. Ask(asked("verify", graded)) \/ \E verdict : Verdict(verdict)
    BY <1>4, Zenon DEF VerifyServesNoSecret, Judged
  <2> QED BY <1>0, <2>1, Questions, VerdictsLeave DEF Looks
<1>5. CASE UnknownNote
  <2>1. Ask(Seek(Fresh)) \/ \E verdict : Verdict(verdict)
    BY <1>5, Zenon DEF UnknownNote, Judged, Seek
  <2> QED BY <2>1, Questions, VerdictsLeave DEF Looks
<1>6. CASE MintAddress
  <2>1. Ask(asked("mintAddress", graded)) \/ \E verdict : Verdict(verdict)
    BY <1>6, Zenon DEF MintAddress
  <2> QED BY <1>0, <2>1, Questions, VerdictsLeave DEF Looks
<1>7. CASE Liabilities
  <2>1. Ask(asked("stats", graded)) \/ \E verdict : Verdict(verdict)
    BY <1>7, Zenon DEF Liabilities
  <2> QED BY <1>0, <2>1, Questions, VerdictsLeave DEF Looks
<1> QED BY <1>1, <1>2, <1>3, <1>4, <1>5, <1>6, <1>7

\* So do those of a note minted to a name.
LEMMA NamingReads ==
  ASSUME log \in Seq({log[i] : i \in DOMAIN log}), Naming \/ Bound
  PROVE  Looks \/ Leaves
<1>1. CASE Naming
  <2>1. \/ Ask(Binding[1].request) \/ Ask(Binding[2].request)
        \/ n > 0 /\ n < Len(Script) /\ Ask(Script[n + 1].request)
        \/ \E verdict : Verdict(verdict)
    BY <1>1, Zenon DEF Naming, Provided, Reading
  <2>2. n > 0 /\ n < Len(Script) => n + 1 \in 1 .. Len(Script)
    <3>1. Len(log) \in Nat
      OBVIOUS
    <3>2. Len(Script) \in Nat
      BY ScriptReads DEF ReadsOnly
    <3> QED BY <3>1, <3>2 DEF n
  <2>3. n > 0 /\ n < Len(Script) => Script[n + 1].request.ask \notin Mutating
    BY <2>2, ScriptReads DEF ReadsOnly
  <2>4. /\ Binding[1].request.ask \notin Mutating
        /\ Binding[2].request.ask \notin Mutating
    BY ScriptReads
  <2> QED BY <2>1, <2>3, <2>4, VerdictsLeave DEF Looks
<1>2. CASE Bound
  <2>1. \/ \E h : Ask(Seek(h))
        \/ \E comment, h, amount : Ask(Pair("mint", comment, h, amount))
        \/ \E verdict : Verdict(verdict)
    BY <1>2, Zenon DEF Bound, Provided, Judged, lookup, Seek, Pair
  <2> QED BY <2>1, Questions, VerdictsLeave DEF Looks
<1> QED BY <1>1, <1>2

\* So does the whole of gradeMint.
LEMMA MintGradeReads ==
  ASSUME log \in Seq({log[i] : i \in DOMAIN log}), gradeMint
  PROVE  Looks \/ Leaves
<1>1. CASE gradeAddressRules
  <2>1. "payRequest" \notin Mutating
    BY DEF Mutating
  <2>2. \/ Ask(quoteAt("user")) \/ \E name : Ask(asked("payRequest", name))
        \/ \E verdict : Verdict(verdict)
    BY <1>1, AddressChecksRead
  <2> QED BY <2>1, <2>2, Questions, VerdictsLeave DEF Looks
<1>2. CASE MintThrow
  <2>1. (\E verdict : Verdict(verdict)) \/ \E verdict : LastVerdict(verdict)
    BY <1>2, Zenon DEF MintThrow
  <2> QED BY <2>1, VerdictsLeave
<1> QED BY <1>1, <1>2, DocumentsRead, NamingReads, Zenon DEF gradeMint

\* HTTP changes nothing of what is on file by what only reads.
LEMMA HttpKeepsReading ==
  ASSUME ReadingInv, Http PROVE ReadingInv'
<1>1. ask # Nothing /\ (ask' = ask \/ ask' = Nothing)
  BY Zenon DEF Http, Deliver, Delivered, Resent, ReplyLost, RequestLost, Limited, LimitedBy,
     LimitedNotJson, Read, Suffers
<1>2. registrations' = handle(ask).registrations \/ registrations' = registrations
  BY Zenon DEF Http, Deliver, Reaches, Unreached
<1>3. registrations' = registrations
  BY <1>1, <1>2, ReadersWriteNothing DEF ReadingInv
<1> QED BY <1>1, <1>3 DEF ReadingInv

\* Nor does a check of these grades.
LEMMA GraderKeepsReading ==
  ASSUME CleanInv, target # "registration", UNCHANGED mintVars, gradeMint
  PROVE  ReadingInv'
<1>1. ReadingInv /\ registrations' = registrations
  BY DEF CleanInv, mintVars
<1>2. Looks \/ Leaves
  BY MintGradeReads DEF CleanInv
<1>3. ask' = Nothing \/ ask'.ask \notin Mutating
  BY <1>2 DEF Looks, Leaves, Ask, Leave
<1> QED BY <1>1, <1>3 DEF ReadingInv

---------------------------------------------------------------------------
(***************************************************************************)
(* The grades together.                                                    *)
(***************************************************************************)
\* What a check of the registrations asks, it asks as every other does.
Asks == \E request : Ask(request)

\* The end of a check is the end of its requests.
LEMMA EndsLeave ==
  ASSUME NEW verdict, Ends(verdict) PROVE Leaves
<1>1. (\E rest, verdicts : Leave(rest, verdicts)) \/ Verdict(verdict)
  BY Endings
<1> QED BY <1>1, VerdictsLeave DEF Leaves

\* So a step of it asks or is over.
LEMMA RegistrationAsks ==
  ASSUME gradeRegistration PROVE Asks \/ Leaves
<1>1. CASE MintAt
  <2>1. Asks \/ (\E verdict : Verdict(verdict)) \/ \E verdict : LastVerdict(verdict)
    BY <1>1, Zenon DEF MintAt, Asks
  <2> QED BY <2>1, VerdictsLeave
<1>2. CASE FreeName \/ Preflight \/ BadProofs \/ Taken \/ BothProofs \/ NoSuchName
           \/ NotOnFile \/ Cors
  <2>1. Asks \/ \E verdict : Verdict(verdict)
    BY <1>2, Zenon DEF FreeName, Preflight, BadProofs, Taken, BothProofs, NoSuchName, NotOnFile,
       Cors, Judged, Provided, Asks
  <2> QED BY <2>1, VerdictsLeave
<1>3. CASE Reserved
  <2>1. Asks \/ \E verdict : Verdict(verdict)
    BY <1>3 DEF Reserved, Judged, Provided, Asks
  <2> QED BY <2>1, VerdictsLeave
<1>4. CASE Cleaned \/ Register \/ UsedKey \/ Unpublished \/ Publishes
  <2>1. Asks \/ \E verdict : Ends(verdict)
    BY <1>4, Zenon DEF Cleaned, Register, UsedKey, Unpublished, Publishes, Decides, Asks
  <2> QED BY <2>1, EndsLeave
<1>5. CASE gradeAddressRules
  <2>1. Asks \/ \E verdict : Verdict(verdict)
    BY <1>5, AddressChecksRead DEF Asks
  <2> QED BY <2>1, VerdictsLeave
<1>6. CASE Moves \/ Unregisters \/ NeverAgain
  <2>1. Asks \/ \E verdict : Verdict(verdict)
    BY <1>6, Zenon DEF Moves, Unregisters, NeverAgain, Judged, Provided, Asks
  <2> QED BY <2>1, VerdictsLeave
<1>7. CASE LeaveNothing
  BY <1>7, Zenon DEF LeaveNothing, Asks, Leaves
<1>8. CASE RegistrationThrow
  <2>1. (\E verdict : Ends(verdict)) \/ \E verdict : LastVerdict(verdict)
    BY <1>8, Zenon DEF RegistrationThrow
  <2> QED BY <2>1, EndsLeave, VerdictsLeave
<1> QED BY <1>1, <1>2, <1>3, <1>4, <1>5, <1>6, <1>7, <1>8, Zenon DEF gradeRegistration

\* Either way the answers and the troubles stay sequences.
LEMMA GraderKeepsSequences ==
  ASSUME CleanInv, Asks \/ Leaves
  PROVE  /\ log' \in Seq({log'[i] : i \in DOMAIN log'})
         /\ suffered' \in Seq(Hazards) /\ tries' \in Int
<1>1. log' = log \/ log' = << >>
  BY DEF Asks, Leaves, Ask, Leave
<1>2. suffered' = suffered /\ (tries' = tries \/ tries' = Retries)
  BY DEF Asks, Leaves, Ask, Leave
<1>3. Retries \in Int
  BY DEF Retries
<1>4. log' \in Seq({log'[i] : i \in DOMAIN log'})
  <2>1. CASE log' = log
    BY <2>1 DEF CleanInv
  <2>2. CASE log' = << >>
    BY <2>2
  <2> QED BY <1>1, <2>1, <2>2
<1> QED BY <1>2, <1>3, <1>4 DEF CleanInv

\* The first m of the checks, and what follows upon them.
Names == {Order[i] : i \in 1 .. 23}
First(s, m) == s \in Seq(Names) /\ Len(s) = m /\ \A i \in 1 .. m : s[i] = Order[i]
Follows(t, a, b) == t \in Seq(Names) /\ Len(t) = b /\ \A i \in 1 .. b : t[i] = Order[a + i]

\* The list is put together of such parts.
LEMMA Continued ==
  ASSUME NEW a \in Nat, NEW b \in Nat, NEW s, NEW t, First(s, a), Follows(t, a, b)
  PROVE  First(s \o t, a + b)
<1>0. /\ s \in Seq(Names) /\ t \in Seq(Names) /\ Len(s) = a /\ Len(t) = b
      /\ \A i \in 1 .. a : s[i] = Order[i]
      /\ \A i \in 1 .. b : t[i] = Order[a + i]
  BY DEF First, Follows
<1>1. /\ s \o t \in Seq(Names) /\ Len(s \o t) = a + b
      /\ \A i \in 1 .. a + b : (s \o t)[i] = IF i <= a THEN s[i] ELSE t[i - a]
  BY <1>0, ConcatProperties
<1> DEFINE u == s \o t
<1> HIDE DEF u
<1>2. ASSUME NEW i \in 1 .. a + b PROVE u[i] = Order[i]
  <2>1. CASE i <= a
    BY <1>0, <1>1, <2>1 DEF u
  <2>2. CASE i > a
    <3>1. i - a \in 1 .. b /\ a + (i - a) = i
      BY <2>2
    <3> QED BY <1>0, <1>1, <2>2, <3>1 DEF u
  <2> QED BY <2>1, <2>2
<1> QED BY <1>1, <1>2 DEF u, First

\* The checks of a grade of the registrations are those, in that order.
LEMMA ChecksInOrder ==
  ASSUME target = "registration" PROVE Checks = Order
<1> DEFINE earlier ==
             <<"mint@", "freeName", "preflight", "badProofs", "reserved", "register",
               "taken", "usedKey", "unpublished", "publishes">>
           later == <<"bothProofs", "noSuchName", "moves", "notOnFile", "unregisters",
                      "neverAgain", "cors", "leaveNothing">>
<1>1. Checks = earlier \o Rules \o later
  BY Zenon DEF Checks
<1>2. earlier \o Rules \o later = Order
  <2>1. First(earlier, 10) /\ Follows(Rules, 10, 5) /\ Follows(later, 15, 8)
    <3>1. /\ \A i \in 1 .. 10 : earlier[i] = Order[i]
          /\ \A i \in 1 .. 5 : Rules[i] = Order[10 + i]
          /\ \A i \in 1 .. 8 : later[i] = Order[15 + i]
      BY Places DEF Rules
    <3>2. \A i \in 1 .. 23 : Order[i] \in Names
      BY DEF Names
    <3>3. /\ \A i \in 1 .. 10 : earlier[i] \in Names
          /\ \A i \in 1 .. 5 : Rules[i] \in Names
          /\ \A i \in 1 .. 8 : later[i] \in Names
      BY <3>1, <3>2
    <3>4. /\ earlier \in Seq(Names) /\ Rules \in Seq(Names) /\ later \in Seq(Names)
          /\ Len(earlier) = 10 /\ Len(Rules) = 5 /\ Len(later) = 8
      BY <3>3 DEF Rules
    <3> QED BY <3>1, <3>4 DEF First, Follows
  <2> HIDE DEF earlier, later
  <2>2. First(earlier \o Rules, 15)
    <3>1. 10 \in Nat /\ 5 \in Nat /\ 10 + 5 = 15
      OBVIOUS
    <3>2. First(earlier \o Rules, 10 + 5)
      BY <2>1, <3>1, Continued
    <3> QED BY <3>1, <3>2
  <2>3. First(earlier \o Rules \o later, 23)
    <3>1. 15 \in Nat /\ 8 \in Nat /\ 15 + 8 = 23
      OBVIOUS
    <3>2. First(earlier \o Rules \o later, 15 + 8)
      BY <2>1, <2>2, <3>1, Continued
    <3> QED BY <3>1, <3>2
  <2>4. First(Order, 23)
    BY Ordered DEF First, Names
  <2> QED BY <2>3, <2>4, SeqEqual DEF First
<1> QED BY <1>1, <1>2

\* Every grade begins with nothing of the grader's on file.
LEMMA BeginsClean == Init => CleanInv
<1> SUFFICES ASSUME Init PROVE CleanInv
  OBVIOUS
<1>1. /\ target \in Targets
      /\ log = << >> /\ suffered = << >> /\ ask = Nothing /\ tries = Retries /\ plan = Checks
      /\ g = [pay |-> Said, mint |-> Said, doc |-> Said, verify |-> FALSE,
              registered |-> FALSE, held |-> FALSE, onFile |-> "none", cors |-> {}]
  BY GradingAssumption, Zenon DEF Init, InitGrade
<1>2. /\ log \in Seq({log[i] : i \in DOMAIN log}) /\ suffered \in Seq(Hazards)
      /\ tries \in Int /\ Len(log) = 0 /\ Len(suffered) = 0
  BY <1>1 DEF Retries
<1>3. \E names : /\ names = {"user"} \/ names = {}
                 /\ target = "registration" => names = {}
                 /\ registrations = [name \in names |-> [cx1 |-> Share(name), paid |-> TRUE]]
  BY Zenon DEF Init, InitPay
<1>4. CASE target = "registration"
  <2>1. plan = Stage(1) /\ at = "mint@"
    <3>1. Checks = Order
      BY <1>4, ChecksInOrder
    <3>2. plan = Stage(1)
      <4>1. SubSeq(Order, 1, 23) = Order
        BY Ordered, SubSeqFull
      <4> QED BY <1>1, <3>1, <4>1 DEF Stage
    <3>3. 1 \in 1 .. 24
      OBVIOUS
    <3> QED BY <3>2, <3>3, FirstOfStage, Places DEF at
  <2>2. Vacant
    BY <1>3, <1>4 DEF Vacant
  <2>3. /\ {"registered", "held", "onFile"} \subseteq DOMAIN g
        /\ g.registered = FALSE /\ g.held = FALSE /\ g.onFile = "none"
    BY <1>1
  <2>4. Remembers /\ Knows
    BY <1>2, <2>1, <2>3 DEF Remembers, Knows, Before, WhileRegistered
  <2>5. InStep /\ Sending /\ FirstUsed
    BY <1>1, <1>2, <2>1, <2>2, <2>3 DEF InStep, Known, Settled, Granted, Sending, FirstUsed
  <2>6. Waited
    BY <1>1, <1>2, <2>1 DEF Waited, Afterwards, Retries
  <2>7. \E k \in 1 .. 24 : plan = Stage(k)
    BY <2>1
  <2> QED BY <1>1, <1>2, <1>4, <2>3, <2>4, <2>5, <2>6, <2>7 DEF CleanInv, RegistrationInv
<1>5. CASE target # "registration"
  BY <1>1, <1>2, <1>3, <1>5 DEF CleanInv, ReadingInv
<1> QED BY <1>4, <1>5

\* Every step keeps that.
LEMMA StaysClean ==
  ASSUME Budget < 2 * (Retries + 1), CleanInv, [Next]_vars PROVE CleanInv'
<1>1. ASSUME Grading, UNCHANGED <<mintVars, target>> PROVE CleanInv'
  <2>1. UNCHANGED mintVars /\ target' = target
    BY <1>1, Zenon
  <2>2. CASE target = "registration"
    <3>1. gradeRegistration
      BY <1>1, <2>2 DEF Grading
    <3> QED BY <2>1, <2>2, <3>1, GraderKeepsRegistration, RegistrationAsks, GraderKeepsSequences
            DEF CleanInv
  <2>3. CASE target # "registration"
    <3>1. gradeMint
      BY <1>1, <2>3 DEF Grading
    <3>2. Asks \/ Leaves
      BY <3>1, MintGradeReads DEF CleanInv, Looks, Asks
    <3> QED BY <2>1, <2>3, <3>1, <3>2, GraderKeepsReading, GraderKeepsSequences DEF CleanInv
  <2> QED BY <2>2, <2>3
<1>2. ASSUME Http PROVE CleanInv'
  <2>1. target' = target
    BY <1>2 DEF Http
  <2> QED BY <1>2, <2>1, HttpKeepsRegistration, HttpKeepsSequences, HttpKeepsReading DEF CleanInv
<1>3. ASSUME UNCHANGED vars PROVE CleanInv'
  <2>1. /\ UNCHANGED <<fault, notes, bound, registrations, usedKeys>>
        /\ UNCHANGED <<plan, log, ask, tries, report, suffered, target, g>>
    BY <1>3 DEF vars, mintVars
  <2>2. at' = at /\ Remembers' = Remembers /\ addressFee' = addressFee
    BY <2>1 DEF at, Remembers, addressFee
  <2>3. Knows' = Knows /\ Settled' = Settled /\ Known' = Known
    BY <2>1, <2>2 DEF Knows, Settled, Known, Filed, Serves, Vacant
  <2>4. InStep' = InStep
    BY <2>1, <2>2, <2>3 DEF InStep, Granted, Filed, Serves, Vacant
  <2>5. Sending' = Sending
    BY <2>1, <2>2 DEF Sending, Changes, Changing, Futile
  <2>6. FirstUsed' = FirstUsed /\ Waited' = Waited
    BY <2>1, <2>2 DEF FirstUsed, Waited, Vacant
  <2>7. Undisturbed' = Undisturbed
    BY <2>1 DEF Undisturbed, Conforming, OnlySuffered
  <2>8. RegistrationInv' = RegistrationInv /\ ReadingInv' = ReadingInv
    BY <2>1, <2>2, <2>3, <2>4, <2>5, <2>6, <2>7 DEF RegistrationInv, ReadingInv
  <2> QED BY <2>1, <2>8 DEF CleanInv
<1> QED BY <1>1, <1>2, <1>3, Zenon DEF Next, Done

\* What is left on file when it is done, the grader could not take down.
LEMMA CleanLeaves == CleanInv => CleansUp
<1> SUFFICES ASSUME CleanInv, Conforming, OnlySuffered({"resent", "limited"}), at = "done",
                    NEW name \in DOMAIN registrations,
                    registrations[name].paid, registrations[name].cx1.x \in {"first", "second"}
             PROVE  FALSE
  BY DEF CleansUp, LeavesNothing
<1>1. CASE target = "registration"
  <2>1. Vacant \/ (addressFee > 0 /\ Filed(g.onFile))
    BY <1>1 DEF CleanInv, RegistrationInv, Undisturbed, InStep, Settled
  <2>2. addressFee > 0 /\ name = "user" /\ (registrations["user"].paid <=> addressFee = 0)
    BY <2>1 DEF Vacant, Filed, Serves
  <2>3. addressFee \in {0, 21}
    BY ChargesAsAdvertised
  <2> QED BY <2>2, <2>3
<1>2. CASE target # "registration"
  <2>1. registrations[name].cx1 = Share("user")
    BY <1>2 DEF CleanInv, ReadingInv
  <2> QED BY <2>1 DEF Share
<1> QED BY <1>1, <1>2

\* The grade of the registrations cleans up after itself (the comment on line
\* 1308 of the runner): on a mint that keeps LUD-26, when HTTP at most repeats a
\* GET or limits the rate, and that too seldom to use up the retries of two
\* requests, nothing stays registered and published whose key the grader holds.
\* So does every other grade, which registers nothing.
THEOREM GradesCleanUp ==
  ASSUME Budget < 2 * (Retries + 1) PROVE Spec => []CleansUp
<1>1. CleanInv /\ [Next]_vars => CleanInv'
  BY StaysClean
<1> QED BY BeginsClean, <1>1, CleanLeaves, PTL DEF Spec

---------------------------------------------------------------------------
(***************************************************************************)
(* A grade of the registrations blames no mint that keeps LUD-26: request  *)
(* by request, what the grader asks, what the mint answers, what it then   *)
(* has on file, and what the grader remembers of it.                       *)
(***************************************************************************)

(***************************************************************************)
(* The course of the grade.                                                *)
(***************************************************************************)
\* A request, and what a mint that keeps LUD-26 says to it.
Turn(request, answer) == [ask |-> request, says |-> answer]
Document(comment) ==
  [Said EXCEPT !.status = "payRequest", !.link = "/w", !.comment = comment]
Yes == [Said EXCEPT !.status = "OK"]
Registered == [Yes EXCEPT !.pr = addressFee]
Invoiced == [Said EXCEPT !.status = "invoice", !.pr = Usually, !.verify = TRUE]
Untrue(request) == Turn(request, fail("invalid signature"))
Unknown(request) == Turn(request, fail("unknown user"))
Used(request) == Turn(request, fail("cx1 already used"))
Barred(request) == Turn(request, fail("username not allowed"))
Already(request) == Turn(request, fail("already registered"))

\* An answer is what the grader reads in it.
Alike(answer, said) ==
  /\ answer.status = said.status /\ answer.reason = said.reason /\ answer.pr = said.pr
  /\ answer.link = said.link /\ answer.base = said.base /\ answer.comment = said.comment
  /\ answer.hint = said.hint /\ answer.cors = said.cors

Course(k) ==
  CASE k = 1 -> <<Turn(asked("payRequest", "mint"), Document(64))>>
    [] k \in {2, 9} -> <<Unknown(reading)>>
    [] k = 3 -> <<Turn(asked("OPTIONS", "user"), Yes), Turn(asked("OPTIONS", "user"), Yes)>>
    [] k = 4 -> <<Untrue(registering("user", Share("first"), BadProof(1))),
                  Untrue(registering("user", Share("first"), BadProof(2))),
                  Untrue(registering("user", Share("first"), BadProof(3))),
                  Untrue(registering("user", Share("first"), BadProof(4))),
                  Untrue(registering("user", Share("first"), BadProof(5))),
                  Unknown(reading)>>
    [] k = 5 -> <<Barred(registeringBy("reserver1", "mint")),
                  Barred(registeringBy("reserver2", "user+tag"))>>
    [] k = 6 -> <<Turn(registeringBy("first", "user"), Registered)>>
    [] k = 7 -> <<Already(registeringBy("another", "user"))>>
    [] k = 8 -> <<Used(reuse(1)), Used(reuse(2))>>
    [] k = 10 -> <<Turn(reading, Document(0)), Turn(asked("payRequest", "USER"), Document(0))>>
    [] k = 12 -> <<Turn(quoteAt("user"), Invoiced)>>
    [] k = 14 -> <<Turn(asked("payRequest", "user+tag"), Document(0))>>
    [] k = 16 -> <<Untrue(Halfproven(1)), Untrue(Halfproven(2)), Untrue(Halfproven(3)),
                   Untrue(Halfproven(4))>>
    [] k = 17 -> <<Unknown(move("first", "newcomer", "userc"))>>
    [] k = 18 -> <<Turn(move("first", "second", "user"), Yes),
                   Used(move("second", "first", "user"))>>
    [] k = 19 -> <<Untrue(taking("first", "user")),
                   Untrue(leaving("user", Signed("second",
                            Message("unregister", "elsewhere", "user", Unbound)))),
                   Turn(reading, Document(0))>>
    [] k = 20 -> <<Turn(taking("second", "user"), Yes), Unknown(reading)>>
    [] k = 21 -> <<Used(registeringBy("first", "user"))>>
    [] OTHER -> << >>

\* What the mint has on file by then, and which shares it has ever accepted.
Charges == addressFee > 0
Phase(k, i) ==
  IF k < 6 \/ (k = 6 /\ i = 0) THEN 1
  ELSE IF k < 18 \/ (k = 18 /\ i = 0) \/ Charges THEN 2
  ELSE IF k < 20 \/ (k = 20 /\ i = 0) THEN 3
  ELSE 4
Stands(phase, map, used) ==
  /\ phase = 1 => DOMAIN map = {} /\ used = {}
  /\ phase = 2 => Serves(map, "first") /\ used = {Share("first")}
  /\ phase = 3 => Serves(map, "second") /\ used = {Share("first"), Share("second")}
  /\ phase = 4 => DOMAIN map = {} /\ used = {Share("first"), Share("second")}

\* What the grader remembers of it, of the two documents and of CORS, once it
\* has acted on i answers of a check.
Fields == {"mint", "pay", "registered", "held", "onFile", "cors"}
Knowing(memory, phase) ==
  /\ Fields \subseteq DOMAIN memory
  /\ memory.registered = (phase \in {2, 3}) /\ memory.held = (phase = 2 /\ Charges)
  /\ memory.onFile = (IF phase = 1 THEN "none" ELSE IF phase = 2 THEN "first" ELSE "second")
Reader(k, i) == k \in 11 .. 15 \/ (k = 10 /\ i > 0)
Heedless(k, i) == k < 4 \/ (k = 4 /\ i = 0)
Recalls(memory, k, i) ==
  /\ Knowing(memory, Phase(k, i))
  /\ k > 1 => Alike(memory.mint, Document(64))
  /\ Reader(k, i) => Alike(memory.pay, Document(0))
  /\ memory.cors = (IF Heedless(k, i) THEN {} ELSE {TRUE})

\* Which checks it comes to: without a fee there is none to be unpaid, with
\* one nothing that needs it paid.
Comes(k) == IF Charges THEN k \notin 10 .. 21 ELSE k # 9
Acted == IF ask = Nothing /\ Len(log) > 0 THEN Len(log) - 1 ELSE Len(log)
Heard(k) ==
  /\ log \in Seq({log[i] : i \in DOMAIN log})
  /\ Len(log) <= Len(Course(k))
  /\ \A i \in 1 .. Len(log) : Alike(log[i], Course(k)[i].says)
Sent(k) ==
  ask # Nothing => Len(log) < Len(Course(k)) /\ ask = Course(k)[Len(log) + 1].ask
OnCourse(k) ==
  /\ plan = Stage(k) /\ Comes(k)
  /\ Heard(k) /\ Sent(k)
  /\ Stands(Phase(k, Len(log)), registrations, usedKeys)
  /\ Recalls(g, k, Acted)
Unblamed ==
  \A check \in DOMAIN report :
    report[check] = "pass" \/ (Charges /\ report[check] = "skip")
Steady == Conforming /\ Patient
CourseInv ==
  target = "registration" =>
  /\ suffered \in Seq(Hazards)
  /\ Steady => /\ tries \in Nat /\ tries + Waits >= Retries
               /\ Unblamed
               /\ \E k \in 1 .. 24 : OnCourse(k)

---------------------------------------------------------------------------
\* What an answer says.
LEMMA Sayings ==
  /\ \A reason : LET a == fail(reason) IN
       a.status = "ERROR" /\ a.reason = reason /\ a.pr = 0 /\ a.cors = TRUE
  /\ \A comment : LET a == Document(comment) IN
       /\ a.status = "payRequest" /\ a.link = "/w" /\ a.base = 0 /\ a.comment = comment
       /\ a.hint = FALSE
  /\ Yes.status = "OK" /\ Yes.pr = 0 /\ Yes.cors = TRUE
  /\ Registered.status = "OK" /\ Registered.pr = addressFee /\ Registered.cors = TRUE
  /\ Invoiced.status = "invoice" /\ Invoiced.pr = Usually
<1>1. \A reason : LET a == fail(reason) IN
       a.status = "ERROR" /\ a.reason = reason /\ a.pr = 0 /\ a.cors = TRUE
  BY DEF fail, Said
<1>2. \A comment : LET a == Document(comment) IN
       /\ a.status = "payRequest" /\ a.link = "/w" /\ a.base = 0 /\ a.comment = comment
       /\ a.hint = FALSE
  BY DEF Document, Said
<1>3. Yes.status = "OK" /\ Yes.pr = 0 /\ Yes.cors = TRUE
  BY DEF Yes, Said
<1>4. Registered.status = "OK" /\ Registered.pr = addressFee /\ Registered.cors = TRUE
  <2> DEFINE x == addressFee
  <2> HIDE DEF x
  <2>1. LET a == [Yes EXCEPT !.pr = x] IN a.status = "OK" /\ a.pr = x /\ a.cors = TRUE
    BY DEF Yes, Said
  <2> QED BY <2>1 DEF Registered, x
<1>5. Invoiced.status = "invoice" /\ Invoiced.pr = Usually
  <2> DEFINE x == Usually
  <2> HIDE DEF x
  <2>1. LET a == [Said EXCEPT !.status = "invoice", !.pr = x, !.verify = TRUE] IN
        a.status = "invoice" /\ a.pr = x
    BY DEF Said
  <2> QED BY <2>1 DEF Invoiced, x
<1> QED BY <1>1, <1>2, <1>3, <1>4, <1>5, Zenon

\* A mint that keeps LUD-26 was started with no option but the fee.
LEMMA KeptOptions ==
  ASSUME Conforming
  PROVE  /\ \A option : Has(option) => option \in {"none", "addressFeeMsat"}
         /\ \A reason : reasons(reason) = reason
         /\ commentAllowed = 64 /\ mintToHashPlaces = {}
         /\ Charges <=> Has("addressFeeMsat")
         /\ addressFeeCharged = addressFee /\ addressFee \in {0, 21}
<1>1. \A option : Has(option) => option \in {"none", "addressFeeMsat"}
  BY DEF Conforming, Has
<1>2. \A reason : reasons(reason) = reason
  BY Zenon DEF reasons, Conforming, Has
<1>3. commentAllowed = 64
  BY DEF commentAllowed, Conforming, Has
<1>4. mintToHashPlaces = {}
  BY DEF mintToHashPlaces, Conforming, Has
<1>5. Charges <=> Has("addressFeeMsat")
  <2>1. addressFee = IF Has("addressFeeMsat") THEN 21 ELSE 0
    BY DEF addressFee, Has, Conforming
  <2> QED BY <2>1 DEF Charges
<1> QED BY <1>1, <1>2, <1>3, <1>4, <1>5, ChargesAsAdvertised

\* Such a mint refuses for a reason, and leaves everything as it was.
Refuses(r, reason) ==
  /\ Alike(handle(r).answer, fail(reason))
  /\ handle(r).registrations = registrations /\ handle(r).usedKeys = usedKeys

\* As each of its refusals does.
LEMMA Refusing ==
  ASSUME Conforming, NEW reason
  PROVE  /\ Alike(Refused(reason).answer, fail(reason))
         /\ Refused(reason).registrations = registrations
         /\ Refused(reason).usedKeys = usedKeys
<1>1. ~Has("noMutationCors")
  BY DEF Conforming, Has
<1>2. Alike([fail(reason) EXCEPT !.cors = TRUE], fail(reason))
  BY DEF fail, Said, Alike
<1>3. \A answer : /\ Same(answer).answer = answer
                  /\ Same(answer).registrations = registrations
                  /\ Same(answer).usedKeys = usedKeys
  BY DEF Same
<1>4. Refused(reason) = Same([fail(reason) EXCEPT !.cors = TRUE])
  BY <1>1, Zenon DEF Refused
<1> QED BY <1>2, <1>3, <1>4

\* What is on file by phases.
LEMMA OnFile ==
  ASSUME Conforming, NEW phase \in 1 .. 4, Stands(phase, registrations, usedKeys)
  PROVE  /\ phase \in {1, 4} => DOMAIN registrations = {}
         /\ phase \in {2, 3} =>
              /\ DOMAIN registrations = {"user"}
              /\ registrations["user"].cx1 = Share(IF phase = 2 THEN "first" ELSE "second")
              /\ registrations["user"].paid <=> ~Charges
         /\ phase = 1 => \A x : ~\E used \in usedKeys : used.x = x
         /\ phase # 1 => \E used \in usedKeys : used.x = "first"
         /\ \A used \in usedKeys : used.x \in {"first", "second"}
         /\ phase = 2 => \A used \in usedKeys : used.x = "first"
<1>1. addressFee = 0 <=> ~Charges
  BY KeptOptions DEF Charges
<1>2. phase \in {2, 3} =>
        /\ DOMAIN registrations = {"user"}
        /\ registrations["user"].cx1 = Share(IF phase = 2 THEN "first" ELSE "second")
        /\ registrations["user"].paid <=> ~Charges
  BY <1>1 DEF Stands, Serves
<1>3. \A x : Share(x).x = x
  BY Proofs
<1>4. usedKeys = {} \/ usedKeys = {Share("first")} \/ usedKeys = {Share("first"), Share("second")}
  BY DEF Stands
<1> QED BY <1>2, <1>3, <1>4 DEF Stands

---------------------------------------------------------------------------
\* What such a mint sends is what it answers.
LEMMA SendsAsMeant ==
  ASSUME Conforming
  PROVE  /\ \A answer : sent(answer) = answer
         /\ \A answer : Same(answer).answer = answer
BY DEF sent, Same, Conforming, Has

\* The addresses.
LEMMA Addresses ==
  ASSUME Conforming, NEW phase \in 1 .. 4, Stands(phase, registrations, usedKeys),
         NEW name \in {"user", "USER", "user+tag"}
  PROVE  LET done == handle(asked("payRequest", name)) IN
         /\ phase \in {1, 4} \/ Charges => Alike(done.answer, fail("unknown user"))
         /\ phase \in {2, 3} /\ ~Charges => Alike(done.answer, Document(0))
         /\ done.registrations = registrations /\ done.usedKeys = usedKeys
<1> DEFINE r == asked("payRequest", name)
<1>1. r.ask = "payRequest" /\ r.name = name
  BY Requests
<1> HIDE DEF r
<1>2. r.ask \notin Mutating
  BY <1>1 DEF Mutating
<1>3. handle(r) = Same(sent(payRequest(name)))
  BY <1>1 DEF handle
<1>4. handle(r).answer = payRequest(name)
  BY <1>3, SendsAsMeant
<1>5. untagged(lower(name)) = "user" /\ ~Has("plusTagUnknown")
  BY DEF untagged, lower, Conforming, Has
<1>6. published("user") <=> phase \in {2, 3} /\ ~Charges
  <2>1. ~Has("publishesUnpaidAddress")
    BY DEF Conforming, Has
  <2> QED BY <2>1, OnFile DEF published
<1> DEFINE served == [Said EXCEPT !.status = "payRequest", !.link = "/w"]
           known == [served EXCEPT !.comment = IF Has("addressCommentAllowed") THEN 64 ELSE 0,
                                   !.base = IF Has("addressFeesDiffer") THEN 1000 ELSE 0,
                                   !.hint = Has("addressHint")]
<1>7. payRequest(name) = IF ~published("user") THEN fail(reasons("unknown user")) ELSE known
  <2>1. "user" # "mint"
    OBVIOUS
  <2>2. (IF Has("plusTagUnknown") THEN lower(name) ELSE untagged(lower(name))) = "user"
    BY <1>5
  <2> DEFINE plain == IF Has("plusTagUnknown") THEN lower(name) ELSE untagged(lower(name))
  <2>3. payRequest(name) =
          IF plain = "mint"
          THEN [served EXCEPT !.comment = commentAllowed,
                              !.mintToHash = "payRequest" \in mintToHashPlaces]
          ELSE IF ~published(plain) THEN fail(reasons("unknown user")) ELSE known
    BY Zenon DEF payRequest
  <2>4. plain = "user"
    BY <2>2
  <2> HIDE DEF plain, known, served
  <2> QED BY <2>1, <2>3, <2>4
<1>8. fail(reasons("unknown user")) = fail("unknown user")
  BY KeptOptions
<1>9. \A answer : Alike(answer, answer)
  BY DEF Alike
<1>10. Alike(known, Document(0))
  <2>1. ~Has("addressCommentAllowed") /\ ~Has("addressFeesDiffer") /\ Has("addressHint") = FALSE
    BY DEF Conforming, Has
  <2>2. known = [served EXCEPT !.comment = 0, !.base = 0, !.hint = FALSE]
    BY <2>1
  <2>3. Alike([served EXCEPT !.comment = 0, !.base = 0, !.hint = FALSE], Document(0))
    BY DEF Alike, Document, Said
  <2> HIDE DEF served
  <2> QED BY <2>2, <2>3
<1> HIDE DEF known, served
<1>11. phase \in {1, 4} \/ Charges => Alike(handle(r).answer, fail("unknown user"))
  <2>1. Alike(fail(reasons("unknown user")), fail("unknown user"))
    BY <1>8, <1>9, Zenon
  <2>2. phase \in {1, 4} \/ Charges => ~published("user")
    BY <1>6
  <2> QED BY <1>4, <1>7, <2>1, <2>2
<1>12. phase \in {2, 3} /\ ~Charges => Alike(handle(r).answer, Document(0))
  BY <1>4, <1>6, <1>7, <1>10
<1> QED BY <1>2, <1>11, <1>12, ReadersWriteNothing DEF r

\* The mint's own address, and the preflight of a browser.
LEMMA Fixtures ==
  ASSUME Conforming
  PROVE  /\ Alike(handle(asked("payRequest", "mint")).answer, Document(64))
         /\ Alike(handle(asked("OPTIONS", "user")).answer, Yes)
<1>1. Alike(handle(asked("payRequest", "mint")).answer, Document(64))
  <2>1. untagged(lower("mint")) = "mint" /\ lower("mint") = "mint"
    BY DEF untagged, lower
  <2> DEFINE served == [Said EXCEPT !.status = "payRequest", !.link = "/w"]
             told(is) == [served EXCEPT !.comment = 64, !.mintToHash = is]
  <2>2. payRequest("mint") = told("payRequest" \in mintToHashPlaces)
    BY <2>1, KeptOptions, Zenon DEF payRequest
  <2>3. \A is : Alike(told(is), Document(64))
    BY DEF Alike, Document, Said
  <2> DEFINE r == asked("payRequest", "mint")
  <2>4. r.ask = "payRequest" /\ r.name = "mint"
    BY Requests
  <2> HIDE DEF r, told
  <2>5. handle(r) = Same(sent(payRequest("mint")))
    BY <2>4 DEF handle
  <2> QED BY <2>2, <2>3, <2>5, SendsAsMeant DEF r
<1>2. Alike(handle(asked("OPTIONS", "user")).answer, Yes)
  <2> DEFINE r == asked("OPTIONS", "user")
  <2>1. r.ask = "OPTIONS" /\ ~Has("noPreflight")
    BY Requests DEF Conforming, Has
  <2> HIDE DEF r
  <2>2. handle(r) = Same(Yes)
    BY <2>1 DEF handle, Yes
  <2> QED BY <2>2, SendsAsMeant DEF r, Alike
<1> QED BY <1>1, <1>2

\* The least a quote can be asked for.
LEMMA Usuals ==
  ASSUME Usual <= MaxSendable PROVE Usually \in MinSendable .. MaxSendable
BY Sendable, GradingAssumption DEF Usually

\* A payment to the address.
LEMMA Payments ==
  ASSUME Conforming, NEW phase \in {2, 3}, Stands(phase, registrations, usedKeys),
         ~Charges, Usual <= MaxSendable
  PROVE  Alike(handle(quoteAt("user")).answer, Invoiced)
<1> DEFINE r == quoteAt("user")
<1>1. r.ask = "quote" /\ r.name = "user" /\ r.amount = Usually
  <2> DEFINE x == Usually
  <2> HIDE DEF x
  <2>1. LET a == [asked("quote", "user") EXCEPT !.amount = x]
        IN  a.ask = "quote" /\ a.name = "user" /\ a.amount = x
    BY DEF asked, Nothing
  <2> QED BY <2>1 DEF quoteAt, x
<1>2. inRange(Usually)
  BY Usuals DEF inRange
<1>3. published("user") /\ lower("user") = "user"
  <2>1. phase \in 1 .. 4
    OBVIOUS
  <2> QED BY <2>1, OnFile DEF published, lower
<1> HIDE DEF r
<1>4. addressQuote(r) = [invoice(Usually) EXCEPT !.verify = TRUE]
  BY <1>1, <1>2, <1>3, Zenon DEF addressQuote
<1>5. Alike([invoice(Usually) EXCEPT !.verify = TRUE], Invoiced)
  <2> DEFINE x == Usually
  <2> HIDE DEF x
  <2>1. Alike([[Said EXCEPT !.status = "invoice", !.pr = x] EXCEPT !.verify = TRUE],
              [Said EXCEPT !.status = "invoice", !.pr = x, !.verify = TRUE])
    BY DEF Alike, Said
  <2> QED BY <2>1 DEF invoice, Invoiced, x
<1>6. handle(r) = Same(sent(addressQuote(r)))
  BY <1>1 DEF handle
<1>7. handle(r).answer = [invoice(Usually) EXCEPT !.verify = TRUE]
  BY <1>4, <1>6, SendsAsMeant, Zenon
<1> QED BY <1>5, <1>7, Zenon DEF r

---------------------------------------------------------------------------
\* A registration is refused for its name, for its proof, for the username or
\* for the share, in that order.
LEMMA RegisterRefuses ==
  ASSUME Conforming, NEW phase \in 1 .. 4, Stands(phase, registrations, usedKeys),
         NEW r, r.ask = "POST"
  PROVE  /\ r.name \in {"mint", "user+tag"} => Refuses(r, "username not allowed")
         /\ r.name = "user" /\ ~Proven(r, r.sig) => Refuses(r, "invalid signature")
         /\ r.name = "user" /\ Proven(r, r.sig) /\ phase \in {2, 3}
            => Refuses(r, "already registered")
         /\ r.name \in {"user", "userb"} /\ Proven(r, r.sig) /\ r.cx1.x = "first" /\ phase # 1
            /\ r.name \notin DOMAIN registrations
            => Refuses(r, "cx1 already used")
<1>1. handle(r) = register(r)
  BY Methods
<1>2. ASSUME NEW reason, register(r) = Refused(reason) PROVE Refuses(r, reason)
  BY <1>1, <1>2, Refusing DEF Refuses
<1>3. r.name \in {"mint", "user+tag"} => register(r) = Refused("username not allowed")
  BY KeepsTheRules DEF register, lower, untagged
<1>4. ASSUME r.name \in {"user", "userb"}
      PROVE  /\ lower(r.name) = r.name /\ untagged(r.name) = r.name /\ r.name # "mint"
             /\ signedBy("register", r, r.sig, r.cx1.x) <=> Proven(r, r.sig)
  <2>1. lower(r.name) = r.name /\ untagged(r.name) = r.name /\ r.name # "mint"
    BY <1>4 DEF lower, untagged
  <2> QED BY <2>1, KeepsTheRules DEF signedBy, verifyProof, Proven
<1>5. r.name = "user" /\ ~Proven(r, r.sig) => register(r) = Refused("invalid signature")
  BY <1>4, Zenon DEF register
<1>6. r.name = "user" /\ Proven(r, r.sig) /\ phase \in {2, 3}
      => register(r) = Refused("already registered")
  <2>1. phase \in {2, 3} => "user" \in DOMAIN registrations
    BY OnFile
  <2>2. reasons("already registered") = "already registered"
    BY KeptOptions
  <2> QED BY <1>4, <2>1, <2>2, KeepsTheRules, Zenon DEF register
<1>7. r.name \in {"user", "userb"} /\ Proven(r, r.sig) /\ r.cx1.x = "first" /\ phase # 1
      /\ r.name \notin DOMAIN registrations
      => register(r) = Refused("cx1 already used")
  <2>1. phase # 1 /\ r.cx1.x = "first" => cx1Used(r.cx1)
    BY OnFile, KeepsTheRules DEF cx1Used
  <2>2. reasons("cx1 already used") = "cx1 already used"
    BY KeptOptions
  <2> QED BY <1>4, <2>1, <2>2, KeepsTheRules, Zenon DEF register
<1> QED BY <1>2, <1>3, <1>5, <1>6, <1>7

\* An update is, for the username, for a proof or for the share.
LEMMA UpdateRefuses ==
  ASSUME Conforming, NEW phase \in 2 .. 3, Stands(phase, registrations, usedKeys), ~Charges,
         NEW r, r.ask = "PUT"
  PROVE  /\ r.name = "userc" => Refuses(r, "unknown user")
         /\ r.name = "user" /\ phase = 2
            /\ (~Proven(r, r.newsig) \/ r.sig.by = "stranger" \/ r.sig.over.cx1 # r.cx1)
            => Refuses(r, "invalid signature")
         /\ r.name = "user" /\ phase = 3 /\ r.cx1.x = "first" /\ Proven(r, r.newsig)
            /\ r.sig = Signed("second", Message("update", "here", "user", r.cx1))
            => Refuses(r, "cx1 already used")
<1>0. phase \in 1 .. 4 /\ phase \in {2, 3}
  OBVIOUS
<1>1. handle(r) = update(r)
  BY Methods
<1>2. ASSUME NEW reason, update(r) = Refused(reason) PROVE Refuses(r, reason)
  BY <1>1, <1>2, Refusing DEF Refuses
<1>3. /\ DOMAIN registrations = {"user"} /\ registrations["user"].paid
      /\ registrations["user"].cx1.x = (IF phase = 2 THEN "first" ELSE "second")
  <2>1. registrations["user"].cx1 = Share(IF phase = 2 THEN "first" ELSE "second")
    BY <1>0, OnFile
  <2> QED BY <1>0, <2>1, OnFile, Proofs
<1>4. reasons("unknown user") = "unknown user" /\ reasons("cx1 already used") = "cx1 already used"
  BY KeptOptions
<1>5. r.name = "userc" => update(r) = Refused("unknown user")
  <2>1. r.name = "userc" => lower(r.name) = "userc" /\ "userc" \notin DOMAIN registrations
    BY <1>3 DEF lower
  <2> QED BY <1>4, <2>1 DEF update
<1>6. ASSUME r.name = "user"
      PROVE  /\ lower(r.name) = "user"
             /\ signedBy("register", r, r.newsig, r.cx1.x) <=> Proven(r, r.newsig)
             /\ \A x : signedBy("update", r, r.sig, x) <=>
                         r.sig.by = x /\ r.sig.over = Message("update", "here", "user", r.cx1)
  <2>1. lower(r.name) = "user"
    BY <1>6 DEF lower
  <2> QED BY <1>6, <2>1, KeepsTheRules DEF signedBy, verifyProof, Proven
<1>7. r.name = "user" /\ phase = 2
      /\ (~Proven(r, r.newsig) \/ r.sig.by = "stranger" \/ r.sig.over.cx1 # r.cx1)
      => update(r) = Refused("invalid signature")
  <2>1. Message("update", "here", "user", r.cx1).cx1 = r.cx1
    BY Proofs
  <2> DEFINE message == Message("update", "here", "user", r.cx1)
  <2> HIDE DEF message
  <2>2. ASSUME r.name = "user", phase = 2,
               ~Proven(r, r.newsig) \/ r.sig.by = "stranger" \/ r.sig.over.cx1 # r.cx1
        PROVE  \/ ~signedBy("update", r, r.sig, registrations["user"].cx1.x)
               \/ ~signedBy("register", r, r.newsig, r.cx1.x)
    BY <1>3, <1>6, <2>1, <2>2 DEF message
  <2>3. ~Has("updateChecksOnly sig") /\ ~Has("updateChecksOnly newsig")
    BY KeepsTheRules
  <2> QED BY <1>3, <1>6, <2>2, <2>3 DEF update
<1>8. r.name = "user" /\ phase = 3 /\ r.cx1.x = "first" /\ Proven(r, r.newsig)
      /\ r.sig = Signed("second", Message("update", "here", "user", r.cx1))
      => update(r) = Refused("cx1 already used")
  <2>1. r.cx1.x = "first" => cx1Used(r.cx1)
    BY <1>0, OnFile, KeepsTheRules DEF cx1Used
  <2> DEFINE message == Message("update", "here", "user", r.cx1)
  <2>2. Signed("second", message).by = "second" /\ Signed("second", message).over = message
    BY Proofs
  <2>3. ASSUME r.name = "user", phase = 3, Proven(r, r.newsig), r.sig = Signed("second", message)
        PROVE  /\ signedBy("update", r, r.sig, registrations["user"].cx1.x)
               /\ signedBy("register", r, r.newsig, r.cx1.x)
    BY <1>3, <1>6, <2>2, <2>3
  <2> HIDE DEF message
  <2> QED BY <1>3, <1>4, <1>6, <2>1, <2>3 DEF update, message
<1> QED BY <1>2, <1>5, <1>7, <1>8

\* And a removal, for its proof.
LEMMA UnregisterRefuses ==
  ASSUME Conforming, NEW phase \in 2 .. 3, Stands(phase, registrations, usedKeys),
         NEW r, r.ask = "DELETE", r.name = "user",
         \/ r.sig.by # (IF phase = 2 THEN "first" ELSE "second")
         \/ r.sig.over.domain # "here"
  PROVE  Refuses(r, "invalid signature")
<1>0. phase \in 1 .. 4 /\ phase \in {2, 3}
  OBVIOUS
<1>1. /\ DOMAIN registrations = {"user"} /\ lower("user") = "user"
      /\ registrations["user"].cx1.x = (IF phase = 2 THEN "first" ELSE "second")
  <2>1. registrations["user"].cx1 = Share(IF phase = 2 THEN "first" ELSE "second")
    BY <1>0, OnFile
  <2> QED BY <1>0, <2>1, OnFile, Proofs DEF lower
<1> DEFINE message == Message("unregister", "here", "user", Unbound)
<1>2. message.domain = "here"
  BY Proofs
<1>3. ~verifyProof(message, r.sig, registrations["user"].cx1.x)
  <2> HIDE DEF message
  <2> QED BY <1>1, <1>2, KeepsTheRules DEF verifyProof
<1>4. unregister(r) = Refused("invalid signature")
  BY <1>1, <1>3, KeepsTheRules DEF unregister
<1> QED BY <1>4, Methods, Refusing DEF Refuses

\* What is granted: the first registration,
LEMMA RegisterGrants ==
  ASSUME Conforming, Stands(1, registrations, usedKeys)
  PROVE  LET done == handle(registeringBy("first", "user")) IN
         /\ Alike(done.answer, Registered)
         /\ Stands(2, done.registrations, done.usedKeys)
<1> DEFINE r == registeringBy("first", "user")
           message == Message("register", "here", "user", Share("first"))
<1>1. /\ r.ask = "POST" /\ r.name = "user" /\ r.cx1 = Share("first")
      /\ lower(r.name) = "user" /\ untagged(lower(r.name)) = "user"
  BY DEF registeringBy, registering, asked, Nothing, lower, untagged
<1>2. r.sig.by = "first" /\ r.sig.over = message
  BY DEF registeringBy, registering, asked, Nothing, proof, proofBy, Signed
<1> HIDE DEF r
<1>3. signedBy("register", r, r.sig, r.cx1.x)
  <2>1. r.cx1.x = "first"
    BY <1>1, Proofs
  <2> QED BY <1>1, <1>2, <2>1, KeepsTheRules DEF signedBy, verifyProof
<1>4. DOMAIN registrations = {} /\ usedKeys = {}
  BY DEF Stands
<1>5. ~cx1Used(r.cx1)
  BY <1>4, KeepsTheRules DEF cx1Used
<1>6. handle(r) = Accepted("user", Share("first"), addressFeeCharged = 0, addressFeeCharged)
  <2>1. "user" # "mint"
    OBVIOUS
  <2>2. register(r) = Accepted("user", Share("first"), addressFeeCharged = 0, addressFeeCharged)
    BY <1>1, <1>3, <1>4, <1>5, <2>1, Zenon DEF register
  <2> QED BY <1>1, <2>2, Methods
<1> DEFINE told(fee, here) == [Said EXCEPT !.status = "OK", !.pr = fee, !.cors = here]
           filed(free) == [user \in DOMAIN registrations \cup {"user"} |->
                             IF user = "user" THEN [cx1 |-> Share("first"), paid |-> free]
                             ELSE registrations[user]]
<1>7. /\ handle(r).answer = told(addressFee, ~Has("noMutationCors"))
      /\ handle(r).registrations = filed(addressFee = 0)
      /\ handle(r).usedKeys = {Share("first")}
  BY <1>4, <1>6, KeptOptions DEF Accepted
<1>8. Alike(told(addressFee, TRUE), Registered)
  <2> DEFINE x == addressFee
  <2> HIDE DEF x
  <2>1. Alike(told(x, TRUE), [[Said EXCEPT !.status = "OK"] EXCEPT !.pr = x])
    BY DEF Alike, Said
  <2> QED BY <2>1 DEF x, Registered, Yes
<1>9. Serves(filed(addressFee = 0), "first")
  <2> DEFINE free == addressFee = 0
  <2> HIDE DEF free
  <2>1. DOMAIN filed(free) = {"user"} /\ filed(free)["user"] = [cx1 |-> Share("first"), paid |-> free]
    BY <1>4
  <2>2. [cx1 |-> Share("first"), paid |-> free].cx1 = Share("first")
        /\ ([cx1 |-> Share("first"), paid |-> free].paid <=> free)
    OBVIOUS
  <2> HIDE DEF filed
  <2> QED BY <2>1, <2>2 DEF Serves, free
<1>10. told(addressFee, ~Has("noMutationCors")) = told(addressFee, TRUE)
  <2>1. (~Has("noMutationCors")) = TRUE
    BY DEF Conforming, Has
  <2> HIDE DEF told
  <2> QED BY <2>1
<1> HIDE DEF told, filed
<1>11. Alike(handle(r).answer, Registered)
  BY <1>7, <1>8, <1>10, Zenon
<1>12. Serves(handle(r).registrations, "first")
  BY <1>7, <1>9, Zenon
<1>13. Stands(2, handle(r).registrations, handle(r).usedKeys)
  BY <1>7, <1>12 DEF Stands
<1> QED BY <1>11, <1>13, Zenon DEF r

\* the move to the second share,
LEMMA MoveGrants ==
  ASSUME Conforming, ~Charges, Stands(2, registrations, usedKeys)
  PROVE  LET done == handle(move("first", "second", "user")) IN
         /\ Alike(done.answer, Yes)
         /\ Stands(3, done.registrations, done.usedKeys)
<1> DEFINE r == move("first", "second", "user")
           message == Message("update", "here", "user", Share("second"))
           newmessage == Message("register", "here", "user", Share("second"))
<1>1. /\ r.ask = "PUT" /\ r.name = "user" /\ r.cx1 = Share("second") /\ lower(r.name) = "user"
  BY DEF move, moving, asked, Nothing, lower
<1>2. /\ r.sig.by = "first" /\ r.sig.over = message
      /\ r.newsig.by = "second" /\ r.newsig.over = newmessage
  BY DEF move, moving, asked, Nothing, proof, proofBy, Signed
<1> HIDE DEF r
<1>3. /\ DOMAIN registrations = {"user"} /\ registrations["user"].paid
      /\ registrations["user"].cx1 = Share("first") /\ Share("first").x = "first"
      /\ Share("second").x = "second"
  <2>1. 2 \in 1 .. 4
    OBVIOUS
  <2> QED BY <2>1, OnFile, Proofs
<1>4. usedKeys = {Share("first")}
  BY DEF Stands
<1>5. ~cx1Used(r.cx1)
  BY <1>1, <1>3, <1>4, KeepsTheRules DEF cx1Used
<1>6. signedBy("update", r, r.sig, "first") /\ signedBy("register", r, r.newsig, "second")
  BY <1>1, <1>2, KeepsTheRules DEF signedBy, verifyProof
<1>7. handle(r) = Accepted("user", Share("second"), TRUE, 0)
  <2>1. update(r) = Accepted("user", Share("second"), TRUE, 0)
    BY <1>1, <1>3, <1>5, <1>6 DEF update
  <2> QED BY <1>1, <2>1, Methods
<1> DEFINE told(here) == [Said EXCEPT !.status = "OK", !.pr = 0, !.cors = here]
           filed == [user \in DOMAIN registrations \cup {"user"} |->
                       IF user = "user" THEN [cx1 |-> Share("second"), paid |-> TRUE]
                       ELSE registrations[user]]
<1>8. /\ handle(r).answer = told(~Has("noMutationCors"))
      /\ handle(r).registrations = filed
      /\ handle(r).usedKeys = {Share("first"), Share("second")}
  BY <1>4, <1>7 DEF Accepted
<1>9. Alike(told(TRUE), Yes)
  BY DEF Alike, Said, Yes
<1>10. Serves(filed, "second")
  <2>1. DOMAIN filed = {"user"} /\ filed["user"] = [cx1 |-> Share("second"), paid |-> TRUE]
    BY <1>3
  <2>2. [cx1 |-> Share("second"), paid |-> TRUE].cx1 = Share("second")
        /\ [cx1 |-> Share("second"), paid |-> TRUE].paid
    OBVIOUS
  <2>3. addressFee = 0
    BY KeptOptions DEF Charges
  <2> HIDE DEF filed
  <2> QED BY <2>1, <2>2, <2>3 DEF Serves
<1>11. told(~Has("noMutationCors")) = told(TRUE)
  <2>1. (~Has("noMutationCors")) = TRUE
    BY DEF Conforming, Has
  <2> HIDE DEF told
  <2> QED BY <2>1
<1> HIDE DEF told, filed
<1>12. Alike(handle(r).answer, Yes)
  BY <1>8, <1>9, <1>11, Zenon
<1>13. Serves(handle(r).registrations, "second")
  BY <1>8, <1>10, Zenon
<1>14. Stands(3, handle(r).registrations, handle(r).usedKeys)
  BY <1>8, <1>13 DEF Stands
<1> QED BY <1>12, <1>14, Zenon DEF r

\* and taking it down.
LEMMA TakingGrants ==
  ASSUME Conforming, ~Charges, Stands(3, registrations, usedKeys)
  PROVE  LET done == handle(taking("second", "user")) IN
         /\ Alike(done.answer, Yes)
         /\ Stands(4, done.registrations, done.usedKeys)
<1> DEFINE r == taking("second", "user")
           message == Message("unregister", "here", "user", Unbound)
<1>1. /\ r.ask = "DELETE" /\ r.name = "user" /\ lower(r.name) = "user"
      /\ r.sig.by = "second" /\ r.sig.over = message
  BY DEF taking, leaving, proof, proofBy, asked, Nothing, lower, Signed
<1> HIDE DEF r
<1>2. DOMAIN registrations = {"user"} /\ registrations["user"].cx1.x = "second"
  <2>1. 3 \in 1 .. 4
    OBVIOUS
  <2> QED BY <2>1, OnFile, Proofs
<1>3. verifyProof(message, r.sig, registrations["user"].cx1.x)
  BY <1>1, <1>2 DEF verifyProof
<1> DEFINE told(here) == [Said EXCEPT !.status = "OK", !.cors = here]
           left == [other \in DOMAIN registrations \ {"user"} |-> registrations[other]]
<1>4. unregister(r) = [answer |-> told(~Has("noMutationCors")), bound |-> bound,
                       usedKeys |-> usedKeys, registrations |-> left]
  BY <1>1, <1>2, <1>3 DEF unregister
<1>5. Alike(told(TRUE), Yes)
  BY DEF Alike, Said, Yes
<1>6. DOMAIN left = {}
  BY <1>2
<1>7. usedKeys = {Share("first"), Share("second")}
  BY DEF Stands
<1>8. told(~Has("noMutationCors")) = told(TRUE)
  <2>1. (~Has("noMutationCors")) = TRUE
    BY DEF Conforming, Has
  <2> HIDE DEF told
  <2> QED BY <2>1
<1> HIDE DEF told, left
<1>9. /\ handle(r).answer = told(~Has("noMutationCors")) /\ handle(r).registrations = left
      /\ handle(r).usedKeys = usedKeys
  BY <1>1, <1>4, Methods
<1>10. Alike(handle(r).answer, Yes)
  BY <1>5, <1>8, <1>9, Zenon
<1>11. Stands(4, handle(r).registrations, handle(r).usedKeys)
  BY <1>6, <1>7, <1>9 DEF Stands
<1> QED BY <1>10, <1>11, Zenon DEF r

---------------------------------------------------------------------------
\* A course of so many turns, these.
Runs0(course) == Len(course) = 0 /\ DOMAIN course = 1 .. 0
Runs1(course, a1) ==
  Len(course) = 1 /\ DOMAIN course = 1 .. 1 /\ course[1] = a1
Runs2(course, a1, a2) ==
  Len(course) = 2 /\ DOMAIN course = 1 .. 2 /\ course[1] = a1 /\ course[2] = a2
Runs3(course, a1, a2, a3) ==
  /\ Len(course) = 3 /\ DOMAIN course = 1 .. 3
  /\ course[1] = a1 /\ course[2] = a2 /\ course[3] = a3
Runs4(course, a1, a2, a3, a4) ==
  /\ Len(course) = 4 /\ DOMAIN course = 1 .. 4
  /\ course[1] = a1 /\ course[2] = a2 /\ course[3] = a3 /\ course[4] = a4
Runs6(course, a1, a2, a3, a4, a5, a6) ==
  /\ Len(course) = 6 /\ DOMAIN course = 1 .. 6
  /\ course[1] = a1 /\ course[2] = a2 /\ course[3] = a3 /\ course[4] = a4
  /\ course[5] = a5 /\ course[6] = a6

\* A list written out is one.
LEMMA Runs ==
  /\ Runs0(<< >>)
  /\ \A a1 : Runs1(<<a1>>, a1)
  /\ \A a1, a2 : Runs2(<<a1, a2>>, a1, a2)
  /\ \A a1, a2, a3 : Runs3(<<a1, a2, a3>>, a1, a2, a3)
  /\ \A a1, a2, a3, a4 : Runs4(<<a1, a2, a3, a4>>, a1, a2, a3, a4)
  /\ \A a1, a2, a3, a4, a5, a6 : Runs6(<<a1, a2, a3, a4, a5, a6>>, a1, a2, a3, a4, a5, a6)
BY DEF Runs0, Runs1, Runs2, Runs3, Runs4, Runs6

\* The turns that come several times over, or are long to write.
Lie(i) == Untrue(registering("user", Share("first"), BadProof(i)))
Half(i) == Untrue(Halfproven(i))
Mistaken == leaving("user", Signed("second", Message("unregister", "elsewhere", "user", Unbound)))
Asking == Turn(asked("OPTIONS", "user"), Yes)
\* The turns of each check.
LEMMA Courses ==
  /\ Runs1(Course(1), Turn(asked("payRequest", "mint"), Document(64)))
  /\ Runs1(Course(2), Unknown(reading)) /\ Runs1(Course(9), Unknown(reading))
  /\ Runs2(Course(3), Asking, Asking)
  /\ Runs6(Course(4), Lie(1), Lie(2), Lie(3), Lie(4), Lie(5), Unknown(reading))
  /\ Runs2(Course(5), Barred(registeringBy("reserver1", "mint")),
                      Barred(registeringBy("reserver2", "user+tag")))
  /\ Runs1(Course(6), Turn(registeringBy("first", "user"), Registered))
  /\ Runs1(Course(7), Already(registeringBy("another", "user")))
  /\ Runs2(Course(8), Used(reuse(1)), Used(reuse(2)))
  /\ Runs2(Course(10), Turn(reading, Document(0)), Turn(asked("payRequest", "USER"), Document(0)))
  /\ Runs1(Course(12), Turn(quoteAt("user"), Invoiced))
  /\ Runs1(Course(14), Turn(asked("payRequest", "user+tag"), Document(0)))
  /\ Runs4(Course(16), Half(1), Half(2), Half(3), Half(4))
  /\ Runs1(Course(17), Unknown(move("first", "newcomer", "userc")))
  /\ Runs2(Course(18), Turn(move("first", "second", "user"), Yes),
           Used(move("second", "first", "user")))
  /\ Runs3(Course(19), Untrue(taking("first", "user")), Untrue(Mistaken),
           Turn(reading, Document(0)))
  /\ Runs2(Course(20), Turn(taking("second", "user"), Yes), Unknown(reading))
  /\ Runs1(Course(21), Used(registeringBy("first", "user")))
  /\ \A k \in {11, 13, 15, 22, 23, 24} : Runs0(Course(k))
<1>1. Course(1) = <<Turn(asked("payRequest", "mint"), Document(64))>>
  BY DEF Course
<1>2. Course(2) = <<Unknown(reading)>> /\ Course(9) = <<Unknown(reading)>>
  BY DEF Course
<1>3. Course(3) = <<Asking, Asking>>
  BY DEF Course, Asking
<1>4. Course(4) = <<Lie(1), Lie(2), Lie(3), Lie(4), Lie(5), Unknown(reading)>>
  BY DEF Course, Lie
<1>5. Course(5) = <<Barred(registeringBy("reserver1", "mint")),
                    Barred(registeringBy("reserver2", "user+tag"))>>
  BY DEF Course
<1>6. Course(6) = <<Turn(registeringBy("first", "user"), Registered)>>
  BY DEF Course
<1>7. Course(7) = <<Already(registeringBy("another", "user"))>>
  BY DEF Course
<1>8. Course(8) = <<Used(reuse(1)), Used(reuse(2))>>
  BY DEF Course
<1>10. Course(10) = <<Turn(reading, Document(0)), Turn(asked("payRequest", "USER"), Document(0))>>
  BY DEF Course
<1>12. Course(12) = <<Turn(quoteAt("user"), Invoiced)>>
  BY DEF Course
<1>14. Course(14) = <<Turn(asked("payRequest", "user+tag"), Document(0))>>
  BY DEF Course
<1>16. Course(16) = <<Half(1), Half(2), Half(3), Half(4)>>
  BY DEF Course, Half
<1>17. Course(17) = <<Unknown(move("first", "newcomer", "userc"))>>
  BY DEF Course
<1>18. Course(18) = <<Turn(move("first", "second", "user"), Yes),
                      Used(move("second", "first", "user"))>>
  BY DEF Course
<1>19. Course(19) = <<Untrue(taking("first", "user")), Untrue(Mistaken),
                      Turn(reading, Document(0))>>
  BY DEF Course, Mistaken
<1>20. Course(20) = <<Turn(taking("second", "user"), Yes), Unknown(reading)>>
  BY DEF Course
<1>21. Course(21) = <<Used(registeringBy("first", "user"))>>
  BY DEF Course
<1>22. \A k \in {11, 13, 15, 22, 23, 24} : Course(k) = << >>
  BY DEF Course
<1>23. \A k \in {11, 13, 15, 22, 23, 24} : Runs0(Course(k))
  BY <1>22, Runs
<1> QED BY <1>1, <1>2, <1>3, <1>4, <1>5, <1>6, <1>7, <1>8, <1>10, <1>12, <1>14, <1>16, <1>17,
           <1>18, <1>19, <1>20, <1>21, <1>23, Runs, Zenon

\* So each is a list.
LEMMA Lists ==
  ASSUME NEW k \in 1 .. 24
  PROVE  Len(Course(k)) \in Nat /\ DOMAIN Course(k) = 1 .. Len(Course(k))
<1>1. \/ k \in {11, 13, 15, 22, 23, 24} \/ k = 1 \/ k = 2 \/ k = 3 \/ k = 4 \/ k = 5 \/ k = 6
      \/ k = 7 \/ k = 8 \/ k = 9 \/ k = 10 \/ k = 12 \/ k = 14 \/ k = 16 \/ k = 17 \/ k = 18
      \/ k = 19 \/ k = 20 \/ k = 21
  OBVIOUS
<1> DEFINE Proper(course) == Len(course) \in Nat /\ DOMAIN course = 1 .. Len(course)
<1>2. \A course :
        /\ Runs0(course) => Proper(course)
        /\ \A a1 : Runs1(course, a1) => Proper(course)
        /\ \A a1, a2 : Runs2(course, a1, a2) => Proper(course)
        /\ \A a1, a2, a3 : Runs3(course, a1, a2, a3) => Proper(course)
        /\ \A a1, a2, a3, a4 : Runs4(course, a1, a2, a3, a4) => Proper(course)
        /\ \A a1, a2, a3, a4, a5, a6 :
             Runs6(course, a1, a2, a3, a4, a5, a6) => Proper(course)
  BY DEF Runs0, Runs1, Runs2, Runs3, Runs4, Runs6
<1> HIDE DEF Proper
<1>3. Proper(Course(k))
  BY <1>1, <1>2, Courses, Zenon
<1> QED BY <1>3 DEF Proper

\* When what is on file changes.
LEMMA Phases ==
  ASSUME NEW k \in 1 .. 24, NEW i \in Nat
  PROVE  /\ Phase(k, i) \in 1 .. 4
         /\ k < 6 => Phase(k, i) = 1
         /\ k = 6 => Phase(k, i) = (IF i = 0 THEN 1 ELSE 2)
         /\ k \in 7 .. 17 => Phase(k, i) = 2
         /\ k = 18 /\ ~Charges => Phase(k, i) = (IF i = 0 THEN 2 ELSE 3)
         /\ k = 19 /\ ~Charges => Phase(k, i) = 3
         /\ k = 20 /\ ~Charges => Phase(k, i) = (IF i = 0 THEN 3 ELSE 4)
         /\ k > 20 /\ ~Charges => Phase(k, i) = 4
         /\ k > 6 /\ Charges => Phase(k, i) = 2
BY DEF Phase

---------------------------------------------------------------------------
\* A turn that changes nothing on file.
Quiet(turn) ==
  LET done == handle(turn.ask) IN
  /\ Alike(done.answer, turn.says)
  /\ done.registrations = registrations /\ done.usedKeys = usedKeys

\* A refusal is one.
LEMMA QuietTurns ==
  /\ \A r, answer : Turn(r, answer).ask = r /\ Turn(r, answer).says = answer
  /\ \A r : Refuses(r, "invalid signature") => Quiet(Untrue(r))
  /\ \A r : Refuses(r, "unknown user") => Quiet(Unknown(r))
  /\ \A r : Refuses(r, "cx1 already used") => Quiet(Used(r))
  /\ \A r : Refuses(r, "username not allowed") => Quiet(Barred(r))
  /\ \A r : Refuses(r, "already registered") => Quiet(Already(r))
<1>1. \A r, answer : Turn(r, answer).ask = r /\ Turn(r, answer).says = answer
  BY DEF Turn
<1>2. \A r, reason : Refuses(r, reason) => Quiet(Turn(r, fail(reason)))
  BY <1>1, Zenon DEF Refuses, Quiet
<1> QED BY <1>1, <1>2, Zenon DEF Untrue, Unknown, Used, Barred, Already

\* A turn that only reads is quiet when its answer is as it says.
LEMMA ReadersQuiet ==
  ASSUME NEW r, NEW says, r.ask \notin Mutating, Alike(handle(r).answer, says)
  PROVE  Quiet(Turn(r, says))
<1>1. handle(r).registrations = registrations /\ handle(r).usedKeys = usedKeys
  BY ReadersWriteNothing
<1> QED BY <1>1, QuietTurns, Zenon DEF Quiet

\* Such are the documents,
LEMMA DocumentsQuiet ==
  ASSUME Conforming, NEW phase \in 1 .. 4, Stands(phase, registrations, usedKeys)
  PROVE  /\ Quiet(Turn(asked("payRequest", "mint"), Document(64))) /\ Quiet(Asking)
         /\ phase \in {1, 4} \/ Charges => Quiet(Unknown(reading))
         /\ phase \in {2, 3} /\ ~Charges =>
              /\ Quiet(Turn(reading, Document(0)))
              /\ \A name \in {"USER", "user+tag"} :
                   Quiet(Turn(asked("payRequest", name), Document(0)))
              /\ Usual <= MaxSendable => Quiet(Turn(quoteAt("user"), Invoiced))
<1>2. /\ \A name : asked("payRequest", name).ask \notin Mutating
      /\ asked("OPTIONS", "user").ask \notin Mutating /\ quoteAt("user").ask \notin Mutating
  BY Requests DEF Mutating
<1>3. Quiet(Turn(asked("payRequest", "mint"), Document(64))) /\ Quiet(Asking)
  BY <1>2, Fixtures, ReadersQuiet DEF Asking
<1>4. ASSUME phase \in {1, 4} \/ Charges PROVE Quiet(Unknown(reading))
  <2>1. Alike(handle(reading).answer, fail("unknown user"))
    <3>1. "user" \in {"user", "USER", "user+tag"}
      OBVIOUS
    <3> QED BY <1>4, <3>1, Addresses, Zenon DEF reading
  <2> QED BY <1>2, <2>1, ReadersQuiet DEF Unknown, reading
<1>5. ASSUME phase \in {2, 3} /\ ~Charges, NEW name \in {"user", "USER", "user+tag"}
      PROVE  Quiet(Turn(asked("payRequest", name), Document(0)))
  <2>1. Alike(handle(asked("payRequest", name)).answer, Document(0))
    BY <1>5, Addresses, Zenon
  <2> QED BY <1>2, <2>1, ReadersQuiet
<1>6. ASSUME phase \in {2, 3} /\ ~Charges PROVE Quiet(Turn(reading, Document(0)))
  BY <1>5, <1>6 DEF reading
<1>7. ASSUME phase \in {2, 3} /\ ~Charges, Usual <= MaxSendable
      PROVE  Quiet(Turn(quoteAt("user"), Invoiced))
  <2>1. Alike(handle(quoteAt("user")).answer, Invoiced)
    BY <1>7, Payments
  <2> QED BY <1>2, <2>1, ReadersQuiet
<1>8. ASSUME phase \in {2, 3} /\ ~Charges, NEW name \in {"USER", "user+tag"}
      PROVE  Quiet(Turn(asked("payRequest", name), Document(0)))
  <2>1. name \in {"user", "USER", "user+tag"}
    OBVIOUS
  <2> QED BY <1>5, <1>8, <2>1
<1> QED BY <1>3, <1>4, <1>6, <1>7, <1>8, Zenon

\* the registrations that no mint grants,
LEMMA RegistrationsQuiet ==
  ASSUME Conforming, NEW phase \in 1 .. 4, Stands(phase, registrations, usedKeys)
  PROVE  /\ \A i \in 1 .. 5 : Quiet(Lie(i))
         /\ \A key : \A name \in {"mint", "user+tag"} : Quiet(Barred(registeringBy(key, name)))
         /\ phase \in {2, 3} => Quiet(Already(registeringBy("another", "user")))
         /\ phase \in {2, 3} => Quiet(Used(reuse(1))) /\ Quiet(Used(reuse(2)))
         /\ phase = 4 => Quiet(Used(registeringBy("first", "user")))
<1>1. \A key, name : LET r == registeringBy(key, name) IN
        /\ r.ask = "POST" /\ r.name = name /\ r.cx1 = Share(key) /\ r.cx1.x = key
        /\ Proven(r, r.sig)
  <2> TAKE key, name
  <2> DEFINE r == registeringBy(key, name)
  <2>1. /\ r.ask = "POST" /\ r.name = name /\ r.cx1 = Share(key)
        /\ r.sig = proof("register", key, name)
    BY Requests DEF registeringBy
  <2>2. r.sig = Signed(key, Message("register", "here", name, Share(key)))
    BY <2>1 DEF proof, proofBy
  <2> HIDE DEF r
  <2>3. r.cx1.x = key /\ Proven(r, r.sig)
    BY <2>1, <2>2, Proofs DEF Proven
  <2> QED BY <2>1, <2>3 DEF r
<1>2. ASSUME NEW i \in 1 .. 2
      PROVE  LET r == reuse(i) IN
             r.ask = "POST" /\ r.name = "userb" /\ r.cx1.x = "first" /\ Proven(r, r.sig)
  <2> DEFINE r == reuse(i)
             share == UsedShare(i)
  <2>1. /\ r.ask = "POST" /\ r.name = "userb" /\ r.cx1 = share
        /\ r.sig = proofBy("first", "register", "userb", share)
    BY Requests DEF reuse
  <2>2. share.x = "first"
    BY Proofs DEF UsedShare
  <2>3. r.sig = Signed("first", Message("register", "here", "userb", share))
    BY <2>1 DEF proofBy
  <2> HIDE DEF r, share
  <2>4. Proven(r, r.sig)
    BY <2>1, <2>2, <2>3, Proofs DEF Proven
  <2> QED BY <2>1, <2>2, <2>4 DEF r
<1>3. \A i \in 1 .. 5 : Quiet(Lie(i))
  <2> TAKE i \in 1 .. 5
  <2> DEFINE r == registering("user", Share("first"), BadProof(i))
  <2>1. r.ask = "POST" /\ r.name = "user" /\ ~Proven(r, r.sig)
    BY BadProofsFail
  <2> HIDE DEF r
  <2>2. Refuses(r, "invalid signature")
    BY <2>1, RegisterRefuses
  <2> QED BY <2>2, QuietTurns DEF Lie, r
<1>4. ASSUME NEW key, NEW name \in {"mint", "user+tag"}
      PROVE  Quiet(Barred(registeringBy(key, name)))
  <2> DEFINE r == registeringBy(key, name)
  <2>1. r.ask = "POST" /\ r.name \in {"mint", "user+tag"}
    BY <1>1
  <2> HIDE DEF r
  <2>2. Refuses(r, "username not allowed")
    BY <2>1, RegisterRefuses
  <2> QED BY <2>2, QuietTurns DEF r
<1>5. ASSUME phase \in {2, 3} PROVE Quiet(Already(registeringBy("another", "user")))
  <2> DEFINE r == registeringBy("another", "user")
  <2>1. r.ask = "POST" /\ r.name = "user" /\ Proven(r, r.sig)
    BY <1>1
  <2> HIDE DEF r
  <2>2. Refuses(r, "already registered")
    BY <1>5, <2>1, RegisterRefuses
  <2> QED BY <2>2, QuietTurns DEF r
<1>6. ASSUME phase \in {2, 3}, NEW i \in 1 .. 2 PROVE Quiet(Used(reuse(i)))
  <2> DEFINE r == reuse(i)
  <2>1. r.ask = "POST" /\ r.name = "userb" /\ r.cx1.x = "first" /\ Proven(r, r.sig)
    BY <1>2
  <2>2. "userb" \notin DOMAIN registrations /\ phase # 1
    BY <1>6, OnFile
  <2> HIDE DEF r
  <2>3. Refuses(r, "cx1 already used")
    BY <2>1, <2>2, RegisterRefuses
  <2> QED BY <2>3, QuietTurns DEF r
<1>7. ASSUME phase = 4 PROVE Quiet(Used(registeringBy("first", "user")))
  <2> DEFINE r == registeringBy("first", "user")
  <2>1. r.ask = "POST" /\ r.name = "user" /\ r.cx1.x = "first" /\ Proven(r, r.sig)
    BY <1>1
  <2>2. "user" \notin DOMAIN registrations /\ phase # 1
    BY <1>7, OnFile
  <2> HIDE DEF r
  <2>3. Refuses(r, "cx1 already used")
    BY <2>1, <2>2, RegisterRefuses
  <2> QED BY <2>3, QuietTurns DEF r
<1>8. 1 \in 1 .. 2 /\ 2 \in 1 .. 2
  OBVIOUS
<1> QED BY <1>3, <1>4, <1>5, <1>6, <1>7, <1>8, Zenon

\* and the moves and the removals that lack a proof.
LEMMA MovesQuiet ==
  ASSUME Conforming, ~Charges
  PROVE  /\ Stands(2, registrations, usedKeys) =>
              /\ \A i \in 1 .. 4 : Quiet(Half(i))
              /\ Quiet(Unknown(move("first", "newcomer", "userc")))
         /\ Stands(3, registrations, usedKeys) =>
              /\ Quiet(Used(move("second", "first", "user")))
              /\ Quiet(Untrue(taking("first", "user"))) /\ Quiet(Untrue(Mistaken))
<1>0. 2 \in 2 .. 3 /\ 3 \in 2 .. 3 /\ 3 # 2
  OBVIOUS
<1>1. ASSUME Stands(2, registrations, usedKeys), NEW i \in 1 .. 4 PROVE Quiet(Half(i))
  <2> DEFINE r == Halfproven(i)
  <2>1. /\ r.ask = "PUT" /\ r.name = "user"
        /\ ~Proven(r, r.newsig) \/ r.sig.by = "stranger" \/ r.sig.over.cx1 # r.cx1
    BY HalvesFail
  <2> HIDE DEF r
  <2>2. Refuses(r, "invalid signature")
    BY <1>0, <1>1, <2>1, UpdateRefuses
  <2> QED BY <2>2, QuietTurns DEF Half, r
<1>2. ASSUME Stands(2, registrations, usedKeys)
      PROVE  Quiet(Unknown(move("first", "newcomer", "userc")))
  <2> DEFINE r == move("first", "newcomer", "userc")
  <2>1. r.ask = "PUT" /\ r.name = "userc"
    BY Requests DEF move
  <2> HIDE DEF r
  <2>2. Refuses(r, "unknown user")
    BY <1>0, <1>2, <2>1, UpdateRefuses
  <2> QED BY <2>2, QuietTurns DEF r
<1>3. ASSUME Stands(3, registrations, usedKeys)
      PROVE  Quiet(Used(move("second", "first", "user")))
  <2> DEFINE r == move("second", "first", "user")
  <2>1. /\ r.ask = "PUT" /\ r.name = "user" /\ r.cx1 = Share("first") /\ r.cx1.x = "first"
        /\ r.sig = proofBy("second", "update", "user", Share("first"))
        /\ r.newsig = proof("register", "first", "user")
    BY Requests, Proofs DEF move
  <2>2. r.newsig = Signed("first", Message("register", "here", "user", Share("first")))
    BY <2>1 DEF proof, proofBy
  <2>3. r.sig = Signed("second", Message("update", "here", "user", r.cx1))
    BY <2>1 DEF proofBy
  <2> HIDE DEF r
  <2>4. Proven(r, r.newsig)
    BY <2>1, <2>2, Proofs DEF Proven
  <2>5. Refuses(r, "cx1 already used")
    BY <1>0, <1>3, <2>1, <2>3, <2>4, UpdateRefuses
  <2> QED BY <2>5, QuietTurns DEF r
<1>4. ASSUME Stands(3, registrations, usedKeys) PROVE Quiet(Untrue(taking("first", "user")))
  <2> DEFINE r == taking("first", "user")
  <2>1. r.ask = "DELETE" /\ r.name = "user" /\ r.sig.by = "first"
    BY Requests, Proofs DEF taking, proof, proofBy
  <2> HIDE DEF r
  <2>2. Refuses(r, "invalid signature")
    BY <1>0, <1>4, <2>1, UnregisterRefuses
  <2> QED BY <2>2, QuietTurns DEF r
<1>5. ASSUME Stands(3, registrations, usedKeys) PROVE Quiet(Untrue(Mistaken))
  <2> DEFINE r == Mistaken
  <2>1. r.ask = "DELETE" /\ r.name = "user" /\ r.sig.over.domain = "elsewhere"
    BY Requests, Proofs DEF Mistaken
  <2> HIDE DEF r
  <2>2. Refuses(r, "invalid signature")
    BY <1>0, <1>5, <2>1, UnregisterRefuses
  <2> QED BY <2>2, QuietTurns DEF r
<1> QED BY <1>1, <1>2, <1>3, <1>4, <1>5

---------------------------------------------------------------------------
\* The mint keeps to the course.
Obeyed(k, i) ==
  LET done == handle(Course(k)[i].ask) IN
  /\ Alike(done.answer, Course(k)[i].says)
  /\ Stands(Phase(k, i), done.registrations, done.usedKeys)

\* A quiet turn does when it comes where nothing is to change.
LEMMA QuietObeyed ==
  ASSUME NEW k, NEW i, Quiet(Course(k)[i]), Phase(k, i) = Phase(k, i - 1),
         Stands(Phase(k, i - 1), registrations, usedKeys)
  PROVE  Obeyed(k, i)
<1> DEFINE turn == Course(k)[i]
           p == Phase(k, i)
           q == Phase(k, i - 1)
<1>1. Quiet(turn) /\ p = q /\ Stands(q, registrations, usedKeys)
  OBVIOUS
<1> HIDE DEF turn, p, q
<1>2. /\ Alike(handle(turn.ask).answer, turn.says)
      /\ Stands(p, handle(turn.ask).registrations, handle(turn.ask).usedKeys)
  BY <1>1, Zenon DEF Quiet
<1> QED BY <1>2, Zenon DEF Obeyed, turn, p

\* So does a turn that comes where its request is granted.
LEMMA GrantObeyed ==
  ASSUME NEW k, NEW i, NEW r, NEW says, NEW phase,
         Course(k)[i] = Turn(r, says), Phase(k, i) = phase, Alike(handle(r).answer, says),
         Stands(phase, handle(r).registrations, handle(r).usedKeys)
  PROVE  Obeyed(k, i)
<1>1. Course(k)[i].ask = r /\ Course(k)[i].says = says
  BY QuietTurns
<1> QED BY <1>1, Zenon DEF Obeyed

\* Until the registration,
LEMMA EarlyObeyed ==
  ASSUME Conforming, NEW k \in 1 .. 5, NEW i \in DOMAIN Course(k),
         Stands(Phase(k, i - 1), registrations, usedKeys)
  PROVE  Obeyed(k, i)
<1>1. k \in 1 .. 24 /\ i \in Nat \ {0}
  <2>1. k \in 1 .. 24
    OBVIOUS
  <2> DEFINE course == Course(k)
  <2>2. i \in DOMAIN course /\ Len(course) \in Nat /\ DOMAIN course = 1 .. Len(course)
    BY <2>1, Lists
  <2> HIDE DEF course
  <2> QED BY <2>1, <2>2
<1>2. Phase(k, i) = 1 /\ Phase(k, i - 1) = 1
  BY <1>1, Phases
<1>3. Stands(1, registrations, usedKeys) /\ 1 \in 1 .. 4 /\ 1 \in {1, 4}
  BY <1>2
<1>4. /\ Quiet(Turn(asked("payRequest", "mint"), Document(64))) /\ Quiet(Asking)
      /\ Quiet(Unknown(reading))
  BY <1>3, DocumentsQuiet
<1>5. /\ \A j \in 1 .. 5 : Quiet(Lie(j))
      /\ \A key : \A name \in {"mint", "user+tag"} : Quiet(Barred(registeringBy(key, name)))
  BY <1>3, RegistrationsQuiet
<1>6. Quiet(Course(k)[i])
  <2>1. CASE k = 1
    <3>1. Runs1(Course(1), Turn(asked("payRequest", "mint"), Document(64)))
      BY Courses
    <3> QED BY <1>4, <2>1, <3>1 DEF Runs1
  <2>2. CASE k = 2
    <3>1. Runs1(Course(2), Unknown(reading))
      BY Courses
    <3> QED BY <1>4, <2>2, <3>1 DEF Runs1
  <2>3. CASE k = 3
    <3>1. Runs2(Course(3), Asking, Asking)
      BY Courses
    <3> QED BY <1>4, <2>3, <3>1 DEF Runs2
  <2>4. CASE k = 4
    <3>1. Runs6(Course(4), Lie(1), Lie(2), Lie(3), Lie(4), Lie(5), Unknown(reading))
      BY Courses
    <3> QED BY <1>4, <1>5, <2>4, <3>1 DEF Runs6
  <2>5. CASE k = 5
    <3>1. Runs2(Course(5), Barred(registeringBy("reserver1", "mint")),
                Barred(registeringBy("reserver2", "user+tag")))
      BY Courses
    <3> QED BY <1>5, <2>5, <3>1 DEF Runs2
  <2> QED BY <2>1, <2>2, <2>3, <2>4, <2>5
<1> QED BY <1>2, <1>6, QuietObeyed

\* while the username is registered,
LEMMA FiledObeyed ==
  ASSUME Conforming, NEW k \in 7 .. 17, NEW i \in DOMAIN Course(k), Comes(k),
         Usual <= MaxSendable, Stands(Phase(k, i - 1), registrations, usedKeys)
  PROVE  Obeyed(k, i)
<1>1. k \in 1 .. 24 /\ i \in Nat \ {0}
  <2>1. k \in 1 .. 24
    OBVIOUS
  <2> DEFINE course == Course(k)
  <2>2. i \in DOMAIN course /\ Len(course) \in Nat /\ DOMAIN course = 1 .. Len(course)
    BY <2>1, Lists
  <2> HIDE DEF course
  <2> QED BY <2>1, <2>2
<1>2. Phase(k, i) = 2 /\ Phase(k, i - 1) = 2
  BY <1>1, Phases
<1>3. Stands(2, registrations, usedKeys) /\ 2 \in 1 .. 4 /\ 2 \in {2, 3}
  BY <1>2
<1>4. /\ Charges => Quiet(Unknown(reading))
      /\ ~Charges => /\ Quiet(Turn(reading, Document(0)))
                     /\ \A name \in {"USER", "user+tag"} :
                          Quiet(Turn(asked("payRequest", name), Document(0)))
                     /\ Quiet(Turn(quoteAt("user"), Invoiced))
  BY <1>3, DocumentsQuiet
<1>5. /\ Quiet(Already(registeringBy("another", "user")))
      /\ Quiet(Used(reuse(1))) /\ Quiet(Used(reuse(2)))
  BY <1>3, RegistrationsQuiet
<1>6. ~Charges => /\ \A j \in 1 .. 4 : Quiet(Half(j))
                  /\ Quiet(Unknown(move("first", "newcomer", "userc")))
  BY <1>3, MovesQuiet
<1>7. (k = 9 => Charges) /\ (k \in 10 .. 17 => ~Charges)
  BY DEF Comes
<1>8. Quiet(Course(k)[i])
  <2>1. CASE k = 7
    <3>1. Runs1(Course(7), Already(registeringBy("another", "user")))
      BY Courses
    <3> QED BY <1>5, <2>1, <3>1 DEF Runs1
  <2>2. CASE k = 8
    <3>1. Runs2(Course(8), Used(reuse(1)), Used(reuse(2)))
      BY Courses
    <3> QED BY <1>5, <2>2, <3>1 DEF Runs2
  <2>3. CASE k = 9
    <3>1. Runs1(Course(9), Unknown(reading))
      BY Courses
    <3> QED BY <1>4, <1>7, <2>3, <3>1 DEF Runs1
  <2>4. CASE k = 10
    <3>1. Runs2(Course(10), Turn(reading, Document(0)),
                Turn(asked("payRequest", "USER"), Document(0)))
      BY Courses
    <3> QED BY <1>4, <1>7, <2>4, <3>1 DEF Runs2
  <2>5. CASE k \in {11, 13, 15}
    <3>1. Runs0(Course(k))
      BY <2>5, Courses
    <3> QED BY <3>1 DEF Runs0
  <2>6. CASE k = 12
    <3>1. Runs1(Course(12), Turn(quoteAt("user"), Invoiced))
      BY Courses
    <3> QED BY <1>4, <1>7, <2>6, <3>1 DEF Runs1
  <2>7. CASE k = 14
    <3>1. Runs1(Course(14), Turn(asked("payRequest", "user+tag"), Document(0)))
      BY Courses
    <3> QED BY <1>4, <1>7, <2>7, <3>1 DEF Runs1
  <2>8. CASE k = 16
    <3>1. Runs4(Course(16), Half(1), Half(2), Half(3), Half(4))
      BY Courses
    <3> QED BY <1>6, <1>7, <2>8, <3>1 DEF Runs4
  <2>9. CASE k = 17
    <3>1. Runs1(Course(17), Unknown(move("first", "newcomer", "userc")))
      BY Courses
    <3> QED BY <1>6, <1>7, <2>9, <3>1 DEF Runs1
  <2> QED BY <2>1, <2>2, <2>3, <2>4, <2>5, <2>6, <2>7, <2>8, <2>9
<1> QED BY <1>2, <1>8, QuietObeyed

\* and where it is registered, moved and taken down.
LEMMA ChangesObeyed ==
  ASSUME Conforming, NEW k \in {6} \cup 18 .. 24, NEW i \in DOMAIN Course(k), Comes(k),
         Stands(Phase(k, i - 1), registrations, usedKeys)
  PROVE  Obeyed(k, i)
<1>1. k \in 1 .. 24 /\ i \in Nat \ {0}
  <2>1. k \in 1 .. 24
    OBVIOUS
  <2> DEFINE course == Course(k)
  <2>2. i \in DOMAIN course /\ Len(course) \in Nat /\ DOMAIN course = 1 .. Len(course)
    BY <2>1, Lists
  <2> HIDE DEF course
  <2> QED BY <2>1, <2>2
<1>2. k \in 18 .. 21 => ~Charges
  BY DEF Comes
<1>3. CASE k = 6
  <2>1. Runs1(Course(6), Turn(registeringBy("first", "user"), Registered))
    BY Courses
  <2>2. i = 1 /\ Course(k)[i] = Turn(registeringBy("first", "user"), Registered)
    BY <1>3, <2>1 DEF Runs1
  <2>3. Phase(k, i - 1) = 1 /\ Phase(k, i) = 2
    BY <1>1, <1>3, <2>2, Phases
  <2>4. LET done == handle(registeringBy("first", "user")) IN
        Alike(done.answer, Registered) /\ Stands(2, done.registrations, done.usedKeys)
    BY <2>3, RegisterGrants
  <2> QED BY <2>2, <2>3, <2>4, GrantObeyed
<1>4. CASE k = 18
  <2>1. Runs2(Course(18), Turn(move("first", "second", "user"), Yes),
              Used(move("second", "first", "user")))
    BY Courses
  <2>2. i \in 1 .. 2
    BY <1>4, <2>1 DEF Runs2
  <2>3. CASE i = 1
    <3>1. Course(k)[i] = Turn(move("first", "second", "user"), Yes)
      BY <1>4, <2>1, <2>3 DEF Runs2
    <3>2. Phase(k, i - 1) = 2 /\ Phase(k, i) = 3
      BY <1>1, <1>2, <1>4, <2>3, Phases
    <3>3. LET done == handle(move("first", "second", "user")) IN
          Alike(done.answer, Yes) /\ Stands(3, done.registrations, done.usedKeys)
      BY <1>2, <1>4, <3>2, MoveGrants
    <3> QED BY <3>1, <3>2, <3>3, GrantObeyed
  <2>4. CASE i = 2
    <3>1. Course(k)[i] = Used(move("second", "first", "user"))
      BY <1>4, <2>1, <2>4 DEF Runs2
    <3>2. Phase(k, i - 1) = 3 /\ Phase(k, i) = 3
      BY <1>1, <1>2, <1>4, <2>4, Phases
    <3>3. Quiet(Course(k)[i])
      BY <1>2, <1>4, <3>1, <3>2, MovesQuiet
    <3> QED BY <3>2, <3>3, QuietObeyed
  <2> QED BY <2>2, <2>3, <2>4
<1>5. CASE k = 19
  <2>1. Runs3(Course(19), Untrue(taking("first", "user")), Untrue(Mistaken),
              Turn(reading, Document(0)))
    BY Courses
  <2>2. Phase(k, i - 1) = 3 /\ Phase(k, i) = 3 /\ 3 \in 1 .. 4 /\ 3 \in {2, 3}
    BY <1>1, <1>2, <1>5, Phases
  <2>3. Quiet(Untrue(taking("first", "user"))) /\ Quiet(Untrue(Mistaken))
    BY <1>2, <1>5, <2>2, MovesQuiet
  <2>4. Quiet(Turn(reading, Document(0)))
    BY <1>2, <1>5, <2>2, DocumentsQuiet
  <2>5. Quiet(Course(k)[i])
    BY <1>5, <2>1, <2>3, <2>4 DEF Runs3
  <2> QED BY <2>2, <2>5, QuietObeyed
<1>6. CASE k = 20
  <2>1. Runs2(Course(20), Turn(taking("second", "user"), Yes), Unknown(reading))
    BY Courses
  <2>2. i \in 1 .. 2
    BY <1>6, <2>1 DEF Runs2
  <2>3. CASE i = 1
    <3>1. Course(k)[i] = Turn(taking("second", "user"), Yes)
      BY <1>6, <2>1, <2>3 DEF Runs2
    <3>2. Phase(k, i - 1) = 3 /\ Phase(k, i) = 4
      BY <1>1, <1>2, <1>6, <2>3, Phases
    <3>3. LET done == handle(taking("second", "user")) IN
          Alike(done.answer, Yes) /\ Stands(4, done.registrations, done.usedKeys)
      BY <1>2, <1>6, <3>2, TakingGrants
    <3> QED BY <3>1, <3>2, <3>3, GrantObeyed
  <2>4. CASE i = 2
    <3>1. Course(k)[i] = Unknown(reading)
      BY <1>6, <2>1, <2>4 DEF Runs2
    <3>2. Phase(k, i - 1) = 4 /\ Phase(k, i) = 4 /\ 4 \in 1 .. 4 /\ 4 \in {1, 4}
      BY <1>1, <1>2, <1>6, <2>4, Phases
    <3>3. Quiet(Course(k)[i])
      BY <3>1, <3>2, DocumentsQuiet
    <3> QED BY <3>2, <3>3, QuietObeyed
  <2> QED BY <2>2, <2>3, <2>4
<1>7. CASE k = 21
  <2>1. Runs1(Course(21), Used(registeringBy("first", "user")))
    BY Courses
  <2>2. Phase(k, i - 1) = 4 /\ Phase(k, i) = 4 /\ 4 \in 1 .. 4
    BY <1>1, <1>2, <1>7, Phases
  <2>3. Quiet(Used(registeringBy("first", "user")))
    BY <2>2, RegistrationsQuiet
  <2>4. Quiet(Course(k)[i])
    BY <1>7, <2>1, <2>3 DEF Runs1
  <2> QED BY <2>2, <2>4, QuietObeyed
<1>8. CASE k \in 22 .. 24
  <2>1. Runs0(Course(k))
    BY <1>8, Courses
  <2> QED BY <2>1 DEF Runs0
<1> QED BY <1>3, <1>4, <1>5, <1>6, <1>7, <1>8

---------------------------------------------------------------------------
\* A turn asks something, and is answered.
Fit(turn) == turn.ask # Nothing /\ turn.says.status \notin Unanswered
\* Each of the course is fit.
LEMMA FitTurns ==
  ASSUME NEW k \in 1 .. 24, NEW i \in DOMAIN Course(k)
  PROVE  Fit(Course(k)[i])
<1>1. \A r, says : r.ask # "nothing" /\ says.status \in {"OK", "ERROR", "payRequest", "invoice"}
                   => Fit(Turn(r, says))
  <2> TAKE r, says
  <2>1. Nothing.ask = "nothing" /\ Turn(r, says).ask = r /\ Turn(r, says).says = says
    BY DEF Turn, Nothing
  <2>2. says.status \in {"OK", "ERROR", "payRequest", "invoice"} => says.status \notin Unanswered
    BY DEF Unanswered
  <2>3. r.ask # "nothing" => r # Nothing
    BY <2>1
  <2> QED BY <2>1, <2>2, <2>3, Zenon DEF Fit
<1>2. /\ \A reason : fail(reason).status = "ERROR"
      /\ \A comment : Document(comment).status = "payRequest"
      /\ Yes.status = "OK" /\ Registered.status = "OK" /\ Invoiced.status = "invoice"
  BY Sayings
<1>3. /\ \A name, share, sig : registering(name, share, sig).ask # "nothing"
      /\ \A name, share, sig, newsig : moving(name, share, sig, newsig).ask # "nothing"
      /\ \A name, sig : leaving(name, sig).ask # "nothing"
      /\ \A name : /\ asked("payRequest", name).ask # "nothing"
                   /\ asked("OPTIONS", name).ask # "nothing" /\ quoteAt(name).ask # "nothing"
  BY Requests
<1> DEFINE Inquiring(r) == r.ask # "nothing"
<1>4. /\ \A key, name : Inquiring(registeringBy(key, name)) /\ Inquiring(taking(key, name))
      /\ \A from, to, name : Inquiring(move(from, to, name))
      /\ \A j : Inquiring(reuse(j)) /\ Inquiring(registering("user", Share("first"), BadProof(j)))
      /\ Inquiring(reading) /\ Inquiring(Mistaken)
  BY <1>3 DEF registeringBy, taking, move, reuse, reading, Mistaken
<1>5. \A j \in 1 .. 4 : Inquiring(Halfproven(j))
  BY HalvesFail
<1>6. \A r, reason : Inquiring(r) => Fit(Turn(r, fail(reason)))
  BY <1>1, <1>2
<1>7. \A r : Inquiring(r) => /\ Fit(Untrue(r)) /\ Fit(Unknown(r)) /\ Fit(Used(r)) /\ Fit(Barred(r))
                        /\ Fit(Already(r))
  BY <1>6, Zenon DEF Untrue, Unknown, Used, Barred, Already
<1>8. /\ \A name, comment : Fit(Turn(asked("payRequest", name), Document(comment)))
      /\ Fit(Asking) /\ Fit(Turn(quoteAt("user"), Invoiced))
      /\ Fit(Turn(registeringBy("first", "user"), Registered))
      /\ \A from, to : Fit(Turn(move(from, to, "user"), Yes))
      /\ Fit(Turn(taking("second", "user"), Yes))
  BY <1>1, <1>2, <1>3, <1>4 DEF Asking
<1>9. Fit(Turn(reading, Document(0)))
  BY <1>8 DEF reading
<1>10. /\ \A j : Fit(Lie(j))
       /\ \A j \in 1 .. 4 : Fit(Half(j))
  BY <1>4, <1>5, <1>7, Zenon DEF Lie, Half
<1> HIDE DEF Inquiring
<1>11. Fit(Unknown(reading)) /\ Fit(Untrue(Mistaken)) /\ \A j : Fit(Used(reuse(j)))
  BY <1>4, <1>7
<1>12. /\ \A key, name : LET r == registeringBy(key, name) IN
            Fit(Barred(r)) /\ Fit(Already(r)) /\ Fit(Used(r))
       /\ \A from, to, name : LET r == move(from, to, name) IN Fit(Unknown(r)) /\ Fit(Used(r))
       /\ Fit(Untrue(taking("first", "user")))
  BY <1>4, <1>7
<1>13. CASE k <= 5
  <2>1. /\ Runs1(Course(1), Turn(asked("payRequest", "mint"), Document(64)))
        /\ Runs1(Course(2), Unknown(reading)) /\ Runs2(Course(3), Asking, Asking)
        /\ Runs6(Course(4), Lie(1), Lie(2), Lie(3), Lie(4), Lie(5), Unknown(reading))
        /\ Runs2(Course(5), Barred(registeringBy("reserver1", "mint")),
                            Barred(registeringBy("reserver2", "user+tag")))
    BY Courses
  <2>2. k = 1 \/ k = 2 \/ k = 3 \/ k = 4 \/ k = 5
    BY <1>13
  <2> QED BY <1>8, <1>10, <1>11, <1>12, <2>1, <2>2 DEF Runs1, Runs2, Runs6
<1>14. CASE k > 5 /\ k <= 10
  <2>1. /\ Runs1(Course(6), Turn(registeringBy("first", "user"), Registered))
        /\ Runs1(Course(7), Already(registeringBy("another", "user")))
        /\ Runs2(Course(8), Used(reuse(1)), Used(reuse(2)))
        /\ Runs1(Course(9), Unknown(reading))
        /\ Runs2(Course(10), Turn(reading, Document(0)), Turn(asked("payRequest", "USER"), Document(0)))
    BY Courses
  <2>2. k = 6 \/ k = 7 \/ k = 8 \/ k = 9 \/ k = 10
    BY <1>14
  <2> QED BY <1>8, <1>9, <1>11, <1>12, <2>1, <2>2 DEF Runs1, Runs2
<1>15. CASE k > 10 /\ k <= 15
  <2>1. /\ Runs1(Course(12), Turn(quoteAt("user"), Invoiced))
        /\ Runs1(Course(14), Turn(asked("payRequest", "user+tag"), Document(0)))
        /\ Runs0(Course(11)) /\ Runs0(Course(13)) /\ Runs0(Course(15))
    BY Courses
  <2>2. k = 11 \/ k = 12 \/ k = 13 \/ k = 14 \/ k = 15
    BY <1>15
  <2> QED BY <1>8, <2>1, <2>2 DEF Runs0, Runs1
<1>16. CASE k > 15 /\ k <= 19
  <2>1. /\ Runs4(Course(16), Half(1), Half(2), Half(3), Half(4))
        /\ Runs1(Course(17), Unknown(move("first", "newcomer", "userc")))
        /\ Runs2(Course(18), Turn(move("first", "second", "user"), Yes),
                 Used(move("second", "first", "user")))
        /\ Runs3(Course(19), Untrue(taking("first", "user")), Untrue(Mistaken),
                 Turn(reading, Document(0)))
    BY Courses
  <2>2. k = 16 \/ k = 17 \/ k = 18 \/ k = 19
    BY <1>16
  <2> QED BY <1>8, <1>9, <1>10, <1>11, <1>12, <2>1, <2>2 DEF Runs1, Runs2, Runs3, Runs4
<1>17. CASE k > 19
  <2>1. /\ Runs2(Course(20), Turn(taking("second", "user"), Yes), Unknown(reading))
        /\ Runs1(Course(21), Used(registeringBy("first", "user")))
        /\ Runs0(Course(22)) /\ Runs0(Course(23)) /\ Runs0(Course(24))
    BY Courses
  <2>2. k = 20 \/ k = 21 \/ k = 22 \/ k = 23 \/ k = 24
    BY <1>17
  <2> QED BY <1>8, <1>11, <1>12, <2>1, <2>2 DEF Runs0, Runs1, Runs2
<1> QED BY <1>13, <1>14, <1>15, <1>16, <1>17

\* Every turn of the course is obeyed in its place.
LEMMA CourseObeyed ==
  ASSUME Conforming, Usual <= MaxSendable, NEW k \in 1 .. 24, Comes(k),
         NEW i \in DOMAIN Course(k), Stands(Phase(k, i - 1), registrations, usedKeys)
  PROVE  Obeyed(k, i)
<1>1. k \in 1 .. 5 \/ k \in 7 .. 17 \/ k \in {6} \cup 18 .. 24
  OBVIOUS
<1> QED BY <1>1, EarlyObeyed, FiledObeyed, ChangesObeyed

---------------------------------------------------------------------------
\* The option a mint was started with is all that the course depends on.
LEMMA Fixed ==
  ASSUME UNCHANGED fault
  PROVE  /\ Charges' = Charges /\ Conforming' = Conforming
         /\ \A k, i : Phase(k, i)' = Phase(k, i)
         /\ \A k : Course(k)' = Course(k) /\ (Comes(k)' <=> Comes(k))
         /\ \A phase, map, used : Stands(phase, map, used)' <=> Stands(phase, map, used)
         /\ \A memory, k, i : Recalls(memory, k, i)' <=> Recalls(memory, k, i)
<1>1. addressFee' = addressFee /\ Conforming' = Conforming
  BY DEF addressFee, Conforming
<1>2. Charges' = Charges
  BY <1>1 DEF Charges
<1>3. \A k, i : Phase(k, i)' = Phase(k, i)
  BY <1>2 DEF Phase
<1>4. \A k : Course(k)' = Course(k)
  <2>1. Registered' = Registered
    BY <1>1 DEF Registered
  <2> QED BY <2>1 DEF Course
<1>5. \A k : Comes(k)' <=> Comes(k)
  BY <1>2 DEF Comes
<1>6. \A phase, map, used : Stands(phase, map, used)' <=> Stands(phase, map, used)
  BY <1>1 DEF Stands, Serves
<1>7. \A memory, k, i : Recalls(memory, k, i)' <=> Recalls(memory, k, i)
  <2> TAKE memory, k, i
  <2>1. Phase(k, i)' = Phase(k, i)
    BY <1>3
  <2> QED BY <1>2, <2>1, Zenon DEF Recalls, Knowing
<1> QED BY <1>1, <1>2, <1>3, <1>4, <1>5, <1>6, <1>7

\* The waits are some number.
LEMMA CountedWaits == ASSUME suffered \in Seq(Hazards) PROVE Waits \in Nat
<1> DEFINE W == {i \in DOMAIN suffered : suffered[i] = "limited"}
<1>1. IsFiniteSet(1 .. Len(suffered)) /\ W \subseteq 1 .. Len(suffered)
  BY FS_Interval
<1>2. IsFiniteSet(W)
  BY <1>1, FS_Subset
<1>3. Waits = Cardinality(W)
  BY DEF Waits
<1> QED BY <1>2, <1>3, FS_CardinalityType

\* One trouble more is one wait more, or none; and who is patient with all of
\* them was patient before.
LEMMA OneTrouble ==
  ASSUME suffered \in Seq(Hazards), NEW trouble, Suffers(trouble)
  PROVE  /\ suffered' \in Seq(Hazards)
         /\ Waits \in Nat /\ Waits' = Waits + (IF trouble = "limited" THEN 1 ELSE 0)
         /\ Patient' => Patient /\ trouble \in {"resent", "limited"} /\ Waits' <= Retries
<1> DEFINE W == {i \in DOMAIN suffered : suffered[i] = "limited"}
           V == {i \in DOMAIN suffered' : suffered'[i] = "limited"}
           l == Len(suffered)
<1>0. trouble \in Hazards /\ suffered' = Append(suffered, trouble)
  BY DEF Suffers
<1>1. l \in Nat /\ DOMAIN suffered = 1 .. l
  OBVIOUS
<1>2. /\ suffered' \in Seq(Hazards) /\ DOMAIN suffered' = 1 .. l + 1
      /\ \A i \in 1 .. l : suffered'[i] = suffered[i]
      /\ suffered'[l + 1] = trouble
  BY <1>0, <1>1
<1>3. IsFiniteSet(W) /\ Cardinality(W) \in Nat
  <2>1. IsFiniteSet(1 .. l)
    BY <1>1, FS_Interval
  <2> QED BY <1>1, <2>1, FS_Subset, FS_CardinalityType
<1>4. l + 1 \notin W
  BY <1>1
<1>5. V = IF trouble = "limited" THEN W \cup {l + 1} ELSE W
  <2>1. \A i : i \in 1 .. l + 1 <=> i \in 1 .. l \/ i = l + 1
    BY <1>1
  <2>2. \A i : i \in V <=> (i \in 1 .. l /\ suffered[i] = "limited") \/ (i = l + 1 /\ trouble = "limited")
    BY <1>1, <1>2, <2>1
  <2>3. \A i : i \in W <=> (i \in 1 .. l /\ suffered[i] = "limited")
    BY <1>1
  <2> HIDE DEF V, W
  <2> QED BY <2>2, <2>3
<1>6. Waits = Cardinality(W) /\ Waits' = Cardinality(V)
  BY DEF Waits
<1> HIDE DEF W, V
<1>7. Cardinality(W \cup {l + 1}) = Cardinality(W) + 1
  BY <1>3, <1>4, FS_AddElement
<1>8. Waits \in Nat /\ Waits' = Waits + (IF trouble = "limited" THEN 1 ELSE 0)
  BY <1>3, <1>5, <1>6, <1>7
<1>9. ASSUME Patient' PROVE Patient /\ trouble \in {"resent", "limited"} /\ Waits' <= Retries
  <2>1. Waits' <= Retries /\ \A i \in DOMAIN suffered' : suffered'[i] \in {"resent", "limited"}
    BY <1>9 DEF Patient, OnlySuffered, Waits
  <2>2. \A i \in DOMAIN suffered : suffered[i] \in {"resent", "limited"}
    <3> TAKE i \in DOMAIN suffered
    <3>1. i \in 1 .. l /\ i \in 1 .. l + 1
      BY <1>1
    <3> QED BY <1>2, <2>1, <3>1
  <2>3. trouble \in {"resent", "limited"}
    <3>1. l + 1 \in 1 .. l + 1
      BY <1>1
    <3> QED BY <1>2, <2>1, <3>1
  <2>4. Waits <= Retries
    BY <1>8, <2>1 DEF Retries
  <2> QED BY <2>1, <2>2, <2>3, <2>4 DEF Patient, OnlySuffered, Waits
<1> QED BY <1>2, <1>8, <1>9

\* No trouble more is no wait more.
LEMMA NoTrouble ==
  ASSUME UNCHANGED suffered PROVE Waits' = Waits /\ (Patient' <=> Patient)
BY DEF Waits, Patient, OnlySuffered

\* On the course, every request in flight is a turn of it.
LEMMA InTurn ==
  ASSUME NEW k \in 1 .. 24, OnCourse(k)
  PROVE  /\ Len(log) \in Nat /\ DOMAIN log = 1 .. Len(log)
         /\ \A i \in 1 .. Len(log) : /\ i \in DOMAIN Course(k) /\ Alike(log[i], Course(k)[i].says)
                                     /\ log[i].status \notin Unanswered
         /\ ask # Nothing => LET i == Len(log) + 1 IN
              i \in DOMAIN Course(k) /\ ask = Course(k)[i].ask /\ i - 1 = Len(log)
<1> DEFINE course == Course(k)
           l == Len(log)
<1>1. l \in Nat /\ DOMAIN log = 1 .. l
  <2>1. log \in Seq({log[i] : i \in DOMAIN log})
    BY DEF OnCourse, Heard
  <2> QED BY <2>1
<1>2. Len(course) \in Nat /\ DOMAIN course = 1 .. Len(course)
  BY Lists
<1>3. /\ l <= Len(course) /\ \A i \in 1 .. l : Alike(log[i], course[i].says)
      /\ ask # Nothing => l < Len(course) /\ ask = course[l + 1].ask
  BY DEF OnCourse, Heard, Sent
<1>4. \A i \in DOMAIN course : course[i].says.status \notin Unanswered
  BY FitTurns DEF Fit
<1> HIDE DEF course, l
<1>5. \A i \in 1 .. l : /\ i \in DOMAIN course /\ Alike(log[i], course[i].says)
                        /\ log[i].status \notin Unanswered
  <2> TAKE i \in 1 .. l
  <2>1. i \in DOMAIN course
    BY <1>1, <1>2, <1>3
  <2>2. Alike(log[i], course[i].says)
    BY <1>3
  <2> QED BY <1>4, <2>1, <2>2 DEF Alike
<1>6. ask # Nothing => l + 1 \in DOMAIN course /\ ask = course[l + 1].ask /\ (l + 1) - 1 = l
  BY <1>1, <1>2, <1>3
<1> QED BY <1>1, <1>5, <1>6 DEF course, l

\* It is still on it when it is held up,
LEMMA HeldUpOnCourse ==
  ASSUME NEW k \in 1 .. 24, OnCourse(k), ask # Nothing,
         UNCHANGED <<fault, plan, log, ask, g, registrations, usedKeys>>
  PROVE  OnCourse(k)'
<1>1. Acted' = Acted
  BY DEF Acted
<1>2. plan' = Stage(k) /\ Comes(k)'
  BY Fixed DEF OnCourse
<1>3. Heard(k)' /\ Sent(k)'
  BY Fixed DEF OnCourse, Heard, Sent
<1>4. Stands(Phase(k, Len(log)), registrations, usedKeys)'
  BY Fixed DEF OnCourse
<1>5. Recalls(g, k, Acted)'
  BY <1>1, Fixed DEF OnCourse
<1> QED BY <1>2, <1>3, <1>4, <1>5 DEF OnCourse

\* and when it is answered.
LEMMA AnsweredOnCourse ==
  ASSUME Conforming, Usual <= MaxSendable, NEW k \in 1 .. 24, OnCourse(k), Deliver,
         UNCHANGED <<fault, g>>
  PROVE  OnCourse(k)'
<1> DEFINE done == handle(ask)
           course == Course(k)
           l == Len(log)
           S == {log[i] : i \in DOMAIN log}
<1>1. /\ ask # Nothing /\ ask' = Nothing /\ log' = Append(log, done.answer) /\ plan' = plan
      /\ registrations' = done.registrations /\ usedKeys' = done.usedKeys
  BY DEF Deliver, Reaches, Delivered, Read
<1>2. /\ l \in Nat /\ l + 1 \in DOMAIN course /\ ask = course[l + 1].ask /\ (l + 1) - 1 = l
  BY <1>1, InTurn, Zenon
<1>3. Stands(Phase(k, l), registrations, usedKeys) /\ Comes(k)
  BY DEF OnCourse
<1>4. Obeyed(k, l + 1)
  <2> DEFINE i == l + 1
  <2>1. i \in DOMAIN course /\ Stands(Phase(k, i - 1), registrations, usedKeys)
    BY <1>2, <1>3, Zenon
  <2> HIDE DEF i
  <2>2. Obeyed(k, i)
    BY <1>3, <2>1, CourseObeyed
  <2> QED BY <2>2 DEF i
<1>5. /\ Alike(done.answer, course[l + 1].says)
      /\ Stands(Phase(k, l + 1), registrations', usedKeys')
  BY <1>1, <1>2, <1>4, Zenon DEF Obeyed
<1> HIDE DEF done
<1>6. /\ log' \in Seq({log'[i] : i \in DOMAIN log'}) /\ Len(log') = l + 1
      /\ \A i \in 1 .. l : log'[i] = log[i]
      /\ log'[l + 1] = done.answer
  <2>1. log \in Seq(S)
    BY DEF OnCourse, Heard
  <2>2. log \in Seq(S \cup {done.answer})
    BY <2>1
  <2> HIDE DEF S
  <2>3. /\ log' \in Seq(S \cup {done.answer}) /\ Len(log') = l + 1
        /\ \A i \in 1 .. l : log'[i] = log[i]
        /\ log'[l + 1] = done.answer
    BY <1>1, <1>2, <2>2
  <2> QED BY <2>3
<1>7. /\ Len(course) \in Nat /\ DOMAIN course = 1 .. Len(course)
      /\ \A i \in 1 .. l : Alike(log[i], course[i].says)
  BY Lists DEF OnCourse, Heard
<1> HIDE DEF course, S
<1>8. /\ l + 1 <= Len(course)
      /\ \A i \in 1 .. l + 1 : Alike(log'[i], course[i].says)
  <2>1. l + 1 <= Len(course)
    BY <1>2, <1>7
  <2>2. ASSUME NEW i \in 1 .. l + 1 PROVE Alike(log'[i], course[i].says)
    <3>1. i \in 1 .. l \/ i = l + 1
      BY <1>2
    <3> QED BY <1>5, <1>6, <1>7, <3>1
  <2> QED BY <2>1, <2>2
<1>9. Course(k)' = course
  BY Fixed DEF course
<1>10. Heard(k)' /\ Sent(k)'
  <2>1. Heard(k)'
    BY <1>6, <1>8, <1>9 DEF Heard
  <2> QED BY <1>1, <2>1 DEF Sent
<1>11. Stands(Phase(k, Len(log)), registrations, usedKeys)'
  BY <1>5, <1>6, Fixed
<1>12. Recalls(g, k, Acted)'
  <2>1. Acted = l /\ Acted' = l
    <3>1. Len(log') - 1 = l /\ Len(log') > 0
      BY <1>2, <1>6
    <3> QED BY <1>1, <3>1, Zenon DEF Acted
  <2>2. Recalls(g, k, l)
    BY <2>1 DEF OnCourse
  <2> HIDE DEF l
  <2>3. Recalls(g', k, Acted')
    BY <2>1, <2>2
  <2> QED BY <2>3, Fixed
<1>13. plan' = Stage(k) /\ Comes(k)'
  BY <1>1, Fixed DEF OnCourse
<1> QED BY <1>10, <1>11, <1>12, <1>13 DEF OnCourse

\* So whatever HTTP does to a request, short of losing it.
LEMMA HttpKeepsCourse ==
  ASSUME Usual <= MaxSendable, CourseInv, Http PROVE CourseInv'
<1> SUFFICES ASSUME target = "registration" PROVE CourseInv'
  BY DEF Http, CourseInv
<1>0. UNCHANGED <<fault, g, target>> /\ (Conforming' <=> Conforming) /\ suffered \in Seq(Hazards)
  BY Fixed DEF Http, CourseInv
<1>1. ASSUME Steady', Deliver PROVE CourseInv'
  <2>1. UNCHANGED <<suffered, tries, report>> /\ Waits' = Waits /\ (Patient' <=> Patient)
    BY <1>1, NoTrouble DEF Deliver, Delivered
  <2>2. Steady
    BY <1>0, <1>1, <2>1 DEF Steady
  <2>3. PICK k \in 1 .. 24 : OnCourse(k)
    BY <2>2 DEF CourseInv
  <2>4. OnCourse(k)'
    BY <1>0, <1>1, <2>2, <2>3, AnsweredOnCourse DEF Steady
  <2>5. tries \in Nat /\ tries + Waits >= Retries /\ Unblamed
    BY <2>2 DEF CourseInv
  <2>6. Unblamed'
    BY <1>0, <2>1, <2>5, Fixed DEF Unblamed
  <2> QED BY <1>0, <2>1, <2>3, <2>4, <2>5, <2>6 DEF CourseInv, Retries
<1>2. ASSUME Steady', NEW trouble, Suffers(trouble)
      PROVE  /\ Steady /\ trouble \in {"resent", "limited"} /\ suffered' \in Seq(Hazards)
             /\ Waits \in Nat /\ Waits' = Waits + (IF trouble = "limited" THEN 1 ELSE 0)
             /\ Waits' <= Retries
  BY <1>0, <1>2, OneTrouble DEF Steady
<1>3. ASSUME Steady', NEW trouble, Suffers(trouble),
             UNCHANGED <<plan, log, ask, report, registrations, usedKeys>>,
             tries' \in Nat, tries' + Waits' >= Retries
      PROVE  CourseInv'
  <2>1. Steady /\ suffered' \in Seq(Hazards) /\ ask # Nothing
    BY <1>2, <1>3 DEF Suffers
  <2>2. PICK k \in 1 .. 24 : OnCourse(k)
    BY <2>1 DEF CourseInv
  <2>3. OnCourse(k)'
    BY <1>0, <1>3, <2>1, <2>2, HeldUpOnCourse
  <2>4. Unblamed'
    BY <1>0, <1>3, <2>1, Fixed DEF CourseInv, Unblamed
  <2> QED BY <1>3, <2>1, <2>2, <2>3, <2>4 DEF CourseInv
<1>4. ASSUME Steady', Reaches /\ ask.ask \notin {"POST", "PUT", "DELETE"} /\ Resent PROVE CourseInv'
  <2>1. /\ Suffers("resent") /\ UNCHANGED <<plan, log, ask, report, tries>>
        /\ UNCHANGED <<registrations, usedKeys>>
    BY <1>4, RepeatsWriteNothing DEF Resent
  <2>2. /\ Steady /\ Waits \in Nat /\ Waits' = Waits
    BY <1>2, <1>4, <2>1
  <2>3. tries' \in Nat /\ tries' + Waits' >= Retries
    BY <2>1, <2>2 DEF CourseInv
  <2> QED BY <1>3, <1>4, <2>1, <2>3
<1>5. ASSUME Steady', Unreached /\ Limited PROVE CourseInv'
  <2>1. /\ Suffers("limited") /\ UNCHANGED <<plan, report, registrations, usedKeys>>
        /\ IF retry THEN tries' = tries - 1 /\ UNCHANGED <<log, ask>> ELSE TRUE
    BY <1>5 DEF Limited, LimitedBy, Unreached
  <2>2. /\ Steady /\ Waits \in Nat /\ Waits' = Waits + 1 /\ Waits' <= Retries
    BY <1>2, <1>5, <2>1
  <2>3. tries \in Nat /\ tries + Waits >= Retries
    BY <2>2 DEF CourseInv
  <2>4. retry
    BY <2>2, <2>3 DEF retry, Retries
  <2>5. tries' \in Nat /\ tries' + Waits' >= Retries /\ UNCHANGED <<log, ask>>
    BY <2>1, <2>2, <2>3, <2>4 DEF retry, Retries
  <2> QED BY <1>3, <1>5, <2>1, <2>5
<1>6. ASSUME Steady', ReplyLost \/ RequestLost \/ LimitedNotJson PROVE FALSE
  <2>1. \/ Suffers("replyLost") \/ Suffers("requestLost") \/ Suffers("limitedNotJson")
    BY <1>6, Zenon DEF ReplyLost, RequestLost, LimitedNotJson
  <2> QED BY <1>2, <1>6, <2>1
<1>7. suffered' \in Seq(Hazards)
  <2>1. UNCHANGED suffered \/ \E trouble : Suffers(trouble)
    BY Zenon DEF Http, Deliver, Delivered, Resent, ReplyLost, RequestLost, Limited, LimitedBy,
       LimitedNotJson
  <2> QED BY <1>0, <2>1, OneTrouble
<1>8. ASSUME Steady' PROVE CourseInv'
  BY <1>1, <1>4, <1>5, <1>6, <1>8, Zenon DEF Http
<1> QED BY <1>7, <1>8 DEF CourseInv

---------------------------------------------------------------------------
\* What a grader on the course finds where it acts.
LEMMA Scene ==
  ASSUME NEW k \in 1 .. 24, OnCourse(k), ask = Nothing
  PROVE  /\ n \in Nat /\ n <= Len(Course(k)) /\ plan = Stage(k) /\ Comes(k)
         /\ Stands(Phase(k, n), registrations, usedKeys)
         /\ n = 0 => Recalls(g, k, 0)
         /\ n > 0 => /\ Recalls(g, k, n - 1) /\ Alike(body, Course(k)[n].says)
                     /\ body.status \notin Unanswered
         /\ \A i \in 1 .. n : Alike(log[i], Course(k)[i].says)
<1>1. /\ n \in Nat
      /\ \A i \in 1 .. n : Alike(log[i], Course(k)[i].says) /\ log[i].status \notin Unanswered
  BY InTurn DEF n
<1>2. n <= Len(Course(k))
  BY DEF OnCourse, Heard, n
<1>3. Acted = (IF n > 0 THEN n - 1 ELSE 0) /\ Recalls(g, k, Acted)
  <2>1. Acted = IF n > 0 THEN n - 1 ELSE n
    BY DEF Acted, n
  <2> QED BY <1>1, <2>1 DEF OnCourse
<1>4. (n = 0 => Recalls(g, k, 0)) /\ (n > 0 => Recalls(g, k, n - 1))
  <2>1. (n = 0 => Acted = 0) /\ (n > 0 => Acted = n - 1)
    BY <1>1, <1>3
  <2> QED BY <1>3, <2>1, Zenon
<1>5. n > 0 => n \in 1 .. n
  BY <1>1
<1>6. n > 0 => Alike(body, Course(k)[n].says) /\ body.status \notin Unanswered
  BY <1>1, <1>5, Zenon DEF body
<1>7. Stands(Phase(k, n), registrations, usedKeys) /\ plan = Stage(k) /\ Comes(k)
  BY DEF OnCourse, n
<1> QED BY <1>1, <1>2, <1>4, <1>6, <1>7

\* The check under way tells how far it has come.
LEMMA Located ==
  ASSUME NEW k \in 1 .. 24, plan = Stage(k), NEW m \in 1 .. 23, at = Order[m]
  PROVE  k = m
<1>1. k # 24
  BY FirstOfStage, Periods DEF at
<1>2. at = Order[k] /\ k \in 1 .. 23
  <2>1. plan # << >> /\ plan[1] = Order[k]
    BY <1>1, FirstOfStage
  <2>2. at = Order[k]
    BY <2>1, Zenon DEF at
  <2> QED BY <1>1, <2>2
<1> QED BY <1>2, Distinct

\* What the answers of the course say to it.
Refusal(answer, reason) ==
  answer.status = "ERROR" /\ answer.reason = reason /\ answer.pr = 0 /\ answer.cors = TRUE
Shown(answer, comment) ==
  /\ answer.status = "payRequest" /\ answer.link = "/w" /\ answer.base = 0
  /\ answer.comment = comment /\ answer.hint = FALSE
\* It is what they are meant to say.
LEMMA Hearing ==
  ASSUME NEW answer
  PROVE  /\ \A r : Alike(answer, Untrue(r).says) => Refusal(answer, "invalid signature")
         /\ \A r : Alike(answer, Unknown(r).says) => Refusal(answer, "unknown user")
         /\ \A r : Alike(answer, Used(r).says) => Refusal(answer, "cx1 already used")
         /\ \A r : Alike(answer, Barred(r).says) => Refusal(answer, "username not allowed")
         /\ \A r : Alike(answer, Already(r).says) => Refusal(answer, "already registered")
         /\ \A comment : Alike(answer, Document(comment)) => Shown(answer, comment)
         /\ Alike(answer, Yes) => answer.status = "OK" /\ answer.pr = 0 /\ answer.cors = TRUE
         /\ Alike(answer, Registered)
            => answer.status = "OK" /\ answer.pr = addressFee /\ answer.cors = TRUE
         /\ Alike(answer, Invoiced) => answer.status = "invoice" /\ answer.pr = Usually
<1>1. \A reason : Alike(answer, fail(reason)) => Refusal(answer, reason)
  BY Sayings DEF Alike, Refusal
<1>2. \A r, says : Turn(r, says).says = says
  BY QuietTurns
<1>3. /\ \A r : Alike(answer, Untrue(r).says) => Refusal(answer, "invalid signature")
      /\ \A r : Alike(answer, Unknown(r).says) => Refusal(answer, "unknown user")
      /\ \A r : Alike(answer, Used(r).says) => Refusal(answer, "cx1 already used")
      /\ \A r : Alike(answer, Barred(r).says) => Refusal(answer, "username not allowed")
      /\ \A r : Alike(answer, Already(r).says) => Refusal(answer, "already registered")
  BY <1>1, <1>2, Zenon DEF Untrue, Unknown, Used, Barred, Already
<1>4. \A comment : Alike(answer, Document(comment)) => Shown(answer, comment)
  BY Sayings DEF Alike, Shown
<1>5. /\ Alike(answer, Yes) => answer.status = "OK" /\ answer.pr = 0 /\ answer.cors = TRUE
      /\ Alike(answer, Registered)
         => answer.status = "OK" /\ answer.pr = addressFee /\ answer.cors = TRUE
      /\ Alike(answer, Invoiced) => answer.status = "invoice" /\ answer.pr = Usually
  BY Sayings DEF Alike
<1> QED BY <1>3, <1>4, <1>5

\* It remembers what it did when it keeps its memory, or notes one more answer
\* that a web page may read.
LEMMA Reminded ==
  ASSUME NEW k, NEW i, NEW m, NEW j, Recalls(g, k, i), Phase(m, j) = Phase(k, i),
         m > 1 => k > 1, Reader(m, j) => Reader(k, i)
  PROVE  /\ Keep /\ (Heedless(m, j) <=> Heedless(k, i)) => Recalls(g', m, j)
         /\ Noted /\ body.cors = TRUE /\ ~Heedless(m, j) => Recalls(g', m, j)
<1>1. Keep /\ (Heedless(m, j) <=> Heedless(k, i)) => Recalls(g', m, j)
  BY Zenon DEF Recalls, Keep
<1>2. ASSUME Noted, body.cors = TRUE, ~Heedless(m, j) PROVE Recalls(g', m, j)
  <2> DEFINE heard == body.cors
  <2>1. g' = [g EXCEPT !.cors = g.cors \cup {heard}] /\ Fields \subseteq DOMAIN g
    BY <1>2 DEF Noted, Noting, Recalls, Knowing
  <2>2. heard = TRUE
    BY <1>2
  <2> HIDE DEF heard
  <2>3. /\ DOMAIN g' = DOMAIN g /\ g'.cors = g.cors \cup {heard}
        /\ g'.mint = g.mint /\ g'.pay = g.pay /\ g'.registered = g.registered
        /\ g'.held = g.held /\ g'.onFile = g.onFile
    BY <2>1 DEF Fields
  <2>4. g.cors = {} \/ g.cors = {TRUE}
    BY DEF Recalls
  <2>5. {} \cup {heard} = {TRUE} /\ {TRUE} \cup {heard} = {TRUE}
    BY <2>2
  <2>6. g'.cors = {TRUE}
    BY <2>3, <2>4, <2>5, Zenon
  <2>7. Knowing(g', Phase(m, j))
    BY <2>3, Zenon DEF Recalls, Knowing
  <2> QED BY <1>2, <2>3, <2>6, <2>7, Zenon DEF Recalls
<1> QED BY <1>1, <1>2

\* To stay on the course, it sends the next request of the check, or ends it
\* with nothing to blame and goes on to the next that it comes to.
Fair(verdicts) ==
  \A check \in DOMAIN verdicts : verdicts[check] = "pass" \/ (Charges /\ verdicts[check] = "skip")
Moving(k, m) ==
  /\ n = Len(Course(k)) /\ Comes(m) /\ Phase(m, 0) = Phase(k, n) /\ Recalls(g', m, 0)
  /\ \E verdicts : Leave(Stage(m), verdicts) /\ Fair(verdicts)
Advances(k) ==
  \/ n < Len(Course(k)) /\ Ask(Course(k)[n + 1].ask) /\ Recalls(g', k, n)
  \/ \E m \in 2 .. 24 : Moving(k, m)

\* Most checks end in the next.
LEMMA Passing ==
  ASSUME NEW k \in 1 .. 23, plan = Stage(k), n = Len(Course(k)), Verdict("pass"), Comes(k + 1),
         Phase(k + 1, 0) = Phase(k, n), Recalls(g', k + 1, 0)
  PROVE  Advances(k)
<1>1. Leave(Stage(k + 1), Only("pass"))
  BY TailOfStage, Zenon DEF Verdict
<1>2. Fair(Only("pass"))
  BY DEF Fair, Only
<1>3. k + 1 \in 2 .. 24
  OBVIOUS
<1>4. Moving(k, k + 1)
  BY <1>1, <1>2, Zenon DEF Moving
<1> QED BY <1>3, <1>4, Zenon DEF Advances

\* So it stays on it.
LEMMA AdvancesOnCourse ==
  ASSUME target = "registration", CourseInv, UNCHANGED mintVars, UNCHANGED target,
         Steady, NEW k \in 1 .. 24, OnCourse(k), ask = Nothing, Advances(k)
  PROVE  CourseInv'
<1>0. /\ UNCHANGED <<fault, registrations, usedKeys>> /\ suffered \in Seq(Hazards)
      /\ tries \in Nat /\ tries + Waits >= Retries /\ Unblamed
      /\ Stands(Phase(k, n), registrations, usedKeys) /\ plan = Stage(k) /\ Comes(k) /\ n \in Nat
  BY Scene, Zenon DEF mintVars, CourseInv
<1>1. CASE n < Len(Course(k)) /\ Ask(Course(k)[n + 1].ask) /\ Recalls(g', k, n)
  <2> DEFINE course == Course(k)
  <2>1. /\ ask' = course[n + 1].ask /\ tries' = Retries /\ UNCHANGED <<plan, log, report, suffered>>
    BY <1>1, Zenon DEF Ask
  <2>2. n < Len(course) /\ Recalls(g', k, n)
    BY <1>1
  <2>3. Len(course) \in Nat /\ DOMAIN course = 1 .. Len(course)
    BY Lists
  <2>4. Course(k)' = course
    BY <1>0, Fixed
  <2>5. course[n + 1].ask # Nothing
    <3>1. \A i \in DOMAIN course : course[i].ask # Nothing
      BY FitTurns DEF Fit
    <3>2. n + 1 \in DOMAIN course
      <4> HIDE DEF course
      <4> QED BY <1>0, <2>2, <2>3
    <3> QED BY <3>1, <3>2
  <2> HIDE DEF course
  <2>6. Heard(k)'
    <3>1. Heard(k)
      BY DEF OnCourse
    <3> QED BY <2>1, <2>4, <3>1 DEF Heard, course
  <2>7. Sent(k)'
    BY <2>1, <2>2, <2>4 DEF Sent, n
  <2>8. Acted' = n
    BY <2>1, <2>5 DEF Acted, n
  <2>9. Recalls(g, k, Acted)'
    <3>1. Recalls(g', k, Acted')
      BY <2>2, <2>8
    <3> QED BY <1>0, <3>1, Fixed
  <2>10. Stands(Phase(k, Len(log)), registrations, usedKeys)'
    <3>1. Stands(Phase(k, Len(log')), registrations', usedKeys')
      BY <1>0, <2>1 DEF n
    <3> QED BY <1>0, <3>1, Fixed
  <2>11. OnCourse(k)'
    BY <1>0, <2>1, <2>6, <2>7, <2>9, <2>10, Fixed DEF OnCourse
  <2>12. Unblamed'
    BY <1>0, <2>1, Fixed DEF Unblamed
  <2>13. Waits' = Waits /\ Waits \in Nat
    <3>1. Waits' = Waits
      BY <2>1, NoTrouble
    <3>2. Waits \in Nat
      BY <1>0, CountedWaits
    <3> QED BY <3>1, <3>2
  <2>14. tries' \in Nat /\ tries' + Waits' >= Retries /\ suffered' \in Seq(Hazards)
    BY <1>0, <2>1, <2>13 DEF Retries
  <2> QED BY <2>11, <2>12, <2>14 DEF CourseInv
<1>2. ASSUME NEW m \in 2 .. 24, Moving(k, m) PROVE CourseInv'
  <2>1. PICK verdicts : Leave(Stage(m), verdicts) /\ Fair(verdicts)
    BY <1>2 DEF Moving
  <2>2. /\ plan' = Stage(m) /\ log' = << >> /\ ask' = Nothing /\ UNCHANGED <<tries, suffered>>
    BY <2>1, Zenon DEF Leave
  <2>3. report' = [check \in DOMAIN report \cup DOMAIN verdicts |->
                     IF check \in DOMAIN report THEN report[check] ELSE verdicts[check]]
    BY <2>1, Zenon DEF Leave
  <2>4. Unblamed'
    BY <1>0, <2>1, <2>3, Fixed DEF Unblamed, Fair
  <2>5. Comes(m) /\ Phase(m, 0) = Phase(k, n) /\ Recalls(g', m, 0)
    BY <1>2 DEF Moving
  <2>6. Len(log') = 0 /\ log' \in Seq({log'[i] : i \in DOMAIN log'}) /\ DOMAIN log' = {}
    BY <2>2
  <2>7. Acted' = 0
    BY <2>6 DEF Acted
  <2>8. m \in 1 .. 24 /\ Len(Course(m)) \in Nat
    <3>1. m \in 1 .. 24
      OBVIOUS
    <3> QED BY <3>1, Lists
  <2>9. Heard(m)' /\ Sent(m)'
    <3>1. Course(m)' = Course(m)
      BY <1>0, Fixed
    <3> QED BY <2>2, <2>6, <2>8, <3>1 DEF Heard, Sent
  <2>10. Recalls(g, m, Acted)'
    <3>1. Recalls(g', m, Acted')
      BY <2>5, <2>7
    <3> QED BY <1>0, <3>1, Fixed
  <2>11. Stands(Phase(m, Len(log)), registrations, usedKeys)'
    <3>1. Stands(Phase(m, Len(log')), registrations', usedKeys')
      BY <1>0, <2>5, <2>6
    <3> QED BY <1>0, <3>1, Fixed
  <2>12. OnCourse(m)'
    BY <1>0, <2>2, <2>5, <2>9, <2>10, <2>11, Fixed DEF OnCourse
  <2>13. Waits' = Waits
    BY <2>2, NoTrouble
  <2> QED BY <1>0, <2>2, <2>4, <2>8, <2>12, <2>13 DEF CourseInv
<1> QED BY <1>1, <1>2 DEF Advances

---------------------------------------------------------------------------
\* How far the memory of the grader goes.
Seen == IF n > 0 THEN n - 1 ELSE 0

\* The grader keeps its memory, or notes one more answer.
NotedOne == Noted /\ body.cors = TRUE

\* A check goes on when it asks the next request,
LEMMA Continuing ==
  ASSUME NEW k \in 1 .. 24, OnCourse(k), ask = Nothing, n < Len(Course(k)),
         Ask(Course(k)[n + 1].ask), n # 1 \/ k \notin {6, 10, 18, 20},
         (Keep /\ (n # 1 \/ k # 4)) \/ (NotedOne /\ n > 0 /\ k > 3)
  PROVE  Advances(k)
<1>1. /\ n \in Nat /\ (n = 0 => Recalls(g, k, 0)) /\ (n > 0 => Recalls(g, k, n - 1))
  BY Scene
<1>2. (n > 0 => Seen = n - 1) /\ (n = 0 => Seen = 0) /\ (n > 0 \/ n = 0) /\ Seen \in Nat
  BY <1>1 DEF Seen
<1>3. Recalls(g, k, Seen)
  BY <1>1, <1>2, Zenon
<1> DEFINE l == n
<1>4. Phase(k, l) = Phase(k, Seen)
  BY <1>1, <1>2 DEF Phase
<1>5. Reader(k, l) => Reader(k, Seen)
  BY <1>1, <1>2 DEF Reader
<1>6. \/ Keep /\ (Heedless(k, l) <=> Heedless(k, Seen))
      \/ Noted /\ body.cors = TRUE /\ ~Heedless(k, l)
  BY <1>1, <1>2 DEF Heedless, NotedOne
<1> HIDE DEF l
<1>7. Recalls(g', k, l)
  BY <1>3, <1>4, <1>5, <1>6, Reminded, Zenon
<1> QED BY <1>7, Zenon DEF Advances, l

\* and ends as it should when that passes the mint.
LEMMA Concluding ==
  ASSUME NEW k \in 2 .. 22, k \notin {6, 8, 9}, OnCourse(k), ask = Nothing,
         n = Len(Course(k)), Verdict("pass"), k \in {10, 18, 20} => n = 2, k = 4 => n = 6,
         Keep \/ (NotedOne /\ k > 3)
  PROVE  Advances(k)
<1>0. k \in 1 .. 24 /\ k \in 1 .. 23 /\ k > 1 /\ k + 1 > 1
  OBVIOUS
<1>1. /\ n \in Nat /\ (n = 0 => Recalls(g, k, 0)) /\ (n > 0 => Recalls(g, k, n - 1))
      /\ plan = Stage(k) /\ Comes(k)
  BY <1>0, Scene
<1>2. (n > 0 => Seen = n - 1) /\ (n = 0 => Seen = 0) /\ (n > 0 \/ n = 0) /\ Seen \in Nat
  BY <1>1 DEF Seen
<1>3. Recalls(g, k, Seen)
  BY <1>1, <1>2, Zenon
<1> DEFINE l == n
           m == k + 1
<1>4. Comes(m)
  BY <1>1 DEF Comes
<1>5. k \in 10 .. 21 => ~Charges
  BY <1>1 DEF Comes
<1>6. Phase(m, 0) = Phase(k, l) /\ Phase(m, 0) = Phase(k, Seen)
  <2>1. /\ m < 6 => Phase(m, 0) = 1
        /\ m = 6 => Phase(m, 0) = 1
        /\ m \in 7 .. 17 => Phase(m, 0) = 2
        /\ m = 18 /\ ~Charges => Phase(m, 0) = 2
        /\ m = 19 /\ ~Charges => Phase(m, 0) = 3
        /\ m = 20 /\ ~Charges => Phase(m, 0) = 3
        /\ m > 20 /\ ~Charges => Phase(m, 0) = 4
        /\ m > 6 /\ Charges => Phase(m, 0) = 2
    <3>1. m \in 1 .. 24 /\ 0 \in Nat
      BY <1>0
    <3> HIDE DEF m
    <3> QED BY <3>1, Phases
  <2>2. ASSUME NEW i \in Nat, k \in {18, 20} => i > 0 PROVE Phase(m, 0) = Phase(k, i)
    <3>1. /\ k < 6 => Phase(k, i) = 1
          /\ k \in 7 .. 17 => Phase(k, i) = 2
          /\ k = 18 /\ ~Charges => Phase(k, i) = 3
          /\ k = 19 /\ ~Charges => Phase(k, i) = 3
          /\ k = 20 /\ ~Charges => Phase(k, i) = 4
          /\ k > 20 /\ ~Charges => Phase(k, i) = 4
          /\ k > 6 /\ Charges => Phase(k, i) = 2
      <4>1. k \in 1 .. 24 /\ i \in Nat
        BY <1>0
      <4>2. k = 18 \/ k = 20 => i # 0
        BY <2>2
      <4>3. /\ k < 6 => Phase(k, i) = 1
            /\ k \in 7 .. 17 => Phase(k, i) = 2
            /\ k = 18 /\ ~Charges => Phase(k, i) = (IF i = 0 THEN 2 ELSE 3)
            /\ k = 19 /\ ~Charges => Phase(k, i) = 3
            /\ k = 20 /\ ~Charges => Phase(k, i) = (IF i = 0 THEN 3 ELSE 4)
            /\ k > 20 /\ ~Charges => Phase(k, i) = 4
            /\ k > 6 /\ Charges => Phase(k, i) = 2
        BY <4>1, Phases
      <4> QED BY <4>2, <4>3
    <3>2. CASE Charges
      <4>1. k < 6 \/ k = 7 \/ k = 22
        BY <1>0, <1>5, <3>2
      <4>2. k < 6 => m < 6 \/ m = 6
        BY <1>0
      <4>3. k \in {7, 22} => m > 6 /\ k > 6
        OBVIOUS
      <4> HIDE DEF m
      <4> QED BY <2>1, <3>1, <3>2, <4>1, <4>2, <4>3
    <3>3. CASE ~Charges
      <4>1. \/ k < 6 /\ (m < 6 \/ m = 6)
            \/ k \in 7 .. 16 /\ m \in 7 .. 17
            \/ k = 17 /\ m = 18
            \/ k = 18 /\ m = 19
            \/ k = 19 /\ m = 20
            \/ k >= 20 /\ m > 20
        BY <1>0
      <4>4. k >= 20 => k = 20 \/ k > 20
        BY <1>0
      <4>2. k = 17 => k \in 7 .. 17
        OBVIOUS
      <4>3. k \in 7 .. 16 => k \in 7 .. 17
        OBVIOUS
      <4> HIDE DEF m
      <4> QED BY <2>1, <3>1, <3>3, <4>1, <4>2, <4>3, <4>4
    <3> QED BY <3>2, <3>3
  <2>3. n \in Nat /\ (k \in {18, 20} => n > 0) /\ (k \in {18, 20} => Seen > 0)
    <3>1. k \in {18, 20} => k \in {10, 18, 20}
      OBVIOUS
    <3>2. k \in {18, 20} => n = 2
      BY <3>1, Zenon
    <3> HIDE DEF m, l
    <3> QED BY <1>1, <1>2, <3>2
  <2> QED BY <1>2, <2>2, <2>3
<1>7. Reader(m, 0) => Reader(k, Seen)
  BY <1>1, <1>2 DEF Reader
<1>8. \/ Keep /\ (Heedless(m, 0) <=> Heedless(k, Seen))
      \/ Noted /\ body.cors = TRUE /\ ~Heedless(m, 0)
  BY <1>1, <1>2 DEF Heedless, NotedOne
<1> HIDE DEF l
<1>9. Recalls(g', m, 0)
  <2>1. k > 1
    BY <1>0
  <2> HIDE DEF m
  <2> QED BY <2>1, <1>3, <1>6, <1>7, <1>8, Reminded, Zenon
<1>10. Advances(k)
  BY <1>0, <1>1, <1>4, <1>6, <1>9, Passing DEF l
<1> QED BY <1>10

\* What the turns ask.
LEMMA TurnsAsk ==
  /\ \A r : Untrue(r).ask = r /\ Unknown(r).ask = r /\ Used(r).ask = r
  /\ \A r : Barred(r).ask = r /\ Already(r).ask = r
  /\ \A r, says : Turn(r, says).ask = r
BY QuietTurns, Zenon DEF Untrue, Unknown, Used, Barred, Already

\* A check on the course begins with its first request,
LEMMA Starting ==
  ASSUME NEW k \in 1 .. 24, OnCourse(k), ask = Nothing, n = 0, Keep, NEW r, Ask(r),
         0 < Len(Course(k)), Course(k)[1].ask = r
  PROVE  Advances(k)
<1>1. n < Len(Course(k)) /\ n + 1 = 1 /\ n # 1
  OBVIOUS
<1>2. Ask(Course(k)[n + 1].ask)
  BY <1>1
<1> QED BY <1>1, <1>2, Continuing

\* reads the answers in their turn,
LEMMA Answering ==
  ASSUME NEW k \in 1 .. 24, OnCourse(k), ask = Nothing, n > 0
  PROVE  /\ n \in 1 .. Len(Course(k)) /\ Alike(body, Course(k)[n].says)
         /\ Len(Course(k)) = 1 => n = 1
         /\ Len(Course(k)) = 2 => n = 1 \/ n = 2
         /\ Len(Course(k)) = 3 => n \in 1 .. 3
         /\ Len(Course(k)) = 4 => n \in 1 .. 4
         /\ Len(Course(k)) = 6 => n \in 1 .. 6
<1>1. n \in Nat /\ n <= Len(Course(k)) /\ Alike(body, Course(k)[n].says)
  BY Scene
<1>2. Len(Course(k)) \in Nat
  BY Lists
<1> DEFINE l == Len(Course(k))
<1> HIDE DEF l
<1>3. /\ n \in 1 .. l /\ (l = 1 => n = 1) /\ (l = 2 => n = 1 \/ n = 2) /\ (l = 3 => n \in 1 .. 3)
      /\ (l = 4 => n \in 1 .. 4) /\ (l = 6 => n \in 1 .. 6)
  BY <1>1, <1>2 DEF l
<1> QED BY <1>1, <1>3 DEF l

\* and a condition that holds of the answers lets it go on.
LEMMA Holding ==
  ASSUME NEW condition, condition
  PROVE  /\ Judged(condition) => Verdict("pass")
         /\ \A r : Provided(condition, r) => Ask(r)
BY Zenon DEF Judged, Provided

\* freeName asks for the username and is told that there is none.
LEMMA FreeNameAdvances ==
  ASSUME NEW k \in 1 .. 24, k = 2, OnCourse(k), FreeName PROVE Advances(k)
<1>1. Len(Course(k)) = 1 /\ Course(k)[1] = Unknown(reading)
  BY Courses DEF Runs1
<1>2. \/ ask = Nothing /\ n = 0 /\ Keep /\ Ask(reading)
      \/ ask = Nothing /\ n > 0 /\ Keep /\ Judged(refusedWith("unknown user"))
  BY Zenon DEF FreeName, Beginning, Reading
<1>3. CASE ask = Nothing /\ n = 0 /\ Keep /\ Ask(reading)
  <2>1. Course(k)[1].ask = reading
    BY <1>1, TurnsAsk
  <2> QED BY <1>1, <1>3, <2>1, Starting
<1>4. CASE ask = Nothing /\ n > 0 /\ Keep /\ Judged(refusedWith("unknown user"))
  <2>1. n = 1
    BY <1>1, <1>4, Answering
  <2>2. Alike(body, Unknown(reading).says)
    BY <1>1, <1>4, <2>1, Answering
  <2>3. Refusal(body, "unknown user")
    BY <2>2, Hearing
  <2>4. refusedWith("unknown user")
    BY <2>3 DEF Refusal, refusedWith, refused
  <2>5. Verdict("pass")
    BY <1>4, <2>4, Holding
  <2>6. k \in 2 .. 22 /\ k \notin {6, 8, 9} /\ n = Len(Course(k)) /\ k \notin {10, 18, 20} /\ k # 4
    BY <1>1, <2>1
  <2> QED BY <1>4, <2>5, <2>6, Concluding
<1> QED BY <1>2, <1>3, <1>4

\* preflight asks for the headers twice and is given them.
LEMMA PreflightAdvances ==
  ASSUME NEW k \in 1 .. 24, k = 3, OnCourse(k), Preflight PROVE Advances(k)
<1>1. Len(Course(k)) = 2 /\ Course(k)[1] = Asking /\ Course(k)[2] = Asking
  BY Courses DEF Runs2
<1>2. Asking.ask = asked("OPTIONS", "user") /\ Asking.says = Yes
  BY QuietTurns DEF Asking
<1> DEFINE both == \A i \in 1 .. 2 : log[i].status = "OK"
<1>3. \/ ask = Nothing /\ n = 0 /\ Keep /\ Ask(asked("OPTIONS", "user"))
      \/ ask = Nothing /\ n > 0 /\ Keep
         /\ IF n = 1 THEN Ask(asked("OPTIONS", "user")) ELSE Judged(both)
  BY Zenon DEF Preflight, Beginning, Reading
<1> HIDE DEF both
<1>4. CASE ask = Nothing /\ n = 0 /\ Keep /\ Ask(asked("OPTIONS", "user"))
  BY <1>1, <1>2, <1>4, Starting
<1>5. CASE ask = Nothing /\ n > 0 /\ Keep
           /\ IF n = 1 THEN Ask(asked("OPTIONS", "user")) ELSE Judged(both)
  <2>1. n = 1 \/ n = 2
    BY <1>1, <1>5, Answering
  <2>2. CASE n = 1
    <3>1. n < Len(Course(k)) /\ Course(k)[n + 1] = Asking /\ k # 4 /\ k \notin {6, 10, 18, 20}
      BY <1>1, <2>2
    <3> QED BY <1>2, <1>5, <2>2, <3>1, Continuing
  <2>3. CASE n = 2
    <3>1. \A i \in 1 .. n : Alike(log[i], Course(k)[i].says)
      BY <1>5, Scene
    <3>2. Alike(log[1], Yes) /\ Alike(log[2], Yes)
      BY <1>1, <1>2, <2>3, <3>1
    <3>6. log[1].status = "OK" /\ log[2].status = "OK"
      BY <3>2, Hearing
    <3>3. both
      BY <3>6 DEF both
    <3>7. n # 1
      BY <2>3
    <3>8. Judged(both)
      BY <1>5, <3>7
    <3>4. Verdict("pass")
      BY <3>3, <3>8, Holding
    <3>5. k \in 2 .. 22 /\ k \notin {6, 8, 9} /\ n = Len(Course(k)) /\ k \notin {10, 18, 20} /\ k # 4
      BY <1>1, <2>3
    <3> QED BY <1>5, <3>4, <3>5, Concluding
  <2> QED BY <2>1, <2>2, <2>3
<1> QED BY <1>3, <1>4, <1>5

\* A refusal, as the grader reads it, and notes it.
LEMMA Refusals ==
  ASSUME NEW reason, Refusal(body, reason)
  PROVE  /\ refused /\ turnedDown /\ refusedWith(reason) /\ ~accepted /\ body.cors = TRUE
         /\ body.status # "payRequest" /\ (Noted => NotedOne)
BY DEF Refusal, refused, turnedDown, refusedWith, accepted, NotedOne

\* badProofs tries five and is refused, and finds nothing registered.
LEMMA BadProofsAdvances ==
  ASSUME NEW k \in 1 .. 24, k = 4, OnCourse(k), BadProofs PROVE Advances(k)
<1> DEFINE lie(i) == registering("user", Share("first"), BadProof(i))
<1>1. Len(Course(k)) = 6 /\ (\A i \in 1 .. 5 : Course(k)[i] = Lie(i))
       /\ Course(k)[6] = Unknown(reading)
  <2>1. Runs6(Course(k), Lie(1), Lie(2), Lie(3), Lie(4), Lie(5), Unknown(reading))
    BY Courses
  <2>2. \A i \in 1 .. 5 : i = 1 \/ i = 2 \/ i = 3 \/ i = 4 \/ i = 5
    OBVIOUS
  <2> QED BY <2>1, <2>2 DEF Runs6
<1>2. \A i : Lie(i).ask = lie(i)
  BY TurnsAsk DEF Lie
<1>3. \/ ask = Nothing /\ n = 0 /\ Keep /\ Ask(lie(1))
      \/ ask = Nothing /\ n > 0 /\ n <= 5 /\ Noted
         /\ Provided(turnedDown, IF n < 5 THEN lie(n + 1) ELSE reading)
      \/ ask = Nothing /\ n > 0 /\ n = 6 /\ Keep /\ Judged(refusedWith("unknown user"))
  BY Zenon DEF BadProofs, Beginning, Reading
<1> HIDE DEF lie
<1>4. CASE ask = Nothing /\ n = 0 /\ Keep /\ Ask(lie(1))
  <2>1. Course(k)[1].ask = lie(1)
    BY <1>1, <1>2
  <2> QED BY <1>1, <1>4, <2>1, Starting
<1>5. CASE ask = Nothing /\ n > 0 /\ n <= 5 /\ Noted
           /\ Provided(turnedDown, IF n < 5 THEN lie(n + 1) ELSE reading)
  <2>1. n \in 1 .. 6 /\ Alike(body, Course(k)[n].says)
    BY <1>1, <1>5, Answering
  <2>2. n \in 1 .. 5
    BY <1>5, <2>1
  <2>3. Refusal(body, "invalid signature")
    <3>1. Alike(body, Lie(n).says)
      BY <1>1, <2>1, <2>2
    <3> QED BY <3>1, Hearing DEF Lie
  <2>4. Ask(IF n < 5 THEN lie(n + 1) ELSE reading) /\ NotedOne
    BY <1>5, <2>3, Refusals, Holding
  <2>5. Course(k)[n + 1].ask = IF n < 5 THEN lie(n + 1) ELSE reading
    <3>1. n < 5 => n + 1 \in 1 .. 5
      BY <2>2
    <3>2. ~(n < 5) => n + 1 = 6
      BY <2>2
    <3>3. CASE n < 5
      BY <1>1, <1>2, <3>1, <3>3
    <3>4. CASE ~(n < 5)
      BY <1>1, <3>2, <3>4, TurnsAsk
    <3> QED BY <3>3, <3>4
  <2>6. Ask(Course(k)[n + 1].ask)
    BY <2>4, <2>5
  <2>7. n < Len(Course(k)) /\ k \notin {6, 10, 18, 20} /\ k > 3
    BY <1>1, <2>2
  <2> QED BY <1>5, <2>4, <2>6, <2>7, Continuing
<1>6. CASE ask = Nothing /\ n > 0 /\ n = 6 /\ Keep /\ Judged(refusedWith("unknown user"))
  <2>1. Alike(body, Unknown(reading).says)
    BY <1>1, <1>6, Answering
  <2>2. Verdict("pass")
    BY <1>6, <2>1, Hearing, Refusals, Holding
  <2>3. k \in 2 .. 22 /\ k \notin {6, 8, 9} /\ n = Len(Course(k)) /\ k \notin {10, 18, 20}
    <3>1. n = 6
      BY <1>6
    <3> QED BY <1>1, <3>1
  <2> QED BY <1>6, <2>2, <2>3, Concluding
<1> QED BY <1>3, <1>4, <1>5, <1>6

\* reserved asks for two names that nobody may have.
LEMMA ReservedAdvances ==
  ASSUME NEW k \in 1 .. 24, k = 5, OnCourse(k), Reserved PROVE Advances(k)
<1> DEFINE r1 == registeringBy("reserver1", "mint")
           r2 == registeringBy("reserver2", "user+tag")
           it == taking(IF n = 1 THEN "reserver1" ELSE "reserver2",
                        IF n = 1 THEN "mint" ELSE "user+tag")
<1>1. Len(Course(k)) = 2 /\ Course(k)[1] = Barred(r1) /\ Course(k)[2] = Barred(r2)
  BY Courses DEF Runs2
<1>2. \/ ask = Nothing /\ n = 0 /\ Keep /\ Ask(r1)
      \/ ask = Nothing /\ n > 0 /\ Noted
         /\ IF accepted THEN Ask(it)
            ELSE IF n = 1 THEN Provided(turnedDown, r2) ELSE Judged(turnedDown)
  BY Zenon DEF Reserved, Beginning, Reading
<1> HIDE DEF r1, r2, it
<1>3. CASE ask = Nothing /\ n = 0 /\ Keep /\ Ask(r1)
  <2>1. Course(k)[1].ask = r1
    BY <1>1, TurnsAsk
  <2> QED BY <1>1, <1>3, <2>1, Starting
<1>4. CASE ask = Nothing /\ n > 0 /\ Noted
           /\ IF accepted THEN Ask(it)
              ELSE IF n = 1 THEN Provided(turnedDown, r2) ELSE Judged(turnedDown)
  <2>1. (n = 1 \/ n = 2) /\ Alike(body, Course(k)[n].says)
    BY <1>1, <1>4, Answering
  <2>2. Refusal(body, "username not allowed")
    BY <1>1, <2>1, Hearing
  <2>3. turnedDown /\ ~accepted /\ NotedOne
    BY <1>4, <2>2, Refusals
  <2>4. CASE n = 1
    <3>1. Ask(r2)
      BY <1>4, <2>3, <2>4, Holding
    <3>2. n + 1 = 2 /\ n < Len(Course(k)) /\ k > 3 /\ k \notin {6, 10, 18, 20}
      BY <1>1, <2>4
    <3>3. Ask(Course(k)[n + 1].ask)
      BY <1>1, <3>1, <3>2, TurnsAsk
    <3> QED BY <1>4, <2>3, <3>2, <3>3, Continuing
  <2>5. CASE n = 2
    <3>3. n # 1
      BY <2>5
    <3>4. Judged(turnedDown)
      BY <1>4, <2>3, <3>3
    <3>1. Verdict("pass")
      BY <2>3, <3>4, Holding
    <3>2. k \in 2 .. 22 /\ k \notin {6, 8, 9} /\ n = Len(Course(k)) /\ k \notin {10, 18, 20}
          /\ k # 4 /\ k > 3
      BY <1>1, <2>5
    <3> QED BY <1>4, <2>3, <3>1, <3>2, Concluding
  <2> QED BY <2>1, <2>4, <2>5
<1> QED BY <1>2, <1>3, <1>4

\* A check of one request that is to be refused.
LEMMA RefusedAdvances ==
  ASSUME NEW k \in 2 .. 22, k \notin {4, 6, 8, 9, 10, 18, 20}, OnCourse(k), NEW r, NEW reason,
         Len(Course(k)) = 1, Course(k)[1].ask = r,
         Alike(body, Course(k)[1].says) => Refusal(body, reason),
         \/ ask = Nothing /\ n = 0 /\ Keep /\ Ask(r)
         \/ ask = Nothing /\ n > 0 /\ Noted /\ Judged(refusedWith(reason)) /\ k > 3
  PROVE  Advances(k)
<1>0. k \in 1 .. 24
  OBVIOUS
<1>1. CASE ask = Nothing /\ n = 0 /\ Keep /\ Ask(r)
  <2>1. 0 < Len(Course(k))
    OBVIOUS
  <2> QED BY <1>0, <1>1, <2>1, Starting
<1>2. CASE ask = Nothing /\ n > 0 /\ Noted /\ Judged(refusedWith(reason)) /\ k > 3
  <2>1. n = 1 /\ Alike(body, Course(k)[n].says)
    BY <1>0, <1>2, Answering
  <2>2. Refusal(body, reason)
    BY <2>1
  <2>3. refusedWith(reason) /\ NotedOne
    BY <1>2, <2>2, Refusals
  <2>4. Verdict("pass")
    BY <1>2, <2>3, Holding
  <2>5. n = Len(Course(k))
    BY <2>1
  <2> QED BY <1>2, <2>3, <2>4, <2>5, Concluding
<1> QED BY <1>1, <1>2

\* Such are taken,
LEMMA TakenAdvances ==
  ASSUME NEW k \in 1 .. 24, k = 7, OnCourse(k), Taken PROVE Advances(k)
<1> DEFINE r == registeringBy("another", "user")
<1>1. Len(Course(k)) = 1 /\ Course(k)[1] = Already(r)
  BY Courses DEF Runs1
<1>2. \/ ask = Nothing /\ n = 0 /\ Keep /\ Ask(r)
      \/ ask = Nothing /\ n > 0 /\ Noted /\ Judged(refusedWith("already registered"))
  BY Zenon DEF Taken, Beginning, Reading
<1> HIDE DEF r
<1>3. Course(k)[1].ask = r
  BY <1>1, TurnsAsk
<1>4. Alike(body, Course(k)[1].says) => Refusal(body, "already registered")
  BY <1>1, Hearing
<1>5. k \in 2 .. 22 /\ k \notin {4, 6, 8, 9, 10, 18, 20} /\ k > 3
  OBVIOUS
<1> QED BY <1>1, <1>2, <1>3, <1>4, <1>5, RefusedAdvances

\* noSuchName,
LEMMA NoSuchNameAdvances ==
  ASSUME NEW k \in 1 .. 24, k = 17, OnCourse(k), NoSuchName PROVE Advances(k)
<1> DEFINE r == move("first", "newcomer", "userc")
<1>1. Len(Course(k)) = 1 /\ Course(k)[1] = Unknown(r)
  BY Courses DEF Runs1
<1>2. \/ ask = Nothing /\ n = 0 /\ Keep /\ Ask(r)
      \/ ask = Nothing /\ n > 0 /\ Noted /\ Judged(refusedWith("unknown user"))
  BY Zenon DEF NoSuchName, Beginning, Reading
<1> HIDE DEF r
<1>3. Course(k)[1].ask = r
  BY <1>1, TurnsAsk
<1>4. Alike(body, Course(k)[1].says) => Refusal(body, "unknown user")
  BY <1>1, Hearing
<1>5. k \in 2 .. 22 /\ k \notin {4, 6, 8, 9, 10, 18, 20} /\ k > 3
  OBVIOUS
<1> QED BY <1>1, <1>2, <1>3, <1>4, <1>5, RefusedAdvances

\* and neverAgain, where nothing is registered any more.
LEMMA NeverAgainAdvances ==
  ASSUME NEW k \in 1 .. 24, k = 21, OnCourse(k), NeverAgain PROVE Advances(k)
<1> DEFINE r == registeringBy("first", "user")
           again == IF accepted THEN [g EXCEPT !.registered = TRUE, !.onFile = "first"] ELSE g
<1>1. Len(Course(k)) = 1 /\ Course(k)[1] = Used(r)
  BY Courses DEF Runs1
<1>2. \/ ask = Nothing /\ n = 0 /\ Keep /\ (IF g.registered THEN Verdict("warn") ELSE Ask(r))
      \/ ask = Nothing /\ n > 0 /\ Noting(again) /\ Judged(refusedWith("cx1 already used"))
  BY Zenon DEF NeverAgain, Beginning, Reading
<1>3. Course(k)[1].ask = r
  BY <1>1, TurnsAsk
<1>4. Alike(body, Course(k)[1].says) => Refusal(body, "cx1 already used")
  BY <1>1, Hearing
<1>5. k \in 2 .. 22 /\ k \notin {4, 6, 8, 9, 10, 18, 20} /\ k > 3
  OBVIOUS
<1>6. ask = Nothing /\ n = 0 => ~g.registered
  <2>1. ask = Nothing /\ n = 0 => Recalls(g, k, 0) /\ Comes(k)
    BY Scene
  <2>2. Comes(k) => ~Charges
    BY DEF Comes
  <2>3. ~Charges => Phase(k, 0) = 4
    BY Phases
  <2>4. Recalls(g, k, 0) => Knowing(g, Phase(k, 0))
    BY Zenon DEF Recalls
  <2>5. Knowing(g, 4) => ~g.registered
    <3>1. (4 \in {2, 3}) = FALSE
      OBVIOUS
    <3> QED BY <3>1, Zenon DEF Knowing
  <2> QED BY <2>1, <2>2, <2>3, <2>4, <2>5
<1>7. ask = Nothing /\ n > 0 => ~accepted
  <2>1. ask = Nothing /\ n > 0 => n = 1 /\ Alike(body, Course(k)[n].says)
    BY <1>1, Answering
  <2> QED BY <1>4, <2>1, Refusals
<1>8. ~accepted /\ Noting(again) => Noted
  <2>1. ~accepted => again = g
    OBVIOUS
  <2> HIDE DEF again
  <2> QED BY <2>1 DEF Noted
<1> HIDE DEF r, again
<1> QED BY <1>1, <1>2, <1>3, <1>4, <1>5, <1>6, <1>7, <1>8, RefusedAdvances

\* cors reads what the grader noted of the headers.
LEMMA CorsAdvances ==
  ASSUME NEW k \in 1 .. 24, k = 22, OnCourse(k), Cors PROVE Advances(k)
<1>1. Len(Course(k)) = 0
  BY Courses DEF Runs0
<1>2. ask = Nothing /\ n = 0 /\ Keep /\ Judged(g.cors = {TRUE})
  BY Zenon DEF Cors, Beginning
<1>3. g.cors = {TRUE}
  <2>1. Recalls(g, k, 0)
    BY <1>2, Scene
  <2>2. ~Heedless(k, 0)
    BY DEF Heedless
  <2> QED BY <2>1, <2>2, Zenon DEF Recalls
<1>4. Verdict("pass")
  BY <1>2, <1>3, Holding
<1>5. k \in 2 .. 22 /\ k \notin {6, 8, 9} /\ n = Len(Course(k)) /\ k \notin {10, 18, 20} /\ k # 4
  BY <1>1, <1>2
<1> QED BY <1>2, <1>4, <1>5, Concluding

\* What else stays when the grader notes what a registration came to.
LEMMA Refiled ==
  ASSUME NEW k, NEW i, Recalls(g, k, i), NEW m, NEW j, Knowing(g', Phase(m, j)),
         g'.mint = g.mint, g'.pay = g.pay, g'.cors = g.cors \cup {body.cors}, body.cors = TRUE,
         m > 1 => k > 1, Reader(m, j) => Reader(k, i), ~Heedless(m, j)
  PROVE  Recalls(g', m, j)
<1>1. g.cors = {} \/ g.cors = {TRUE}
  BY DEF Recalls
<1>2. {} \cup {TRUE} = {TRUE} /\ {TRUE} \cup {TRUE} = {TRUE}
  OBVIOUS
<1>3. g'.cors = {TRUE}
  BY <1>1, <1>2, Zenon
<1> QED BY <1>3, Zenon DEF Recalls

\* The registration is granted, for the fee that the mint asks.
LEMMA Filing ==
  ASSUME NEW held, Fields \subseteq DOMAIN g,
         Noting([g EXCEPT !.registered = TRUE, !.onFile = "first", !.held = held])
  PROVE  /\ Fields \subseteq DOMAIN g' /\ g'.registered = TRUE /\ g'.onFile = "first"
         /\ g'.held = held /\ g'.mint = g.mint /\ g'.pay = g.pay
         /\ g'.cors = g.cors \cup {body.cors}
<1> DEFINE heard == g.cors \cup {body.cors}
           filed == [g EXCEPT !.registered = TRUE, !.onFile = "first", !.held = held]
<1>1. /\ Fields \subseteq DOMAIN filed /\ filed.registered = TRUE /\ filed.onFile = "first"
      /\ filed.held = held /\ filed.mint = g.mint /\ filed.pay = g.pay /\ filed.cors = g.cors
  BY DEF Fields
<1> HIDE DEF filed
<1>2. g' = [filed EXCEPT !.cors = filed.cors \cup {body.cors}]
  BY Zenon DEF Noting, filed
<1>3. g' = [filed EXCEPT !.cors = heard]
  BY <1>1, <1>2
<1> HIDE DEF heard
<1>4. /\ Fields \subseteq DOMAIN g' /\ g'.registered = filed.registered
      /\ g'.onFile = filed.onFile /\ g'.held = filed.held /\ g'.mint = filed.mint
      /\ g'.pay = filed.pay /\ g'.cors = heard
  BY <1>1, <1>3 DEF Fields
<1> QED BY <1>1, <1>4, Zenon DEF heard

\* register registers the username, and reads what it costs.
LEMMA RegisterAdvances ==
  ASSUME NEW k \in 1 .. 24, k = 6, OnCourse(k), Conforming, Register PROVE Advances(k)
<1> DEFINE r == registeringBy("first", "user")
           charged == (body.pr = 0 <=> addressFee = 0) /\ body.pr <= addressFee
           held == addressFee > 0 /\ body.pr > 0
<1>1. Len(Course(k)) = 1 /\ Course(k)[1] = Turn(r, Registered)
  BY Courses DEF Runs1
<1>2. \/ ask = Nothing /\ n = 0 /\ Keep /\ Ask(r)
      \/ /\ at = "register" /\ ask = Nothing /\ n > 0
         /\ IF accepted
            THEN /\ Noting([g EXCEPT !.registered = TRUE, !.onFile = "first", !.held = held])
                 /\ Ends(IF charged THEN "pass" ELSE "fail")
            ELSE Noted /\ Ends("fail")
  BY Zenon DEF Register, Beginning, Reading, Decides
<1> HIDE DEF r
<1>3. CASE ask = Nothing /\ n = 0 /\ Keep /\ Ask(r)
  <2>1. Course(k)[1].ask = r
    BY <1>1, TurnsAsk
  <2> QED BY <1>1, <1>3, <2>1, Starting
<1>4. CASE /\ at = "register" /\ ask = Nothing /\ n > 0
           /\ IF accepted
              THEN /\ Noting([g EXCEPT !.registered = TRUE, !.onFile = "first", !.held = held])
                   /\ Ends(IF charged THEN "pass" ELSE "fail")
              ELSE Noted /\ Ends("fail")
  <2>1. n = 1 /\ Alike(body, Course(k)[n].says)
    BY <1>1, <1>4, Answering
  <2>2. Alike(body, Registered)
    <3>1. Course(k)[1].says = Registered
      <4>1. Turn(r, Registered).says = Registered
        BY QuietTurns, Zenon
      <4> QED BY <1>1, <4>1, Zenon
    <3> QED BY <2>1, <3>1
  <2>3. body.status = "OK" /\ body.pr = addressFee /\ body.cors = TRUE
    BY <2>2, Hearing
  <2>4. accepted /\ charged /\ (held <=> Charges)
    <3>1. addressFee \in {0, 21}
      BY KeptOptions
    <3> QED BY <2>3, <3>1 DEF accepted, Charges
  <2> HIDE DEF charged, held
  <2>5. /\ Noting([g EXCEPT !.registered = TRUE, !.onFile = "first", !.held = held])
        /\ Ends("pass")
    BY <1>4, <2>4
  <2>6. Recalls(g, k, 0) /\ plan = Stage(k) /\ Comes(k)
    <3>1. Recalls(g, k, n - 1) /\ plan = Stage(k) /\ Comes(k)
      BY <1>4, Scene
    <3>2. n - 1 = 0
      BY <2>1
    <3> QED BY <3>1, <3>2
  <2>7. Fields \subseteq DOMAIN g
    BY <2>6 DEF Recalls, Knowing
  <2>8. /\ Fields \subseteq DOMAIN g' /\ g'.registered = TRUE /\ g'.onFile = "first"
        /\ g'.held = held /\ g'.mint = g.mint /\ g'.pay = g.pay
        /\ g'.cors = g.cors \cup {body.cors}
    BY <2>5, <2>7, Filing
  <2>9. Knowing(g', 2)
    <3>1. held \in BOOLEAN /\ Charges \in BOOLEAN
      BY DEF held, Charges
    <3>2. g'.held = (2 = 2 /\ Charges)
      BY <2>4, <2>8, <3>1
    <3>3. g'.registered = (2 \in {2, 3}) /\ 2 # 1
      <4>1. (2 \in {2, 3}) = TRUE /\ 2 # 1
        OBVIOUS
      <4> QED BY <2>8, <4>1, Zenon
    <3> QED BY <2>8, <3>2, <3>3 DEF Knowing
  <2>10. Phase(7, 0) = 2 /\ Phase(k, n) = 2
    BY <2>1, Phases
  <2>11. Recalls(g', 7, 0)
    <3>1. ~Reader(7, 0) /\ ~Heedless(7, 0) /\ 7 > 1 /\ k > 1
      BY DEF Reader, Heedless
    <3>2. Knowing(g', Phase(7, 0))
      BY <2>9, <2>10
    <3> QED BY <2>3, <2>6, <2>8, <3>1, <3>2, Refiled
  <2>12. Verdict("pass")
    BY <1>4, <2>5, <2>8, Endings
  <2>13. Comes(7) /\ k + 1 = 7 /\ k \in 1 .. 23 /\ n = Len(Course(k))
    BY <1>1, <2>1 DEF Comes
  <2>14. Comes(k + 1) /\ Phase(k + 1, 0) = Phase(k, n) /\ Recalls(g', k + 1, 0)
    BY <2>10, <2>11, <2>13
  <2> QED BY <2>6, <2>12, <2>13, <2>14, Passing
<1> QED BY <1>2, <1>3, <1>4

\* A document is remembered as it was heard.
LEMMA Remembering ==
  ASSUME NEW said, Fields \subseteq DOMAIN g
  PROVE  /\ g' = [g EXCEPT !.mint = said] =>
              /\ Fields \subseteq DOMAIN g' /\ g'.mint = said /\ g'.pay = g.pay
              /\ g'.registered = g.registered /\ g'.held = g.held /\ g'.onFile = g.onFile
              /\ g'.cors = g.cors
         /\ g' = [g EXCEPT !.pay = said] =>
              /\ Fields \subseteq DOMAIN g' /\ g'.pay = said /\ g'.mint = g.mint
              /\ g'.registered = g.registered /\ g'.held = g.held /\ g'.onFile = g.onFile
              /\ g'.cors = g.cors
BY DEF Fields

\* mint@ reads the mint's own document.
LEMMA MintAtAdvances ==
  ASSUME NEW k \in 1 .. 24, k = 1, OnCourse(k), MintAt PROVE Advances(k)
<1> DEFINE r == asked("payRequest", "mint")
<1>1. Len(Course(k)) = 1 /\ Course(k)[1] = Turn(r, Document(64))
  BY Courses DEF Runs1
<1>2. \/ ask = Nothing /\ n = 0 /\ Keep /\ Ask(r)
      \/ /\ ask = Nothing /\ n > 0 /\ g' = [g EXCEPT !.mint = body]
         /\ IF body.status = "payRequest" THEN Verdict("pass") ELSE LastVerdict("fail")
  BY Zenon DEF MintAt, Beginning, Reading, Remember
<1> HIDE DEF r
<1>3. CASE ask = Nothing /\ n = 0 /\ Keep /\ Ask(r)
  <2>1. Course(k)[1].ask = r
    BY <1>1, TurnsAsk
  <2> QED BY <1>1, <1>3, <2>1, Starting
<1>4. CASE /\ ask = Nothing /\ n > 0 /\ g' = [g EXCEPT !.mint = body]
           /\ IF body.status = "payRequest" THEN Verdict("pass") ELSE LastVerdict("fail")
  <2>1. n = 1 /\ Alike(body, Course(k)[n].says)
    BY <1>1, <1>4, Answering
  <2>2. Alike(body, Document(64))
    <3>1. Turn(r, Document(64)).says = Document(64)
      BY QuietTurns, Zenon
    <3> QED BY <1>1, <2>1, <3>1
  <2>3. Verdict("pass")
    <3>1. body.status = "payRequest"
      BY <2>2, Hearing DEF Shown
    <3> QED BY <1>4, <3>1
  <2>4. Recalls(g, k, 0) /\ plan = Stage(k)
    <3>1. Recalls(g, k, n - 1) /\ plan = Stage(k)
      BY <1>4, Scene
    <3>2. n - 1 = 0
      BY <2>1
    <3> QED BY <3>1, <3>2
  <2>5. Phase(2, 0) = 1 /\ Phase(k, n) = 1 /\ Phase(k, 0) = 1
    BY <2>1, Phases
  <2>6. Fields \subseteq DOMAIN g
    BY <2>4 DEF Recalls, Knowing
  <2>7. /\ Fields \subseteq DOMAIN g' /\ g'.mint = body /\ g'.registered = g.registered
        /\ g'.held = g.held /\ g'.onFile = g.onFile /\ g'.cors = g.cors
    BY <1>4, <2>6, Remembering
  <2>8. Recalls(g', 2, 0)
    <3>1. Knowing(g', Phase(2, 0))
      <4>1. Knowing(g, Phase(2, 0))
        BY <2>4, <2>5, Zenon DEF Recalls
      <4> QED BY <2>7, <4>1, Zenon DEF Knowing
    <3>2. ~Reader(2, 0) /\ Heedless(2, 0) /\ Heedless(k, 0)
      BY DEF Reader, Heedless
    <3>3. g'.cors = IF Heedless(2, 0) THEN {} ELSE {TRUE}
      BY <2>4, <2>7, <3>2, Zenon DEF Recalls
    <3> QED BY <2>2, <2>7, <3>1, <3>2, <3>3, Zenon DEF Recalls
  <2>9. Comes(2) /\ k + 1 = 2 /\ k \in 1 .. 23 /\ n = Len(Course(k))
    BY <1>1, <2>1 DEF Comes
  <2>10. Comes(k + 1) /\ Phase(k + 1, 0) = Phase(k, n) /\ Recalls(g', k + 1, 0)
    BY <2>5, <2>8, <2>9
  <2> QED BY <2>3, <2>4, <2>9, <2>10, Passing
<1> QED BY <1>2, <1>3, <1>4

\* Some checks go on to a later one.
LEMMA Leaping ==
  ASSUME NEW k \in 1 .. 23, NEW m \in {9, 10, 22}, k <= m, plan = Stage(k), NEW verdicts,
         Leave(From(Order[m]), verdicts), Fair(verdicts), n = Len(Course(k)), Comes(m),
         Phase(m, 0) = Phase(k, n), Recalls(g', m, 0)
  PROVE  Advances(k)
<1>1. From(Order[m]) = Stage(m)
  BY FromStage
<1>2. m \in 2 .. 24
  OBVIOUS
<1>3. Leave(Stage(m), verdicts)
  BY <1>1, Zenon
<1>4. Moving(k, m)
  BY <1>3, Zenon DEF Moving
<1> QED BY <1>2, <1>4, Zenon DEF Advances

\* usedKey goes on to the address that is held, or that is served.
LEMMA UsedKeyAdvances ==
  ASSUME NEW k \in 1 .. 24, k = 8, OnCourse(k), UsedKey PROVE Advances(k)
<1> DEFINE it == taking("first", "userb")
           used == refusedWith("cx1 already used")
<1>1. Len(Course(k)) = 2 /\ Course(k)[1] = Used(reuse(1)) /\ Course(k)[2] = Used(reuse(2))
  BY Courses DEF Runs2
<1>2. \/ ask = Nothing /\ n = 0 /\ Keep /\ Ask(reuse(1))
      \/ /\ at = "usedKey" /\ ask = Nothing /\ n > 0 /\ Noted
         /\ IF accepted THEN Ask(it)
            ELSE IF n = 1 /\ used THEN Ask(reuse(2))
            ELSE Ends(IF used THEN "pass" ELSE "fail")
  BY Zenon DEF UsedKey, Beginning, Reading, Decides
<1> HIDE DEF it
<1>3. CASE ask = Nothing /\ n = 0 /\ Keep /\ Ask(reuse(1))
  <2>1. Course(k)[1].ask = reuse(1)
    BY <1>1, TurnsAsk
  <2> QED BY <1>1, <1>3, <2>1, Starting
<1>4. CASE /\ at = "usedKey" /\ ask = Nothing /\ n > 0 /\ Noted
           /\ IF accepted THEN Ask(it)
              ELSE IF n = 1 /\ used THEN Ask(reuse(2))
              ELSE Ends(IF used THEN "pass" ELSE "fail")
  <2>1. (n = 1 \/ n = 2) /\ Alike(body, Course(k)[n].says)
    BY <1>1, <1>4, Answering
  <2>2. Refusal(body, "cx1 already used")
    BY <1>1, <2>1, Hearing
  <2>3. used /\ ~accepted /\ NotedOne /\ body.cors = TRUE
    BY <1>4, <2>2, Refusals
  <2> HIDE DEF used
  <2>4. CASE n = 1
    <3>1. Ask(reuse(2))
      BY <1>4, <2>3, <2>4
    <3>2. n + 1 = 2 /\ n < Len(Course(k)) /\ k > 3 /\ k \notin {6, 10, 18, 20}
      BY <1>1, <2>4
    <3>3. Ask(Course(k)[n + 1].ask)
      BY <1>1, <3>1, <3>2, TurnsAsk
    <3> QED BY <1>4, <2>3, <3>2, <3>3, Continuing
  <2>5. CASE n = 2
    <3>1. Ends("pass") /\ n # 1
      BY <1>4, <2>3, <2>5
    <3>2. Recalls(g, k, n - 1) /\ plan = Stage(k)
      BY <1>4, Scene
    <3>3. Recalls(g, k, 1)
      <4>1. n - 1 = 1
        BY <2>5
      <4> QED BY <3>2, <4>1
    <3>4. Phase(k, 1) = 2 /\ Phase(k, n) = 2 /\ Phase(9, 0) = 2 /\ Phase(10, 0) = 2
      BY <2>5, Phases
    <3>5. g.held <=> Charges
      <4>1. Knowing(g, 2)
        BY <3>3, <3>4, Zenon DEF Recalls
      <4> QED BY <4>1 DEF Knowing
    <3>6. Leave(From(IF g.held THEN "unpublished" ELSE "publishes"), Only("pass"))
      BY <1>4, <3>1 DEF Ends
    <3>7. Fair(Only("pass"))
      BY DEF Fair, Only
    <3>8. n = Len(Course(k)) /\ k \in 1 .. 23 /\ k > 1
      BY <1>1, <2>5
    <3>9. \A m \in {9, 10} : ~Reader(m, 0) /\ ~Heedless(m, 0) /\ m > 1
      BY DEF Reader, Heedless
    <3>10. \A m \in {9, 10} : Recalls(g', m, 0)
      <4> SUFFICES ASSUME NEW m \in {9, 10} PROVE Recalls(g', m, 0)
        OBVIOUS
      <4>1. Phase(m, 0) = Phase(k, 1)
        BY <3>4
      <4>2. ~Reader(m, 0) /\ ~Heedless(m, 0)
        BY <3>9
      <4> QED BY <1>4, <2>3, <3>3, <3>8, <4>1, <4>2, Reminded
    <3>11. CASE Charges
      <4>1. Leave(From(Order[9]), Only("pass"))
        BY <3>5, <3>6, <3>11, Places
      <4>2. Comes(9) /\ 9 \in {9, 10, 22} /\ k <= 9
        BY <3>11 DEF Comes
      <4>3. Phase(9, 0) = Phase(k, n) /\ Recalls(g', 9, 0)
        BY <3>4, <3>10
      <4> QED BY <3>2, <3>7, <3>8, <4>1, <4>2, <4>3, Leaping
    <3>12. CASE ~Charges
      <4>1. Leave(From(Order[10]), Only("pass"))
        BY <3>5, <3>6, <3>12, Places
      <4>2. Comes(10) /\ 10 \in {9, 10, 22} /\ k <= 10
        BY <3>12 DEF Comes
      <4>3. Phase(10, 0) = Phase(k, n) /\ Recalls(g', 10, 0)
        BY <3>4, <3>10
      <4> QED BY <3>2, <3>7, <3>8, <4>1, <4>2, <4>3, Leaping
    <3> QED BY <3>11, <3>12
  <2> QED BY <2>1, <2>4, <2>5
<1> QED BY <1>2, <1>3, <1>4

\* unpublished finds nothing while the fee is open, and skips what needs it paid.
LEMMA UnpublishedAdvances ==
  ASSUME NEW k \in 1 .. 24, k = 9, OnCourse(k), Unpublished PROVE Advances(k)
<1> DEFINE hidden == body.status # "payRequest"
<1>1. Len(Course(k)) = 1 /\ Course(k)[1] = Unknown(reading)
  BY Courses DEF Runs1
<1>2. \/ ask = Nothing /\ n = 0 /\ Keep /\ Ask(reading)
      \/ /\ at = "unpublished" /\ ask = Nothing /\ n > 0 /\ Keep
         /\ Ends(IF hidden THEN "pass" ELSE "fail")
  BY Zenon DEF Unpublished, Beginning, Reading, Decides
<1>3. CASE ask = Nothing /\ n = 0 /\ Keep /\ Ask(reading)
  <2>1. Course(k)[1].ask = reading
    BY <1>1, TurnsAsk
  <2> QED BY <1>1, <1>3, <2>1, Starting
<1>4. CASE /\ at = "unpublished" /\ ask = Nothing /\ n > 0 /\ Keep
           /\ Ends(IF hidden THEN "pass" ELSE "fail")
  <2>1. n = 1 /\ Alike(body, Course(k)[n].says)
    BY <1>1, <1>4, Answering
  <2>2. Refusal(body, "unknown user")
    BY <1>1, <2>1, Hearing
  <2>3. hidden
    BY <2>2, Refusals
  <2> HIDE DEF hidden
  <2>4. Ends("pass")
    BY <1>4, <2>3
  <2> DEFINE verdicts == [check \in Unpaid \cup {at} |-> IF check = at THEN "pass" ELSE "skip"]
  <2>5. Leave(From(Order[22]), verdicts)
    <3>1. Leave(From("cors"), verdicts)
      BY <1>4, <2>4 DEF Ends
    <3> QED BY <3>1, Places
  <2>6. Recalls(g, k, 0) /\ plan = Stage(k) /\ Comes(k)
    <3>1. Recalls(g, k, n - 1) /\ plan = Stage(k) /\ Comes(k)
      BY <1>4, Scene
    <3>2. n - 1 = 0
      BY <2>1
    <3> QED BY <3>1, <3>2
  <2>7. Charges
    BY <2>6 DEF Comes
  <2>8. Fair(verdicts)
    BY <2>7 DEF Fair
  <2> HIDE DEF verdicts
  <2>9. Comes(22) /\ 22 \in {9, 10, 22} /\ k <= 22 /\ k \in 1 .. 23 /\ n = Len(Course(k))
    BY <1>1, <2>1, <2>7 DEF Comes
  <2>10. Phase(22, 0) = 2 /\ Phase(k, n) = 2 /\ Phase(k, 0) = 2
    BY <2>1, <2>7, Phases
  <2>11. Recalls(g', 22, 0)
    <3>1. ~Reader(22, 0) /\ ~Heedless(22, 0) /\ ~Heedless(k, 0) /\ k > 1
      BY DEF Reader, Heedless
    <3>2. Phase(22, 0) = Phase(k, 0)
      BY <2>10
    <3> QED BY <1>4, <2>6, <3>1, <3>2, Reminded
  <2>12. Phase(22, 0) = Phase(k, n)
    BY <2>10
  <2> QED BY <2>5, <2>6, <2>8, <2>9, <2>11, <2>12, Leaping
<1> QED BY <1>2, <1>3, <1>4

\* publishes reads the document of the address, under either spelling.
LEMMA PublishesAdvances ==
  ASSUME NEW k \in 1 .. 24, k = 10, OnCourse(k), Publishes PROVE Advances(k)
<1> DEFINE r2 == asked("payRequest", "USER")
           served == body.status = "payRequest"
<1>1. Len(Course(k)) = 2 /\ Course(k)[1] = Turn(reading, Document(0))
       /\ Course(k)[2] = Turn(r2, Document(0))
  BY Courses DEF Runs2
<1>2. \/ ask = Nothing /\ n = 0 /\ Keep /\ Ask(reading)
      \/ /\ at = "publishes" /\ ask = Nothing /\ n > 0
         /\ IF n = 1 THEN g' = [g EXCEPT !.pay = body] ELSE Keep
         /\ IF n = 1 /\ served THEN Ask(r2) ELSE Ends(IF served THEN "pass" ELSE "fail")
  BY Zenon DEF Publishes, Beginning, Reading, Decides, Remember
<1> HIDE DEF r2
<1>3. CASE ask = Nothing /\ n = 0 /\ Keep /\ Ask(reading)
  <2>1. Course(k)[1].ask = reading
    BY <1>1, TurnsAsk
  <2> QED BY <1>1, <1>3, <2>1, Starting
<1>4. CASE /\ at = "publishes" /\ ask = Nothing /\ n > 0
           /\ IF n = 1 THEN g' = [g EXCEPT !.pay = body] ELSE Keep
           /\ IF n = 1 /\ served THEN Ask(r2) ELSE Ends(IF served THEN "pass" ELSE "fail")
  <2>1. (n = 1 \/ n = 2) /\ Alike(body, Course(k)[n].says)
    BY <1>1, <1>4, Answering
  <2>2. Alike(body, Document(0))
    <3>1. \A r : Turn(r, Document(0)).says = Document(0)
      BY QuietTurns, Zenon
    <3> QED BY <1>1, <2>1, <3>1
  <2>3. served
    BY <2>2, Hearing DEF Shown
  <2> HIDE DEF served
  <2>4. CASE n = 1
    <3>1. Ask(r2) /\ g' = [g EXCEPT !.pay = body]
      BY <1>4, <2>3, <2>4
    <3>2. n + 1 = 2 /\ n < Len(Course(k)) /\ n - 1 = 0
      BY <1>1, <2>4
    <3>3. Ask(Course(k)[n + 1].ask)
      BY <1>1, <3>1, <3>2, TurnsAsk
    <3>4. Recalls(g, k, 0)
      <4>1. Recalls(g, k, n - 1)
        BY <1>4, Scene
      <4> QED BY <3>2, <4>1
    <3>5. Fields \subseteq DOMAIN g
      BY <3>4 DEF Recalls, Knowing
    <3>6. /\ Fields \subseteq DOMAIN g' /\ g'.pay = body /\ g'.mint = g.mint
          /\ g'.registered = g.registered /\ g'.held = g.held /\ g'.onFile = g.onFile
          /\ g'.cors = g.cors
      BY <3>1, <3>5, Remembering
    <3>7. Phase(k, 0) = 2 /\ Phase(k, n) = 2
      BY <2>4, Phases
    <3>8. Recalls(g', k, n)
      <4>1. Knowing(g', Phase(k, n))
        <5>1. Knowing(g, Phase(k, n))
          BY <3>4, <3>7, Zenon DEF Recalls
        <5> QED BY <3>6, <5>1, Zenon DEF Knowing
      <4>2. ~Heedless(k, 0) /\ ~Heedless(k, n) /\ k > 1
        BY DEF Heedless
      <4> QED BY <2>2, <3>4, <3>6, <4>1, <4>2, Zenon DEF Recalls
    <3> QED BY <3>2, <3>3, <3>8, Zenon DEF Advances
  <2>5. CASE n = 2
    <3>1. Ends("pass") /\ Keep /\ n # 1
      BY <1>4, <2>3, <2>5
    <3>2. Verdict("pass")
      BY <1>4, <3>1 DEF Ends
    <3>3. k \in 2 .. 22 /\ k \notin {6, 8, 9} /\ n = Len(Course(k)) /\ k # 4
      BY <1>1, <2>5
    <3> QED BY <1>4, <2>5, <3>1, <3>2, <3>3, Concluding
  <2> QED BY <2>1, <2>4, <2>5
<1> QED BY <1>2, <1>3, <1>4

\* The documents as the grader remembers them while it grades the address.
LEMMA Recalled ==
  ASSUME NEW k \in 11 .. 15, OnCourse(k), ask = Nothing
  PROVE  /\ Shown(g.pay, 0) /\ Shown(g.mint, 64) /\ k > 1 /\ ~Unserved
         /\ k \in 2 .. 22 /\ k \notin {6, 8, 9, 10, 18, 20} /\ k # 4 /\ k \in 1 .. 24
<1>0. k \in 1 .. 24 /\ k > 1 /\ k \in 2 .. 22 /\ k \notin {6, 8, 9, 10, 18, 20} /\ k # 4
  OBVIOUS
<1>1. n \in Nat /\ (n = 0 => Recalls(g, k, 0)) /\ (n > 0 => Recalls(g, k, n - 1))
  BY <1>0, Scene
<1>2. (n > 0 => Seen = n - 1) /\ (n = 0 => Seen = 0) /\ (n > 0 \/ n = 0)
  BY <1>1 DEF Seen
<1>3. Recalls(g, k, Seen)
  BY <1>1, <1>2, Zenon
<1>4. Reader(k, Seen)
  BY DEF Reader
<1>5. Alike(g.pay, Document(0)) /\ Alike(g.mint, Document(64))
  BY <1>0, <1>3, <1>4, Zenon DEF Recalls
<1>6. Shown(g.pay, 0) /\ Shown(g.mint, 64)
  BY <1>5, Hearing
<1>7. ~Unserved
  BY <1>6 DEF Shown, Unserved
<1> QED BY <1>0, <1>6, <1>7

\* noComment finds none allowed,
LEMMA NoCommentAdvances ==
  ASSUME NEW k \in 1 .. 24, k = 11, OnCourse(k), NoComment PROVE Advances(k)
<1>1. Len(Course(k)) = 0
  BY Courses DEF Runs0
<1>2. ask = Nothing /\ n = 0 /\ Keep /\ Judged(g.pay.comment = 0)
  BY Zenon DEF NoComment, Beginning
<1>3. Shown(g.pay, 0) /\ k \in 2 .. 22 /\ k \notin {6, 8, 9, 10, 18, 20} /\ k # 4
  BY <1>2, Recalled
<1>4. Verdict("pass")
  BY <1>2, <1>3, Holding DEF Shown
<1> QED BY <1>1, <1>2, <1>3, <1>4, Concluding

\* sameMint the mint's own link and fee,
LEMMA SameMintAdvances ==
  ASSUME NEW k \in 1 .. 24, k = 13, OnCourse(k), SameMint PROVE Advances(k)
<1>1. Len(Course(k)) = 0
  BY Courses DEF Runs0
<1>2. \/ /\ ask = Nothing /\ n = 0 /\ Keep
         /\ g.mint.status = "payRequest" => Judged(SameAs(g.mint))
      \/ ask = Nothing /\ n > 0
  BY Zenon DEF SameMint, Beginning, Reading
<1>3. ask = Nothing /\ ~(n > 0)
  <2>1. ask = Nothing
    BY <1>2
  <2>2. n > 0 => n \in 1 .. Len(Course(k))
    BY <2>1, Answering
  <2> QED BY <1>1, <2>1, <2>2
<1>4. /\ Shown(g.pay, 0) /\ Shown(g.mint, 64) /\ k \in 2 .. 22 /\ k \notin {6, 8, 9, 10, 18, 20}
      /\ k # 4
  BY <1>3, Recalled
<1>5. g.mint.status = "payRequest" /\ SameAs(g.mint)
  BY <1>4 DEF Shown, SameAs
<1>6. Verdict("pass") /\ n = 0 /\ Keep
  BY <1>2, <1>3, <1>5, Holding
<1> QED BY <1>1, <1>3, <1>4, <1>6, Concluding

\* and noHint no hint.
LEMMA NoHintAdvances ==
  ASSUME NEW k \in 1 .. 24, k = 15, OnCourse(k), NoHint PROVE Advances(k)
<1>1. Len(Course(k)) = 0
  BY Courses DEF Runs0
<1>2. ask = Nothing /\ n = 0 /\ Keep /\ Verdict(IF g.pay.hint THEN "warn" ELSE "pass")
  BY Zenon DEF NoHint, Beginning
<1>3. Shown(g.pay, 0) /\ k \in 2 .. 22 /\ k \notin {6, 8, 9, 10, 18, 20} /\ k # 4
  BY <1>2, Recalled
<1>4. Verdict("pass")
  <2>1. g.pay.hint = FALSE
    BY <1>3 DEF Shown
  <2>2. (IF g.pay.hint THEN "warn" ELSE "pass") = "pass"
    BY <2>1
  <2> QED BY <1>2, <2>2
<1> QED BY <1>1, <1>2, <1>3, <1>4, Concluding

\* A payment is asked for and invoiced.
LEMMA PlainPaymentAdvances ==
  ASSUME NEW k \in 1 .. 24, k = 12, OnCourse(k), PlainPayment PROVE Advances(k)
<1> DEFINE r == quoteAt("user")
<1>1. Len(Course(k)) = 1 /\ Course(k)[1] = Turn(r, Invoiced)
  BY Courses DEF Runs1
<1>2. \/ ask = Nothing /\ n = 0 /\ Keep /\ Provided(~Unserved, r)
      \/ ask = Nothing /\ n > 0 /\ Keep /\ Judged(invoiced(body))
  BY Zenon DEF PlainPayment, Beginning, Reading
<1> HIDE DEF r
<1>3. /\ ~Unserved /\ k \in 2 .. 22 /\ k \notin {6, 8, 9, 10, 18, 20} /\ k # 4 /\ ask = Nothing
  BY <1>2, Recalled
<1>4. CASE ask = Nothing /\ n = 0 /\ Keep /\ Provided(~Unserved, r)
  <2>1. Course(k)[1].ask = r
    BY <1>1, TurnsAsk
  <2>2. Ask(r)
    BY <1>3, <1>4, Holding
  <2> QED BY <1>1, <1>4, <2>1, <2>2, Starting
<1>5. CASE ask = Nothing /\ n > 0 /\ Keep /\ Judged(invoiced(body))
  <2>1. n = 1 /\ Alike(body, Course(k)[n].says)
    BY <1>1, <1>5, Answering
  <2>2. Alike(body, Invoiced)
    <3>1. Turn(r, Invoiced).says = Invoiced
      BY QuietTurns, Zenon
    <3> QED BY <1>1, <2>1, <3>1
  <2>3. invoiced(body)
    BY <2>2, Hearing DEF invoiced
  <2>4. Verdict("pass") /\ n = Len(Course(k))
    BY <1>1, <1>5, <2>1, <2>3, Holding
  <2> QED BY <1>3, <1>5, <2>4, Concluding
<1> QED BY <1>2, <1>4, <1>5

\* A tagged name is read for the plain one.
LEMMA PlusTagAdvances ==
  ASSUME NEW k \in 1 .. 24, k = 14, OnCourse(k), PlusTag PROVE Advances(k)
<1> DEFINE r == asked("payRequest", "user+tag")
           same == body.status = "payRequest" /\ body.link = g.pay.link
<1>1. Len(Course(k)) = 1 /\ Course(k)[1] = Turn(r, Document(0))
  BY Courses DEF Runs1
<1>2. \/ ask = Nothing /\ n = 0 /\ Keep /\ Ask(r)
      \/ ask = Nothing /\ n > 0 /\ Keep /\ Judged(same)
  BY Zenon DEF PlusTag, Beginning, Reading
<1> HIDE DEF r
<1>3. /\ Shown(g.pay, 0) /\ k \in 2 .. 22 /\ k \notin {6, 8, 9, 10, 18, 20} /\ k # 4
  BY <1>2, Recalled
<1>4. CASE ask = Nothing /\ n = 0 /\ Keep /\ Ask(r)
  <2>1. Course(k)[1].ask = r
    BY <1>1, TurnsAsk
  <2>2. Ask(r) /\ ask = Nothing /\ n = 0 /\ Keep
    BY <1>4
  <2>3. 0 < Len(Course(k))
    BY <1>1
  <2> HIDE DEF same
  <2> QED BY <2>1, <2>2, <2>3, Starting
<1>5. CASE ask = Nothing /\ n > 0 /\ Keep /\ Judged(same)
  <2>1. n = 1 /\ Alike(body, Course(k)[n].says)
    BY <1>1, <1>5, Answering
  <2>2. Alike(body, Document(0))
    <3>1. Turn(r, Document(0)).says = Document(0)
      BY QuietTurns, Zenon
    <3> QED BY <1>1, <2>1, <3>1
  <2>3. same
    BY <1>3, <2>2, Hearing DEF Shown
  <2> HIDE DEF same
  <2>4. Verdict("pass") /\ n = Len(Course(k))
    BY <1>1, <1>5, <2>1, <2>3, Holding
  <2> QED BY <1>3, <1>5, <2>4, Concluding
<1> QED BY <1>2, <1>4, <1>5

\* bothProofs tries four moves that lack a proof.
LEMMA BothProofsAdvances ==
  ASSUME NEW k \in 1 .. 24, k = 16, OnCourse(k), BothProofs PROVE Advances(k)
<1>1. Len(Course(k)) = 4 /\ \A i \in 1 .. 4 : Course(k)[i] = Half(i)
  <2>1. Runs4(Course(k), Half(1), Half(2), Half(3), Half(4))
    BY Courses
  <2>2. \A i \in 1 .. 4 : i = 1 \/ i = 2 \/ i = 3 \/ i = 4
    OBVIOUS
  <2> QED BY <2>1, <2>2 DEF Runs4
<1>2. \A i : Half(i).ask = Halfproven(i)
  BY TurnsAsk DEF Half
<1>3. \/ ask = Nothing /\ n = 0 /\ Keep /\ Ask(Halfproven(1))
      \/ ask = Nothing /\ n > 0 /\ Noted
         /\ IF n < 4 THEN Provided(turnedDown, Halfproven(n + 1)) ELSE Judged(turnedDown)
  BY Zenon DEF BothProofs, Beginning, Reading
<1>4. CASE ask = Nothing /\ n = 0 /\ Keep /\ Ask(Halfproven(1))
  <2>1. Course(k)[1].ask = Halfproven(1)
    BY <1>1, <1>2
  <2> QED BY <1>1, <1>4, <2>1, Starting
<1>5. CASE ask = Nothing /\ n > 0 /\ Noted
           /\ IF n < 4 THEN Provided(turnedDown, Halfproven(n + 1)) ELSE Judged(turnedDown)
  <2>1. n \in 1 .. 4 /\ Alike(body, Course(k)[n].says)
    BY <1>1, <1>5, Answering
  <2>2. Refusal(body, "invalid signature")
    <3>1. Alike(body, Half(n).says)
      BY <1>1, <2>1
    <3> QED BY <3>1, Hearing DEF Half
  <2>3. turnedDown /\ NotedOne
    BY <1>5, <2>2, Refusals
  <2>4. CASE n < 4
    <3>1. Ask(Halfproven(n + 1))
      BY <1>5, <2>3, <2>4, Holding
    <3>2. n + 1 \in 1 .. 4 /\ n < Len(Course(k)) /\ k > 3 /\ k \notin {6, 10, 18, 20}
      BY <1>1, <2>1, <2>4
    <3>3. Ask(Course(k)[n + 1].ask)
      BY <1>1, <1>2, <3>1, <3>2
    <3> QED BY <1>5, <2>3, <3>2, <3>3, Continuing
  <2>5. CASE ~(n < 4)
    <3>1. Judged(turnedDown)
      BY <1>5, <2>5
    <3>2. Verdict("pass")
      BY <2>3, <3>1, Holding
    <3>3. k \in 2 .. 22 /\ k \notin {6, 8, 9} /\ n = Len(Course(k)) /\ k \notin {10, 18, 20}
          /\ k # 4 /\ k > 3
      <4>1. n = 4
        BY <2>1, <2>5
      <4> QED BY <1>1, <4>1
    <3> QED BY <1>5, <2>3, <3>2, <3>3, Concluding
  <2> QED BY <2>4, <2>5
<1> QED BY <1>3, <1>4, <1>5

\* What is known of the username as it is moved and taken down.
LEMMA Moved ==
  ASSUME NEW k \in 18 .. 20, OnCourse(k), ask = Nothing
  PROVE  /\ ~Charges /\ Recalls(g, k, Seen) /\ Fields \subseteq DOMAIN g /\ n \in Nat
         /\ Phase(k, 0) = (IF k = 18 THEN 2 ELSE 3)
         /\ \A i \in Nat \ {0} : Phase(k, i) = (IF k = 20 THEN 4 ELSE 3)
         /\ k = 19 \/ (k = 20 /\ n < 2) => g.onFile = "second"
         /\ k = 18 /\ n < 2 => g.registered = TRUE /\ g.held = FALSE
         /\ k = 20 /\ n < 2 => g.held = FALSE
         /\ (k # 4 /\ k > 3 /\ k > 1 /\ k \notin {6, 8, 9} /\ k \in 2 .. 22 /\ k \in 1 .. 24)
         /\ \A i : ~Heedless(k, i) /\ ~Reader(k, i)
<1>0. k # 4 /\ k > 3 /\ k > 1 /\ k \notin {6, 8, 9} /\ k \in 2 .. 22 /\ k \in 1 .. 24
  OBVIOUS
<1>1. n \in Nat /\ (n = 0 => Recalls(g, k, 0)) /\ (n > 0 => Recalls(g, k, n - 1)) /\ Comes(k)
  BY <1>0, Scene
<1>2. (n > 0 => Seen = n - 1) /\ (n = 0 => Seen = 0) /\ (n > 0 \/ n = 0) /\ Seen \in Nat
      /\ (n < 2 => Seen = 0)
  BY <1>1 DEF Seen
<1>3. Recalls(g, k, Seen)
  BY <1>1, <1>2, Zenon
<1>4. ~Charges
  BY <1>1 DEF Comes
<1>5. /\ Phase(k, 0) = (IF k = 18 THEN 2 ELSE 3)
      /\ \A i \in Nat \ {0} : Phase(k, i) = (IF k = 20 THEN 4 ELSE 3)
  BY <1>0, <1>4, Phases
<1>6. Knowing(g, Phase(k, Seen))
  BY <1>3, Zenon DEF Recalls
<1>7. k = 19 \/ (k = 20 /\ n < 2) => Phase(k, Seen) = 3
  BY <1>2, <1>5
<1>8. k = 18 /\ n < 2 => Phase(k, Seen) = 2
  BY <1>2, <1>5
<1>9. k = 19 \/ (k = 20 /\ n < 2) => g.onFile = "second" /\ g.held = FALSE
  <2>1. (3 = 2 /\ Charges) = FALSE
    OBVIOUS
  <2>2. (IF 3 = 1 THEN "none" ELSE IF 3 = 2 THEN "first" ELSE "second") = "second"
    OBVIOUS
  <2>3. Knowing(g, 3) => g.onFile = "second" /\ g.held = FALSE
    BY <2>1, <2>2, Zenon DEF Knowing
  <2> QED BY <1>6, <1>7, <2>3
<1>10. k = 18 /\ n < 2 => g.registered = TRUE /\ g.held = FALSE
  BY <1>4, <1>6, <1>8 DEF Knowing
<1>11. Fields \subseteq DOMAIN g
  BY <1>6 DEF Knowing
<1>12. \A i : ~Heedless(k, i) /\ ~Reader(k, i)
  BY <1>0 DEF Heedless, Reader
<1> QED BY <1>0, <1>1, <1>3, <1>4, <1>5, <1>9, <1>10, <1>11, <1>12

\* What the grader notes of a move that is granted, and of a removal.
LEMMA Renoting ==
  ASSUME Fields \subseteq DOMAIN g
  PROVE  /\ \A key : Noting([g EXCEPT !.onFile = key]) =>
              /\ Fields \subseteq DOMAIN g' /\ g'.onFile = key /\ g'.registered = g.registered
              /\ g'.held = g.held /\ g'.mint = g.mint /\ g'.pay = g.pay
              /\ g'.cors = g.cors \cup {body.cors}
         /\ \A still : Noting([g EXCEPT !.registered = still]) =>
              /\ Fields \subseteq DOMAIN g' /\ g'.onFile = g.onFile /\ g'.registered = still
              /\ g'.held = g.held /\ g'.mint = g.mint /\ g'.pay = g.pay
              /\ g'.cors = g.cors \cup {body.cors}
<1>1. \A new : Noting(new) => g' = [new EXCEPT !.cors = new.cors \cup {body.cors}]
  BY Zenon DEF Noting
<1>2. ASSUME NEW new, Fields \subseteq DOMAIN new, NEW heard, g' = [new EXCEPT !.cors = heard]
      PROVE  /\ Fields \subseteq DOMAIN g' /\ g'.onFile = new.onFile /\ g'.held = new.held
             /\ g'.registered = new.registered /\ g'.mint = new.mint /\ g'.pay = new.pay
             /\ g'.cors = heard
  BY <1>2 DEF Fields
<1>3. ASSUME NEW key, Noting([g EXCEPT !.onFile = key])
      PROVE  /\ Fields \subseteq DOMAIN g' /\ g'.onFile = key /\ g'.registered = g.registered
             /\ g'.held = g.held /\ g'.mint = g.mint /\ g'.pay = g.pay
             /\ g'.cors = g.cors \cup {body.cors}
  <2> DEFINE new == [g EXCEPT !.onFile = key]
  <2>1. /\ Fields \subseteq DOMAIN new /\ new.onFile = key /\ new.registered = g.registered
        /\ new.held = g.held /\ new.mint = g.mint /\ new.pay = g.pay /\ new.cors = g.cors
    BY DEF Fields
  <2>2. g' = [new EXCEPT !.cors = new.cors \cup {body.cors}]
    BY <1>1, <1>3, Zenon
  <2> HIDE DEF new
  <2>3. /\ Fields \subseteq DOMAIN g' /\ g'.onFile = new.onFile /\ g'.held = new.held
        /\ g'.registered = new.registered /\ g'.mint = new.mint /\ g'.pay = new.pay
        /\ g'.cors = new.cors \cup {body.cors}
    BY <1>2, <2>1, <2>2
  <2> QED BY <2>1, <2>3, Zenon
<1>4. ASSUME NEW still, Noting([g EXCEPT !.registered = still])
      PROVE  /\ Fields \subseteq DOMAIN g' /\ g'.onFile = g.onFile /\ g'.registered = still
             /\ g'.held = g.held /\ g'.mint = g.mint /\ g'.pay = g.pay
             /\ g'.cors = g.cors \cup {body.cors}
  <2> DEFINE new == [g EXCEPT !.registered = still]
  <2>1. /\ Fields \subseteq DOMAIN new /\ new.onFile = g.onFile /\ new.registered = still
        /\ new.held = g.held /\ new.mint = g.mint /\ new.pay = g.pay /\ new.cors = g.cors
    BY DEF Fields
  <2>2. g' = [new EXCEPT !.cors = new.cors \cup {body.cors}]
    BY <1>1, <1>4, Zenon
  <2> HIDE DEF new
  <2>3. /\ Fields \subseteq DOMAIN g' /\ g'.onFile = new.onFile /\ g'.held = new.held
        /\ g'.registered = new.registered /\ g'.mint = new.mint /\ g'.pay = new.pay
        /\ g'.cors = new.cors \cup {body.cors}
    BY <1>2, <2>1, <2>2
  <2> QED BY <2>1, <2>3, Zenon
<1> QED BY <1>3, <1>4

\* moves moves it, and fails to move it back.
LEMMA MovesAdvances ==
  ASSUME NEW k \in 1 .. 24, k = 18, OnCourse(k), Moves PROVE Advances(k)
<1> DEFINE r1 == move("first", "second", "user")
           r2 == move("second", "first", "user")
           new == IF accepted THEN [g EXCEPT !.onFile = movedTo] ELSE g
           granted == accepted /\ body.pr = 0
<1>1. Len(Course(k)) = 2 /\ Course(k)[1] = Turn(r1, Yes) /\ Course(k)[2] = Used(r2)
  BY Courses DEF Runs2
<1>2. \/ ask = Nothing /\ n = 0 /\ Keep /\ Ask(r1)
      \/ ask = Nothing /\ n > 0 /\ n = 1 /\ Noting(new) /\ Provided(granted, r2)
      \/ ask = Nothing /\ n > 0 /\ n = 2 /\ Noted /\ Judged(refusedWith("cx1 already used"))
  BY Zenon DEF Moves, Beginning, Reading
<1> HIDE DEF r1, r2
<1>3. ask = Nothing /\ k \in 18 .. 20 /\ k > 1
  <2>1. ask = Nothing
    BY <1>2, Zenon
  <2> QED BY <2>1
<1>4. /\ Recalls(g, k, Seen) /\ Fields \subseteq DOMAIN g /\ ~Charges
      /\ \A i : ~Heedless(k, i) /\ ~Reader(k, i)
      /\ Phase(k, 1) = 3 /\ (n < 2 => g.registered = TRUE /\ g.held = FALSE)
  <2>1. 1 \in Nat \ {0} /\ k # 20
    OBVIOUS
  <2> QED BY <1>3, <2>1, Moved
<1>5. CASE ask = Nothing /\ n = 0 /\ Keep /\ Ask(r1)
  <2>1. Course(k)[1].ask = r1
    BY <1>1, TurnsAsk
  <2> QED BY <1>1, <1>5, <2>1, Starting
<1>6. CASE ask = Nothing /\ n > 0 /\ n = 1 /\ Noting(new) /\ Provided(granted, r2)
  <2>1. Alike(body, Course(k)[1].says)
    BY <1>6, Answering
  <2>2. Alike(body, Yes)
    <3>1. Turn(r1, Yes).says = Yes
      BY QuietTurns, Zenon
    <3> QED BY <1>1, <2>1, <3>1
  <2>3. body.cors = TRUE /\ accepted /\ granted
    BY <2>2, Hearing DEF accepted
  <2>4. new = [g EXCEPT !.onFile = "second"]
    BY <2>3 DEF movedTo
  <2> HIDE DEF new, granted
  <2>5. /\ Fields \subseteq DOMAIN g' /\ g'.onFile = "second" /\ g'.registered = g.registered
        /\ g'.held = g.held /\ g'.mint = g.mint /\ g'.pay = g.pay
        /\ g'.cors = g.cors \cup {body.cors}
    BY <1>4, <1>6, <2>4, Renoting
  <2>6. Knowing(g', 3)
    <3>1. g'.registered = TRUE /\ g'.held = FALSE
      BY <1>4, <1>6, <2>5
    <3>2. (3 \in {2, 3}) = TRUE /\ (3 = 2 /\ Charges) = FALSE
      OBVIOUS
    <3>3. (IF 3 = 1 THEN "none" ELSE IF 3 = 2 THEN "first" ELSE "second") = "second"
      OBVIOUS
    <3> QED BY <2>5, <3>1, <3>2, <3>3, Zenon DEF Knowing
  <2>7. Recalls(g', k, 1)
    BY <1>3, <1>4, <2>3, <2>5, <2>6, Refiled
  <2>8. n < Len(Course(k)) /\ n + 1 = 2
    BY <1>1, <1>6
  <2>9. Ask(Course(k)[n + 1].ask)
    <3>1. Ask(r2)
      BY <1>6, <2>3, Holding
    <3> QED BY <1>1, <2>8, <3>1, TurnsAsk
  <2>10. Recalls(g', k, n)
    BY <1>6, <2>7
  <2> QED BY <2>8, <2>9, <2>10, Zenon DEF Advances
<1>7. CASE ask = Nothing /\ n > 0 /\ n = 2 /\ Noted /\ Judged(refusedWith("cx1 already used"))
  <2>1. Alike(body, Used(r2).says)
    BY <1>1, <1>7, Answering
  <2>2. refusedWith("cx1 already used") /\ NotedOne
    BY <1>7, <2>1, Hearing, Refusals
  <2>3. Verdict("pass")
    BY <1>7, <2>2, Holding
  <2>4. k \in 2 .. 22 /\ k \notin {6, 8, 9} /\ n = Len(Course(k)) /\ k # 4 /\ k > 3 /\ n = 2
    <3>1. n = 2
      BY <1>7
    <3> QED BY <1>1, <3>1
  <2> QED BY <1>7, <2>2, <2>3, <2>4, Concluding
<1> QED BY <1>2, <1>5, <1>6, <1>7

\* notOnFile tries to take it down without the key that is on file.
LEMMA NotOnFileAdvances ==
  ASSUME NEW k \in 1 .. 24, k = 19, OnCourse(k), NotOnFile PROVE Advances(k)
<1> DEFINE r1 == taking("first", "user")
           r2(key) == leaving("user", Signed(key, Message("unregister", "elsewhere", "user", Unbound)))
           served == body.status = "payRequest"
<1>1. /\ Len(Course(k)) = 3 /\ Course(k)[1] = Untrue(r1) /\ Course(k)[2] = Untrue(r2("second"))
      /\ Course(k)[3] = Turn(reading, Document(0))
  BY Courses DEF Runs3, Mistaken
<1>2. \/ ask = Nothing /\ n = 0 /\ Keep /\ Ask(taking(Stale, "user"))
      \/ ask = Nothing /\ n > 0 /\ n < 3 /\ Noted
         /\ Provided(turnedDown, IF n = 1 THEN r2(g.onFile) ELSE reading)
      \/ ask = Nothing /\ n > 0 /\ n = 3 /\ Keep /\ Judged(served)
  BY Zenon DEF NotOnFile, Beginning, Reading
<1>3. ask = Nothing /\ k \in 18 .. 20 /\ k > 1 /\ k > 3 /\ k # 4 /\ k \notin {6, 10, 18, 20}
  BY <1>2
<1>4. g.onFile = "second"
  BY <1>3, Moved
<1>5. Stale = "first"
  BY <1>4 DEF Stale
<1> HIDE DEF r1, r2
<1>6. CASE ask = Nothing /\ n = 0 /\ Keep /\ Ask(taking(Stale, "user"))
  <2>1. Course(k)[1].ask = r1
    BY <1>1, TurnsAsk
  <2>2. Ask(r1)
    BY <1>5, <1>6 DEF r1
  <2> QED BY <1>1, <1>6, <2>1, <2>2, Starting
<1>7. CASE ask = Nothing /\ n > 0 /\ n < 3 /\ Noted
           /\ Provided(turnedDown, IF n = 1 THEN r2(g.onFile) ELSE reading)
  <2>1. n \in 1 .. 3 /\ Alike(body, Course(k)[n].says)
    BY <1>1, <1>7, Answering
  <2>2. n = 1 \/ n = 2
    BY <1>7, <2>1
  <2>3. Refusal(body, "invalid signature")
    BY <1>1, <2>1, <2>2, Hearing
  <2>4. turnedDown /\ NotedOne
    BY <1>7, <2>3, Refusals
  <2>5. Ask(IF n = 1 THEN r2("second") ELSE reading)
    BY <1>4, <1>7, <2>4, Holding
  <2>6. Course(k)[n + 1].ask = IF n = 1 THEN r2("second") ELSE reading
    <3>1. Course(k)[2].ask = r2("second") /\ Course(k)[3].ask = reading
      BY <1>1, TurnsAsk
    <3>2. n = 1 => n + 1 = 2
      OBVIOUS
    <3>3. n = 2 => n + 1 = 3 /\ n # 1
      OBVIOUS
    <3> QED BY <2>2, <3>1, <3>2, <3>3
  <2>7. Ask(Course(k)[n + 1].ask) /\ n < Len(Course(k))
    BY <1>1, <1>7, <2>5, <2>6
  <2> QED BY <1>3, <1>7, <2>4, <2>7, Continuing
<1>8. CASE ask = Nothing /\ n > 0 /\ n = 3 /\ Keep /\ Judged(served)
  <2>1. Alike(body, Course(k)[3].says)
    BY <1>8, Answering
  <2>2. Alike(body, Document(0))
    <3>1. Turn(reading, Document(0)).says = Document(0)
      BY QuietTurns, Zenon
    <3> QED BY <1>1, <2>1, <3>1
  <2>3. served
    BY <2>2, Hearing DEF Shown
  <2> HIDE DEF served
  <2>4. Verdict("pass")
    BY <1>8, <2>3, Holding
  <2>5. k \in 2 .. 22 /\ k \notin {6, 8, 9} /\ n = Len(Course(k)) /\ k # 4 /\ k \notin {10, 18, 20}
    BY <1>1, <1>8
  <2> QED BY <1>8, <2>4, <2>5, Concluding
<1> QED BY <1>2, <1>6, <1>7, <1>8

\* unregisters takes it down with that key.
LEMMA UnregistersAdvances ==
  ASSUME NEW k \in 1 .. 24, k = 20, OnCourse(k), Unregisters PROVE Advances(k)
<1> DEFINE r1 == taking("second", "user")
           gone == refusedWith("unknown user")
<1>1. Len(Course(k)) = 2 /\ Course(k)[1] = Turn(r1, Yes) /\ Course(k)[2] = Unknown(reading)
  BY Courses DEF Runs2
<1>2. \/ ask = Nothing /\ n = 0 /\ Keep /\ Ask(taking(g.onFile, "user"))
      \/ ask = Nothing /\ n > 0 /\ n = 1 /\ Noting([g EXCEPT !.registered = ~accepted])
         /\ Provided(accepted, reading)
      \/ ask = Nothing /\ n > 0 /\ n = 2 /\ Keep /\ Judged(gone)
  BY Zenon DEF Unregisters, Beginning, Reading
<1>3. ask = Nothing /\ k \in 18 .. 20 /\ k > 1
  <2>1. ask = Nothing
    BY <1>2, Zenon
  <2> QED BY <2>1
<1>4. /\ Recalls(g, k, Seen) /\ Fields \subseteq DOMAIN g
      /\ \A i : ~Heedless(k, i) /\ ~Reader(k, i)
      /\ Phase(k, 1) = 4 /\ (n < 2 => g.onFile = "second" /\ g.held = FALSE)
  <2>1. 1 \in Nat \ {0}
    OBVIOUS
  <2> QED BY <1>3, <2>1, Moved
<1>5. CASE ask = Nothing /\ n = 0 /\ Keep /\ Ask(taking(g.onFile, "user"))
  <2>1. Course(k)[1].ask = r1
    BY <1>1, TurnsAsk
  <2>2. Ask(r1)
    BY <1>4, <1>5
  <2> QED BY <1>1, <1>5, <2>1, <2>2, Starting
<1>6. CASE ask = Nothing /\ n > 0 /\ n = 1 /\ Noting([g EXCEPT !.registered = ~accepted])
           /\ Provided(accepted, reading)
  <2>1. Alike(body, Course(k)[1].says)
    BY <1>6, Answering
  <2>2. Alike(body, Yes)
    <3>1. Turn(r1, Yes).says = Yes
      BY QuietTurns, Zenon
    <3> QED BY <1>1, <2>1, <3>1
  <2>3. body.cors = TRUE /\ accepted /\ (~accepted) = FALSE
    BY <2>2, Hearing DEF accepted
  <2>4. /\ Fields \subseteq DOMAIN g' /\ g'.onFile = g.onFile /\ g'.registered = (~accepted)
        /\ g'.held = g.held /\ g'.mint = g.mint /\ g'.pay = g.pay
        /\ g'.cors = g.cors \cup {body.cors}
    <3> DEFINE still == ~accepted
    <3>1. Noting([g EXCEPT !.registered = still])
      BY <1>6
    <3> HIDE DEF still
    <3>2. /\ Fields \subseteq DOMAIN g' /\ g'.onFile = g.onFile /\ g'.registered = still
          /\ g'.held = g.held /\ g'.mint = g.mint /\ g'.pay = g.pay
          /\ g'.cors = g.cors \cup {body.cors}
      BY <1>4, <3>1, Renoting
    <3> QED BY <3>2 DEF still
  <2>5. Knowing(g', 4)
    <3>1. g'.registered = FALSE /\ g'.held = FALSE /\ g'.onFile = "second"
      <4>1. n < 2
        BY <1>6
      <4>2. g.onFile = "second" /\ g.held = FALSE
        BY <1>4, <4>1
      <4> QED BY <2>3, <2>4, <4>2, Zenon
    <3>2. (4 \in {2, 3}) = FALSE /\ (4 = 2 /\ Charges) = FALSE
      OBVIOUS
    <3>3. (IF 4 = 1 THEN "none" ELSE IF 4 = 2 THEN "first" ELSE "second") = "second"
      OBVIOUS
    <3> QED BY <2>4, <3>1, <3>2, <3>3, Zenon DEF Knowing
  <2>6. Recalls(g', k, 1)
    BY <1>3, <1>4, <2>3, <2>4, <2>5, Refiled
  <2>7. n < Len(Course(k)) /\ n + 1 = 2
    BY <1>1, <1>6
  <2>8. Ask(Course(k)[n + 1].ask)
    <3>1. Ask(reading)
      BY <1>6, <2>3, Holding
    <3> QED BY <1>1, <2>7, <3>1, TurnsAsk
  <2>9. Recalls(g', k, n)
    BY <1>6, <2>6
  <2> QED BY <2>7, <2>8, <2>9, Zenon DEF Advances
<1>7. CASE ask = Nothing /\ n > 0 /\ n = 2 /\ Keep /\ Judged(gone)
  <2>1. Alike(body, Unknown(reading).says)
    BY <1>1, <1>7, Answering
  <2>2. gone
    BY <2>1, Hearing, Refusals
  <2> HIDE DEF gone
  <2>3. Verdict("pass")
    BY <1>7, <2>2, Holding
  <2>4. k \in 2 .. 22 /\ k \notin {6, 8, 9} /\ n = Len(Course(k)) /\ k # 4 /\ n = 2
    BY <1>1, <1>7
  <2> QED BY <1>7, <2>3, <2>4, Concluding
<1> QED BY <1>2, <1>5, <1>6, <1>7

\* The grade ends with nothing that it could still take down.
LEMMA LeaveNothingAdvances ==
  ASSUME NEW k \in 1 .. 24, k = 23, OnCourse(k), LeaveNothing PROVE Advances(k)
<1>1. Len(Course(k)) = 0
  BY Courses DEF Runs0
<1> DEFINE it == taking(g.onFile, "user")
<1>2. /\ ask = Nothing /\ Keep
      /\ IF n = 0 /\ g.registered /\ ~g.held THEN Ask(it) ELSE Leave(<< >>, << >>)
  BY Zenon DEF LeaveNothing
<1> HIDE DEF it
<1>3. n = 0 /\ Recalls(g, k, 0)
  <2>1. ~(n > 0)
    <3>1. n > 0 => n \in 1 .. Len(Course(k))
      BY <1>2, Answering
    <3> QED BY <1>1, <3>1
  <2>2. n \in Nat /\ (n = 0 => Recalls(g, k, 0))
    BY <1>2, Scene
  <2> QED BY <2>1, <2>2
<1>4. ~(g.registered /\ ~g.held)
  <2>1. Knowing(g, Phase(k, 0))
    BY <1>3, Zenon DEF Recalls
  <2>2. Phase(k, 0) = IF Charges THEN 2 ELSE 4
    BY Phases
  <2>3. CASE Charges
    <3>1. Knowing(g, 2)
      BY <2>1, <2>2, <2>3
    <3> QED BY <2>3, <3>1 DEF Knowing
  <2>4. CASE ~Charges
    <3>1. Knowing(g, 4)
      BY <2>1, <2>2, <2>4
    <3>2. (4 \in {2, 3}) = FALSE
      OBVIOUS
    <3> QED BY <3>1, <3>2, Zenon DEF Knowing
  <2> QED BY <2>3, <2>4
<1>5. Leave(Stage(24), << >>)
  <2>1. Stage(24) = << >>
    BY FirstOfStage
  <2>2. Leave(<< >>, << >>)
    BY <1>2, <1>4, Zenon
  <2> QED BY <2>1, <2>2
<1>6. Fair(<< >>)
  BY DEF Fair
<1>7. Comes(24) /\ Phase(24, 0) = Phase(k, n) /\ Phase(24, 0) = Phase(k, 0)
  <2>1. Phase(24, 0) = Phase(23, 0)
    BY Phases
  <2> QED BY <1>3, <2>1 DEF Comes
<1>8. Recalls(g', 24, 0)
  <2>1. ~Reader(24, 0) /\ (Heedless(24, 0) <=> Heedless(k, 0)) /\ k > 1
    BY DEF Reader, Heedless
  <2> QED BY <1>2, <1>3, <1>7, <2>1, Reminded
<1>9. n = Len(Course(k)) /\ 24 \in 2 .. 24
  BY <1>1, <1>3
<1>10. Moving(k, 24)
  BY <1>5, <1>6, <1>7, <1>8, <1>9, Zenon DEF Moving
<1> QED BY <1>9, <1>10, Zenon DEF Advances

\* No probe of such a mint needs cleaning up after,
LEMMA NothingToClean ==
  ASSUME NEW k \in 1 .. 24, OnCourse(k), Cleaned PROVE FALSE
<1>1. /\ at \in {"reserved", "usedKey"} /\ n > 1 /\ log[n - 1].status = "OK" /\ ask = Nothing
  BY Zenon DEF Cleaned, Cleaning
<1>2. plan = Stage(k)
  BY DEF OnCourse
<1>3. at = Order[5] \/ at = Order[8]
  BY <1>1, Places
<1>4. k = 5 \/ k = 8
  <2>1. 5 \in 1 .. 23 /\ 8 \in 1 .. 23
    OBVIOUS
  <2> QED BY <1>2, <1>3, <2>1, Located
<1>5. /\ Len(Course(k)) = 2
      /\ \A answer : Alike(answer, Course(k)[1].says) => answer.status = "ERROR"
  <2>1. CASE k = 5
    <3>1. Len(Course(k)) = 2 /\ Course(k)[1] = Barred(registeringBy("reserver1", "mint"))
      BY <2>1, Courses DEF Runs2
    <3> QED BY <3>1, Hearing DEF Refusal
  <2>2. CASE k = 8
    <3>1. Len(Course(k)) = 2 /\ Course(k)[1] = Used(reuse(1))
      BY <2>2, Courses DEF Runs2
    <3> QED BY <3>1, Hearing DEF Refusal
  <2> QED BY <1>4, <2>1, <2>2
<1>6. n = 2
  <2>1. n \in Nat /\ n <= Len(Course(k))
    BY <1>1, Scene
  <2> QED BY <1>1, <1>5, <2>1
<1>7. Alike(log[1], Course(k)[1].says)
  <2>1. \A i \in 1 .. n : Alike(log[i], Course(k)[i].says)
    BY <1>1, Scene
  <2>2. 1 \in 1 .. n
    BY <1>6
  <2> QED BY <2>1, <2>2
<1>8. log[1].status = "OK"
  <2>1. n - 1 = 1
    BY <1>6
  <2> QED BY <1>1, <2>1
<1> QED BY <1>5, <1>7, <1>8

\* and nothing is thrown.
LEMMA NothingThrown ==
  ASSUME NEW k \in 1 .. 24, OnCourse(k), RegistrationThrow PROVE FALSE
<1>1. ask = Nothing /\ n > 0 /\ body.status \in Unanswered
  BY Zenon DEF RegistrationThrow, Throws
<1> QED BY <1>1, Scene

\* So every step of the grader keeps to the course.
LEMMA GraderAdvances ==
  ASSUME NEW k \in 1 .. 24, OnCourse(k), Conforming, gradeRegistration
  PROVE  ask = Nothing /\ Advances(k)
<1>1. plan = Stage(k)
  BY DEF OnCourse
<1>2. \A m \in 1 .. 23 : at = Order[m] => k = m
  BY <1>1, Located
<1>3. CASE MintAt
  <2>1. ask = Nothing /\ at = "mint@"
    BY <1>3, Zenon DEF MintAt, Beginning, Reading
  <2>2. k = 1
    BY <1>2, <2>1, Places
  <2> QED BY <1>3, <2>1, <2>2, MintAtAdvances
<1>4. CASE FreeName
  <2>1. ask = Nothing /\ at = "freeName"
    BY <1>4, Zenon DEF FreeName, Beginning, Reading
  <2>2. k = 2
    BY <1>2, <2>1, Places
  <2> QED BY <1>4, <2>1, <2>2, FreeNameAdvances
<1>5. CASE Preflight
  <2>1. ask = Nothing /\ at = "preflight"
    BY <1>5, Zenon DEF Preflight, Beginning, Reading
  <2>2. k = 3
    BY <1>2, <2>1, Places
  <2> QED BY <1>5, <2>1, <2>2, PreflightAdvances
<1>6. CASE BadProofs
  <2>1. ask = Nothing /\ at = "badProofs"
    BY <1>6, Zenon DEF BadProofs, Beginning, Reading
  <2>2. k = 4
    BY <1>2, <2>1, Places
  <2> QED BY <1>6, <2>1, <2>2, BadProofsAdvances
<1>7. CASE Reserved
  <2>1. ask = Nothing /\ at = "reserved"
    BY <1>7, Zenon DEF Reserved, Beginning, Reading
  <2>2. k = 5
    BY <1>2, <2>1, Places
  <2> QED BY <1>7, <2>1, <2>2, ReservedAdvances
<1>8. CASE Register
  <2>1. ask = Nothing /\ at = "register"
    BY <1>8, Zenon DEF Register, Beginning, Reading
  <2>2. k = 6
    BY <1>2, <2>1, Places
  <2> QED BY <1>8, <2>1, <2>2, RegisterAdvances
<1>9. CASE Taken
  <2>1. ask = Nothing /\ at = "taken"
    BY <1>9, Zenon DEF Taken, Beginning, Reading
  <2>2. k = 7
    BY <1>2, <2>1, Places
  <2> QED BY <1>9, <2>1, <2>2, TakenAdvances
<1>10. CASE UsedKey
  <2>1. ask = Nothing /\ at = "usedKey"
    BY <1>10, Zenon DEF UsedKey, Beginning, Reading
  <2>2. k = 8
    BY <1>2, <2>1, Places
  <2> QED BY <1>10, <2>1, <2>2, UsedKeyAdvances
<1>11. CASE Unpublished
  <2>1. ask = Nothing /\ at = "unpublished"
    BY <1>11, Zenon DEF Unpublished, Beginning, Reading
  <2>2. k = 9
    BY <1>2, <2>1, Places
  <2> QED BY <1>11, <2>1, <2>2, UnpublishedAdvances
<1>12. CASE Publishes
  <2>1. ask = Nothing /\ at = "publishes"
    BY <1>12, Zenon DEF Publishes, Beginning, Reading
  <2>2. k = 10
    BY <1>2, <2>1, Places
  <2> QED BY <1>12, <2>1, <2>2, PublishesAdvances
<1>13. CASE NoComment
  <2>1. ask = Nothing /\ at = "noComment"
    BY <1>13, Zenon DEF NoComment, Beginning, Reading
  <2>2. k = 11
    BY <1>2, <2>1, Places
  <2> QED BY <1>13, <2>1, <2>2, NoCommentAdvances
<1>14. CASE PlainPayment
  <2>1. ask = Nothing /\ at = "plainPayment"
    BY <1>14, Zenon DEF PlainPayment, Beginning, Reading
  <2>2. k = 12
    BY <1>2, <2>1, Places
  <2> QED BY <1>14, <2>1, <2>2, PlainPaymentAdvances
<1>15. CASE SameMint
  <2>1. ask = Nothing /\ at = "sameMint"
    BY <1>15, Zenon DEF SameMint, Beginning, Reading
  <2>2. k = 13
    BY <1>2, <2>1, Places
  <2> QED BY <1>15, <2>1, <2>2, SameMintAdvances
<1>16. CASE PlusTag
  <2>1. ask = Nothing /\ at = "plusTag"
    BY <1>16, Zenon DEF PlusTag, Beginning, Reading
  <2>2. k = 14
    BY <1>2, <2>1, Places
  <2> QED BY <1>16, <2>1, <2>2, PlusTagAdvances
<1>17. CASE NoHint
  <2>1. ask = Nothing /\ at = "noHint"
    BY <1>17, Zenon DEF NoHint, Beginning, Reading
  <2>2. k = 15
    BY <1>2, <2>1, Places
  <2> QED BY <1>17, <2>1, <2>2, NoHintAdvances
<1>18. CASE BothProofs
  <2>1. ask = Nothing /\ at = "bothProofs"
    BY <1>18, Zenon DEF BothProofs, Beginning, Reading
  <2>2. k = 16
    BY <1>2, <2>1, Places
  <2> QED BY <1>18, <2>1, <2>2, BothProofsAdvances
<1>19. CASE NoSuchName
  <2>1. ask = Nothing /\ at = "noSuchName"
    BY <1>19, Zenon DEF NoSuchName, Beginning, Reading
  <2>2. k = 17
    BY <1>2, <2>1, Places
  <2> QED BY <1>19, <2>1, <2>2, NoSuchNameAdvances
<1>20. CASE Moves
  <2>1. ask = Nothing /\ at = "moves"
    BY <1>20, Zenon DEF Moves, Beginning, Reading
  <2>2. k = 18
    BY <1>2, <2>1, Places
  <2> QED BY <1>20, <2>1, <2>2, MovesAdvances
<1>21. CASE NotOnFile
  <2>1. ask = Nothing /\ at = "notOnFile"
    BY <1>21, Zenon DEF NotOnFile, Beginning, Reading
  <2>2. k = 19
    BY <1>2, <2>1, Places
  <2> QED BY <1>21, <2>1, <2>2, NotOnFileAdvances
<1>22. CASE Unregisters
  <2>1. ask = Nothing /\ at = "unregisters"
    BY <1>22, Zenon DEF Unregisters, Beginning, Reading
  <2>2. k = 20
    BY <1>2, <2>1, Places
  <2> QED BY <1>22, <2>1, <2>2, UnregistersAdvances
<1>23. CASE NeverAgain
  <2>1. ask = Nothing /\ at = "neverAgain"
    BY <1>23, Zenon DEF NeverAgain, Beginning, Reading
  <2>2. k = 21
    BY <1>2, <2>1, Places
  <2> QED BY <1>23, <2>1, <2>2, NeverAgainAdvances
<1>24. CASE Cors
  <2>1. ask = Nothing /\ at = "cors"
    BY <1>24, Zenon DEF Cors, Beginning, Reading
  <2>2. k = 22
    BY <1>2, <2>1, Places
  <2> QED BY <1>24, <2>1, <2>2, CorsAdvances
<1>25. CASE LeaveNothing
  <2>1. ask = Nothing /\ at = "leaveNothing"
    BY <1>25, Zenon DEF LeaveNothing
  <2>2. k = 23
    BY <1>2, <2>1, Places
  <2> QED BY <1>25, <2>1, <2>2, LeaveNothingAdvances
<1>26. ~Cleaned /\ ~RegistrationThrow
  BY NothingToClean, NothingThrown
<1> QED BY <1>3, <1>4, <1>5, <1>6, <1>7, <1>8, <1>9, <1>10, <1>11, <1>12, <1>13, <1>14,
  <1>15, <1>16, <1>17, <1>18, <1>19, <1>20, <1>21, <1>22, <1>23, <1>24, <1>25, <1>26, Zenon
  DEF gradeRegistration, gradeAddressRules

---------------------------------------------------------------------------
\* A grade begins on the course,
LEMMA CourseBegins == Init => CourseInv
<1> SUFFICES ASSUME Init, target = "registration" PROVE CourseInv
  BY DEF CourseInv
<1>1. /\ log = << >> /\ suffered = << >> /\ ask = Nothing /\ tries = Retries /\ plan = Checks
      /\ report = << >>
      /\ g = [pay |-> Said, mint |-> Said, doc |-> Said, verify |-> FALSE,
              registered |-> FALSE, held |-> FALSE, onFile |-> "none", cors |-> {}]
  BY Zenon DEF Init, InitGrade
<1>2. registrations = [name \in {} |-> [cx1 |-> Share(name), paid |-> TRUE]] /\ usedKeys = {}
  <2>1. InitPay({}, {})
    <3>1. target \notin {"address as a mint", "address", "bound note"}
      OBVIOUS
    <3> QED BY <3>1 DEF Init
  <2>2. {Share(name) : name \in {}} = {}
    OBVIOUS
  <2> QED BY <2>1, <2>2 DEF InitPay
<1>3. suffered \in Seq(Hazards) /\ tries \in Nat /\ tries + Waits >= Retries
  <2>1. suffered \in Seq(Hazards)
    BY <1>1
  <2>2. Waits \in Nat
    BY <2>1, CountedWaits
  <2> QED BY <1>1, <2>1, <2>2 DEF Retries
<1>4. Unblamed
  BY <1>1 DEF Unblamed
<1>5. 1 \in 1 .. 24 /\ Len(Course(1)) \in Nat
  <2>1. 1 \in 1 .. 24
    OBVIOUS
  <2> QED BY <2>1, Lists
<1>6. plan = Stage(1)
  <2>1. SubSeq(Order, 1, 23) = Order
    BY Ordered, SubSeqFull
  <2> QED BY <1>1, <2>1, ChecksInOrder DEF Stage
<1>7. Len(log) = 0 /\ log \in Seq({log[i] : i \in DOMAIN log}) /\ DOMAIN log = {}
  BY <1>1
<1>8. Heard(1) /\ Sent(1) /\ Acted = 0
  <2>1. Heard(1)
    BY <1>5, <1>7 DEF Heard
  <2> QED BY <1>1, <1>7, <2>1 DEF Sent, Acted
<1>9. Phase(1, 0) = 1
  BY <1>5, Phases
<1>10. Stands(Phase(1, Len(log)), registrations, usedKeys)
  <2>1. DOMAIN registrations = {}
    BY <1>2
  <2> QED BY <1>2, <1>7, <1>9, <2>1 DEF Stands
<1>11. Recalls(g, 1, Acted)
  <2>1. /\ Fields \subseteq DOMAIN g /\ g.registered = FALSE /\ g.held = FALSE
        /\ g.onFile = "none" /\ g.cors = {}
    BY <1>1 DEF Fields
  <2>2. (1 \in {2, 3}) = FALSE /\ (1 = 2 /\ Charges) = FALSE
    OBVIOUS
  <2>3. Knowing(g, 1)
    BY <2>1, <2>2, Zenon DEF Knowing
  <2>4. ~(1 > 1) /\ ~Reader(1, 0) /\ Heedless(1, 0)
    BY DEF Reader, Heedless
  <2>5. Recalls(g, 1, 0)
    BY <1>9, <2>1, <2>3, <2>4 DEF Recalls
  <2> QED BY <1>8, <2>5
<1>12. Comes(1)
  BY DEF Comes
<1>13. OnCourse(1)
  BY <1>6, <1>8, <1>10, <1>11, <1>12 DEF OnCourse
<1> QED BY <1>3, <1>4, <1>5, <1>13 DEF CourseInv

\* the grader keeps to it,
LEMMA GraderKeepsCourse ==
  ASSUME target = "registration", CourseInv, gradeRegistration, UNCHANGED mintVars,
         UNCHANGED target
  PROVE  CourseInv'
<1>1. suffered' = suffered
  <2>1. Asks \/ Leaves
    BY RegistrationAsks
  <2> QED BY <2>1, Zenon DEF Asks, Leaves, Ask, Leave
<1>2. suffered' \in Seq(Hazards)
  BY <1>1 DEF CourseInv
<1>3. Steady' <=> Steady
  <2>1. Patient' <=> Patient
    BY <1>1, NoTrouble
  <2>2. UNCHANGED fault
    BY DEF mintVars
  <2>3. Conforming' = Conforming
    BY <2>2, Fixed
  <2> QED BY <2>1, <2>3 DEF Steady
<1>4. CASE Steady
  <2>1. PICK k \in 1 .. 24 : OnCourse(k)
    BY <1>4 DEF CourseInv
  <2>2. ask = Nothing /\ Advances(k)
    BY <1>4, <2>1, GraderAdvances DEF Steady
  <2> QED BY <1>4, <2>1, <2>2, AdvancesOnCourse
<1>5. CASE ~Steady
  BY <1>2, <1>3, <1>5 DEF CourseInv
<1> QED BY <1>4, <1>5

\* and nothing else leaves it.
LEMMA StaysOnCourse ==
  ASSUME Usual <= MaxSendable, CourseInv, [Next]_vars PROVE CourseInv'
<1>1. ASSUME Grading, UNCHANGED <<mintVars, target>> PROVE CourseInv'
  <2>1. UNCHANGED mintVars /\ target' = target
    BY <1>1, Zenon
  <2>2. CASE target = "registration"
    <3>1. gradeRegistration
      BY <1>1, <2>2 DEF Grading
    <3> QED BY <2>1, <2>2, <3>1, GraderKeepsCourse
  <2>3. CASE target # "registration"
    BY <2>1, <2>3 DEF CourseInv
  <2> QED BY <2>2, <2>3
<1>2. CASE Http
  BY <1>2, HttpKeepsCourse
<1>3. ASSUME UNCHANGED vars PROVE CourseInv'
  <2>1. /\ UNCHANGED <<fault, notes, bound, registrations, usedKeys>>
        /\ UNCHANGED <<plan, log, ask, tries, report, suffered, target, g>>
    BY <1>3 DEF vars, mintVars
  <2>2. Waits' = Waits /\ (Patient' <=> Patient) /\ (Charges' = Charges)
        /\ (Conforming' = Conforming)
    BY <2>1, NoTrouble, Fixed
  <2>3. Steady' <=> Steady
    BY <2>2 DEF Steady
  <2>4. Unblamed' <=> Unblamed
    BY <2>1, <2>2 DEF Unblamed
  <2>5. ASSUME NEW k \in 1 .. 24, OnCourse(k) PROVE OnCourse(k)'
    <3>1. /\ Course(k)' = Course(k) /\ (Comes(k)' <=> Comes(k))
          /\ \A i : Phase(k, i)' = Phase(k, i)
          /\ \A phase, map, used : Stands(phase, map, used)' <=> Stands(phase, map, used)
          /\ \A memory, i : Recalls(memory, k, i)' <=> Recalls(memory, k, i)
      BY <2>1, Fixed
    <3>2. Heard(k)' /\ Sent(k)' /\ plan' = Stage(k)
      BY <2>1, <2>5, <3>1 DEF OnCourse, Heard, Sent
    <3>3. Acted' = Acted
      BY <2>1 DEF Acted
    <3>4. Stands(Phase(k, Len(log)), registrations, usedKeys)'
      <4>1. Stands(Phase(k, Len(log')), registrations', usedKeys')
        BY <2>1, <2>5 DEF OnCourse
      <4> QED BY <2>1, <4>1, Fixed
    <3>5. Recalls(g, k, Acted)'
      <4>1. Recalls(g', k, Acted')
        BY <2>1, <2>5, <3>3 DEF OnCourse
      <4> QED BY <2>1, <4>1, Fixed
    <3> QED BY <2>5, <3>1, <3>2, <3>4, <3>5 DEF OnCourse
  <2>6. (\E k \in 1 .. 24 : OnCourse(k)) => (\E k \in 1 .. 24 : OnCourse(k)')
    BY <2>5
  <2> QED BY <2>1, <2>2, <2>3, <2>4, <2>6 DEF CourseInv, Retries
<1> QED BY <1>1, <1>2, <1>3, Zenon DEF Next, Done

\* On the course, nothing is blamed.
LEMMA CourseBlamesNothing == CourseInv => PassesClean
<1> SUFFICES ASSUME CourseInv, target = "registration", Conforming, Patient
             PROVE  \A check \in DOMAIN report :
                      report[check] = "pass" \/ (Has("addressFeeMsat") /\ report[check] = "skip")
  BY DEF PassesClean
<1>1. Unblamed
  BY DEF CourseInv, Steady
<1> QED BY <1>1, KeptOptions DEF Unblamed

\* The grade of the registrations passes a mint that keeps LUD-26, as lines 554 to
\* 570 of tools/selfgrade.mjs require, whether or not it charges for an address: no
\* check of it fails or warns, however often HTTP repeats a request, and as long
\* as it makes the grader wait no longer than get and call will.  The mint must
\* take the amount the runner asks for: line 918 asks for max(minSendable, 1000)
\* whatever maxSendable is.
THEOREM GradePassesClean ==
  ASSUME Usual <= MaxSendable PROVE Spec => []PassesClean
<1>1. CourseInv /\ [Next]_vars => CourseInv'
  BY StaysOnCourse
<1> QED BY CourseBegins, <1>1, CourseBlamesNothing, PTL DEF Spec
=============================================================================
