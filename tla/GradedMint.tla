----------------------------- MODULE GradedMint -----------------------------
(***************************************************************************)
(* GET /w and GET /w/cb as a grader meets them: every spelling of a spend  *)
(* and of a note, the certificates, and the misbehaviour a mock may be     *)
(* started with, one option at a time.  WithdrawCallback is the same       *)
(* callback without options, for any number of callers; here it is an      *)
(* operator from the store and a request to the store and an answer.       *)
(***************************************************************************)
EXTENDS SpendRules, Sequences, FiniteSets, Functions, TLC

CONSTANTS
  Value,        \* what the note under grade is worth: 21000 msat in selfgrade
  BaseFee,      \* the base fee the mint advertises
  Misbehaviour  \* the options a mint may be started with, "none" included

ASSUME Money == Value \in Nat \ {0} /\ BaseFee \in Nat

VARIABLES
  fault,        \* opts: the one option this mint was started with
  notes,        \* hex(Q) -> the note, for every note the mint knows
  swaps         \* identity -> the certificates of the outputs it minted
mintVars == <<fault, notes, swaps>>

Has(option) == fault = option
Instant == 1500000000       \* a grade takes minutes: one instant of the clock

\* A spend names its note and how it opens it; a bearer note's preimage has
\* the long form cw1.  A reference is a cp1 or, of a bearer note, its hex h.
SpendBy(q, how) == [q |-> q, how |-> how]
bearer(q) == SpendBy(q, "preimage")
cp1(q) == [q |-> q, by |-> "cp1"]
hexH(q) == [q |-> q, by |-> "h"]
NoRef == [q |-> "none", by |-> "absent"]
NoAmount == -1

---------------------------------------------------------------------------
\* Certificates: which subject they sign, with the domain or without it, and
\* under which key.
NoCertificate == [over |-> "nothing", domain |-> FALSE, key |-> "none",
                  q |-> "none", amount |-> 0]
certify(q, amount, hashed) ==
  IF Has("signatures") THEN NoCertificate
  ELSE [over |-> IF Has("certificateOverH") /\ hashed THEN "h" ELSE "Q",
        domain |-> ~(Has("certificateOverH") \/ Has("certificateWithoutDomain")),
        key |-> IF fault \in {"signWithPreviousKey", "signWithUnpublishedKey"}
                THEN "previous" ELSE "current",
        q |-> q, amount |-> amount]

\* What travels as c; the old name is one a grader sees and does not read.
sent(certificate) ==
  IF Has("certificateNames:sig") THEN NoCertificate ELSE certificate
legacy(certificate) ==
  fault \in {"certificateNames:sig", "certificateNames:both"} /\ certificate # NoCertificate

Said == [status |-> "ERROR", reason |-> "", value |-> 0, k1 |-> "none",
         c |-> NoCertificate, c2 |-> NoCertificate, legacy |-> FALSE]
fail(reason) == [Said EXCEPT !.reason = reason]
UnknownNote == "Unknown note."
AlreadyInUse == "already in use"
burnedReason == IF Has("burnedReason") THEN "Note already spent." ELSE AlreadyInUse
alreadyInUseReason ==
  IF Has("alreadyInUseReason") THEN "Output already in use." ELSE AlreadyInUse
lie == IF Has("lieAboutValue") THEN 1 ELSE 0

withdrawRequest(value, k1, certificate) ==
  [Said EXCEPT !.status = "withdrawRequest", !.value = value + lie, !.k1 = k1,
               !.c = sent(certificate), !.legacy = legacy(certificate)]

---------------------------------------------------------------------------
lax ==
  IF Has("leafVersionUnchecked") THEN {"leafVersion"}
  ELSE IF Has("opSuccessUnchecked") THEN {"opSuccess"}
  ELSE {fault} \cap (TimeRules \cup {"unverifiedCk1"})    \* ignoresTimeClaims: <rule>

opens(spend) ==
  LET s == Probe(spend.how, Instant) IN
  /\ ~(Has("refusesLocktimes") /\ s.kind = "script" /\ s.locktime # 0)
  /\ judge(s, {"here"}, Instant, Instant, lax)

known(q) == q \in DOMAIN notes
outputOf(ref) ==
  IF ref = NoRef \/ (Has("refusesCp1Outputs") /\ ref.by = "cp1") THEN "none" ELSE ref.q

\* GET /w?k1=: the spend is verified in full before anything is said.
infoBySpend(spend) ==
  IF ~known(spend.q) THEN fail(UnknownNote)
  ELSE IF ~(Has("infoSkipsVerification") \/ opens(spend)) THEN fail("invalid")
  ELSE LET note == notes[spend.q] IN
       IF note.state = "burned" THEN fail(burnedReason)
       ELSE withdrawRequest(note.amount,
                            IF Has("echoWrongK1") THEN "wrong" ELSE spend.how,
                            certify(spend.q, note.amount, note.hashed))

\* GET /w?p=: the note is named, and no spend travels either way.
infoByRef(ref) ==
  LET q == outputOf(ref)
      k1 == IF Has("hashLookup:echoesK1") THEN "invented" ELSE "none"
  IN
  IF Has("hashLookup:false") \/ q = "none" THEN fail(UnknownNote)
  ELSE IF ~known(q)
  THEN IF Has("hashLookup:answersUnknown") THEN withdrawRequest(Value, k1, NoCertificate)
       ELSE fail(UnknownNote)
  ELSE IF notes[q].state = "burned"
  THEN fail(IF Has("hashLookup:hidesSpent") THEN UnknownNote ELSE burnedReason)
  ELSE withdrawRequest(notes[q].amount, k1, certify(q, notes[q].amount, notes[q].hashed))

infoByBoth(spend) ==
  IF Has("hashLookup:acceptsBoth") THEN infoBySpend(spend) ELSE fail(UnknownNote)

---------------------------------------------------------------------------
\* GET /w/cb.  A request lists the spends, names the outputs, and asks for an
\* amount when it splits; the grader never melts.
Capped == 3         \* 20 in the code: more spends than any merge of the grader's
MintsOwn == "change-the-mint-made-itself"

qs(r) == {r.k1s[i].q : i \in DOMAIN r.k1s}
splits(r) == r.amount # NoAmount
out1(r) == outputOf(r.p1)
out2(r) == IF ~splits(r) THEN "none"
           ELSE IF r.p2 = NoRef /\ Has("acceptsMissingP2") THEN MintsOwn
           ELSE outputOf(r.p2)

\* Fault: a retry may name another p2.
identity_anyP2(r) == [inputs |-> qs(r), out1 |-> out1(r), amount |-> r.amount]
\* The notes the request names, or with the option the strings it used.
identity(r) ==
  IF Has("replayMatchesStrings")
  THEN [inputs |-> {r.k1s[i] : i \in DOMAIN r.k1s}, out1 |-> r.p1, out2 |-> r.p2,
        amount |-> r.amount]
  ELSE [inputs |-> qs(r), out1 |-> out1(r), out2 |-> out2(r), amount |-> r.amount]

total(r) == SumFunctionOnSet([q \in qs(r) |-> notes[q].amount], qs(r))
outputs(r) == {out1(r), out2(r)} \ {"none"}

\* Refused before any note is looked at, in the order of the code.
\* Fault: one note spelt two ways passes for two notes.
illFormed_byString(r) ==
  \/ Has("mergeCap") /\ Len(r.k1s) > Capped
  \/ ~IsInjective(r.k1s)
  \/ out1(r) = "none"
  \/ splits(r) /\ out2(r) = "none"
illFormed(r) ==
  \/ Has("mergeCap") /\ Len(r.k1s) > Capped
  \/ Cardinality(qs(r)) # Len(r.k1s)
  \/ out1(r) = "none"
  \/ splits(r) /\ out2(r) = "none"

unopened(r) == \E i \in DOMAIN r.k1s : ~known(r.k1s[i].q) \/ ~opens(r.k1s[i])

change(r) ==
  total(r) - r.amount - (IF Has("splitIgnoresBaseFee") THEN 0 ELSE BaseFee)
badSplit(r) == r.amount <= 0 \/ r.amount >= total(r) \/ change(r) < 1

minted(r) ==
  IF splits(r)
  THEN [q \in {out1(r), out2(r)} |-> IF q = out1(r) THEN r.amount ELSE change(r)]
  ELSE [q \in {out1(r)} |-> total(r) + (Len(r.k1s) - 1) * BaseFee]

\* A note is certified over its h only where it was named by its h.
hashed(r, q) == IF q = r.p1.q THEN r.p1.by = "h" ELSE q = r.p2.q /\ r.p2.by = "h"

replied(certificates) ==
  [Said EXCEPT !.status = "OK",
               !.k1 = IF Has("serverGeneratedSecrets") THEN "invented" ELSE "none",
               !.c = sent(certificates[1]),
               !.c2 = IF Len(certificates) = 2 THEN sent(certificates[2]) ELSE NoCertificate,
               !.legacy = legacy(certificates[1])]

\* finish(): the mutation has been applied whatever the caller is told.
finish(answer) ==
  IF Has("dropAfterMutation") THEN [Said EXCEPT !.status = "timeout"]
  ELSE IF Has("unconfirmedMutation") THEN [Said EXCEPT !.status = "acknowledged"]
  ELSE answer

Handled(answer) == [answer |-> answer, notes |-> notes, swaps |-> swaps]

\* Map.set, for each key of added.
set(map, added) ==
  [k \in DOMAIN map \cup DOMAIN added |-> IF k \in DOMAIN added THEN added[k] ELSE map[k]]

exchanged(r) ==
  LET out == minted(r)
      certificate(q) == certify(q, out[q], hashed(r, q))
      certificates == IF splits(r) THEN <<certificate(out1(r)), certificate(out2(r))>>
                      ELSE <<certificate(out1(r))>>
      burned == [q \in qs(r) |-> [notes[q] EXCEPT !.state = "burned"]]
      fresh == [q \in DOMAIN out |-> [state |-> "outstanding", amount |-> out[q],
                                     hashed |-> hashed(r, q)]]
  IN  [answer |-> finish(replied(certificates)),
       notes |-> set(set(notes, burned), fresh),
       swaps |-> set(swaps, [id \in {identity(r)} |-> certificates])]

\* Fault: a retry is judged as a new request.
mutate_neverReplays(r) ==
  IF illFormed(r) \/ unopened(r) THEN Handled(fail("malformed"))
  ELSE IF \E q \in qs(r) : notes[q].state = "burned" THEN Handled(fail(burnedReason))
  ELSE IF out1(r) = out2(r) \/ (\E q \in outputs(r) : known(q)) THEN Handled(fail(alreadyInUseReason))
  ELSE IF splits(r) /\ badSplit(r) THEN Handled(fail("insufficient value"))
  ELSE exchanged(r)

mutate(r) ==
  IF Has("acceptsOversizedMerge") /\ Len(r.k1s) > Capped
  THEN Handled([Said EXCEPT !.status = "OK"])
  ELSE IF illFormed(r) THEN Handled(fail("malformed"))
  ELSE IF unopened(r) THEN Handled(fail("Invalid or already spent k1."))
  ELSE IF ~Has("retriedMutation:refuse") /\ identity(r) \in DOMAIN swaps
  THEN Handled(replied(swaps[identity(r)]))
  ELSE IF \E q \in qs(r) : notes[q].state = "burned" THEN Handled(fail(burnedReason))
  ELSE IF out1(r) = out2(r) THEN Handled(fail("p1 and p2 name the same note."))
  ELSE IF \E q \in outputs(r) : known(q) THEN Handled(fail(alreadyInUseReason))
  ELSE IF splits(r) /\ badSplit(r) THEN Handled(fail("insufficient value"))
  ELSE exchanged(r)

\* Every endpoint but these answers a method other than GET with a 404.
handle(r) ==
  CASE r.ask = "k1" -> Handled(infoBySpend(r.k1s[1]))
    [] r.ask = "p" -> Handled(infoByRef(r.p1))
    [] r.ask = "both" -> Handled(infoByBoth(r.k1s[1]))
    [] r.ask = "cb" -> mutate(r)
    [] r.ask = "method" -> Handled(fail("Not found."))

InitMint(q, spelled) ==
  /\ fault \in Misbehaviour
  /\ notes = [r \in {q} |-> [state |-> "outstanding", amount |-> Value, hashed |-> spelled]]
  /\ swaps = << >>
=============================================================================
