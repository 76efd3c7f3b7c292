-------------------------- MODULE NoteGraderProofs --------------------------
(***************************************************************************)
(* What a grade can do to the value of the note, whatever HTTP loses,      *)
(* repeats or delays, at a mint with any option: first the exchange of the *)
(* mint alone, then the requests the grader sends it.                      *)
(***************************************************************************)
EXTENDS NoteGrader, NumberTheorems

\* What a mint with these notes owes: their values, and one base fee for each
\* note but the first, since a merge pays it back.
Live(map) == {q \in DOMAIN map : map[q].state = "outstanding"}
Face(map) == SumFunctionOnSet([q \in Live(map) |-> map[q].amount], Live(map))
Owed(map) == Face(map) + (Cardinality(Live(map)) - 1) * BaseFee

Ledger(map) ==
  /\ IsFiniteSet(DOMAIN map)
  /\ \A q \in DOMAIN map :
       /\ {"state", "amount"} \subseteq DOMAIN map[q]
       /\ map[q].state \in {"outstanding", "burned"} /\ map[q].amount \in Nat

\* The requests of a grader: to the callback at least one spend, and a split
\* of one only.
Asked(r) ==
  /\ r.ask \in {"k1", "p", "both", "cb", "method"}
  /\ r.ask = "cb" => DOMAIN r.k1s # {}
  /\ r.amount \in Int
  /\ r.amount # NoAmount => Len(r.k1s) = 1

\* What the callback has established when it exchanges notes.
Exchangeable(r) ==
  /\ ~illFormed(r) /\ ~unopened(r)
  /\ \A q \in qs(r) : notes[q].state # "burned"
  /\ out1(r) # out2(r) /\ (\A q \in outputs(r) : ~known(q))
  /\ splits(r) => ~badSplit(r)

\* The callback answers at no cost, or exchanges.
LEMMA MutateExchanges ==
  ASSUME NEW r
  PROVE  \/ mutate(r).notes = notes
         \/ Exchangeable(r) /\ mutate(r) = exchanged(r)
<1>1. \A answer : Handled(answer).notes = notes
  BY DEF Handled
<1>2. CASE \/ Has("acceptsOversizedMerge") /\ Len(r.k1s) > Capped
           \/ illFormed(r) \/ unopened(r)
           \/ ~Has("retriedMutation:refuse") /\ identity(r) \in DOMAIN swaps
           \/ \E q \in qs(r) : notes[q].state = "burned"
  BY <1>1, <1>2 DEF mutate
<1>3. CASE ~(\/ Has("acceptsOversizedMerge") /\ Len(r.k1s) > Capped
             \/ illFormed(r) \/ unopened(r)
             \/ ~Has("retriedMutation:refuse") /\ identity(r) \in DOMAIN swaps
             \/ \E q \in qs(r) : notes[q].state = "burned")
  <2>1. mutate(r) =
          IF out1(r) = out2(r) THEN Handled(fail("p1 and p2 name the same note."))
          ELSE IF \E q \in outputs(r) : known(q) THEN Handled(fail(alreadyInUseReason))
          ELSE IF splits(r) /\ badSplit(r) THEN Handled(fail("insufficient value"))
          ELSE exchanged(r)
    BY <1>3, Zenon DEF mutate
  <2>2. CASE out1(r) = out2(r) \/ (\E q \in outputs(r) : known(q)) \/ (splits(r) /\ badSplit(r))
    BY <1>1, <2>1, <2>2
  <2>3. CASE ~(out1(r) = out2(r) \/ (\E q \in outputs(r) : known(q)) \/ (splits(r)
             /\ badSplit(r)))
    BY <1>3, <2>1, <2>3, Zenon DEF Exchangeable
  <2> QED BY <2>2, <2>3
<1> QED BY <1>2, <1>3

\* The notes after an exchange.
LEMMA AfterExchange ==
  ASSUME NEW r, Exchangeable(r)
  PROVE  LET after == exchanged(r).notes
         IN  /\ DOMAIN minted(r) = outputs(r) /\ qs(r) \subseteq DOMAIN notes
             /\ outputs(r) \cap DOMAIN notes = {}
             /\ DOMAIN after = DOMAIN notes \cup outputs(r)
             /\ \A q \in outputs(r) : /\ {"state", "amount"} \subseteq DOMAIN after[q]
                                      /\ after[q].state = "outstanding"
                                      /\ after[q].amount = minted(r)[q]
             /\ \A q \in qs(r) : after[q] = [notes[q] EXCEPT !.state = "burned"]
             /\ \A q \in DOMAIN notes \ qs(r) : after[q] = notes[q]
<1> DEFINE out == minted(r)
           burned == [q \in qs(r) |-> [notes[q] EXCEPT !.state = "burned"]]
           fresh == [q \in DOMAIN out |-> [state |-> "outstanding", amount |-> out[q],
                                          hashed |-> hashed(r, q)]]
           after == exchanged(r).notes
<1>1. after = set(set(notes, burned), fresh)
  BY Zenon DEF exchanged
<1>2. DOMAIN out = outputs(r)
  <2>1. splits(r) => out2(r) # "none"
    BY DEF Exchangeable, illFormed
  <2>2. out1(r) # "none" /\ (~splits(r) => out2(r) = "none")
    BY DEF Exchangeable, illFormed, out2
  <2> QED BY <2>1, <2>2 DEF minted, outputs
<1>3. qs(r) \subseteq DOMAIN notes
  BY DEF Exchangeable, unopened, known, qs
<1>4. outputs(r) \cap DOMAIN notes = {}
  BY DEF Exchangeable, known
<1> HIDE DEF out
<1>5. DOMAIN burned = qs(r) /\ DOMAIN fresh = outputs(r)
  BY <1>2
<1>6. \A q \in outputs(r) : /\ {"state", "amount"} \subseteq DOMAIN fresh[q]
                             /\ fresh[q].state = "outstanding" /\ fresh[q].amount = out[q]
  BY <1>2
<1>7. \A q \in qs(r) : burned[q] = [notes[q] EXCEPT !.state = "burned"]
  OBVIOUS
<1> HIDE DEF burned, fresh, after
<1> QED BY <1>1, <1>2, <1>3, <1>4, <1>5, <1>6, <1>7 DEF set, after, out

\* The outputs are worth what was burned, one base fee less for a note more
\* and one more for each note less.
LEMMA MintedIsPaidFor ==
  ASSUME Ledger(notes), NEW r, Asked(r), r.ask = "cb", Exchangeable(r)
  PROVE  /\ \A q \in outputs(r) : minted(r)[q] \in Nat
         /\ IsFiniteSet(qs(r)) /\ IsFiniteSet(outputs(r))
         /\ Cardinality(qs(r)) \in Nat /\ Cardinality(outputs(r)) \in Nat
         /\ total(r) \in Nat
         /\ fault = "none" =>
              SumFunctionOnSet(minted(r), outputs(r))
                = total(r) + (Cardinality(qs(r)) - Cardinality(outputs(r))) * BaseFee
<1> DEFINE Q == qs(r)
           O == outputs(r)
<1>1. Q \subseteq DOMAIN notes /\ DOMAIN minted(r) = O
  BY AfterExchange
<1>2. IsFiniteSet(Q) /\ Cardinality(Q) \in Nat
  <2>1. Q \in SUBSET DOMAIN notes
    BY <1>1
  <2> HIDE DEF Q
  <2> QED BY <2>1, FS_Subset, FS_CardinalityType DEF Ledger
<1>3. Len(r.k1s) = Cardinality(Q) /\ out1(r) # "none" /\ (splits(r) => out2(r) # "none")
  BY DEF Exchangeable, illFormed
<1>4. Q # {}
  BY DEF Asked, qs
<1>5. Cardinality(Q) # 0
  BY <1>2, <1>4, FS_EmptySet
<1>6. total(r) \in Nat
  <2> DEFINE f == [q \in Q |-> notes[q].amount]
  <2>1. \A q \in Q : f[q] \in Nat
    BY <1>1 DEF Ledger
  <2>2. total(r) = SumFunctionOnSet(f, Q)
    BY Zenon DEF total
  <2> HIDE DEF f
  <2> QED BY <1>2, <2>1, <2>2, SumIsNat
<1>7. BaseFee \in Nat /\ r.amount \in Int
  BY Money DEF Asked
<1> HIDE DEF Q, O
<1>8. CASE ~splits(r)
  <2>1. O = {out1(r)}
    BY <1>3, <1>8 DEF O, outputs, out2
  <2>2. minted(r)[out1(r)] = total(r) + (Cardinality(Q) - 1) * BaseFee
    BY <1>3, <1>8 DEF minted
  <2>3. (Cardinality(Q) - 1) * BaseFee \in Nat
    BY <1>2, <1>5, <1>7
  <2>4. minted(r)[out1(r)] \in Nat
    BY <1>6, <2>2, <2>3
  <2>5. IsFiniteSet(O) /\ Cardinality(O) = 1
    BY <2>1, FS_Singleton
  <2>6. SumFunctionOnSet(minted(r), O) = minted(r)[out1(r)] + SumFunctionOnSet(minted(r), {})
    <3>1. O \ {out1(r)} = {} /\ out1(r) \in O /\ \A x \in O : minted(r)[x] \in Int
      BY <2>1, <2>4
    <3> QED BY <2>5, <3>1, SumWithout
  <2>7. SumFunctionOnSet(minted(r), {}) = 0
    BY SumOfNone
  <2> QED BY <1>2, <1>6, <2>1, <2>2, <2>3, <2>4, <2>5, <2>6, <2>7 DEF Q, O
<1>9. CASE splits(r)
  <2>1. O = {out1(r), out2(r)} /\ out1(r) # out2(r)
    BY <1>3, <1>9 DEF O, outputs, Exchangeable
  <2>2. minted(r)[out1(r)] = r.amount /\ minted(r)[out2(r)] = change(r)
    BY <1>9, <2>1 DEF minted
  <2>3. r.amount \in Nat /\ change(r) \in Nat
    <3>1. change(r) \in Int
      BY <1>6, <1>7 DEF change
    <3> QED BY <1>7, <1>9, <3>1 DEF Exchangeable, badSplit
  <2>4. Cardinality(Q) = 1
    BY <1>3, <1>9 DEF Asked, splits
  <2>5. IsFiniteSet({out2(r)}) /\ Cardinality({out2(r)}) = 1 /\ IsFiniteSet(O)
        /\ Cardinality(O) = 2
    <3>1. IsFiniteSet({out2(r)}) /\ Cardinality({out2(r)}) = 1
      BY FS_Singleton
    <3>2. O = {out2(r)} \cup {out1(r)}
      BY <2>1
    <3> QED BY <2>1, <3>1, <3>2, FS_AddElement
  <2>6. \A x \in O : minted(r)[x] \in Nat
    BY <2>1, <2>2, <2>3
  <2>7. SumFunctionOnSet(minted(r), O) = r.amount + SumFunctionOnSet(minted(r), {out2(r)})
    <3>1. O \ {out1(r)} = {out2(r)} /\ out1(r) \in O /\ \A x \in O : minted(r)[x] \in Int
      BY <2>1, <2>6
    <3> QED BY <2>2, <2>5, <3>1, SumWithout
  <2>8. SumFunctionOnSet(minted(r), {out2(r)}) = change(r) + SumFunctionOnSet(minted(r), {})
    <3>1. {out2(r)} \ {out2(r)} = {} /\ \A x \in {out2(r)} : minted(r)[x] \in Int
      BY <2>2, <2>3
    <3> QED BY <2>2, <2>5, <3>1, SumWithout
  <2>9. SumFunctionOnSet(minted(r), {}) = 0
    BY SumOfNone
  <2>10. fault = "none" => change(r) = total(r) - r.amount - BaseFee
    BY <1>6, <1>7 DEF change, Has
  <2> QED BY <1>2, <1>6, <1>7, <2>3, <2>4, <2>5, <2>6, <2>7, <2>8, <2>9, <2>10 DEF Q, O
<1> QED BY <1>8, <1>9

\* So an exchange leaves a ledger, and at an honest mint what it owes.
LEMMA ExchangeConserves ==
  ASSUME Ledger(notes), NEW r, Asked(r), r.ask = "cb", Exchangeable(r)
  PROVE  /\ Ledger(exchanged(r).notes)
         /\ fault = "none" => Owed(exchanged(r).notes) = Owed(notes)
<1> DEFINE Q == qs(r)
           O == outputs(r)
           after == exchanged(r).notes
           rest == Live(notes) \ Q
           f == [q \in Live(notes) |-> notes[q].amount]
           h == [q \in Live(after) |-> after[q].amount]
<1>1. /\ Q \subseteq DOMAIN notes /\ O \cap DOMAIN notes = {}
      /\ DOMAIN after = DOMAIN notes \cup O
      /\ \A q \in O : /\ {"state", "amount"} \subseteq DOMAIN after[q]
                      /\ after[q].state = "outstanding" /\ after[q].amount = minted(r)[q]
      /\ \A q \in Q : after[q] = [notes[q] EXCEPT !.state = "burned"]
      /\ \A q \in DOMAIN notes \ Q : after[q] = notes[q]
  BY AfterExchange
<1>2. /\ \A q \in O : minted(r)[q] \in Nat
      /\ IsFiniteSet(Q) /\ IsFiniteSet(O)
      /\ Cardinality(Q) \in Nat /\ Cardinality(O) \in Nat
      /\ total(r) \in Nat
      /\ fault = "none" => SumFunctionOnSet(minted(r), O)
                             = total(r) + (Cardinality(Q) - Cardinality(O)) * BaseFee
  BY MintedIsPaidFor
<1>3. /\ IsFiniteSet(DOMAIN notes)
      /\ \A q \in DOMAIN notes : /\ {"state", "amount"} \subseteq DOMAIN notes[q]
                                 /\ notes[q].state \in {"outstanding", "burned"}
                                 /\ notes[q].amount \in Nat
  BY DEF Ledger
<1>4. \A q \in Q : notes[q].state = "outstanding"
  BY <1>1, <1>3 DEF Exchangeable
<1> HIDE DEF Q, O, after
<1>5. \A q \in Q : /\ {"state", "amount"} \subseteq DOMAIN after[q]
                   /\ after[q].state = "burned" /\ after[q].amount = notes[q].amount
  <2> TAKE q \in Q
  <2> DEFINE note == notes[q]
  <2>1. after[q] = [note EXCEPT !.state = "burned"] /\ {"state", "amount"} \subseteq DOMAIN note
    BY <1>1, <1>3
  <2> HIDE DEF note
  <2>2. after[q] = [x \in DOMAIN note |-> IF x = "state" THEN "burned" ELSE note[x]]
    BY <2>1
  <2>3. after[q].state = "burned" /\ after[q].amount = note.amount
    BY <2>1, <2>2
  <2> QED BY <2>1, <2>2, <2>3 DEF note
<1>6. Ledger(after)
  <2>1. IsFiniteSet(DOMAIN after)
    <3> HIDE DEF rest, f, h
    <3>1. IsFiniteSet(DOMAIN notes \cup O)
      BY <1>2, <1>3, FS_Union
    <3> QED BY <1>1, <3>1
  <2>2. ASSUME NEW q \in DOMAIN after
        PROVE  /\ {"state", "amount"} \subseteq DOMAIN after[q]
               /\ after[q].state \in {"outstanding", "burned"} /\ after[q].amount \in Nat
    <3>1. CASE q \in O
      BY <1>1, <1>2, <3>1
    <3>2. CASE q \in Q
      BY <1>1, <1>3, <1>5, <3>2
    <3>3. CASE q \in DOMAIN notes \ Q
      BY <1>1, <1>3, <3>3
    <3> QED BY <1>1, <3>1, <3>2, <3>3
  <2> QED BY <2>1, <2>2 DEF Ledger
<1>7. Live(after) = rest \cup O /\ rest \cap O = {} /\ rest \cup Q = Live(notes)
      /\ rest \cap Q = {}
  BY <1>1, <1>4, <1>5 DEF Live
<1>8. IsFiniteSet(Live(notes)) /\ IsFiniteSet(rest) /\ Cardinality(Live(notes)) \in Nat
      /\ Cardinality(rest) \in Nat
  <2>1. Live(notes) \subseteq DOMAIN notes /\ rest \subseteq DOMAIN notes
    BY DEF Live
  <2> QED BY <1>3, <2>1, FS_Subset, FS_CardinalityType
<1>9. /\ Cardinality(Live(after)) = Cardinality(rest) + Cardinality(O)
      /\ Cardinality(Live(notes)) = Cardinality(rest) + Cardinality(Q)
  <2>1. Cardinality({}) = 0
    BY FS_EmptySet
  <2> HIDE DEF rest
  <2>2. Cardinality(rest \cup O) = Cardinality(rest) + Cardinality(O) - Cardinality(rest \cap O)
    BY <1>2, <1>8, FS_Union
  <2>3. Cardinality(rest \cup Q) = Cardinality(rest) + Cardinality(Q) - Cardinality(rest \cap Q)
    BY <1>2, <1>8, FS_Union
  <2>4. Cardinality(rest) \in Int /\ Cardinality(O) \in Int /\ Cardinality(Q) \in Int
    BY <1>2, <1>8
  <2>5. Cardinality(rest \cap O) = 0 /\ Cardinality(rest \cap Q) = 0
    BY <1>7, <2>1
  <2>6. Cardinality(rest \cup O) = Cardinality(rest) + Cardinality(O)
    BY <2>2, <2>4, <2>5
  <2>7. Cardinality(rest \cup Q) = Cardinality(rest) + Cardinality(Q)
    BY <2>3, <2>4, <2>5
  <2> QED BY <1>7, <2>6, <2>7
<1>10. (\A q \in Live(notes) : f[q] \in Int) /\ (\A q \in Live(after) : h[q] \in Int)
  BY <1>3, <1>6 DEF Ledger, Live
<1>11. (\A q \in rest : h[q] = f[q]) /\ (\A q \in O : h[q] = minted(r)[q])
  BY <1>1, <1>7 DEF Live
<1>12. Face(notes) = SumFunctionOnSet(f, rest) + SumFunctionOnSet(f, Q)
  <2>1. Face(notes) = SumFunctionOnSet(f, Live(notes))
    BY DEF Face
  <2> HIDE DEF f, rest
  <2> QED BY <1>2, <1>7, <1>8, <1>10, <2>1, SumOfBoth
<1>13. Face(after) = SumFunctionOnSet(h, rest) + SumFunctionOnSet(h, O)
  <2>1. Face(after) = SumFunctionOnSet(h, Live(after))
    BY DEF Face
  <2> HIDE DEF h, rest
  <2> QED BY <1>2, <1>7, <1>8, <1>10, <2>1, SumOfBoth
<1>14. SumFunctionOnSet(f, Q) = total(r)
  <2> DEFINE p == [q \in Q |-> notes[q].amount]
  <2>1. \A q \in Q : f[q] = p[q]
    BY <1>7
  <2>2. total(r) = SumFunctionOnSet(p, Q)
    BY Zenon DEF total, Q
  <2> HIDE DEF f, p
  <2> QED BY <1>2, <2>1, <2>2, SumOfSame
<1>15. SumFunctionOnSet(h, O) = SumFunctionOnSet(minted(r), O)
  <2> HIDE DEF h
  <2> QED BY <1>2, <1>11, SumOfSame
<1>16. SumFunctionOnSet(h, rest) = SumFunctionOnSet(f, rest)
       /\ SumFunctionOnSet(f, rest) \in Int
  <2>1. \A q \in rest : f[q] \in Int
    BY <1>10
  <2> HIDE DEF h, f, rest
  <2> QED BY <1>8, <1>11, <2>1, SumOfSame, SumIsInt
<1>17. ASSUME fault = "none" PROVE Owed(after) = Owed(notes)
  <2> DEFINE s == SumFunctionOnSet(f, rest)
             c == Cardinality(rest)
             a == Cardinality(Q)
             b == Cardinality(O)
             m == SumFunctionOnSet(minted(r), O)
  <2>1. Face(after) = s + m /\ Cardinality(Live(after)) = c + b
    BY <1>9, <1>13, <1>15, <1>16
  <2>2. Face(notes) = s + total(r) /\ Cardinality(Live(notes)) = c + a
    BY <1>9, <1>12, <1>14
  <2>3. m = total(r) + (a - b) * BaseFee
    BY <1>2, <1>17
  <2>4. s \in Int /\ c \in Nat /\ a \in Nat /\ b \in Nat /\ total(r) \in Nat /\ BaseFee \in Nat
    BY <1>2, <1>8, <1>16, Money
  <2>6. m \in Int
    BY <2>3, <2>4
  <2>11. Owed(after) = s + m + (c + b - 1) * BaseFee
    <3> HIDE DEF s, c, a, b, m, rest, f, h
    <3> QED BY <2>1, <2>4, <2>6 DEF Owed
  <2>12. Owed(notes) = s + total(r) + (c + a - 1) * BaseFee
    <3> HIDE DEF s, c, a, b, m, rest, f, h
    <3> QED BY <2>2, <2>4 DEF Owed
  <2> HIDE DEF s, c, a, b, m
  <2>5. /\ (a - b) * BaseFee = a * BaseFee - b * BaseFee
        /\ (c + b - 1) * BaseFee = c * BaseFee + b * BaseFee - BaseFee
        /\ (c + a - 1) * BaseFee = c * BaseFee + a * BaseFee - BaseFee
        /\ a * BaseFee \in Int /\ b * BaseFee \in Int /\ c * BaseFee \in Int
    BY <2>4
  <2> QED BY <2>11, <2>12, <2>3, <2>4, <2>5, Money
<1> QED BY <1>6, <1>17 DEF after

---------------------------------------------------------------------------
\* The inductive invariant, part by part.  Of what the check has read: every
\* answer but the last is one, and the last unless the check throws; the
\* check of the methods alone goes on after a request that had none.
LogRead ==
  /\ log \in Seq({log[i] : i \in DOMAIN log})
  /\ \A i \in DOMAIN log : log[i].status \notin Unanswered => log[i].value \in Nat
  /\ at # "methods" =>
       \A i \in DOMAIN log : log[i].status \in Unanswered => i = Len(log) /\ ask = Nothing

\* Of what it waits for.
Waiting ==
  /\ ask # Nothing => Asked(ask)
  /\ at = "done" => ask = Nothing /\ log = << >>
  /\ tries \in 0 .. Retries

\* Of what the grader remembers.
Remembered ==
  /\ {"value", "certs", "offered", "first", "prior", "tree", "keyed"} \subseteq DOMAIN g
  /\ g.certs \subseteq {"verifies", "missing", "wrong"}
  /\ g.value \in Nat /\ g.tree \in Nat /\ g.keyed \in Nat

\* The long form of a spend is asked for only while the short one is held.
HasLongForm ==
  at = "fullCw1" /\ Len(log) <= 2 /\ (Len(log) > 0 \/ ask # Nothing) => held.how = "preimage"

Verdicts == {"pass", "fail", "warn", "skip"}
Reported == \A check \in DOMAIN report : report[check] \in Verdicts

Solvent == Ledger(notes) /\ (fault = "none" => Owed(notes) = Value)

GradeInv == LogRead /\ Waiting /\ Remembered /\ HasLongForm /\ Reported /\ Solvent

---------------------------------------------------------------------------
\* What a check does with an answer: it asks again, or it is left with a
\* verdict, and what it remembers stays well-formed.
Asks == \E r : Asked(r) /\ Ask(r)
Leaves == \E rest, verdict : verdict \in Verdicts /\ Leave(rest, Only(verdict))

Answered ==
  /\ ask = Nothing /\ at # "done" /\ Len(log) \in Nat \ {0}
  /\ \A i \in 1 .. Len(log) : log[i].status \notin Unanswered /\ log[i].value \in Nat

Moves ==
  /\ ask = Nothing /\ at # "done"
  /\ Remembered'
  /\ \/ Leaves
     \/ /\ Asks
        /\ at # "methods" => \A i \in DOMAIN log : log[i].status \notin Unanswered
        /\ at = "fullCw1" /\ Len(log) <= 2 => held'.how = "preimage"

\* The requests of a grader are well-formed whatever spends they name.
LEMMA Requests ==
  /\ \A spend : Asked(lookup(spend))
  /\ \A ref : Asked(lookupRef(ref))
  /\ \A spend, ref : Asked([lookup(spend) EXCEPT !.ask = "both", !.p1 = ref])
  /\ \A k1s, p1 : DOMAIN k1s # {} => Asked(call(k1s, p1))
  /\ \A spend, p1 : Asked(call(<<spend>>, p1))
  /\ \A one, other, p1 : Asked(call(<<one, other>>, p1))
  /\ \A spend, p1, p2 : \A amount \in Int : Asked(split(spend, amount, p1, p2))
  /\ \A i : Asked(Method(i))
<1>1. -1 \in Int
  OBVIOUS
<1> QED BY <1>1 DEF Asked, lookup, lookupRef, call, split, Method, Nothing, NoRef, NoAmount

\* Every way out of a check leaves it with one of the verdicts.
LEMMA WaysOut ==
  /\ \A verdict \in Verdicts : Verdict(verdict) => Leaves
  /\ \A verdict \in Verdicts : LastVerdict(verdict) => Leaves
  /\ "pass" \in Verdicts /\ "warn" \in Verdicts /\ "fail" \in Verdicts
BY DEF Verdict, LastVerdict, Leaves, Verdicts

\* A check that reads an answer has read nothing but answers.
LEMMA ReadsAnswers ==
  ASSUME GradeInv, NEW check, Reading(check), check # "methods", check # "done"
  PROVE  Answered
BY DEF GradeInv, LogRead, Reading, Answered, body, n

\* A spend has one long form or none.
LEMMA LongForms ==
  \A spend : respell(spend) = << >> \/ (Len(respell(spend)) = 1 /\ DOMAIN respell(spend) = {1})
BY DEF respell

\* Half of what the note is worth is an amount.
LEMMA HalfIsInt ==
  ASSUME Remembered PROVE half \in Int
BY DEF Remembered, half

\* What two sequences make.
LEMMA Joined ==
  ASSUME NEW S, NEW s1 \in Seq(S), NEW s2 \in Seq(S)
  PROVE  /\ Len(s1 \o s2) = Len(s1) + Len(s2)
         /\ \A i \in 1 .. Len(s1) + Len(s2) :
              (s1 \o s2)[i] = IF i <= Len(s1) THEN s1[i] ELSE s2[i - Len(s1)]
OBVIOUS

\* One note is named twice by spends it has, whichever way.
LEMMA TwiceAsks ==
  /\ Len(Twice) \in Nat \ {0}
  /\ \A i \in 1 .. Len(Twice) : \A p1 : Asked(call(Twice[i], p1))
<1> DEFINE k == Len(respell(held))
           longer == [i \in 1 .. k |-> <<held, respell(held)[i]>>]
           same == <<<<held, held>>>>
           S == {<<held, held>>} \cup {<<held, respell(held)[i]>> : i \in 1 .. k}
<1>1. k \in Nat /\ DOMAIN respell(held) = 1 .. k
  BY LongForms
<1>2. Twice = same \o longer
  BY <1>1 DEF Twice
<1>3. longer \in Seq(S) /\ Len(longer) = k
  BY <1>1
<1>4. same \in Seq(S) /\ Len(same) = 1 /\ same[1] = <<held, held>>
  OBVIOUS
<1>5. \A i \in 1 .. k : longer[i] = <<held, respell(held)[i]>>
  OBVIOUS
<1> HIDE DEF k, longer, same, S
<1>6. /\ Len(Twice) = k + 1
      /\ \A i \in 1 .. k + 1 : Twice[i] = IF i <= 1 THEN same[i] ELSE longer[i - 1]
  <2>1. /\ Len(same \o longer) = Len(same) + Len(longer)
        /\ \A i \in 1 .. Len(same) + Len(longer) :
             (same \o longer)[i] = IF i <= Len(same) THEN same[i] ELSE longer[i - Len(same)]
    BY <1>3, <1>4, Joined
  <2>2. Len(same) = 1 /\ Len(longer) = k /\ k \in Nat
    BY <1>1, <1>3, <1>4
  <2>3. Len(same \o longer) = k + 1
    BY <2>1, <2>2
  <2>4. \A i \in 1 .. k + 1 :
          (same \o longer)[i] = IF i <= 1 THEN same[i] ELSE longer[i - 1]
    <3> TAKE i \in 1 .. k + 1
    <3>1. i \in 1 .. Len(same) + Len(longer)
      BY <2>2
    <3>2. (same \o longer)[i] = IF i <= Len(same) THEN same[i] ELSE longer[i - Len(same)]
      BY <2>1, <3>1
    <3> QED BY <2>2, <3>2, Zenon
  <2> QED BY <1>2, <2>3, <2>4, Zenon
<1>7. ASSUME NEW i \in 1 .. k + 1
      PROVE  \E other : Twice[i] = <<held, other>>
  <2>1. CASE i = 1
    BY <1>4, <1>6, <2>1
  <2>2. CASE i # 1
    <3>1. i - 1 \in 1 .. k /\ Twice[i] = longer[i - 1]
      BY <1>1, <1>6, <2>2
    <3> QED BY <1>5, <3>1
  <2> QED BY <2>1, <2>2
<1>8. \A i \in 1 .. k + 1 : \A p1 : Asked(call(Twice[i], p1))
  <2> TAKE i \in 1 .. k + 1
  <2>1. PICK other : Twice[i] = <<held, other>>
    BY <1>7
  <2> QED BY <2>1, Requests
<1> QED BY <1>1, <1>6, <1>8

\* The certificates it collects are of three kinds.
LEMMA CertificatesKept ==
  ASSUME Remembered, NEW c, NEW q, NEW amount
  PROVE  /\ judgeCertificate(c, q, amount) \in {"verifies", "missing", "wrong"}
         /\ noteCertificate(c, q, amount) \subseteq {"verifies", "missing", "wrong"}
BY DEF Remembered, noteCertificate, judgeCertificate

\* The checks that keep what they remember.
LEMMA KeepsRemembering ==
  ASSUME Remembered, g' = g PROVE Remembered'
BY DEF Remembered

\* Nor does a check that changes it forget a field or misread an answer.
LEMMA StillRemembers ==
  ASSUME Remembered, NEW v \in Nat, NEW x, NEW C \in SUBSET {"verifies", "missing", "wrong"},
         \/ g' = g
         \/ g' = [g EXCEPT !.value = v, !.certs = C]
         \/ g' = [g EXCEPT !.value = v]
         \/ g' = [g EXCEPT !.certs = C]
         \/ g' = [g EXCEPT !.certs = C, !.offered = x]
         \/ g' = [g EXCEPT !.certs = C, !.first = x]
         \/ g' = [g EXCEPT !.prior = x]
         \/ g' = [g EXCEPT !.certs = C, !.tree = v]
         \/ g' = [g EXCEPT !.tree = v, !.certs = C]
         \/ g' = [g EXCEPT !.certs = C, !.keyed = v]
         \/ g' = [g EXCEPT !.keyed = v, !.certs = C]
  PROVE  Remembered'
<1> DEFINE D == DOMAIN g
<1>1. DOMAIN g' = D
  OBVIOUS
<1>2. /\ g'.certs = g.certs \/ g'.certs = C
      /\ g'.value = g.value \/ g'.value = v
      /\ g'.tree = g.tree \/ g'.tree = v
      /\ g'.keyed = g.keyed \/ g'.keyed = v
  BY DEF Remembered
<1> QED BY <1>1, <1>2 DEF Remembered

\* echo: the first answer says what the note is worth, and is certified or not.
LEMMA EchoMoves ==
  ASSUME GradeInv, Echo PROVE Moves
<1>1. Answered
  BY ReadsAnswers DEF Echo
<1>2. Leaves
  BY WaysOut DEF Echo
<1>3. body.value \in Nat
  BY <1>1 DEF Answered, body, n
<1>4. Remembered'
  BY <1>3, CertificatesKept, StillRemembers DEF GradeInv, Echo
<1> QED BY <1>1, <1>2, <1>4 DEF Moves, Answered

\* idempotent and amount: the value is read twice more, and compared.
LEMMA SameValueMoves ==
  ASSUME GradeInv, SameValue PROVE Moves
<1>1. Answered
  BY ReadsAnswers DEF SameValue
<1>2. Leaves
  BY WaysOut DEF SameValue, Judged
<1>3. Remembered'
  BY KeepsRemembering DEF GradeInv, SameValue, Keep
<1> QED BY <1>1, <1>2, <1>3 DEF Moves, Answered

\* All of them but FullCw1 move on as soon as they do one or the other.
LEMMA MovesOn ==
  ASSUME GradeInv, Answered, at # "fullCw1", Leaves \/ Asks, Remembered'
  PROVE  Moves
BY DEF GradeInv, LogRead, Answered, Moves

\* oversized: more spends than any mint of the grader's merges.
LEMMA OversizedMoves ==
  ASSUME GradeInv, Oversized PROVE Moves
<1>1. Answered /\ at # "fullCw1"
  BY ReadsAnswers DEF Oversized, Reading
<1>2. Leaves \/ Asks
  BY WaysOut, Requests DEF Oversized, Judged, Provided, Asks
<1>3. Remembered'
  BY CertificatesKept, StillRemembers DEF GradeInv, Oversized, Keep, With
<1> QED BY <1>1, <1>2, <1>3, MovesOn

\* noP1: a mutation with nowhere to go.
LEMMA NoP1Moves ==
  ASSUME GradeInv, NoP1 PROVE Moves
<1>1. Answered /\ at # "fullCw1"
  BY ReadsAnswers DEF NoP1, Reading
<1>2. Leaves \/ Asks
  BY WaysOut, Requests DEF NoP1, Judged, Provided, Asks
<1>3. Remembered'
  BY CertificatesKept, StillRemembers DEF GradeInv, NoP1, Keep, With
<1> QED BY <1>1, <1>2, <1>3, MovesOn

\* noP2: a split with one output, and the note looked up after it.
LEMMA NoP2Moves ==
  ASSUME GradeInv, NoP2 PROVE Moves
<1>1. Answered /\ at # "fullCw1"
  BY ReadsAnswers DEF NoP2, Reading
<1>2. Leaves \/ Asks
  BY WaysOut, Requests DEF NoP2, Judged, Provided, Asks
<1>3. Remembered'
  BY CertificatesKept, StillRemembers DEF GradeInv, NoP2, Keep, With
<1> QED BY <1>1, <1>2, <1>3, MovesOn

\* infoCert: the certificate of the lookup.
LEMMA InfoCertificateMoves ==
  ASSUME GradeInv, InfoCertificate PROVE Moves
<1>1. Answered /\ at # "fullCw1"
  BY ReadsAnswers DEF InfoCertificate, Reading
<1>2. Leaves \/ Asks
  BY WaysOut, Requests DEF InfoCertificate, Judged, Provided, Asks
<1>3. Remembered'
  BY CertificatesKept, StillRemembers DEF GradeInv, InfoCertificate, Keep, With
<1> QED BY <1>1, <1>2, <1>3, MovesOn

\* shortFee: a split whose change is one short of the fee.
LEMMA ShortFeeMoves ==
  ASSUME GradeInv, ShortFee PROVE Moves
<1>1. Answered /\ at # "fullCw1"
  BY ReadsAnswers DEF ShortFee, Reading
<1>2. Leaves \/ Asks
  BY WaysOut, Requests DEF ShortFee, Judged, Provided, Asks
<1>3. Remembered'
  BY CertificatesKept, StillRemembers DEF GradeInv, ShortFee, Keep, With
<1> QED BY <1>1, <1>2, <1>3, MovesOn

\* forged: two spends of a key note that nobody signed.
LEMMA ForgedMoves ==
  ASSUME GradeInv, Forged PROVE Moves
<1>1. Answered /\ at # "fullCw1"
  BY ReadsAnswers DEF Forged, Reading
<1>2. Leaves \/ Asks
  BY WaysOut, Requests DEF Forged, Judged, Provided, Asks
<1>3. Remembered'
  BY CertificatesKept, StillRemembers DEF GradeInv, Forged, Keep, With
<1> QED BY <1>1, <1>2, <1>3, MovesOn

\* elsewhere: a ck1 made for another mint, and what is left if it is taken.
LEMMA ElsewhereMoves ==
  ASSUME GradeInv, Elsewhere PROVE Moves
<1>1. Answered /\ at # "fullCw1"
  BY ReadsAnswers DEF Elsewhere, Reading
<1>2. Leaves \/ Asks
  BY WaysOut, Requests DEF Elsewhere, Judged, Provided, Asks
<1>3. Remembered'
  BY CertificatesKept, StillRemembers DEF GradeInv, Elsewhere, Keep, With
<1> QED BY <1>1, <1>2, <1>3, MovesOn

\* spent: a note that is spent and one that never was are told apart.
LEMMA SpentMoves ==
  ASSUME GradeInv, Spent PROVE Moves
<1>1. Reading("spent")
  BY Zenon DEF Spent
<1>2. Answered /\ at # "fullCw1" /\ Len(log) \in Nat \ {0} /\ body.value \in Nat
  BY <1>1, ReadsAnswers DEF Reading, Answered, body, n
<1>3. Leaves \/ Asks
  BY <1>2, WaysOut, Requests DEF Spent, Judged, Provided, Asks
<1>4. Remembered'
  BY <1>2, CertificatesKept, StillRemembers DEF Spent, GradeInv, Keep, With
<1> QED BY <1>2, <1>3, <1>4, MovesOn

\* lookup: by either reference, then by four the mint must refuse.
LEMMA LookupMoves ==
  ASSUME GradeInv, Lookup PROVE Moves
<1>1. Reading("lookup")
  BY Zenon DEF Lookup
<1>2. Answered /\ at # "fullCw1" /\ Len(log) \in Nat \ {0} /\ body.value \in Nat
  BY <1>1, ReadsAnswers DEF Reading, Answered, body, n
<1>3. Leaves \/ Asks
  <2>1. CASE n <= Len(originalRefs)
    BY <1>2, <2>1, WaysOut, Requests DEF Lookup, Judged, Provided, Asks
  <2>2. CASE ~(n <= Len(originalRefs))
    BY <1>2, <2>2, WaysOut, Requests DEF Lookup, Judged, Provided, Asks
  <2> QED BY <2>1, <2>2
<1>4. Remembered'
  <2>1. CASE n <= Len(originalRefs) /\ (body.status = "withdrawRequest" /\ body.k1 = "none"
             /\ body.value = g.value)
    <3>1. g' = [g EXCEPT !.certs = noteCertificate(body.c, "given", body.value),
                          !.offered = (n = Len(originalRefs))]
      BY <1>2, <2>1 DEF Lookup, With
    <3> QED BY <1>2, <3>1, CertificatesKept, StillRemembers DEF GradeInv
  <2>2. CASE ~(n <= Len(originalRefs) /\ (body.status = "withdrawRequest"
             /\ body.k1 = "none" /\ body.value = g.value))
    BY <1>2, <2>2, KeepsRemembering DEF GradeInv, Lookup, Keep
  <2> QED BY <2>1, <2>2
<1> QED BY <1>2, <1>3, <1>4, MovesOn

\* rotate: the note moves to a fresh secret.
LEMMA RotateMoves ==
  ASSUME GradeInv, Rotate PROVE Moves
<1>1. Reading("rotate")
  BY Zenon DEF Rotate
<1>2. Answered /\ at # "fullCw1" /\ Len(log) \in Nat \ {0} /\ body.value \in Nat
  BY <1>1, ReadsAnswers DEF Reading, Answered, body, n
<1>3. Leaves \/ Asks
  BY <1>2, WaysOut, Requests DEF Rotate, Judged, Provided, Asks
<1>4. Remembered'
  <2>1. CASE n = 1 /\ OK
    <3>1. g' = [g EXCEPT !.certs = noteCertificate(body.c, "rotated", g.value),
                          !.first = judgeCertificate(body.c, "rotated", g.value)]
      BY <1>2, <2>1 DEF Rotate, With
    <3>2. /\ noteCertificate(body.c, "rotated", g.value)
               \in SUBSET {"verifies", "missing", "wrong"}
          /\ 0 \in Nat
      BY <1>2, CertificatesKept DEF GradeInv, Answered, Remembered
    <3> QED BY <3>1, <3>2, StillRemembers DEF GradeInv
  <2>2. CASE ~(n = 1 /\ OK)
    BY <1>2, <2>2, KeepsRemembering DEF GradeInv, Rotate, Keep
  <2> QED BY <2>1, <2>2
<1> QED BY <1>2, <1>3, <1>4, MovesOn

\* keyNote: the value moves to a key path.
LEMMA CreditsKeyNoteMoves ==
  ASSUME GradeInv, CreditsKeyNote PROVE Moves
<1>1. Reading("keyNote")
  BY Zenon DEF CreditsKeyNote
<1>2. Answered /\ at # "fullCw1" /\ Len(log) \in Nat \ {0} /\ body.value \in Nat
  BY <1>1, ReadsAnswers DEF Reading, Answered, body, n
<1>3. Leaves \/ Asks
  BY <1>2, WaysOut, Requests DEF CreditsKeyNote, Judged, Provided, Asks
<1>4. Remembered'
  <2>1. CASE n = 2 /\ OK
    <3>1. g' = [g EXCEPT !.keyed = log[1].value,
                          !.certs = noteCertificate(body.c, "key", log[1].value)]
      BY <1>2, <2>1 DEF CreditsKeyNote, With
    <3>2. /\ noteCertificate(body.c, "key", log[1].value)
               \in SUBSET {"verifies", "missing", "wrong"}
          /\ log[1].value \in Nat
      BY <1>2, CertificatesKept DEF GradeInv, Answered, Remembered
    <3> QED BY <3>1, <3>2, StillRemembers DEF GradeInv
  <2>2. CASE ~(n = 2 /\ OK)
    BY <1>2, <2>2, KeepsRemembering DEF GradeInv, CreditsKeyNote, Keep
  <2> QED BY <2>1, <2>2
<1> QED BY <1>2, <1>3, <1>4, MovesOn

\* burnedP1: an output that names a note already burned, each way.
LEMMA BurnedP1Moves ==
  ASSUME GradeInv, BurnedP1 PROVE Moves
<1>1. Reading("burnedP1")
  BY Zenon DEF BurnedP1
<1>2. Answered /\ at # "fullCw1" /\ Len(log) \in Nat \ {0} /\ body.value \in Nat
  BY <1>1, ReadsAnswers DEF Reading, Answered, body, n
<1>3. Leaves \/ Asks
  <2>1. CASE n % 2 = 1 /\ OK
    BY <1>2, <2>1, WaysOut, Requests DEF BurnedP1, Judged, Provided, Asks
  <2>2. CASE n % 2 = 1 /\ ~OK
    BY <1>2, <2>2, WaysOut, Requests DEF BurnedP1, Judged, Provided, Asks
  <2>3. CASE n % 2 = 0
    BY <1>2, <2>3, WaysOut, Requests DEF BurnedP1, Judged, Provided, Asks
  <2> QED BY <1>2, <2>1, <2>2, <2>3 DEF n
<1>4. Remembered'
  <2>1. CASE n % 2 = 1
    BY <2>1, KeepsRemembering DEF GradeInv, BurnedP1, Keep
  <2>2. CASE n % 2 = 0
    BY <2>2, KeepsRemembering DEF GradeInv, BurnedP1, Keep
  <2> QED BY <1>2, <2>1, <2>2 DEF n
<1> QED BY <1>2, <1>3, <1>4, MovesOn

\* keySpend: home by the key path, or rescued by a signature without a domain.
LEMMA SpendsKeyNoteMoves ==
  ASSUME GradeInv, SpendsKeyNote PROVE Moves
<1>1. Reading("keySpend")
  BY Zenon DEF SpendsKeyNote
<1>2. Answered /\ at # "fullCw1" /\ Len(log) \in Nat \ {0} /\ body.value \in Nat
  BY <1>1, ReadsAnswers DEF Reading, Answered, body, n
<1>3. Leaves \/ Asks
  BY <1>2, WaysOut, Requests DEF SpendsKeyNote, Judged, Provided, Asks
<1>4. Remembered'
  <2>1. CASE (n = 2 /\ OK) /\ (worth(log[1], g.keyed) /\ log[1].k1 = "ck1")
    <3>1. g' = [g EXCEPT !.certs = noteCertificate(body.c, "home-by-key", g.keyed) \cup
                             {judgeCertificate(log[1].c, "key", log[1].value)},
                          !.keyed = 0]
      <4>1. n # 1 /\ n # 3
        BY <2>1
      <4> QED BY <2>1, <4>1, Zenon DEF SpendsKeyNote
    <3>2. /\ noteCertificate(body.c, "home-by-key", g.keyed)
           \cup {judgeCertificate(log[1].c, "key", log[1].value)}
             \in SUBSET {"verifies", "missing", "wrong"}
         /\ 0 \in Nat
      BY <1>2, CertificatesKept DEF GradeInv, Answered, Remembered
    <3> QED BY <3>1, <3>2, StillRemembers DEF GradeInv
  <2>2. CASE (n = 2 /\ OK) /\ ~(worth(log[1], g.keyed) /\ log[1].k1 = "ck1")
    <3>1. g' = [g EXCEPT !.certs = noteCertificate(body.c, "home-by-key", g.keyed)]
      <4>1. n # 1 /\ n # 3
        BY <2>2
      <4> QED BY <2>2, <4>1, Zenon DEF SpendsKeyNote
    <3>2. /\ noteCertificate(body.c, "home-by-key", g.keyed)
               \in SUBSET {"verifies", "missing", "wrong"}
          /\ 0 \in Nat
      BY <1>2, CertificatesKept DEF GradeInv, Answered, Remembered
    <3> QED BY <3>1, <3>2, StillRemembers DEF GradeInv
  <2>3. CASE ~((n = 2 /\ OK) /\ (worth(log[1], g.keyed) /\ log[1].k1 = "ck1")) /\ ~((n = 2
             /\ OK) /\ ~(worth(log[1], g.keyed) /\ log[1].k1 = "ck1"))
    BY <1>2, <2>3, KeepsRemembering DEF GradeInv, SpendsKeyNote, Keep
  <2> QED BY <2>1, <2>2, <2>3
<1> QED BY <1>2, <1>3, <1>4, MovesOn

\* replayedBurn: the first spend, long burned, in each of its forms.
LEMMA ReplayedBurnMoves ==
  ASSUME GradeInv, ReplayedBurn PROVE Moves
<1>1. Reading("replayedBurn")
  BY Zenon DEF ReplayedBurn
<1>2. Answered /\ at # "fullCw1" /\ Len(log) \in Nat \ {0} /\ body.value \in Nat
  BY <1>1, ReadsAnswers DEF Reading, Answered, body, n
<1>3. Leaves \/ Asks
  <2>1. CASE OK
    BY <1>2, <2>1, LongForms, WaysOut, Requests DEF ReplayedBurn, Judged, Provided, Asks, n
  <2>2. CASE ~OK /\ n <= Len(respell(k1))
    <3>1. Ask(call(respell(k1), ReplayedOut(2)))
      BY <2>2, Zenon DEF ReplayedBurn
    <3>2. DOMAIN respell(k1) # {}
      BY <1>2, <2>2, LongForms DEF n
    <3> QED BY <3>1, <3>2, Requests DEF Asks
  <2>3. CASE ~(OK) /\ ~(~OK /\ n <= Len(respell(k1)))
    BY <1>2, <2>3, LongForms, WaysOut, Requests DEF ReplayedBurn, Judged, Provided, Asks, n
  <2> QED BY <2>1, <2>2, <2>3
<1>4. Remembered'
  BY KeepsRemembering DEF GradeInv, ReplayedBurn, Keep
<1> QED BY <1>2, <1>3, <1>4, MovesOn

\* split: into halves that are looked up, and merged again.
LEMMA SplitMoves ==
  ASSUME GradeInv, Split PROVE Moves
<1>1. Reading("split")
  BY Zenon DEF Split
<1>2. Answered /\ at # "fullCw1" /\ Len(log) \in Nat \ {0} /\ body.value \in Nat
  BY <1>1, ReadsAnswers DEF Reading, Answered, body, n
<1>3. Leaves \/ Asks
  <2>1. CASE n = 1
    <3>1. n # 2 /\ n # 3 /\ n # 4 /\ n # 5
      BY <2>1
    <3>2. Ask(lookup(Half(1))) \/ Verdict("fail")
      BY <2>1, <3>1, Zenon DEF Split, Provided
    <3> QED BY <3>2, Requests, WaysOut DEF Asks
  <2>2. CASE n = 2
    <3>1. n # 1 /\ n # 3 /\ n # 4 /\ n # 5
      BY <2>2
    <3>2. Ask(lookup(Half(2))) \/ Verdict("fail")
      BY <2>2, <3>1, Zenon DEF Split, Provided
    <3> QED BY <3>2, Requests, WaysOut DEF Asks
  <2>3. CASE n = 3 /\ refused
    BY <1>2, <2>3, WaysOut DEF Split, Judged
  <2>4. CASE n = 3 /\ ~refused
    <3>1. n # 1 /\ n # 2 /\ n # 4 /\ n # 5
      BY <2>4
    <3>2. Ask(call(<<Half(1), Half(2)>>, hexH("merged"))) \/ Verdict("fail")
      BY <2>4, <3>1, Zenon DEF Split, Provided
    <3> QED BY <3>2, Requests, WaysOut DEF Asks
  <2>5. CASE n = 4 /\ OK
    <3>1. n # 1 /\ n # 2 /\ n # 3 /\ n # 5
      BY <2>5
    <3>2. Ask(lookup(bearer("merged")))
      BY <2>5, <3>1, Zenon DEF Split
    <3> QED BY <3>2, Requests, WaysOut DEF Asks
  <2>6. CASE n = 4 /\ ~OK
    BY <1>2, <2>6, WaysOut DEF Split, Judged
  <2>7. CASE n = 5
    BY <1>2, <2>7, WaysOut DEF Split, Judged
  <2>8. CASE ~(n = 1) /\ ~(n = 2) /\ ~(n = 3 /\ refused) /\ ~(n = 3 /\ ~refused) /\ ~(n = 4
             /\ OK) /\ ~(n = 4 /\ ~OK) /\ ~(n = 5)
    BY <1>2, <2>8 DEF Split
  <2> QED BY <1>2, <2>1, <2>2, <2>3, <2>4, <2>5, <2>6, <2>7, <2>8 DEF n
<1>4. Remembered'
  <2>1. CASE n = 3 /\ ~refused
    <3>1. g' = [g EXCEPT !.certs = noteCertificate(log[1].c, Half(1).q, log[2].value) \cup
                         noteCertificate(log[1].c2, Half(2).q, log[3].value)]
      <4>1. n # 1 /\ n # 2 /\ n # 4 /\ n # 5
        BY <2>1
      <4> QED BY <2>1, <4>1, Zenon DEF Split, With
    <3>2. /\ noteCertificate(log[1].c, Half(1).q, log[2].value)
           \cup noteCertificate(log[1].c2, Half(2).q, log[3].value)
             \in SUBSET {"verifies", "missing", "wrong"}
         /\ 0 \in Nat
      BY <1>2, CertificatesKept DEF GradeInv, Answered, Remembered
    <3> QED BY <3>1, <3>2, StillRemembers DEF GradeInv
  <2>2. CASE n = 5 /\ ~refused
    <3>1. g' = [g EXCEPT !.certs = noteCertificate(log[4].c, "merged", body.value)]
      <4>1. n # 1 /\ n # 2 /\ n # 3 /\ n # 4
        BY <2>2
      <4> QED BY <2>2, <4>1, Zenon DEF Split, With
    <3>2. /\ noteCertificate(log[4].c, "merged", body.value)
               \in SUBSET {"verifies", "missing", "wrong"}
          /\ 0 \in Nat
      BY <1>2, CertificatesKept DEF GradeInv, Answered, Remembered
    <3> QED BY <3>1, <3>2, StillRemembers DEF GradeInv
  <2>3. CASE ~(n = 3 /\ ~refused) /\ ~(n = 5 /\ ~refused)
    BY <1>2, <2>3, KeepsRemembering DEF GradeInv, Split, Keep
  <2> QED BY <2>1, <2>2, <2>3
<1> QED BY <1>2, <1>3, <1>4, MovesOn

\* twin: a split whose two outputs are one note, and one whose first is taken.
LEMMA TwinMoves ==
  ASSUME GradeInv, Twin PROVE Moves
<1>1. Reading("twin")
  BY Zenon DEF Twin
<1>2. Answered /\ at # "fullCw1" /\ Len(log) \in Nat \ {0} /\ body.value \in Nat
  BY <1>1, ReadsAnswers DEF Reading, Answered, body, n
<1>3. Leaves \/ Asks
  <2>1. CASE n % 2 = 1 /\ OK
    <3>1. n % 2 # 0
      BY <2>1
    <3>2. Ask(lookup(bearer("twin")))
      BY <2>1, <3>1, Zenon DEF Twin
    <3> QED BY <3>2, Requests, WaysOut DEF Asks
  <2>2. CASE n % 2 = 1 /\ ~OK
    <3>1. n % 2 # 0
      BY <2>2
    <3>2. Ask(lookup(held))
      BY <2>2, <3>1, Zenon DEF Twin
    <3> QED BY <3>2, Requests, WaysOut DEF Asks
  <2>3. CASE n % 2 = 0 /\ n # 2
    <3>1. n % 2 # 1 /\ n # 2
      BY <2>3
    <3>2. Judged(held.q # "twin" /\ worth(body, g.value))
      BY <2>3, <3>1, Zenon DEF Twin
    <3> QED BY <3>2, WaysOut DEF Judged
  <2>4. CASE n % 2 = 0 /\ n = 2
    <3>1. n % 2 # 1
      BY <2>4
    <3>2. Ask(split(held, half, hexH("twin"), cp1("twin"))) \/ Verdict("fail")
      BY <2>4, <3>1, Zenon DEF Twin, Provided
    <3> QED BY <3>2, HalfIsInt, Requests, WaysOut DEF Asks, GradeInv
  <2> QED BY <1>2, <2>1, <2>2, <2>3, <2>4 DEF n
<1>4. Remembered'
  <2>1. CASE n % 2 = 1 /\ OK
    BY <2>1, KeepsRemembering DEF GradeInv, Twin, Keep
  <2>2. CASE n % 2 = 1 /\ ~OK
    BY <2>2, KeepsRemembering DEF GradeInv, Twin, Keep
  <2>3. CASE n % 2 = 0 /\ n # 2
    BY <2>3, KeepsRemembering DEF GradeInv, Twin, Keep
  <2>4. CASE n % 2 = 0 /\ n = 2
    BY <2>4, KeepsRemembering DEF GradeInv, Twin, Keep
  <2> QED BY <1>2, <2>1, <2>2, <2>3, <2>4 DEF n
<1> QED BY <1>2, <1>3, <1>4, MovesOn

\* duplicate: one note named twice in one merge.
LEMMA DuplicateMoves ==
  ASSUME GradeInv, Duplicate PROVE Moves
<1>1. Reading("duplicate")
  BY Zenon DEF Duplicate
<1>2. Answered /\ at # "fullCw1" /\ Len(log) \in Nat \ {0} /\ body.value \in Nat
  BY <1>1, ReadsAnswers DEF Reading, Answered, body, n
<1>3. Leaves \/ Asks
  <2>1. CASE n % 2 = 1 /\ OK
    <3>1. n % 2 # 0
      BY <2>1
    <3>2. Ask(lookup(bearer(DuplicateOut((n + 1) \div 2).q)))
      BY <2>1, <3>1, Zenon DEF Duplicate
    <3> QED BY <3>2, Requests, WaysOut DEF Asks
  <2>2. CASE n % 2 = 1 /\ ~OK
    <3>1. n % 2 # 0
      BY <2>2
    <3>2. Ask(lookup(held))
      BY <2>2, <3>1, Zenon DEF Duplicate
    <3> QED BY <3>2, Requests, WaysOut DEF Asks
  <2>3. CASE n % 2 = 0
    <3>1. n % 2 # 1
      BY <2>3
    <3>2. \/ \E bad : Verdict(IF bad THEN "fail" ELSE "warn")
          \/ (n + 1) \div 2 < Len(Twice)
               /\ Ask(call(Twice[(n + 1) \div 2 + 1], DuplicateOut((n + 1) \div 2 + 1)))
          \/ Judged(worth(body, g.value))
      BY <2>3, <3>1, Zenon DEF Duplicate
    <3>3. (n + 1) \div 2 < Len(Twice) => (n + 1) \div 2 + 1 \in 1 .. Len(Twice)
      BY <1>2, TwiceAsks DEF n
    <3> QED BY <3>2, <3>3, TwiceAsks, WaysOut DEF Judged, Asks
  <2> QED BY <1>2, <2>1, <2>2, <2>3 DEF n
<1>4. Remembered'
  <2>1. CASE n % 2 = 1 /\ OK
    BY <2>1, KeepsRemembering DEF GradeInv, Duplicate, Keep
  <2>2. CASE n % 2 = 1 /\ ~OK
    BY <2>2, KeepsRemembering DEF GradeInv, Duplicate, Keep
  <2>3. CASE n % 2 = 0
    BY <2>3, KeepsRemembering DEF GradeInv, Duplicate, Keep
  <2> QED BY <1>2, <2>1, <2>2, <2>3 DEF n
<1> QED BY <1>2, <1>3, <1>4, MovesOn

\* version, success, height, future, blocks and unrun: a leaf the mint must not run.
LEMMA RefusedOnTreeMoves ==
  ASSUME GradeInv, RefusedOnTree PROVE Moves
<1>1. at \in Probes /\ Reading(at)
  BY Zenon DEF RefusedOnTree
<1>2. Answered /\ at # "fullCw1" /\ Len(log) \in Nat \ {0} /\ body.value \in Nat
  BY <1>1, ReadsAnswers DEF Probes, Reading, Answered, body, n
<1>3. Leaves \/ Asks
  <2>1. CASE n = 1
    <3>1. n # 2 /\ n # 3
      BY <2>1
    <3>2. Ask(call(<<Leaf(at)>>, Out(at)))
      BY <2>1, <3>1, Zenon DEF RefusedOnTree
    <3> QED BY <3>2, Requests, WaysOut DEF Asks
  <2>2. CASE n = 2 /\ OK
    BY <1>2, <2>2, WaysOut DEF RefusedOnTree, Judged
  <2>3. CASE n = 2 /\ ~OK
    <3>1. n # 1 /\ n # 3
      BY <2>3
    <3>2. Ask(IF g.offered THEN lookupRef(cp1("tree")) ELSE lookup(Leaf("leaf"))) \/ Verdict("fail")
      BY <2>3, <3>1, Zenon DEF RefusedOnTree, Provided
    <3> QED BY <3>2, Requests, WaysOut DEF Asks
  <2>4. CASE n = 3
    BY <1>2, <2>4, WaysOut DEF RefusedOnTree, Judged
  <2>5. CASE ~(n = 1) /\ ~(n = 2 /\ OK) /\ ~(n = 2 /\ ~OK) /\ ~(n = 3)
    BY <1>2, <2>5 DEF RefusedOnTree
  <2> QED BY <1>2, <2>1, <2>2, <2>3, <2>4, <2>5 DEF n
<1>4. Remembered'
  <2>1. CASE n = 2 /\ OK
    <3>1. g' = [g EXCEPT !.certs = noteCertificate(body.c, at, g.tree), !.tree = 0]
      <4>1. n # 1 /\ n # 3
        BY <2>1
      <4> QED BY <2>1, <4>1, Zenon DEF RefusedOnTree, With
    <3>2. noteCertificate(body.c, at, g.tree) \in SUBSET {"verifies", "missing", "wrong"}
          /\ 0 \in Nat
      BY <1>2, CertificatesKept DEF GradeInv, Answered, Remembered
    <3> QED BY <3>1, <3>2, StillRemembers DEF GradeInv
  <2>2. CASE ~(n = 2 /\ OK)
    BY <1>2, <2>2, KeepsRemembering DEF GradeInv, RefusedOnTree, Keep
  <2> QED BY <2>1, <2>2
<1> QED BY <1>2, <1>3, <1>4, MovesOn

\* The ways home from the tree, tried one after the other.
LEMMA WayOutMoves ==
  ASSUME GradeInv, Answered, NEW ways, NEW i, NEW verdict \in Verdicts, WayOut(ways, i, verdict)
  PROVE  (Leaves \/ Asks) /\ Remembered'
<1>1. CASE OK
  <2>1. /\ g' = [g EXCEPT !.certs = noteCertificate(body.c, Home(i), g.tree), !.tree = 0]
        /\ Verdict(verdict)
    BY <1>1, Zenon DEF WayOut
  <2>2. noteCertificate(body.c, Home(i), g.tree) \in SUBSET {"verifies", "missing", "wrong"}
    BY CertificatesKept DEF GradeInv
  <2>3. Remembered'
    BY <2>1, <2>2, StillRemembers DEF GradeInv
  <2> QED BY <2>1, <2>3, WaysOut
<1>2. CASE ~OK
  <2>1. Keep /\ (Ask(Way(ways, i + 1)) \/ Verdict("fail"))
    BY <1>2, Zenon DEF WayOut
  <2>2. Asked(Way(ways, i + 1))
    BY Requests DEF Way
  <2>3. Remembered'
    BY <2>1, KeepsRemembering DEF GradeInv, Keep
  <2> QED BY <2>1, <2>2, <2>3, WaysOut DEF Asks
<1> QED BY <1>1, <1>2

\* past: home by a leaf whose time has come, or by the ways that are left.
LEMMA PastMoves ==
  ASSUME GradeInv, Past PROVE Moves
<1>1. Reading("past")
  BY Zenon DEF Past
<1>2. Answered /\ at # "fullCw1"
  BY <1>1, ReadsAnswers DEF Reading
<1>3. CASE n = 1
  <2>1. Keep /\ Ask(Way(<<"past", "leaf", "keyPath">>, 1))
    BY <1>3, Zenon DEF Past
  <2>2. Asked(Way(<<"past", "leaf", "keyPath">>, 1))
    BY Requests DEF Way
  <2>3. Remembered'
    BY <2>1, KeepsRemembering DEF GradeInv, Keep
  <2> QED BY <1>2, <2>1, <2>2, <2>3, MovesOn DEF Asks
<1>4. CASE n # 1
  <2> DEFINE verdict == IF n = 2 /\ log[1].status # "ERROR" THEN "pass" ELSE "fail"
  <2>1. WayOut(<<"past", "leaf", "keyPath">>, n - 1, verdict)
    BY <1>4, Zenon DEF Past
  <2>2. verdict \in Verdicts
    BY WaysOut
  <2> HIDE DEF verdict
  <2> QED BY <1>2, <2>1, <2>2, WayOutMoves, MovesOn
<1> QED BY <1>3, <1>4

\* fullCw1: the long form is looked up and moved into the tree, or home again.
LEMMA FullCw1Moves ==
  ASSUME GradeInv, FullCw1 PROVE Moves
<1>1. Reading("fullCw1")
  BY Zenon DEF FullCw1
<1>2. Answered /\ at = "fullCw1" /\ n = Len(log) /\ Len(log) \in Nat \ {0}
  BY <1>1, ReadsAnswers DEF Reading, Answered, n
<1>3. \A i \in DOMAIN log : log[i].status \notin Unanswered
  BY <1>2 DEF GradeInv, LogRead, Answered
<1>4. CASE n = 1
  <2>1. Keep /\ Ask(lookup(respell(held)[1]))
    <3>1. n # 2 /\ n # 3 /\ n # 4 /\ ~(n > 4)
      BY <1>4
    <3> QED BY <1>4, <3>1, Zenon DEF FullCw1
  <2>2. held'.how = "preimage"
    BY <1>2, <1>4, <2>1 DEF GradeInv, HasLongForm, Keep
  <2>3. Remembered'
    BY <2>1, KeepsRemembering DEF GradeInv, Keep
  <2>4. Asks
    BY <2>1, Requests DEF Asks
  <2> QED BY <1>2, <1>3, <2>2, <2>3, <2>4 DEF Moves, Answered
<1>5. CASE n = 2
  <2>1. Keep /\ (Ask(call(respell(held), cp1("tree"))) \/ Verdict("fail"))
    <3>1. n # 1 /\ n # 3 /\ n # 4 /\ ~(n > 4)
      BY <1>5
    <3> QED BY <1>5, <3>1, Zenon DEF FullCw1, Provided
  <2>2. held.how = "preimage" /\ held'.how = "preimage"
    BY <1>2, <1>5, <2>1 DEF GradeInv, HasLongForm, Keep
  <2>3. Remembered'
    BY <2>1, KeepsRemembering DEF GradeInv, Keep
  <2>4. DOMAIN respell(held) # {}
    BY <2>2 DEF respell
  <2>5. Leaves \/ Asks
    BY <2>1, <2>4, Requests, WaysOut DEF Asks
  <2> QED BY <1>2, <1>3, <2>2, <2>3, <2>5 DEF Moves, Answered
<1>6. CASE n = 3 /\ OK
  <2>1. /\ g' = [g EXCEPT !.tree = log[1].value, !.certs = noteCertificate(body.c, "tree", log[1].value)]
        /\ Ask(lookup(Leaf("leaf")))
    <3>1. n # 1 /\ n # 2 /\ n # 4 /\ ~(n > 4)
      BY <1>6
    <3> QED BY <1>6, <3>1, Zenon DEF FullCw1
  <2>2. /\ noteCertificate(body.c, "tree", log[1].value)
          \in SUBSET {"verifies", "missing", "wrong"}
        /\ log[1].value \in Nat
    BY <1>2, CertificatesKept DEF GradeInv, Answered
  <2>3. Remembered'
    BY <2>1, <2>2, StillRemembers DEF GradeInv
  <2>4. Asks
    BY <2>1, Requests DEF Asks
  <2> QED BY <1>2, <1>3, <1>6, <2>3, <2>4 DEF Moves, Answered
<1>7. CASE n = 3 /\ ~OK
  <2>1. Keep /\ Verdict("fail")
    <3>1. n # 1 /\ n # 2 /\ n # 4 /\ ~(n > 4)
      BY <1>7
    <3> QED BY <1>7, <3>1, Zenon DEF FullCw1
  <2>2. Remembered'
    BY <2>1, KeepsRemembering DEF GradeInv, Keep
  <2> QED BY <1>2, <2>1, <2>2, WaysOut DEF Moves, Answered
<1>8. CASE n = 4
  <2>1. \/ Keep /\ Ask(Way(<<"leaf", "keyPath">>, 1))
        \/ Keep /\ Judged(body.value = g.tree)
    <3>1. n # 1 /\ n # 2 /\ n # 3 /\ ~(n > 4)
      BY <1>8
    <3> QED BY <1>8, <3>1, Zenon DEF FullCw1
  <2>2. Asked(Way(<<"leaf", "keyPath">>, 1))
    BY Requests DEF Way
  <2>3. Remembered'
    BY <2>1, KeepsRemembering DEF GradeInv, Keep
  <2>4. Leaves \/ Asks
    BY <2>1, <2>2, WaysOut DEF Asks, Judged
  <2> QED BY <1>2, <1>3, <1>8, <2>3, <2>4 DEF Moves, Answered
<1>9. CASE n > 4
  <2>1. WayOut(<<"leaf", "keyPath">>, n - 4, "fail")
    <3>1. n # 1 /\ n # 2 /\ n # 3 /\ n # 4
      BY <1>9
    <3> QED BY <1>9, <3>1, Zenon DEF FullCw1
  <2>2. (Leaves \/ Asks) /\ Remembered'
    BY <1>2, <2>1, WayOutMoves, WaysOut
  <2> QED BY <1>2, <1>3, <1>9, <2>2 DEF Moves, Answered
<1> QED BY <1>2, <1>4, <1>5, <1>6, <1>7, <1>8, <1>9

\* methods: a POST and an OPTIONS, whose own answers decide nothing.
LEMMA MethodsMoves ==
  ASSUME GradeInv, Methods PROVE Moves
<1>1. at = "methods" /\ ask = Nothing /\ Keep
  BY Zenon DEF Methods
<1>2. Leaves \/ Asks
  <2>1. CASE n % 3 = 1
    <3>1. Ask(lookup(held))
      BY <2>1 DEF Methods
    <3> QED BY <3>1, Requests DEF Asks
  <2>2. CASE n % 3 = 2
    <3>1. Ask(lookup(bearer(MethodOut(n \div 3 + 1)))) \/ Verdict("fail")
      BY <2>2 DEF Methods, Provided
    <3> QED BY <3>1, Requests, WaysOut DEF Asks
  <2>3. CASE n = 3
    <3>1. Ask(Method(2)) \/ Verdict("fail")
      BY <2>3 DEF Methods, Provided
    <3> QED BY <3>1, Requests, WaysOut DEF Asks
  <2>4. CASE n = 6
    BY <2>4, WaysOut DEF Methods, Judged
  <2> QED BY <2>1, <2>2, <2>3, <2>4 DEF Methods
<1>3. Remembered'
  BY <1>1, KeepsRemembering DEF GradeInv, Keep
<1> QED BY <1>1, <1>2, <1>3 DEF Moves

\* A check whose answer is none is given up.
LEMMA ThrowMoves ==
  ASSUME GradeInv, Throw PROVE Moves
<1>1. ask = Nothing /\ n > 0 /\ Keep /\ (LastVerdict(Thrown) \/ Verdict(Thrown))
  BY DEF Throw, Throws
<1>2. Thrown \in Verdicts
  BY WaysOut DEF Thrown
<1>3. at # "done"
  BY <1>1 DEF GradeInv, Waiting, n
<1>4. Remembered'
  BY <1>1, KeepsRemembering DEF GradeInv, Keep
<1> QED BY <1>1, <1>2, <1>3, <1>4, WaysOut DEF Moves

\* A mutation is repeated as it was and in the long form its note has.
LEMMA RespeltAsks ==
  /\ Len(Respelt) \in Nat \ {0}
  /\ \A i \in 1 .. Len(Respelt) : Asked(Respelt[i])
<1> DEFINE k == Len(respell(g.prior))
           longer == [i \in 1 .. k |-> call(<<respell(g.prior)[i]>>, hexH("retried"))]
           same == <<call(<<g.prior>>, cp1("retried"))>>
           S == {call(<<respell(g.prior)[i]>>, hexH("retried")) : i \in 1 .. k}
                  \cup {call(<<g.prior>>, cp1("retried"))}
<1>1. k \in Nat /\ DOMAIN respell(g.prior) = 1 .. k
  BY LongForms
<1>2. Respelt = longer \o same
  BY <1>1 DEF Respelt
<1>3. longer \in Seq(S) /\ Len(longer) = k
  BY <1>1
<1>4. same \in Seq(S) /\ Len(same) = 1
  OBVIOUS
<1>5. /\ \A i \in 1 .. k : Asked(longer[i])
      /\ Asked(same[1])
  BY Requests
<1> HIDE DEF k, longer, same, S
<1>6. /\ Len(longer \o same) = Len(longer) + Len(same)
      /\ \A i \in 1 .. Len(longer) + Len(same) :
           (longer \o same)[i] = IF i <= Len(longer) THEN longer[i] ELSE same[i - Len(longer)]
  BY <1>3, <1>4, Joined
<1>7. Len(Respelt) = k + 1
  BY <1>1, <1>2, <1>3, <1>4, <1>6
<1>8. ASSUME NEW i \in 1 .. k + 1 PROVE Asked(Respelt[i])
  <2>1. (longer \o same)[i] = IF i <= k THEN longer[i] ELSE same[i - k]
    BY <1>3, <1>4, <1>6
  <2>2. CASE i <= k
    BY <1>1, <1>2, <1>5, <2>1, <2>2
  <2>3. CASE ~(i <= k)
    <3>1. i - k = 1
      BY <1>1, <2>3
    <3> QED BY <1>2, <1>5, <2>1, <2>3, <3>1
  <2> QED BY <2>2, <2>3
<1> QED BY <1>1, <1>7, <1>8

\* retry: a rotate repeated as it was and in the long form, then a split repeated.
LEMMA RetryMoves ==
  ASSUME GradeInv, Retry PROVE Moves
<1> DEFINE m == 4 + 2 * Len(Respelt)
<1>1. Reading("retry")
  BY Zenon DEF Retry
<1>2. Answered /\ at # "fullCw1" /\ n \in Nat \ {0}
  BY <1>1, ReadsAnswers DEF Reading, Answered, n
<1>3. m \in Nat /\ m > 5 /\ Len(Respelt) \in Nat
  BY RespeltAsks
<1>4. LiveValue(log[2]) \in Int \/ n < 2
  BY <1>2 DEF LiveValue, NoAmount, Answered, n
<1>5. n >= 2 => Asked(Pieces(LiveValue(log[2])))
  <2>1. ASSUME n >= 2 PROVE LiveValue(log[2]) \div 2 \in Int
    BY <1>2, <1>4, <2>1
  <2> QED BY <2>1, Requests DEF Pieces
<1>6. /\ \A c, q, amount : noteCertificate(c, q, amount)
        \in SUBSET {"verifies", "missing", "wrong"}
      /\ Remembered
  BY CertificatesKept DEF GradeInv
<1>7. CASE n = 1 /\ OK
  <2>1. n # 2 /\ ~(n \in 3 .. m - 1 /\ n % 2 = 1) /\ ~(n \in 4 .. m /\ n % 2 = 0)
        /\ n # m + 1 /\ n # m + 2 /\ n # m + 3 /\ n # m + 4 /\ n # m + 5 /\ n # m + 6
             /\ n # m + 7 /\ n # m + 8
    BY <1>2, <1>3, <1>7
  <2>2. Ask(lookup(bearer("retried")))
    BY <1>7, <2>1, Zenon DEF Retry
  <2>3. g' = [g EXCEPT !.prior = held]
    BY <1>7, <2>1, Zenon DEF Retry, Keep, With
  <2>4. Remembered'
    BY <1>6, <2>3, StillRemembers
  <2>5. Leaves \/ Asks
    BY <2>2, Requests, WaysOut DEF Asks
  <2> QED BY <1>2, <2>4, <2>5, MovesOn
<1>8. CASE n = 1 /\ ~OK
  <2>1. n # 2 /\ ~(n \in 3 .. m - 1 /\ n % 2 = 1) /\ ~(n \in 4 .. m /\ n % 2 = 0)
        /\ n # m + 1 /\ n # m + 2 /\ n # m + 3 /\ n # m + 4 /\ n # m + 5 /\ n # m + 6
             /\ n # m + 7 /\ n # m + 8
    BY <1>2, <1>3, <1>8
  <2>2. Verdict("fail")
    BY <1>8, <2>1, Zenon DEF Retry
  <2>3. g' = g
    BY <1>8, <2>1, Zenon DEF Retry, Keep, With
  <2>4. Remembered'
    BY <1>6, <2>3, KeepsRemembering
  <2>5. Leaves \/ Asks
    BY <2>2, Requests, WaysOut DEF Asks
  <2> QED BY <1>2, <2>4, <2>5, MovesOn
<1>9. CASE n = 2 /\ LiveValue(log[2]) = NoAmount
  <2>1. n # 1 /\ ~(n \in 3 .. m - 1 /\ n % 2 = 1) /\ ~(n \in 4 .. m /\ n % 2 = 0)
        /\ n # m + 1 /\ n # m + 2 /\ n # m + 3 /\ n # m + 4 /\ n # m + 5 /\ n # m + 6
             /\ n # m + 7 /\ n # m + 8
    BY <1>2, <1>3, <1>9
  <2>2. Verdict("fail")
    BY <1>9, <2>1, Zenon DEF Retry
  <2>3. g' = g
    BY <1>9, <2>1, Zenon DEF Retry, Keep, With
  <2>4. Remembered'
    BY <1>6, <2>3, KeepsRemembering
  <2>5. Leaves \/ Asks
    BY <2>2, Requests, WaysOut DEF Asks
  <2> QED BY <1>2, <2>4, <2>5, MovesOn
<1>10. CASE n = 2 /\ LiveValue(log[2]) # NoAmount
  <2>1. n # 1 /\ ~(n \in 3 .. m - 1 /\ n % 2 = 1) /\ ~(n \in 4 .. m /\ n % 2 = 0)
        /\ n # m + 1 /\ n # m + 2 /\ n # m + 3 /\ n # m + 4 /\ n # m + 5 /\ n # m + 6
             /\ n # m + 7 /\ n # m + 8
    BY <1>2, <1>3, <1>10
  <2>2. Ask(call(<<g.prior>>, hexH("retried")))
    BY <1>10, <2>1, Zenon DEF Retry
  <2>3. g' = [g EXCEPT !.certs = noteCertificate(log[1].c, "retried", LiveValue(log[2]))]
    BY <1>10, <2>1, Zenon DEF Retry, Keep, With
  <2>4. Remembered'
    BY <1>6, <2>3, StillRemembers
  <2>5. Leaves \/ Asks
    BY <2>2, Requests, WaysOut DEF Asks
  <2> QED BY <1>2, <2>4, <2>5, MovesOn
<1>11. CASE n \in 3 .. m - 1 /\ n % 2 = 1
  <2>1. n # 1 /\ n # 2 /\ ~(n \in 4 .. m /\ n % 2 = 0) /\ n # m + 1 /\ n # m + 2
        /\ n # m + 3 /\ n # m + 4 /\ n # m + 5 /\ n # m + 6 /\ n # m + 7 /\ n # m + 8
    BY <1>2, <1>3, <1>11
  <2>2. Ask(lookup(bearer("retried")))
    BY <1>11, <2>1, Zenon DEF Retry
  <2>3. g' = g
    BY <1>11, <2>1, Zenon DEF Retry, Keep, With
  <2>4. Remembered'
    BY <1>6, <2>3, KeepsRemembering
  <2>5. Leaves \/ Asks
    BY <2>2, Requests, WaysOut DEF Asks
  <2> QED BY <1>2, <2>4, <2>5, MovesOn
<1>12. CASE n \in 4 .. m /\ n % 2 = 0
  <2>1. n # 1 /\ n # 2 /\ ~(n \in 3 .. m - 1 /\ n % 2 = 1) /\ n # m + 1 /\ n # m + 2
        /\ n # m + 3 /\ n # m + 4 /\ n # m + 5 /\ n # m + 6 /\ n # m + 7 /\ n # m + 8
    BY <1>2, <1>3, <1>12
  <2>2. \/ Verdict("fail") \/ Verdict("warn")
        \/ n < m /\ Ask(Respelt[n \div 2 - 1])
        \/ Ask(Pieces(LiveValue(log[2])))
    BY <1>12, <2>1, Zenon DEF Retry, Provided
  <2>3. g' = g
    BY <1>12, <2>1, Zenon DEF Retry, Keep, With
  <2>4. Remembered'
    BY <1>6, <2>3, KeepsRemembering
  <2>5. n < m => Asked(Respelt[n \div 2 - 1])
    BY <1>2, <1>3, <1>12, RespeltAsks
  <2>6. Leaves \/ Asks
    BY <1>2, <1>3, <1>5, <1>12, <2>2, <2>5, WaysOut DEF Asks
  <2> QED BY <1>2, <2>4, <2>6, MovesOn
<1>13. CASE n = m + 1
  <2>1. n # 1 /\ n # 2 /\ ~(n \in 3 .. m - 1 /\ n % 2 = 1) /\ ~(n \in 4 .. m /\ n % 2 = 0)
        /\ n # m + 2 /\ n # m + 3 /\ n # m + 4 /\ n # m + 5 /\ n # m + 6 /\ n # m + 7
             /\ n # m + 8
    BY <1>2, <1>3, <1>13
  <2>2. Ask(lookup(Piece(1))) \/ Verdict("fail")
    BY <1>13, <2>1, Zenon DEF Retry, Provided
  <2>3. g' = g
    BY <1>13, <2>1, Zenon DEF Retry, Keep, With
  <2>4. Remembered'
    BY <1>6, <2>3, KeepsRemembering
  <2>5. Leaves \/ Asks
    BY <2>2, Requests, WaysOut DEF Asks
  <2> QED BY <1>2, <2>4, <2>5, MovesOn
<1>14. CASE n = m + 2
  <2>1. n # 1 /\ n # 2 /\ ~(n \in 3 .. m - 1 /\ n % 2 = 1) /\ ~(n \in 4 .. m /\ n % 2 = 0)
        /\ n # m + 1 /\ n # m + 3 /\ n # m + 4 /\ n # m + 5 /\ n # m + 6 /\ n # m + 7
             /\ n # m + 8
    BY <1>2, <1>3, <1>14
  <2>2. Ask(lookup(Piece(2)))
    BY <1>14, <2>1, Zenon DEF Retry
  <2>3. g' = g
    BY <1>14, <2>1, Zenon DEF Retry, Keep, With
  <2>4. Remembered'
    BY <1>6, <2>3, KeepsRemembering
  <2>5. Leaves \/ Asks
    BY <2>2, Requests, WaysOut DEF Asks
  <2> QED BY <1>2, <2>4, <2>5, MovesOn
<1>15. CASE n = m + 3
  <2>1. n # 1 /\ n # 2 /\ ~(n \in 3 .. m - 1 /\ n % 2 = 1) /\ ~(n \in 4 .. m /\ n % 2 = 0)
        /\ n # m + 1 /\ n # m + 2 /\ n # m + 4 /\ n # m + 5 /\ n # m + 6 /\ n # m + 7
             /\ n # m + 8
    BY <1>2, <1>3, <1>15
  <2>2. Ask(Pieces(LiveValue(log[2])))
    BY <1>15, <2>1, Zenon DEF Retry
  <2>3. g' = [g EXCEPT !.certs = noteCertificate(log[m + 1].c, Piece(1).q, LiveValue(log[m + 2]))
                           \cup noteCertificate(log[m + 1].c2, Piece(2).q, LiveValue(body))]
    BY <1>15, <2>1, Zenon DEF Retry, Keep, With
  <2>4. Remembered'
    <3> DEFINE C == noteCertificate(log[m + 1].c, Piece(1).q, LiveValue(log[m + 2]))
                      \cup noteCertificate(log[m + 1].c2, Piece(2).q, LiveValue(body))
    <3>1. C \in SUBSET {"verifies", "missing", "wrong"} /\ g' = [g EXCEPT !.certs = C]
      BY <1>6, <2>3
    <3> HIDE DEF C
    <3> QED BY <1>6, <3>1, StillRemembers
  <2>5. Leaves \/ Asks
    <3>1. n >= 2
      BY <1>2, <1>3, <1>15
    <3> QED BY <1>5, <2>2, <3>1 DEF Asks
  <2> QED BY <1>2, <2>4, <2>5, MovesOn
<1>16. CASE n = m + 4
  <2>1. n # 1 /\ n # 2 /\ ~(n \in 3 .. m - 1 /\ n % 2 = 1) /\ ~(n \in 4 .. m /\ n % 2 = 0)
        /\ n # m + 1 /\ n # m + 2 /\ n # m + 3 /\ n # m + 5 /\ n # m + 6 /\ n # m + 7
             /\ n # m + 8
    BY <1>2, <1>3, <1>16
  <2>2. Ask(lookup(Piece(1)))
    BY <1>16, <2>1, Zenon DEF Retry
  <2>3. g' = g
    BY <1>16, <2>1, Zenon DEF Retry, Keep, With
  <2>4. Remembered'
    BY <1>6, <2>3, KeepsRemembering
  <2>5. Leaves \/ Asks
    BY <2>2, Requests, WaysOut DEF Asks
  <2> QED BY <1>2, <2>4, <2>5, MovesOn
<1>17. CASE n = m + 5
  <2>1. n # 1 /\ n # 2 /\ ~(n \in 3 .. m - 1 /\ n % 2 = 1) /\ ~(n \in 4 .. m /\ n % 2 = 0)
        /\ n # m + 1 /\ n # m + 2 /\ n # m + 3 /\ n # m + 4 /\ n # m + 6 /\ n # m + 7
             /\ n # m + 8
    BY <1>2, <1>3, <1>17
  <2>2. Ask(lookup(Piece(2)))
    BY <1>17, <2>1, Zenon DEF Retry
  <2>3. g' = g
    BY <1>17, <2>1, Zenon DEF Retry, Keep, With
  <2>4. Remembered'
    BY <1>6, <2>3, KeepsRemembering
  <2>5. Leaves \/ Asks
    BY <2>2, Requests, WaysOut DEF Asks
  <2> QED BY <1>2, <2>4, <2>5, MovesOn
<1>18. CASE n = m + 6
  <2>1. n # 1 /\ n # 2 /\ ~(n \in 3 .. m - 1 /\ n % 2 = 1) /\ ~(n \in 4 .. m /\ n % 2 = 0)
        /\ n # m + 1 /\ n # m + 2 /\ n # m + 3 /\ n # m + 4 /\ n # m + 5 /\ n # m + 7
             /\ n # m + 8
    BY <1>2, <1>3, <1>18
  <2>2. Ask(call(<<Piece(1), Piece(2)>>, hexH("rejoined"))) \/ Verdict("fail")
    BY <1>18, <2>1, Zenon DEF Retry, Provided
  <2>3. g' = g
    BY <1>18, <2>1, Zenon DEF Retry, Keep, With
  <2>4. Remembered'
    BY <1>6, <2>3, KeepsRemembering
  <2>5. Leaves \/ Asks
    BY <2>2, Requests, WaysOut DEF Asks
  <2> QED BY <1>2, <2>4, <2>5, MovesOn
<1>19. CASE n = m + 7 /\ OK
  <2>1. n # 1 /\ n # 2 /\ ~(n \in 3 .. m - 1 /\ n % 2 = 1) /\ ~(n \in 4 .. m /\ n % 2 = 0)
        /\ n # m + 1 /\ n # m + 2 /\ n # m + 3 /\ n # m + 4 /\ n # m + 5 /\ n # m + 6
             /\ n # m + 8
    BY <1>2, <1>3, <1>19
  <2>2. Ask(lookup(bearer("rejoined")))
    BY <1>19, <2>1, Zenon DEF Retry
  <2>3. g' = g
    BY <1>19, <2>1, Zenon DEF Retry, Keep, With
  <2>4. Remembered'
    BY <1>6, <2>3, KeepsRemembering
  <2>5. Leaves \/ Asks
    BY <2>2, Requests, WaysOut DEF Asks
  <2> QED BY <1>2, <2>4, <2>5, MovesOn
<1>20. CASE n = m + 7 /\ ~OK
  <2>1. n # 1 /\ n # 2 /\ ~(n \in 3 .. m - 1 /\ n % 2 = 1) /\ ~(n \in 4 .. m /\ n % 2 = 0)
        /\ n # m + 1 /\ n # m + 2 /\ n # m + 3 /\ n # m + 4 /\ n # m + 5 /\ n # m + 6
             /\ n # m + 8
    BY <1>2, <1>3, <1>20
  <2>2. Verdict("pass")
    BY <1>20, <2>1, Zenon DEF Retry
  <2>3. g' = g
    BY <1>20, <2>1, Zenon DEF Retry, Keep, With
  <2>4. Remembered'
    BY <1>6, <2>3, KeepsRemembering
  <2>5. Leaves \/ Asks
    BY <2>2, Requests, WaysOut DEF Asks
  <2> QED BY <1>2, <2>4, <2>5, MovesOn
<1>21. CASE n = m + 8
  <2>1. n # 1 /\ n # 2 /\ ~(n \in 3 .. m - 1 /\ n % 2 = 1) /\ ~(n \in 4 .. m /\ n % 2 = 0)
        /\ n # m + 1 /\ n # m + 2 /\ n # m + 3 /\ n # m + 4 /\ n # m + 5 /\ n # m + 6
             /\ n # m + 7
    BY <1>2, <1>3, <1>21
  <2>2. Verdict("pass")
    BY <1>21, <2>1, Zenon DEF Retry
  <2>3. g' = [g EXCEPT !.certs = noteCertificate(log[n - 1].c, "rejoined", LiveValue(body))]
    BY <1>21, <2>1, Zenon DEF Retry, Keep, With
  <2>4. Remembered'
    BY <1>6, <2>3, StillRemembers
  <2>5. Leaves \/ Asks
    BY <2>2, Requests, WaysOut DEF Asks
  <2> QED BY <1>2, <2>4, <2>5, MovesOn
<1>22. CASE n # 1 /\ n # 2 /\ ~(n \in 3 .. m - 1 /\ n % 2 = 1) /\ ~(n \in 4 .. m
            /\ n % 2 = 0) /\ n # m + 1 /\ n # m + 2 /\ n # m + 3 /\ n # m + 4 /\ n # m + 5
                 /\ n # m + 6 /\ n # m + 7 /\ n # m + 8
  BY <1>22, Zenon DEF Retry
<1> QED BY <1>7, <1>8, <1>9, <1>10, <1>11, <1>12, <1>13, <1>14, <1>15, <1>16, <1>17, <1>18,
           <1>19, <1>20, <1>21, <1>22

\* A check that begins asks its first request, or is left without one.
LEMMA BeginMoves ==
  ASSUME GradeInv, Begin PROVE Moves
<1>1. at # "done" /\ ask = Nothing /\ n = 0 /\ Keep
  BY Zenon DEF Begin
<1>2. Remembered'
  BY <1>1, KeepsRemembering DEF GradeInv, Keep
<1>3. \A i \in DOMAIN log : FALSE
  BY <1>1 DEF GradeInv, LogRead, n
<1>4. at = "fullCw1" => Leaves \/ (Asks /\ held'.how = "preimage")
  <2>1. ASSUME at = "fullCw1"
        PROVE  IF held.how = "preimage" THEN Ask(lookup(held)) ELSE Verdict("warn")
    BY <2>1 DEF Begin, Probes
  <2> QED BY <1>1, <2>1, Requests, WaysOut DEF Asks, Keep
<1>5. /\ half \in Int /\ g.value - BaseFee + 1 \in Int
      /\ (IF half > 1 THEN half ELSE 1) \in Int
  BY HalfIsInt, Money DEF GradeInv, Remembered
<1>6. at \in {"echo", "idempotent", "amount", "lookup", "noP1", "rotate", "certified", "spent",
              "infoCert", "burnedP1", "methods"} => Leaves \/ Asks
  BY Requests, WaysOut DEF Begin, Asks
<1>7. at \in {"retry", "replayedBurn", "past", "keyNote", "forged", "elsewhere", "keySpend"}
        => Leaves \/ Asks
  BY Requests, WaysOut DEF Begin, Asks
<1>8. at = "certificates" => Leaves
  BY WaysOut DEF Begin
<1>9. at \in Probes => Leaves \/ Asks
  BY Requests, WaysOut DEF Begin, Asks, Probes
<1>10. at = "oversized" => Asks
  <2>1. ASSUME at = "oversized"
        PROVE  Ask(call([i \in 1 .. Capped + 1 |-> bearer(Invented[i])], hexH("oversized")))
    BY <2>1 DEF Begin, Probes
  <2>2. DOMAIN [i \in 1 .. Capped + 1 |-> bearer(Invented[i])] # {}
    BY DEF Capped
  <2> QED BY <2>1, <2>2, Requests DEF Asks
<1>11. at \in {"noP2", "twin", "shortFee", "split"} => Leaves \/ Asks
  <2>1. ASSUME at = "noP2" PROVE Asks
    <3>1. Ask(split(held, IF half > 1 THEN half ELSE 1, hexH("one-output"), NoRef))
      BY <2>1 DEF Begin, Probes
    <3> QED BY <1>5, <3>1, Requests DEF Asks
  <2>2. ASSUME at = "twin" PROVE Leaves \/ Asks
    <3>1. Verdict("warn") \/ Ask(split(held, half, hexH("twin"), hexH("twin")))
      BY <2>2 DEF Begin, Probes
    <3> QED BY <1>5, <3>1, Requests, WaysOut DEF Asks
  <2>3. ASSUME at = "shortFee" PROVE Leaves \/ Asks
    <3>1. \/ Verdict("warn")
          \/ Ask(split(held, g.value - BaseFee + 1, hexH("short"), hexH("short-change")))
      BY <2>3 DEF Begin, Probes
    <3> QED BY <1>5, <3>1, Requests, WaysOut DEF Asks
  <2>4. ASSUME at = "split" PROVE Leaves \/ Asks
    <3>1. \/ Verdict("warn")
          \/ Ask(split(held, half, hexH(Half(1).q), hexH(Half(2).q)))
      BY <2>4 DEF Begin, Probes
    <3> QED BY <1>5, <3>1, Requests, WaysOut DEF Asks
  <2> QED BY <2>1, <2>2, <2>3, <2>4
<1>12. at = "duplicate" => Asks
  <2>1. ASSUME at = "duplicate" PROVE Ask(call(Twice[1], DuplicateOut(1)))
    BY <2>1 DEF Begin, Probes
  <2>2. 1 \in 1 .. Len(Twice)
    BY TwiceAsks
  <2> QED BY <2>1, <2>2, TwiceAsks DEF Asks
<1> QED BY <1>1, <1>2, <1>3, <1>4, <1>6, <1>7, <1>8, <1>9, <1>10, <1>11, <1>12 DEF Begin, Moves

---------------------------------------------------------------------------
\* Whatever the grader does of its own accord keeps the invariant.
LEMMA GradeMoves ==
  ASSUME GradeInv, Grade PROVE Moves
BY BeginMoves, ThrowMoves, EchoMoves, SameValueMoves, LookupMoves, OversizedMoves, NoP1Moves,
   NoP2Moves, RotateMoves, SpentMoves, InfoCertificateMoves, DuplicateMoves, BurnedP1Moves,
   TwinMoves, MethodsMoves, ShortFeeMoves, SplitMoves, RetryMoves, ReplayedBurnMoves,
   FullCw1Moves, RefusedOnTreeMoves, PastMoves, CreditsKeyNoteMoves, ForgedMoves,
   ElsewhereMoves, SpendsKeyNoteMoves DEF Grade

\* Asking forgets nothing that was read; leaving starts the next check from nothing.
LEMMA MovesKeepTheInvariant ==
  ASSUME GradeInv, Moves, UNCHANGED mintVars
  PROVE  GradeInv'
<1>1. Remembered' /\ ask = Nothing /\ at # "done"
  BY DEF Moves
<1>2. Solvent'
  BY DEF GradeInv, Solvent, mintVars, Ledger, Owed, Face, Live
<1>3. CASE Leaves
  <2>1. PICK rest, verdict : verdict \in Verdicts /\ Leave(rest, Only(verdict))
    BY <1>3 DEF Leaves
  <2>2. log' = << >> /\ ask' = Nothing /\ UNCHANGED tries
    BY <2>1 DEF Leave
  <2>3. LogRead'
    BY <2>2 DEF LogRead
  <2>4. Waiting'
    BY <2>2 DEF GradeInv, Waiting
  <2>5. HasLongForm'
    BY <2>2 DEF HasLongForm
  <2>6. Reported'
    BY <2>1 DEF Leave, Only, GradeInv, Reported
  <2> QED BY <1>1, <1>2, <2>3, <2>4, <2>5, <2>6 DEF GradeInv
<1>4. CASE ~Leaves
  <2>1. PICK r : Asked(r) /\ Ask(r)
    BY <1>4 DEF Moves, Asks
  <2>2. ask' = r /\ tries' = Retries /\ UNCHANGED <<plan, log, report>> /\ at' = at
    BY <2>1 DEF Ask, at
  <2>3. LogRead'
    BY <1>4, <2>2 DEF GradeInv, LogRead, Moves
  <2>4. Waiting'
    BY <1>1, <2>1, <2>2 DEF Waiting, Retries
  <2>5. HasLongForm'
    BY <1>4, <2>2 DEF HasLongForm, Moves
  <2>6. Reported'
    BY <2>2 DEF GradeInv, Reported
  <2> QED BY <1>1, <1>2, <2>3, <2>4, <2>5, <2>6 DEF GradeInv
<1> QED BY <1>3, <1>4

---------------------------------------------------------------------------
\* What the mint answers: the value of an answer is an amount.
LEMMA AnswersAreAmounts ==
  ASSUME Ledger(notes), NEW r, Asked(r)
  PROVE  handle(r).answer.value \in Nat
<1>1. \A reason : fail(reason).value \in Nat
  BY DEF fail, Said
<1>2. \A value \in Nat : \A k, certificate : withdrawRequest(value, k, certificate).value \in Nat
  BY DEF withdrawRequest, Said, lie
<1>3. \A certificates : replied(certificates).value \in Nat
  BY DEF replied, Said
<1>4. \A q : known(q) => notes[q].amount \in Nat
  BY DEF Ledger, known
<1>5. ASSUME NEW spend PROVE infoBySpend(spend).value \in Nat
  <2>1. \/ \E reason : infoBySpend(spend) = fail(reason)
        \/ /\ known(spend.q)
           /\ \E k, certificate :
                infoBySpend(spend) = withdrawRequest(notes[spend.q].amount, k, certificate)
    BY Zenon DEF infoBySpend
  <2> QED BY <1>1, <1>2, <1>4, <2>1
<1>6. ASSUME NEW ref PROVE infoByRef(ref).value \in Nat
  <2>1. \/ \E reason : infoByRef(ref) = fail(reason)
        \/ \E k, certificate : infoByRef(ref) = withdrawRequest(Value, k, certificate)
        \/ \E q : /\ known(q)
                  /\ \E k, certificate :
                       infoByRef(ref) = withdrawRequest(notes[q].amount, k, certificate)
    BY Zenon DEF infoByRef
  <2>2. Value \in Nat
    BY Money
  <2> QED BY <1>1, <1>2, <1>4, <2>1, <2>2
<1>7. ASSUME NEW spend PROVE infoByBoth(spend).value \in Nat
  <2>1. infoByBoth(spend) = infoBySpend(spend) \/ infoByBoth(spend) = fail(UnknownNote)
    BY Zenon DEF infoByBoth
  <2> QED BY <1>1, <1>5, <2>1
<1>8. \A answer : Handled(answer).answer = answer
  BY DEF Handled
<1>9. exchanged(r).answer.value \in Nat
  <2>1. \E certificates : exchanged(r).answer = finish(replied(certificates))
    BY DEF exchanged
  <2>2. \A certificates : finish(replied(certificates)).value \in Nat
    BY <1>3 DEF finish, Said
  <2> QED BY <2>1, <2>2
<1>10. mutate(r).answer.value \in Nat
  <2> DEFINE accepted == [Said EXCEPT !.status = "OK"]
  <2>1. \/ mutate(r) = Handled(accepted)
        \/ \E reason : mutate(r) = Handled(fail(reason))
        \/ \E certificates : mutate(r) = Handled(replied(certificates))
        \/ mutate(r) = exchanged(r)
    BY Zenon DEF mutate
  <2>2. accepted.value \in Nat
    BY DEF Said
  <2> HIDE DEF accepted
  <2> QED BY <1>1, <1>3, <1>8, <1>9, <2>1, <2>2
<1>11. \/ handle(r) = Handled(infoBySpend(r.k1s[1]))
       \/ handle(r) = Handled(infoByRef(r.p1))
       \/ handle(r) = Handled(infoByBoth(r.k1s[1]))
       \/ handle(r) = mutate(r)
       \/ handle(r) = Handled(fail("Not found."))
  BY DEF handle, Asked
<1> QED BY <1>1, <1>5, <1>6, <1>7, <1>8, <1>10, <1>11

\* Whatever it is asked, it stays a ledger, and honest it owes no less.
LEMMA MintConserves ==
  ASSUME Ledger(notes), NEW r, Asked(r)
  PROVE  /\ Ledger(handle(r).notes)
         /\ fault = "none" => Owed(handle(r).notes) = Owed(notes)
<1>1. \A answer : Handled(answer).notes = notes
  BY DEF Handled
<1>2. CASE r.ask = "cb"
  <2>1. handle(r) = mutate(r)
    BY <1>2 DEF handle
  <2>2. CASE mutate(r).notes = notes
    BY <2>1, <2>2
  <2>3. CASE Exchangeable(r) /\ mutate(r) = exchanged(r)
    BY <1>2, <2>1, <2>3, ExchangeConserves
  <2> QED BY <2>2, <2>3, MutateExchanges
<1>3. CASE r.ask # "cb"
  <2>1. handle(r).notes = notes
    BY <1>1, <1>3 DEF handle, Asked
  <2> QED BY <2>1
<1> QED BY <1>2, <1>3

---------------------------------------------------------------------------
\* An answer, a silence or an apology read while the grader waits.
LEMMA ReadKeepsTheLog ==
  ASSUME GradeInv, ask # Nothing, NEW answer, log' = Append(log, answer), ask' = Nothing,
         UNCHANGED <<plan, held>>, answer.status \notin Unanswered => answer.value \in Nat
  PROVE  LogRead' /\ HasLongForm' /\ (at = "done" <=> at' = "done") /\ at # "done"
<1> DEFINE S == {log[i] : i \in DOMAIN log}
           l == Len(log)
<1>1. log \in Seq(S) /\ l \in Nat
  BY DEF GradeInv, LogRead
<1>2. at' = at /\ at # "done"
  BY DEF GradeInv, Waiting, at
<1>3. /\ log' \in Seq(S \cup {answer}) /\ Len(log') = l + 1
      /\ \A i \in 1 .. l : log'[i] = log[i]
      /\ log'[l + 1] = answer
      /\ DOMAIN log' = 1 .. l + 1 /\ DOMAIN log = 1 .. l
  <2>1. log \in Seq(S \cup {answer})
    BY <1>1
  <2> HIDE DEF S
  <2> QED BY <1>1, <2>1
<1>4. log' \in Seq({log'[i] : i \in DOMAIN log'})
  BY <1>1, <1>3
<1>5. \A i \in DOMAIN log' : log'[i].status \notin Unanswered => log'[i].value \in Nat
  BY <1>1, <1>3 DEF GradeInv, LogRead
<1>6. at # "methods" => \A i \in 1 .. l : log[i].status \notin Unanswered
  BY <1>3 DEF GradeInv, LogRead
<1>7. at' # "methods" =>
        \A i \in DOMAIN log' : log'[i].status \in Unanswered => i = Len(log') /\ ask' = Nothing
  BY <1>1, <1>2, <1>3, <1>6
<1>8. LogRead'
  BY <1>4, <1>5, <1>7 DEF LogRead, Unanswered
<1>9. HasLongForm'
  BY <1>1, <1>2, <1>3 DEF GradeInv, HasLongForm
<1> QED BY <1>2, <1>8, <1>9

\* A request that is handled once more, its answer lost or repeated.
LEMMA MintKeepsTheInvariant ==
  ASSUME GradeInv, ask # Nothing, fault' = fault, Reaches \/ Unreached
  PROVE  Solvent'
<1>1. CASE Reaches
  <2>1. notes' = handle(ask).notes
    BY <1>1 DEF Reaches
  <2>2. Ledger(notes) /\ Asked(ask)
    BY DEF GradeInv, Waiting, Solvent
  <2> DEFINE after == handle(ask).notes
  <2>3. Ledger(after) /\ (fault = "none" => Owed(after) = Owed(notes))
    BY <2>2, MintConserves
  <2> HIDE DEF after
  <2>4. Ledger(notes') /\ (fault = "none" => Owed(notes') = Owed(notes))
    BY <2>1, <2>3 DEF after
  <2> QED BY <2>4 DEF GradeInv, Solvent
<1>2. CASE Unreached
  BY <1>2 DEF GradeInv, Solvent, Unreached
<1> QED BY <1>1, <1>2

\* Whatever becomes of a request, the grader reads one more answer or waits on.
LEMMA HttpKeepsTheInvariant ==
  ASSUME GradeInv, Http, UNCHANGED <<held, g, fault>>
  PROVE  GradeInv'
<1>1. Remembered'
  BY DEF GradeInv, Remembered
<1>2. CASE Deliver
  <2> DEFINE said == handle(ask).answer
             answer == IF said.status = "timeout" THEN Lost ELSE said
  <2>1. ask # Nothing /\ Reaches /\ Delivered(answer)
    BY <1>2 DEF Deliver, Reaches
  <2>2. said.value \in Nat
    BY <2>1, AnswersAreAmounts DEF GradeInv, Waiting, Solvent
  <2>3. answer.status \notin Unanswered => answer.value \in Nat
    BY <2>2 DEF Lost, Unanswered
  <2> HIDE DEF answer
  <2>4. /\ log' = Append(log, answer) /\ ask' = Nothing
        /\ UNCHANGED <<plan, report, tries, held>>
    BY <2>1 DEF Delivered, Read
  <2>5. LogRead' /\ HasLongForm' /\ (at = "done" <=> at' = "done") /\ at # "done"
    BY <2>1, <2>3, <2>4, ReadKeepsTheLog
  <2>6. Solvent'
    BY <2>1, MintKeepsTheInvariant
  <2> QED BY <1>1, <2>4, <2>5, <2>6 DEF GradeInv, Waiting, Reported
<1>3. CASE Reaches /\ Resent
  <2>1. ask # Nothing /\ UNCHANGED <<plan, report, log, ask, tries>>
    BY <1>3 DEF Resent, Suffers
  <2>2. Solvent'
    BY <1>3, <2>1, MintKeepsTheInvariant
  <2> QED BY <1>1, <2>1, <2>2
       DEF GradeInv, LogRead, Waiting, HasLongForm, Reported, at
<1>4. CASE (Reaches /\ ReplyLost) \/ (Unreached /\ RequestLost)
  <2>1. ask # Nothing /\ log' = Append(log, Lost) /\ ask' = Nothing
        /\ UNCHANGED <<plan, report, tries, held>>
    BY <1>4 DEF ReplyLost, RequestLost, Suffers, Read
  <2>2. Lost.status \in Unanswered
    BY DEF Lost, Unanswered
  <2>3. LogRead' /\ HasLongForm' /\ (at = "done" <=> at' = "done") /\ at # "done"
    BY <2>1, <2>2, ReadKeepsTheLog
  <2>4. Solvent'
    BY <1>4, <2>1, MintKeepsTheInvariant
  <2> QED BY <1>1, <2>1, <2>3, <2>4 DEF GradeInv, Waiting, Reported
<1>5. CASE Unreached /\ (Limited \/ LimitedNotJson)
  <2>1. ask # Nothing /\ UNCHANGED <<plan, report, held>>
    BY <1>5 DEF Limited, LimitedNotJson, LimitedBy, Suffers
  <2>2. Solvent'
    BY <1>5, <2>1, MintKeepsTheInvariant
  <2>3. \/ /\ UNCHANGED <<log, ask>> /\ tries' = tries - 1 /\ tries > 0
        \/ /\ UNCHANGED tries /\ ask' = Nothing
           /\ \E status \in {"limited", "notJson"} : log' = Append(log, [status |-> status])
    BY <1>5 DEF Limited, LimitedNotJson, LimitedBy, retry, Read
  <2>4. CASE UNCHANGED <<log, ask>> /\ tries' = tries - 1 /\ tries > 0
    BY <1>1, <2>1, <2>2, <2>4
       DEF GradeInv, LogRead, Waiting, HasLongForm, Reported, at, Retries
  <2>5. ASSUME UNCHANGED tries, ask' = Nothing, NEW status \in {"limited", "notJson"},
               log' = Append(log, [status |-> status])
        PROVE  GradeInv'
    <3>1. [status |-> status].status \in Unanswered
      BY DEF Unanswered
    <3>2. LogRead' /\ HasLongForm' /\ (at = "done" <=> at' = "done") /\ at # "done"
      BY <2>1, <2>5, <3>1, ReadKeepsTheLog
    <3> QED BY <1>1, <2>1, <2>2, <2>5, <3>2 DEF GradeInv, Waiting, Reported
  <2> QED BY <2>3, <2>4, <2>5
<1> QED BY <1>2, <1>3, <1>4, <1>5 DEF Http

---------------------------------------------------------------------------
\* The note is worth what it was grown for, and nothing has been asked.
LEMMA GradeInvBegins ==
  Init => GradeInv
<1> SUFFICES ASSUME Init PROVE GradeInv
  OBVIOUS
<1>1. PICK calling \in Callings :
        /\ InitMint("given", calling.given = "preimage")
        /\ g = [given |-> calling.given, feeKnown |-> calling.feeKnown,
                value |-> 0, offered |-> FALSE, certs |-> {}, first |-> "none",
                prior |-> SpendBy("given", calling.given), tree |-> 0, keyed |-> 0]
  BY DEF Init
<1>2. log = << >> /\ ask = Nothing /\ tries = Retries /\ report = << >>
  BY DEF Init, InitGrade
<1>3. LogRead /\ Waiting /\ HasLongForm /\ Reported
  BY <1>2 DEF LogRead, Waiting, HasLongForm, Reported, Retries
<1>4. Remembered
  BY <1>1 DEF Remembered
<1>5. /\ DOMAIN notes = {"given"} /\ {"state", "amount"} \subseteq DOMAIN notes["given"]
      /\ notes["given"].state = "outstanding" /\ notes["given"].amount = Value
  BY <1>1 DEF InitMint
<1>6. Ledger(notes)
  <2>1. IsFiniteSet({"given"})
    BY FS_Singleton
  <2> QED BY <1>5, <2>1, Money DEF Ledger
<1>7. Owed(notes) = Value
  <2> DEFINE f == [q \in Live(notes) |-> notes[q].amount]
  <2>1. Live(notes) = {"given"} /\ f["given"] = Value
    BY <1>5 DEF Live
  <2>2. Face(notes) = SumFunctionOnSet(f, {"given"})
    BY <2>1 DEF Face
  <2>3. IsFiniteSet({"given"}) /\ Cardinality({"given"}) = 1
    BY FS_Singleton
  <2> HIDE DEF f
  <2>4. SumFunctionOnSet(f, {"given"}) = Value + SumFunctionOnSet(f, {})
    <3>1. {"given"} \ {"given"} = {} /\ \A x \in {"given"} : f[x] \in Int
      BY <2>1, Money
    <3> QED BY <2>1, <2>3, <3>1, SumWithout
  <2>5. Face(notes) = Value
    BY <2>2, <2>4, SumOfNone, Money
  <2> QED BY <2>1, <2>3, <2>5, Money DEF Owed
<1> QED BY <1>3, <1>4, <1>6, <1>7 DEF GradeInv, Solvent

\* Whatever is asked, answered, lost, repeated or held back, it stays.
LEMMA GradeInvStays ==
  GradeInv /\ [Next]_vars => GradeInv'
<1> SUFFICES ASSUME GradeInv, [Next]_vars PROVE GradeInv'
  OBVIOUS
<1>1. CASE Grade /\ UNCHANGED mintVars
  BY <1>1, GradeMoves, MovesKeepTheInvariant
<1>2. CASE Http /\ UNCHANGED <<held, g, fault>>
  BY <1>2, HttpKeepsTheInvariant
<1>3. CASE UNCHANGED vars
  BY <1>3 DEF vars, mintVars, GradeInv, LogRead, Waiting, Remembered, HasLongForm, Reported,
             Solvent, Ledger, Owed, Face, Live, at
<1> QED BY <1>1, <1>2, <1>3 DEF Next, Done

\* So it holds of every grade.
LEMMA GradeInvHolds ==
  Spec => []GradeInv
BY GradeInvBegins, GradeInvStays, PTL DEF Spec

\* No verdict is a fifth one, no answer outlives its check, and no request is
\* sent a fourth time, whatever option the mint was started with.
THEOREM GradeTyped ==
  Spec => []GraderTypeOK
<1>1. GradeInv => GraderTypeOK
  BY DEF GradeInv, LogRead, Waiting, Remembered, Reported, Verdicts, Solvent, Ledger,
         GraderTypeOK, GradeTypeOK
<1> QED BY <1>1, GradeInvHolds, PTL

\* Whatever HTTP loses, repeats or delays, and in whatever order the grader's
\* checks end, an honest mint is worth after each request what it was before.
THEOREM GradeConserves ==
  Spec => []ValueConserved
<1>1. GradeInv => ValueConserved
  BY DEF GradeInv, Solvent, Owed, Face, Live, ValueConserved, outstanding
<1> QED BY <1>1, GradeInvHolds, PTL
=============================================================================
