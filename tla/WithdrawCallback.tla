-------------------------- MODULE WithdrawCallback --------------------------
(***************************************************************************)
(* GET /w/cb, the only handler that moves a note's value: melt one note,   *)
(* split notes in two, or exchange notes for one (a rotate of one note, a  *)
(* merge of several).  A handler runs to its answer without an await, so   *)
(* each is one action; what runs later is the melt's setTimeout callback.  *)
(***************************************************************************)
EXTENDS MintStore, Sequences

\* The requests a caller may send.  k1 lists the notes its spends name, opens
\* says whether every spend verifies against its note, pr whether an invoice
\* to pay is given; p1, p2 and amount are None when the parameter is absent
\* or does not decode.
CONSTANT WithdrawRequest

RequestShape == [k1 : Seq(Output), opens : BOOLEAN, pr : BOOLEAN,
                 p1 : Output \cup {None}, p2 : Output \cup {None},
                 amount : Nat \cup {None}]

ASSUME WithdrawRequestsAreRequests == WithdrawRequest \subseteq RequestShape

inputs(r) == {r.k1[i] : i \in DOMAIN r.k1}
splits(r) == r.amount # None
\* A rotate or a merge never reads p2.
out2(r) == IF splits(r) THEN r.p2 ELSE None
outputs(r) == {r.p1, out2(r)} \ {None}

\* Fault: a note named twice in one merge counts twice.
WellFormed_countsTwice(r) ==
  /\ r.k1 # << >>
  /\ MergeCap > 0 => Len(r.k1) <= MergeCap
  /\ r.pr => Len(r.k1) = 1 /\ ~splits(r)
  /\ ~r.pr => r.p1 # None /\ (splits(r) => r.p2 # None)

\* Decoded and checked before any note is looked at.
WellFormed(r) ==
  /\ r.k1 # << >>
  /\ MergeCap > 0 => Len(r.k1) <= MergeCap
  /\ IsInjective(r.k1)                    \* no note named twice
  /\ r.pr => Len(r.k1) = 1 /\ ~splits(r)
  /\ ~r.pr => r.p1 # None /\ (splits(r) => r.p2 # None)

\* Every spend opens a note the mint knows, whatever that note's state.
Opened(r) == r.opens /\ \A q \in inputs(r) : notes[q].state # "absent"

swapIdentity(r) == [inputs |-> inputs(r), out1 |-> r.p1, out2 |-> out2(r),
                    amount |-> IF splits(r) THEN r.amount ELSE None]

\* This very mutation has been answered before.
Retried(r) ==
  /\ ~On("refuseRetries")
  /\ ~r.pr
  /\ \E s \in swaps : s.identity = swapIdentity(r)

Spent(q) == notes[q].state \in {"burned", "pending"}
Fundable(r) == Opened(r) /\ WellFormed(r) /\ ~Retried(r)
\* Faults: a burned note, or one in flight, still funds a mutation.
Live_ignoresBurned(r) == (\A q \in inputs(r) : notes[q].state # "pending") /\ Fundable(r)
Live_ignoresPending(r) == (\A q \in inputs(r) : notes[q].state # "burned") /\ Fundable(r)
Live(r) == (\A q \in inputs(r) : notes[q].state = "outstanding") /\ Fundable(r)

total(r) == SumFunction([i \in DOMAIN r.k1 |-> notes[r.k1[i]].amountMsat])

OutputsFree(r) ==
  /\ r.p1 # out2(r)
  /\ \A q \in outputs(r) : ~outputInUse(q)

\* What a split leaves: the fee of the second note comes out of the change.
change(r) == total(r) - r.amount - Fees.base
\* Fault: a change of exactly nothing is minted as a note.
SplitAllowed_emptyChange(r) ==
  /\ ~On("sunset")
  /\ 0 < r.amount /\ r.amount < total(r)
  /\ change(r) >= 0
SplitAllowed(r) ==
  /\ ~On("sunset")
  /\ 0 < r.amount /\ r.amount < total(r)
  /\ change(r) >= 1

\* Fault: a rotate refunds too.
refund_perNote(r) == Len(r.k1) * Fees.base
\* A merge of n notes will cost one melt instead of n.
refund(r) == (Len(r.k1) - 1) * Fees.base

---------------------------------------------------------------------------
\* The early returns, in the order the code meets them.
UnknownInput(r) == ~(Opened(r) /\ WellFormed(r))

\* The first input, in the order of k1, that is burned or in flight answers.
SpentInput(r, state) ==
  /\ \E i \in DOMAIN r.k1 :
       /\ notes[r.k1[i]].state = state
       /\ \A j \in 1 .. i - 1 : ~Spent(r.k1[j])
  /\ Fundable(r)

OutputTaken(r) ==
  /\ ~r.pr /\ r.p1 # out2(r)
  /\ \E q \in outputs(r) : outputInUse(q)
  /\ Live(r)

BadSplit(r) ==
  /\ Live(r) /\ ~r.pr /\ splits(r)
  /\ \/ r.p1 = r.p2
     \/ OutputsFree(r) /\ ~SplitAllowed(r)

RefusedWith(r, status) ==
  CASE status = "refused" -> UnknownInput(r) \/ BadSplit(r)
    [] status = "pending" -> SpentInput(r, "pending")
    [] status = "already in use" -> SpentInput(r, "burned") \/ OutputTaken(r)

\* What some request would be refused with now.
Refusals == {status \in Status \ {"OK"} :
               \E r \in WithdrawRequest : RefusedWith(r, status)}

\* A request that is refused burns nothing.
Refuse ==
  /\ \E status \in Refusals : Reply(status, {})
  /\ UNCHANGED <<noteVars, quoteVars, shareVars>>

\* The retry branch reads: it burns nothing and mints nothing.
Replay(r) ==
  /\ ~On("refuseRetries") /\ ~r.pr
  /\ \E s \in swaps : /\ s.identity = swapIdentity(r)
                      /\ Reply("OK", s.outputs)
  /\ Opened(r) /\ WellFormed(r)
  /\ UNCHANGED <<noteVars, quoteVars, shareVars>>

Melt(r, hash) ==
  LET q == r.k1[1] IN
  /\ Live(r) /\ r.pr
  /\ Fresh(hash)
  /\ notes' = Moved(notes, {q}, "pending")
  /\ invoices' = IF On("verify")
                 THEN [invoices EXCEPT ![hash] =
                        [NoInvoice EXCEPT !.use = "melt",
                                          !.amountMsat = notes[q].amountMsat]]
                 ELSE invoices
  /\ timers' = IF On("meltNeverSettles") THEN timers
               ELSE timers \cup {[q |-> q, hash |-> IF On("verify") THEN hash
                                                    ELSE None]}
  /\ Finish({})
  /\ UNCHANGED <<swaps, invoiceNotes, boundOutputs, shareVars>>

\* Faults: a payment that was made gives its note back, one that failed does
\* not.
MeltOutcome_restores == "outstanding"
MeltOutcome_burns == "burned"
\* The outgoing payment failed, or it settled.
MeltOutcome == IF On("meltAlwaysFails") THEN "outstanding" ELSE "burned"

\* setTimeout fires, and writes the note's state whatever it is by now.
MeltResolves(t) ==
  /\ t \in timers
  /\ timers' = timers \ {t}
  /\ notes' = Moved(notes, {t.q}, MeltOutcome)
  /\ invoices' = IF On("meltAlwaysFails") \/ t.hash = None THEN invoices
                 ELSE [invoices EXCEPT ![t.hash].settled = TRUE]
  /\ answer' = Silence
  /\ UNCHANGED <<swaps, invoiceNotes, boundOutputs, shareVars>>

\* Burn the inputs, mint what the certificates say, remember the exchange.
Exchange(r, certificates) ==
  /\ notes' = [q \in Output |->
                IF q \in inputs(r) THEN [notes[q] EXCEPT !.state = "burned"]
                ELSE IF \E c \in certificates : c.q = q
                     THEN Minted((CHOOSE c \in certificates : c.q = q).amountMsat)
                     ELSE notes[q]]
  /\ swaps' = {s \in swaps : s.identity # swapIdentity(r)}
                \cup {[identity |-> swapIdentity(r), outputs |-> certificates]}
  /\ Finish(certificates)
  /\ UNCHANGED <<timers, quoteVars, shareVars>>

Split(r) ==
  /\ Live(r) /\ ~r.pr /\ splits(r)
  /\ OutputsFree(r)
  /\ SplitAllowed(r)
  /\ {r.amount, change(r)} \subseteq SafeInteger
  /\ Exchange(r, {[q |-> r.p1, amountMsat |-> r.amount],
                  [q |-> r.p2, amountMsat |-> change(r)]})

\* A rotate is a merge of one.
Merge(r) ==
  /\ Live(r) /\ ~r.pr /\ ~splits(r)
  /\ OutputsFree(r)
  /\ total(r) + refund(r) \in Amount
  /\ Exchange(r, {[q |-> r.p1, amountMsat |-> total(r) + refund(r)]})

WithdrawStep ==
  \/ Refuse
  \/ \E r \in WithdrawRequest :
       \/ Replay(r)
       \/ Split(r)
       \/ Merge(r)
       \/ \E hash \in Hash : Melt(r, hash)
  \/ \E t \in timers : MeltResolves(t)
=============================================================================
