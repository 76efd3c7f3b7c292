------------------------- MODULE MockMintProofs ---------------------------
(***************************************************************************)
(* What is true of MockMint for every choice of its constants: the types   *)
(* it keeps and how its notes age; that what a quote claims it gets, what a *)
(* payment credits nothing else does, what is exchanged is so once, and a  *)
(* share serves one username; and that every step of the mint is a step of *)
(* the abstract ledger, so what it was paid and has not paid out always    *)
(* covers what it owes.                                                    *)
(***************************************************************************)
EXTENDS MockMint, NumberTheorems

Typed == TypeOK /\ InvoicesWorth /\ TimersOwnPending

\* The steps that answer a request and change nothing else.
Idle == UNCHANGED <<notes, swaps, timers, invoices, invoiceNotes, boundOutputs,
                    registrations, usedKeys>>

\* What a split and a merge have in common: live inputs are exchanged for
\* certificates of different notes, none of them in use.
Swapped(r, certificates) ==
  /\ Live(r)
  /\ inputs(r) \subseteq Output
  /\ swapIdentity(r) \in Identity
  /\ certificates \subseteq Certificate
  /\ \A cert \in certificates : ~outputInUse(cert.q)
  /\ \A cert, other \in certificates : cert.q = other.q => cert = other
  /\ Exchange(r, certificates)

---------------------------------------------------------------------------
\* The parameters of a request have the types the handler decodes.
LEMMA RequestTyped ==
  ASSUME NEW r \in WithdrawRequest
  PROVE  /\ r.p1 \in Output \cup {None} /\ r.p2 \in Output \cup {None}
         /\ r.amount \in Nat \cup {None} /\ r.pr \in BOOLEAN
         /\ r.k1 \in Seq(Output)
         /\ inputs(r) \subseteq Output
  BY WithdrawRequestsAreRequests DEF inputs, RequestShape

\* A live request that is no melt names the outputs it is given.
LEMMA OutputsNamed ==
  ASSUME NEW r \in WithdrawRequest, Live(r), ~r.pr
  PROVE  /\ r.p1 \in Output
         /\ splits(r) => r.p2 \in Output /\ out2(r) = r.p2
         /\ ~splits(r) => out2(r) = None
         /\ swapIdentity(r) \in Identity
  <1>1. WellFormed(r)
    BY DEF Live, Fundable
  <1>2. r.p1 \in Output /\ (splits(r) => r.p2 \in Output)
    BY <1>1, RequestTyped DEF WellFormed
  <1> QED
    BY <1>2, RequestTyped, NoneIsNothing DEF splits, out2, swapIdentity, Identity

\* The notes a split or a merge certifies.
Certified(r) ==
  IF splits(r) THEN {[q |-> r.p1, amountMsat |-> r.amount],
                     [q |-> r.p2, amountMsat |-> change(r)]}
  ELSE {[q |-> r.p1, amountMsat |-> total(r) + refund(r)]}

\* A split exchanges its inputs for two notes.
LEMMA SplitSwaps ==
  ASSUME NEW r \in WithdrawRequest, Split(r)
  PROVE  Swapped(r, Certified(r))
  <1> DEFINE certs == {[q |-> r.p1, amountMsat |-> r.amount],
                       [q |-> r.p2, amountMsat |-> change(r)]}
  <1>1. Live(r) /\ ~r.pr /\ splits(r) /\ OutputsFree(r) /\ SplitAllowed(r) /\ Exchange(r, certs)
    BY DEF Split
  <1>2. r.p1 \in Output /\ r.p2 \in Output /\ out2(r) = r.p2 /\ swapIdentity(r) \in Identity
    BY <1>1, OutputsNamed
  <1>3. r.amount \in Amount /\ change(r) \in Amount
    <2>1. r.amount \in SafeInteger /\ change(r) \in SafeInteger
      BY DEF Split
    <2>2. 0 < r.amount /\ change(r) >= 1
      BY <1>1 DEF SplitAllowed
    <2> QED
      BY <2>1, <2>2, Configuration DEF SafeInteger, Amount
  <1>4. certs \subseteq Certificate
    BY <1>2, <1>3 DEF Certificate
  <1>5. r.p1 # r.p2 /\ ~outputInUse(r.p1) /\ ~outputInUse(r.p2)
    BY <1>1, <1>2, NoneIsNothing DEF OutputsFree, outputs
  <1>6. \A cert \in certs : ~outputInUse(cert.q)
    BY <1>5
  <1>7. \A cert, other \in certs : cert.q = other.q => cert = other
    BY <1>5
  <1>8. Swapped(r, certs)
    BY <1>1, <1>2, <1>4, <1>6, <1>7, RequestTyped DEF Swapped
  <1> QED
    BY <1>1, <1>8 DEF Certified

\* A rotate or a merge exchanges its inputs for one note.
LEMMA MergeSwaps ==
  ASSUME NEW r \in WithdrawRequest, Merge(r)
  PROVE  Swapped(r, Certified(r))
  <1> DEFINE certs == {[q |-> r.p1, amountMsat |-> total(r) + refund(r)]}
  <1>1. Live(r) /\ ~r.pr /\ OutputsFree(r) /\ total(r) + refund(r) \in Amount /\ Exchange(r, certs)
    BY DEF Merge
  <1>2. r.p1 \in Output /\ swapIdentity(r) \in Identity
    BY <1>1, OutputsNamed
  <1>3. ~outputInUse(r.p1)
    BY <1>1, <1>2, NoneIsNothing DEF OutputsFree, outputs
  <1>4. certs \subseteq Certificate
    BY <1>1, <1>2 DEF Certificate
  <1>5. Swapped(r, certs)
    BY <1>1, <1>2, <1>3, <1>4, RequestTyped DEF Swapped
  <1> QED
    BY <1>5 DEF Merge, Certified

\* Every step is idle or one of the steps below.
LEMMA AllSteps ==
  ASSUME TypeOK, Next
  PROVE  \/ Idle /\ answer' \in Answer
         \/ \E r \in WithdrawRequest : Split(r) \/ Merge(r)
         \/ \E r \in WithdrawRequest, hash \in Hash : Melt(r, hash)
         \/ \E t \in timers : MeltResolves(t)
         \/ \E hash \in Hash, gross \in Gross, comment, h \in Output \cup {None} :
              Quote(gross, comment, h, hash)
         \/ \E hash \in Hash, u \in Username, gross \in Gross : AddressQuote(u, gross, hash)
         \/ \E hash \in Hash :
              SettleQuote(hash) \/ SettleAddressPayment(hash) \/ SettleAddressFee(hash)
         \/ \E u \in Username, sig \in BOOLEAN : Delete(u, sig)
         \/ \E u \in Username, sig \in BOOLEAN, cx1 \in Cx1 \cup {None}, hash \in Hash \cup {None} :
              Post(u, cx1, sig, hash)
         \/ \E u \in Username, sig, newsig \in BOOLEAN, cx1 \in Cx1 \cup {None} :
              Put(u, cx1, sig, newsig)
  <1>1. CASE WithdrawStep
    <2>1. CASE Refuse
      <3>1. \E status \in Status : Reply(status, {})
        BY <2>1 DEF Refuse, Refusals
      <3>2. answer' \in Answer
        BY <3>1 DEF Reply, Answer
      <3> QED
        BY <2>1, <3>2 DEF Refuse, Idle, noteVars, quoteVars, shareVars
    <2>2. ASSUME NEW r \in WithdrawRequest, Replay(r)
          PROVE  Idle /\ answer' \in Answer
      <3>1. PICK swap \in swaps : Reply("OK", swap.outputs)
        BY <2>2 DEF Replay
      <3>2. swap.outputs \subseteq Certificate
        BY DEF TypeOK, Swap
      <3>3. answer' \in Answer
        BY <3>1, <3>2 DEF Reply, Answer, Status
      <3> QED
        BY <2>2, <3>3 DEF Replay, Idle, noteVars, quoteVars, shareVars
    <2> QED
      BY <1>1, <2>1, <2>2, Zenon DEF WithdrawStep
  <1>2. CASE PayStep
    <2>1. CASE RefuseQuote \/ RefuseAddressQuote
      <3>1. Reply("refused", {}) /\ UNCHANGED <<noteVars, quoteVars, shareVars>>
        BY <2>1, Zenon DEF RefuseQuote, RefuseAddressQuote
      <3> QED
        BY <3>1 DEF Reply, Answer, Status, Idle, noteVars, quoteVars, shareVars
    <2> QED
      BY <1>2, <2>1 DEF PayStep
  <1>3. CASE RegistryStep
    <2>1. CASE RefuseRegistration
      BY <2>1 DEF RefuseRegistration, Reply, Answer, Status, Idle, noteVars, quoteVars, shareVars
    <2> QED
      BY <1>3, <2>1 DEF RegistryStep
  <1> QED
    BY <1>1, <1>2, <1>3 DEF Next

\* A split and a merge are exchanges: so the proofs that care for no amounts
\* tell the steps apart.
LEMMA Steps ==
  ASSUME TypeOK, Next
  PROVE  \/ Idle /\ answer' \in Answer
         \/ \E r \in WithdrawRequest : \E certificates : Swapped(r, certificates)
         \/ \E r \in WithdrawRequest, hash \in Hash : Melt(r, hash)
         \/ \E t \in timers : MeltResolves(t)
         \/ \E hash \in Hash, gross \in Gross, comment, h \in Output \cup {None} :
              Quote(gross, comment, h, hash)
         \/ \E hash \in Hash, u \in Username, gross \in Gross : AddressQuote(u, gross, hash)
         \/ \E hash \in Hash :
              SettleQuote(hash) \/ SettleAddressPayment(hash) \/ SettleAddressFee(hash)
         \/ \E u \in Username, sig \in BOOLEAN : Delete(u, sig)
         \/ \E u \in Username, sig \in BOOLEAN, cx1 \in Cx1 \cup {None}, hash \in Hash \cup {None} :
              Post(u, cx1, sig, hash)
         \/ \E u \in Username, sig, newsig \in BOOLEAN, cx1 \in Cx1 \cup {None} :
              Put(u, cx1, sig, newsig)
  BY AllSteps, SplitSwaps, MergeSwaps

---------------------------------------------------------------------------
(***************************************************************************)
(* Types.  That a resolved melt leaves a note behind, and not the state of *)
(* a note that was never there, takes TimersOwnPending.                    *)
(***************************************************************************)
\* The values of notes are naturals, as the amounts of invoices are.
LEMMA AmountIsNat == Amount \subseteq Nat
  BY Configuration DEF Amount

\* The store createMockMint fills is well typed.
LEMMA TypedInit == Init => Typed
  <1> SUFFICES ASSUME Init PROVE Typed
    OBVIOUS
  <1>1. notes \in [Output -> Note]
    <2>1. \A q \in Output : Funded[q] # 0 => Funded[q] \in Amount
      BY Configuration DEF Amount
    <2> QED
      BY <2>1 DEF Init, InitStore, Note, Minted, NoteState
  <1>2. NoInvoice \in Invoice /\ NoRegistration \in Registration
    BY DEF NoInvoice, Invoice, Use, NoRegistration, Registration
  <1>3. TypeOK
    BY <1>1, <1>2 DEF Init, InitStore, TypeOK
  <1> QED
    BY <1>3 DEF Init, InitStore, Typed, InvoicesWorth, NoInvoice, TimersOwnPending

\* An exchange keeps the types and leaves the notes in flight alone.
LEMMA TypedExchange ==
  ASSUME Typed, NEW r, NEW certificates, Swapped(r, certificates)
  PROVE  Typed'
  <1> USE DEF Typed
  <1>1. \A q \in inputs(r) : notes[q].state = "outstanding"
    BY DEF Swapped, Live
  <1>2. notes' \in [Output -> Note]
    <2>1. \A q \in inputs(r) : [notes[q] EXCEPT !.state = "burned"] \in Note
      BY <1>1 DEF Swapped, TypeOK, Note, NoNote, NoteState
    <2>2. \A cert \in certificates : Minted(cert.amountMsat) \in Note
      BY DEF Swapped, Certificate, Minted, Note, NoteState
    <2> QED
      BY <2>1, <2>2 DEF Swapped, Exchange, TypeOK
  <1>3. swaps' \subseteq Swap
    BY DEF Swapped, Exchange, TypeOK, Swap
  <1>4. answer' \in Answer \cup {Silence}
    BY DEF Swapped, Exchange, Finish, Answer, Status
  <1>5. TypeOK'
    BY <1>2, <1>3, <1>4 DEF Swapped, Exchange, TypeOK, quoteVars, shareVars
  <1>6. \A t \in timers : notes'[t.q].state = "pending"
    <2> TAKE t \in timers
    <2>1. t.q \in Output /\ notes[t.q].state = "pending"
      BY DEF TypeOK, Timer, TimersOwnPending
    <2>2. t.q \notin inputs(r)
      BY <1>1, <2>1
    <2>3. \A cert \in certificates : cert.q # t.q
      BY <2>1 DEF Swapped, outputInUse
    <2> QED
      BY <2>1, <2>2, <2>3 DEF Swapped, Exchange
  <1> QED
    BY <1>5, <1>6 DEF Swapped, Exchange, quoteVars, InvoicesWorth, TimersOwnPending

\* The note a melt names is a live one.
LEMMA MeltNote ==
  ASSUME NEW r \in WithdrawRequest, NEW hash \in Hash, Melt(r, hash)
  PROVE  r.k1[1] \in inputs(r) /\ r.k1[1] \in Output /\ notes[r.k1[1]].state = "outstanding"
  <1>1. WellFormed(r) /\ r.pr
    BY DEF Melt, Live, Fundable
  <1>2. Len(r.k1) = 1
    BY <1>1 DEF WellFormed
  <1>3. r.k1 \in Seq(Output)
    BY RequestTyped
  <1>4. r.k1[1] \in inputs(r) /\ r.k1[1] \in Output
    BY <1>2, <1>3 DEF inputs
  <1> QED
    BY <1>4 DEF Melt, Live

\* A melt sets its note in flight, with a timer of its own.
LEMMA TypedMelt ==
  ASSUME Typed, NEW r \in WithdrawRequest, NEW hash \in Hash, Melt(r, hash)
  PROVE  Typed'
  <1> DEFINE q == r.k1[1]
  <1> USE DEF Typed
  <1>1. q \in inputs(r) /\ q \in Output
    BY MeltNote
  <1>2. notes[q].state = "outstanding"
    BY MeltNote
  <1>3. notes[q] \in Note /\ notes[q].amountMsat \in Amount
    BY <1>1, <1>2 DEF TypeOK, Note, NoNote
  <1>4. notes' \in [Output -> Note]
    BY <1>2, <1>3 DEF Melt, Moved, TypeOK, Note, NoNote, NoteState
  <1>5. invoices' \in [Hash -> Invoice] /\ InvoicesWorth'
    <2>1. CASE On("verify")
      <3> DEFINE new == [NoInvoice EXCEPT !.use = "melt", !.amountMsat = notes[q].amountMsat]
      <3>1. new \in Invoice /\ new.amountMsat \in Amount
        BY <1>3, AmountIsNat DEF NoInvoice, Invoice, Use
      <3>2. invoices' = [invoices EXCEPT ![hash] = new]
        BY <2>1 DEF Melt
      <3> QED
        BY <3>1, <3>2 DEF TypeOK, InvoicesWorth
    <2> QED
      BY <2>1 DEF Melt, TypeOK, InvoicesWorth
  <1>6. timers' \subseteq Timer /\ TimersOwnPending'
    <2>1. \A t \in timers : t.q # q /\ t.q \in Output /\ notes[t.q].state = "pending"
      BY <1>2 DEF TypeOK, Timer, TimersOwnPending
    <2>2. notes'[q].state = "pending"
      BY <1>1, <1>3 DEF Melt, Moved, Note, NoNote
    <2>3. \A t \in timers : notes'[t.q] = notes[t.q]
      BY <2>1 DEF Melt, Moved
    <2>4. timers' \subseteq Timer
      BY <1>1 DEF Melt, TypeOK, Timer
    <2>5. \A t \in timers' : t.q = q \/ t \in timers
      BY DEF Melt
    <2>6. \A s, t \in timers' : s.q = q /\ t.q = q => s = t
      BY <2>1 DEF Melt
    <2> QED
      BY <2>1, <2>2, <2>3, <2>4, <2>5, <2>6 DEF TimersOwnPending
  <1>7. answer' \in Answer \cup {Silence}
    BY DEF Melt, Finish, Answer, Status
  <1> QED
    BY <1>4, <1>5, <1>6, <1>7 DEF Melt, TypeOK, shareVars

\* A melt that is resolved leaves its note where the payment left it.
LEMMA TypedResolve ==
  ASSUME Typed, NEW t \in timers, MeltResolves(t)
  PROVE  Typed'
  <1> USE DEF Typed
  <1>1. t \in Timer /\ notes[t.q].state = "pending"
    BY DEF TypeOK, TimersOwnPending
  <1>2. notes[t.q] \in Note /\ notes[t.q].amountMsat \in Amount
    BY <1>1 DEF TypeOK, Timer, Note, NoNote
  <1>3. \E state \in {"outstanding", "burned"} : notes' = Moved(notes, {t.q}, state)
    BY DEF MeltResolves, MeltOutcome
  <1>4. notes' \in [Output -> Note]
    BY <1>1, <1>2, <1>3 DEF Moved, TypeOK, Note, NoNote, NoteState
  <1>5. invoices' \in [Hash -> Invoice] /\ InvoicesWorth'
    <2>1. CASE invoices' = invoices
      BY <2>1 DEF TypeOK, InvoicesWorth
    <2>2. CASE t.hash # None /\ invoices' = [invoices EXCEPT ![t.hash].settled = TRUE]
      <3>1. t.hash \in Hash
        BY <1>1, <2>2 DEF Timer
      <3> QED
        BY <2>2, <3>1 DEF TypeOK, InvoicesWorth, Invoice
    <2> QED
      BY <2>1, <2>2 DEF MeltResolves
  <1>6. \A s \in timers' : s \in timers /\ s.q # t.q /\ s.q \in Output /\ notes'[s.q] = notes[s.q]
    BY <1>3 DEF MeltResolves, TimersOwnPending, TypeOK, Timer, Moved
  <1> QED
    BY <1>4, <1>5, <1>6 DEF MeltResolves, TypeOK, TimersOwnPending, shareVars

\* A quote is worth a note, and its fallback note and output are outputs.
LEMMA TypedQuote ==
  ASSUME Typed, NEW hash \in Hash, NEW gross \in Gross,
         NEW comment \in Output \cup {None}, NEW h \in Output \cup {None},
         Quote(gross, comment, h, hash)
  PROVE  Typed'
  <1> DEFINE bound == IF comment # None THEN comment ELSE readH(h)
             new == [NoInvoice EXCEPT !.use = "mint", !.boundTo = bound,
                                      !.amountMsat = applyFee(Fees, gross),
                                      !.invoiced = gross]
  <1> USE DEF Typed
  <1>1. bound \in Output \cup {None}
    BY DEF readH
  <1>2. applyFee(Fees, gross) \in Amount
    BY DEF Quote, AmountAccepted
  <1>3. new \in Invoice /\ new.amountMsat \in Amount
    BY <1>1, <1>2, AmountIsNat, PaymentsAreReported DEF NoInvoice, Invoice, Use
  <1>4. /\ invoices' = [invoices EXCEPT ![hash] = new]
        /\ boundOutputs' = [q \in Output |-> IF q = bound THEN hash ELSE boundOutputs[q]]
        /\ invoiceNotes' = invoiceNotes \cup {BearerOf[hash]}
        /\ Reply("OK", {}) /\ UNCHANGED <<noteVars, shareVars>>
    BY Zenon DEF Quote
  <1>5. answer' \in Answer
    BY <1>4 DEF Reply, Answer, Status
  <1>6. invoices' \in [Hash -> Invoice] /\ InvoicesWorth'
    BY <1>3, <1>4 DEF TypeOK, InvoicesWorth
  <1> QED
    BY <1>4, <1>5, <1>6, DerivationsAreFunctions
    DEF TypeOK, TimersOwnPending, noteVars, shareVars

\* So is the payment of an address, which names no output yet.
LEMMA TypedAddressQuote ==
  ASSUME Typed, NEW hash \in Hash, NEW u \in Username, NEW gross \in Gross,
         AddressQuote(u, gross, hash)
  PROVE  Typed'
  <1> DEFINE new == [NoInvoice EXCEPT !.use = "address", !.user = u,
                                      !.amountMsat = applyFee(Fees, gross),
                                      !.invoiced = gross]
  <1> USE DEF Typed
  <1>1. applyFee(Fees, gross) \in Amount
    BY DEF AddressQuote, AmountAccepted
  <1>2. new \in Invoice /\ new.amountMsat \in Amount
    BY <1>1, AmountIsNat, PaymentsAreReported DEF NoInvoice, Invoice, Use
  <1>3. /\ invoices' = [invoices EXCEPT ![hash] = new]
        /\ Reply("OK", {})
        /\ UNCHANGED <<invoiceNotes, boundOutputs, noteVars, shareVars>>
    BY Zenon DEF AddressQuote
  <1>4. answer' \in Answer
    BY <1>3 DEF Reply, Answer, Status
  <1>5. invoices' \in [Hash -> Invoice] /\ InvoicesWorth'
    BY <1>2, <1>3 DEF TypeOK, InvoicesWorth
  <1> QED
    BY <1>3, <1>4, <1>5 DEF TypeOK, TimersOwnPending, noteVars, shareVars

\* A payment mints only where there was no note, and what its invoice is worth.
LEMMA TypedSettle ==
  ASSUME Typed, NEW hash \in Hash,
         SettleQuote(hash) \/ SettleAddressPayment(hash) \/ SettleAddressFee(hash)
  PROVE  Typed'
  <1> USE DEF Typed
  <1>1. invoices[hash] \in Invoice
    BY DEF TypeOK
  <1>2. \A t \in timers : t.q \in Output /\ notes[t.q].state = "pending"
    BY DEF TypeOK, Timer, TimersOwnPending
  <1>3. \A n \in Amount : Minted(n) \in Note
    BY DEF Minted, Note, NoteState
  <1>4. CASE SettleQuote(hash)
    <2>1. invoices[hash].amountMsat \in Amount
      BY <1>4 DEF SettleQuote, InvoicesWorth
    <2>2. notes' \in [Output -> Note]
      BY <1>3, <1>4, <2>1 DEF SettleQuote, TypeOK
    <2>3. \A t \in timers : notes'[t.q] = notes[t.q]
      BY <1>2, <1>4 DEF SettleQuote
    <2>4. invoices' \in [Hash -> Invoice] /\ InvoicesWorth'
      BY <1>1, <1>4 DEF SettleQuote, TypeOK, InvoicesWorth, Invoice
    <2>5. boundOutputs' \in [Output -> Hash \cup {None}]
      BY <1>4 DEF SettleQuote, TypeOK
    <2> QED
      BY <1>2, <1>4, <2>2, <2>3, <2>4, <2>5
      DEF SettleQuote, TypeOK, TimersOwnPending, shareVars
  <1>5. CASE SettleAddressPayment(hash)
    <2>1. invoices[hash].amountMsat \in Amount
      BY <1>5 DEF SettleAddressPayment, InvoicesWorth
    <2>2. CASE UNCHANGED notes /\ invoices' = [invoices EXCEPT ![hash].settled = TRUE]
      <3>1. invoices' \in [Hash -> Invoice] /\ InvoicesWorth'
        BY <1>1, <2>2 DEF TypeOK, InvoicesWorth, Invoice
      <3> QED
        BY <1>5, <2>2, <3>1 DEF SettleAddressPayment, TypeOK, TimersOwnPending, shareVars
    <2>3. ASSUME NEW q \in Output, ~outputInUse(q),
                 invoices' = [invoices EXCEPT ![hash].settled = TRUE, ![hash].creditedTo = q],
                 notes' = [notes EXCEPT ![q] = Minted(invoices[hash].amountMsat)]
          PROVE  Typed'
      <3>1. invoices' \in [Hash -> Invoice] /\ InvoicesWorth'
        BY <1>1, <2>3 DEF TypeOK, InvoicesWorth, Invoice
      <3>2. notes' \in [Output -> Note]
        BY <1>3, <2>1, <2>3 DEF TypeOK
      <3>3. \A t \in timers : notes'[t.q] = notes[t.q]
        BY <1>2, <2>3 DEF outputInUse, TypeOK
      <3> QED
        BY <1>2, <1>5, <3>1, <3>2, <3>3
        DEF SettleAddressPayment, TypeOK, TimersOwnPending, shareVars
    <2> QED
      BY <1>5, <2>2, <2>3 DEF SettleAddressPayment, NextShareNote
  <1>6. CASE SettleAddressFee(hash)
    <2>1. registrations' \in [Username -> Registration]
      BY <1>6 DEF SettleAddressFee, TypeOK, Registration
    <2>2. invoices' \in [Hash -> Invoice] /\ InvoicesWorth'
      BY <1>1, <1>6 DEF SettleAddressFee, TypeOK, InvoicesWorth, Invoice
    <2> QED
      BY <1>6, <2>1, <2>2 DEF SettleAddressFee, TypeOK, TimersOwnPending, noteVars
  <1> QED
    BY <1>4, <1>5, <1>6

\* What is registered has the shape of a registration.
LEMMA TypedRegistry ==
  ASSUME Typed, NEW u \in Username, NEW sig \in BOOLEAN, NEW newsig \in BOOLEAN,
         NEW cx1 \in Cx1 \cup {None}, NEW hash \in Hash \cup {None},
         Delete(u, sig) \/ Post(u, cx1, sig, hash) \/ Put(u, cx1, sig, newsig)
  PROVE  Typed'
  <1> USE DEF Typed
  <1>1. Reply("OK", {}) /\ UNCHANGED <<invoiceNotes, boundOutputs, noteVars>>
    BY DEF Delete, Post, Put, quoteVars
  <1>2. answer' \in Answer
    BY <1>1 DEF Reply, Answer, Status
  <1>3. NoRegistration \in Registration
    BY DEF NoRegistration, Registration
  <1>4. ASSUME cx1 # None, NEW paid \in BOOLEAN, NEW fee \in Hash \cup {None},
               registerShare(u, cx1, paid, fee)
        PROVE  registrations' \in [Username -> Registration] /\ usedKeys' \subseteq XOnly
    BY <1>4, DerivationsAreFunctions DEF registerShare, TypeOK, Registration
  <1>5. registrations' \in [Username -> Registration] /\ usedKeys' \subseteq XOnly
    <2>1. CASE Delete(u, sig)
      BY <1>3, <2>1 DEF Delete, TypeOK
    <2>2. CASE Post(u, cx1, sig, hash)
      BY <1>4, <2>2 DEF Post, MayRegister
    <2>3. CASE Put(u, cx1, sig, newsig)
      BY <1>4, <2>3 DEF Put, MayUpdate
    <2> QED
      BY <2>1, <2>2, <2>3
  <1>6. invoices' \in [Hash -> Invoice] /\ InvoicesWorth'
    <2>1. CASE UNCHANGED invoices
      BY <2>1 DEF TypeOK, InvoicesWorth
    <2>2. CASE Post(u, cx1, sig, hash) /\ AddressFee # 0
      <3> DEFINE new == [NoInvoice EXCEPT !.use = "addressFee", !.user = u,
                                          !.amountMsat = AddressFee, !.invoiced = AddressFee]
      <3>1. hash \in Hash /\ invoices' = [invoices EXCEPT ![hash] = new]
        BY <2>2 DEF Post
      <3>2. new \in Invoice /\ new.use = "addressFee"
        BY Configuration DEF NoInvoice, Invoice, Use
      <3> QED
        BY <3>1, <3>2 DEF TypeOK, InvoicesWorth
    <2> QED
      BY <2>1, <2>2 DEF Post, Put, Delete, quoteVars
  <1> QED
    BY <1>1, <1>2, <1>5, <1>6 DEF TypeOK, TimersOwnPending, noteVars

\* Every step, of every handler and timer, keeps the types.
LEMMA TypedStep == Typed /\ [Next]_vars => Typed'
  <1> SUFFICES ASSUME Typed, [Next]_vars PROVE Typed'
    OBVIOUS
  <1>1. CASE UNCHANGED vars
    BY <1>1 DEF vars, Typed, TypeOK, InvoicesWorth, TimersOwnPending
  <1>2. CASE Idle /\ answer' \in Answer
    BY <1>2 DEF Idle, Typed, TypeOK, InvoicesWorth, TimersOwnPending
  <1>3. CASE Next
    BY <1>2, <1>3, Steps, TypedExchange, TypedMelt, TypedResolve, TypedQuote,
       TypedAddressQuote, TypedSettle, TypedRegistry DEF Typed
  <1> QED
    BY <1>1, <1>3

\* So they hold of every behaviour of the mint.
LEMMA TypedAlways == Spec => []Typed
  BY TypedInit, TypedStep, PTL DEF Spec

\* Every map of the mint holds what its declaration says, whatever requests,
\* payments and timers arrive in whatever order.
THEOREM TypeCorrect == Spec => []TypeOK
  BY TypedAlways, PTL DEF Typed

\* The setTimeout callback of a melt, which writes its note's state without
\* looking (index.mjs:1489), always finds that note still in flight.
THEOREM TimersFindTheirNotes == Spec => []TimersOwnPending
  BY TypedAlways, PTL DEF Typed

---------------------------------------------------------------------------
(***************************************************************************)
(* What a step may do to a note.                                           *)
(***************************************************************************)
\* One note's change in a step: none, or a step of its life at its value.
Ages(q) ==
  /\ notes'[q].state \in Advance[notes[q].state]
  /\ notes[q].state # "absent" => notes'[q].amountMsat = notes[q].amountMsat

\* A note is left alone, paid for while absent, or taken from outstanding or
\* pending to where a holder's request or the outgoing payment takes it.
LEMMA NotesAge ==
  ASSUME Typed, [Next]_vars, NEW q \in Output
  PROVE  Ages(q)
  <1> USE DEF Typed
  <1>1. notes[q] \in Note
    BY DEF TypeOK
  <1>2. notes[q].state \in NoteState
    BY <1>1 DEF Note, NoNote, NoteState
  <1>3. CASE notes'[q] = notes[q]
    BY <1>2, <1>3 DEF Ages, Advance, NoteState
  <1>4. CASE notes[q].state = "absent" /\ notes'[q].state = "outstanding"
    BY <1>4 DEF Ages, Advance
  <1>5. ASSUME notes[q].state = "outstanding", NEW state \in {"pending", "burned"},
               notes'[q] = [notes[q] EXCEPT !.state = state]
        PROVE  Ages(q)
    BY <1>1, <1>5 DEF Ages, Advance, Note, NoNote
  <1>6. ASSUME notes[q].state = "pending", NEW state \in {"outstanding", "burned"},
               notes'[q] = [notes[q] EXCEPT !.state = state]
        PROVE  Ages(q)
    BY <1>1, <1>6 DEF Ages, Advance, Note, NoNote
  <1>7. CASE UNCHANGED notes
    BY <1>3, <1>7
  <1>8. ASSUME NEW r \in WithdrawRequest, NEW certificates, Swapped(r, certificates)
        PROVE  Ages(q)
    <2>1. CASE q \in inputs(r)
      BY <1>5, <1>8, <2>1 DEF Swapped, Exchange, Live
    <2>2. CASE q \notin inputs(r) /\ \E cert \in certificates : cert.q = q
      BY <1>4, <1>8, <2>2 DEF Swapped, Exchange, outputInUse, Minted
    <2>3. CASE q \notin inputs(r) /\ ~\E cert \in certificates : cert.q = q
      BY <1>3, <1>8, <2>3 DEF Swapped, Exchange
    <2> QED
      BY <2>1, <2>2, <2>3
  <1>9. ASSUME NEW r \in WithdrawRequest, NEW hash \in Hash, Melt(r, hash)
        PROVE  Ages(q)
    <2>1. CASE q = r.k1[1]
      BY <1>5, <1>9, <2>1, MeltNote DEF Melt, Moved
    <2>2. CASE q # r.k1[1]
      BY <1>3, <1>9, <2>2 DEF Melt, Moved
    <2> QED
      BY <2>1, <2>2
  <1>10. ASSUME NEW t \in timers, MeltResolves(t)
         PROVE  Ages(q)
    <2>1. \E state \in {"outstanding", "burned"} : notes' = Moved(notes, {t.q}, state)
      BY <1>10 DEF MeltResolves, MeltOutcome
    <2>2. CASE q = t.q
      BY <1>6, <2>1, <2>2 DEF Moved, TimersOwnPending
    <2>3. CASE q # t.q
      BY <1>3, <2>1, <2>3 DEF Moved
    <2> QED
      BY <2>2, <2>3
  <1>11. ASSUME NEW hash \in Hash, SettleQuote(hash)
         PROVE  Ages(q)
    BY <1>3, <1>4, <1>11 DEF SettleQuote, Minted
  <1>12. ASSUME NEW hash \in Hash, SettleAddressPayment(hash)
         PROVE  Ages(q)
    <2>1. ASSUME NEW p \in Output, ~outputInUse(p),
                 notes' = [notes EXCEPT ![p] = Minted(invoices[hash].amountMsat)]
          PROVE  Ages(q)
      BY <1>3, <1>4, <2>1 DEF outputInUse, Minted, TypeOK
    <2> QED
      BY <1>7, <1>12, <2>1 DEF SettleAddressPayment, NextShareNote
  <1>13. ASSUME Next
         PROVE  Ages(q)
    <2>1. ASSUME NEW hash \in Hash, SettleAddressFee(hash)
          PROVE  Ages(q)
      BY <1>7, <2>1 DEF SettleAddressFee, noteVars
    <2>2. ASSUME NEW hash \in Hash, NEW gross \in Gross,
                 NEW comment \in Output \cup {None}, NEW h \in Output \cup {None},
                 Quote(gross, comment, h, hash)
          PROVE  Ages(q)
      BY <1>7, <2>2 DEF Quote, noteVars
    <2>3. ASSUME NEW hash \in Hash, NEW u \in Username, NEW gross \in Gross,
                 AddressQuote(u, gross, hash)
          PROVE  Ages(q)
      BY <1>7, <2>3 DEF AddressQuote, noteVars
    <2>4. ASSUME NEW u \in Username, NEW sig \in BOOLEAN, NEW newsig \in BOOLEAN,
                 NEW cx1 \in Cx1 \cup {None}, NEW hash \in Hash \cup {None},
                 Delete(u, sig) \/ Post(u, cx1, sig, hash) \/ Put(u, cx1, sig, newsig)
          PROVE  Ages(q)
      BY <1>7, <2>4 DEF Delete, Post, Put, noteVars
    <2> QED
      BY <1>7, <1>8, <1>9, <1>10, <1>11, <1>12, <1>13, <2>1, <2>2, <2>3, <2>4, Steps
      DEF Idle
  <1> QED
    BY <1>7, <1>13 DEF vars

\* Once a note is burned nothing brings it back, and no note changes its
\* value: the handlers and timers, in any order, only move notes on.
THEOREM NotesOnlyAge == Spec => BurnedStaysBurned
  <1>1. Typed /\ [Next]_vars => [\A q \in Output : Ages(q)]_vars
    BY NotesAge
  <1> QED
    BY <1>1, TypedAlways, PTL DEF Spec, BurnedStaysBurned, Ages

---------------------------------------------------------------------------
(***************************************************************************)
(* Which invoice is whose.                                                 *)
(***************************************************************************)
\* An invoice keeps its use for good: no hash is issued twice, and settling
\* changes nothing but whether it is settled and what it credited.
LEMMA UsesStep ==
  ASSUME Typed, UsesKept, [Next]_vars
  PROVE  /\ UsesKept'
         /\ \A hash \in Hash : invoices[hash].use # "none" =>
              invoices'[hash] = [invoices[hash] EXCEPT
                !.settled = invoices'[hash].settled, !.creditedTo = invoices'[hash].creditedTo]
  <1> DEFINE Same(hash) == invoices'[hash] = [invoices[hash] EXCEPT
                !.settled = invoices'[hash].settled, !.creditedTo = invoices'[hash].creditedTo]
             Goal == UsesKept' /\ \A hash \in Hash : invoices[hash].use # "none" => Same(hash)
  <1> USE DEF Typed
  <1>0. \A hash \in Hash : invoices[hash] \in Invoice
    BY DEF TypeOK
  <1>1. ASSUME UNCHANGED invoices, timers' \subseteq timers
        PROVE  Goal
    BY <1>0, <1>1 DEF UsesKept, Invoice
  <1>2. ASSUME NEW hash \in Hash, NEW note \in Output \cup {None}, timers' \subseteq timers,
               \/ invoices' = [invoices EXCEPT ![hash].settled = TRUE]
               \/ invoices' = [invoices EXCEPT ![hash].settled = TRUE, ![hash].creditedTo = note]
        PROVE  Goal
    <2>1. \A other \in Hash :
            /\ invoices'[other].use = invoices[other].use
            /\ invoices'[other].boundTo = invoices[other].boundTo
      BY <1>0, <1>2 DEF Invoice, TypeOK
    <2>2. UsesKept'
      BY <1>2, <2>1 DEF UsesKept, TypeOK, Timer
    <2>3. \A other \in Hash : Same(other)
      <3> TAKE other \in Hash
      <3>1. CASE other # hash
        BY <1>0, <1>2, <3>1 DEF Invoice, TypeOK
      <3>2. CASE other = hash /\ invoices' = [invoices EXCEPT ![hash].settled = TRUE]
        BY <1>0, <3>2 DEF Invoice, TypeOK
      <3>3. CASE other = hash
                 /\ invoices' = [invoices EXCEPT ![hash].settled = TRUE, ![hash].creditedTo = note]
        BY <1>0, <3>3 DEF Invoice, TypeOK
      <3> QED
        BY <1>2, <3>1, <3>2, <3>3
    <2> QED
      BY <2>2, <2>3
  <1>3. ASSUME NEW hash \in Hash, NEW new, Fresh(hash), timers' \subseteq timers,
               invoices' = [invoices EXCEPT ![hash] = new],
               new.use # "mint" => new.boundTo = None
        PROVE  Goal
    BY <1>0, <1>3 DEF UsesKept, Invoice, TypeOK, Timer, Fresh
  <1>4. ASSUME NEW r \in WithdrawRequest, NEW hash \in Hash, Melt(r, hash)
        PROVE  Goal
    <2>1. \A timer \in timers' :
             \/ timer \in timers
             \/ timer.hash # None => On("verify") /\ timer.hash = hash
      BY <1>4 DEF Melt
    <2>2. CASE On("verify")
      <3> DEFINE new == [NoInvoice EXCEPT !.use = "melt", !.amountMsat = notes[r.k1[1]].amountMsat]
      <3>1. invoices' = [invoices EXCEPT ![hash] = new] /\ Fresh(hash)
        BY <1>4, <2>2 DEF Melt
      <3>2. new.use = "melt" /\ new.boundTo = None
        BY DEF NoInvoice
      <3> QED
        BY <1>0, <2>1, <3>1, <3>2 DEF UsesKept, Invoice, TypeOK, Timer, Fresh
    <2>3. CASE ~On("verify")
      BY <1>0, <1>4, <2>1, <2>3 DEF Melt, UsesKept, Invoice
    <2> QED
      BY <2>2, <2>3
  <1>5. ASSUME NEW timer \in timers, MeltResolves(timer)
        PROVE  Goal
    BY <1>1, <1>2, <1>5 DEF MeltResolves, TypeOK, Timer
  <1>6. ASSUME NEW hash \in Hash, NEW gross \in Gross, NEW comment \in Output \cup {None},
               NEW h \in Output \cup {None}, Quote(gross, comment, h, hash)
        PROVE  Goal
    <2> DEFINE new == [NoInvoice EXCEPT !.use = "mint",
                         !.boundTo = IF comment # None THEN comment ELSE readH(h),
                         !.amountMsat = applyFee(Fees, gross), !.invoiced = gross]
    <2>1. invoices' = [invoices EXCEPT ![hash] = new] /\ Fresh(hash) /\ UNCHANGED timers
      BY <1>6 DEF Quote, noteVars
    <2>2. new.use = "mint"
      BY DEF NoInvoice
    <2> QED
      BY <1>3, <2>1, <2>2
  <1>7. ASSUME NEW hash \in Hash, NEW u \in Username, NEW gross \in Gross,
               AddressQuote(u, gross, hash)
        PROVE  Goal
    <2> DEFINE new == [NoInvoice EXCEPT !.use = "address", !.user = u,
                         !.amountMsat = applyFee(Fees, gross), !.invoiced = gross]
    <2>1. invoices' = [invoices EXCEPT ![hash] = new] /\ Fresh(hash) /\ UNCHANGED timers
      BY <1>7 DEF AddressQuote, noteVars
    <2>2. new.boundTo = None
      BY DEF NoInvoice
    <2> QED
      BY <1>3, <2>1, <2>2
  <1>8. ASSUME NEW hash \in Hash,
               SettleQuote(hash) \/ SettleAddressPayment(hash) \/ SettleAddressFee(hash)
        PROVE  Goal
    BY <1>2, <1>8 DEF SettleQuote, SettleAddressPayment, SettleAddressFee, noteVars
  <1>9. ASSUME NEW u \in Username, NEW sig \in BOOLEAN, NEW newsig \in BOOLEAN,
               NEW cx1 \in Cx1 \cup {None}, NEW hash \in Hash \cup {None},
               Delete(u, sig) \/ Post(u, cx1, sig, hash) \/ Put(u, cx1, sig, newsig)
        PROVE  Goal
    <2>1. CASE UNCHANGED <<invoices, timers>>
      BY <1>1, <2>1
    <2>2. CASE Post(u, cx1, sig, hash) /\ AddressFee # 0
      <3> DEFINE new == [NoInvoice EXCEPT !.use = "addressFee", !.user = u,
                                          !.amountMsat = AddressFee, !.invoiced = AddressFee]
      <3>1. hash \in Hash /\ invoices' = [invoices EXCEPT ![hash] = new] /\ Fresh(hash)
            /\ UNCHANGED timers
        BY <2>2 DEF Post, noteVars
      <3>2. new.boundTo = None
        BY DEF NoInvoice
      <3> QED
        BY <1>3, <3>1, <3>2
    <2> QED
      BY <1>9, <2>1, <2>2 DEF Delete, Post, Put, quoteVars, noteVars
  <1>10. CASE Next
    <2>1. ASSUME NEW r \in WithdrawRequest, NEW certificates, Swapped(r, certificates)
          PROVE  Goal
      BY <1>1, <2>1 DEF Swapped, Exchange, quoteVars
    <2> QED
      BY <1>1, <1>4, <1>5, <1>6, <1>7, <1>8, <1>9, <1>10, <2>1, Steps DEF Idle
  <1>11. CASE UNCHANGED vars
    BY <1>1, <1>11 DEF vars
  <1>12. Goal
    BY <1>10, <1>11
  <1> QED
    BY <1>12

---------------------------------------------------------------------------
(***************************************************************************)
(* What a quote claims stays claimed until its payment lands.  Payments of *)
(* melt invoices are left out: one reported through the settle hook mints  *)
(* over whatever a quote has claimed since (the run settled_melt).         *)
(***************************************************************************)
Claims == QuoteReserved /\ QuoteClaims /\ PreimageOpensNothing

\* The output of a mint quote is an output.
LEMMA TargetIsOutput ==
  ASSUME Typed, NEW hash \in Hash
  PROVE  target(hash) \in Output
  <1>1. invoices[hash] \in Invoice
    BY DEF Typed, TypeOK
  <1> QED
    BY <1>1, DerivationsAreFunctions DEF target, Invoice

\* A note, once there, is there for good.
LEMMA NotesStay ==
  ASSUME Typed, [Next]_vars, NEW q \in Output, notes[q].state # "absent"
  PROVE  notes'[q].state # "absent"
  <1>1. notes[q].state \in NoteState /\ Ages(q)
    BY NotesAge DEF Typed, TypeOK, Note, NoNote, NoteState
  <1> QED
    BY <1>1 DEF Ages, Advance, NoteState

\* An output once taken is never free again: a quote gives up its claim only
\* as its note appears.
LEMMA InUseKept ==
  ASSUME Typed, [Next]_vars, NEW q \in Output, outputInUse(q)
  PROVE  outputInUse(q)'
  <1>1. notes[q].state # "absent" => notes'[q].state # "absent"
    BY NotesStay
  <1>2. CASE UNCHANGED <<invoiceNotes, boundOutputs>>
    BY <1>1, <1>2 DEF outputInUse
  <1>3. ASSUME NEW hash \in Hash, NEW gross \in Gross, NEW comment \in Output \cup {None},
               NEW h \in Output \cup {None}, Quote(gross, comment, h, hash)
        PROVE  outputInUse(q)'
    <2>1. invoiceNotes \subseteq invoiceNotes'
      BY <1>3 DEF Quote
    <2>2. boundOutputs'[q] = boundOutputs[q] \/ boundOutputs'[q] = hash
      BY <1>3 DEF Quote
    <2> QED
      BY <1>1, <2>1, <2>2, NoneIsNothing DEF outputInUse
  <1>4. ASSUME NEW hash \in Hash, SettleQuote(hash)
        PROVE  outputInUse(q)'
    <2>1. boundOutputs[q] # None => boundOutputs'[q] # None \/ q = invoices[hash].boundTo
      BY <1>4 DEF SettleQuote
    <2>2. q = invoices[hash].boundTo => notes'[q].state # "absent"
      <3>1. invoices[hash].boundTo \in Output => target(hash) = invoices[hash].boundTo
        BY NoneIsNothing DEF target
      <3> QED
        BY <1>1, <1>4, <3>1 DEF SettleQuote, Minted
    <2> QED
      BY <1>1, <1>4, <2>1, <2>2 DEF SettleQuote, outputInUse
  <1>5. ASSUME Next
        PROVE  outputInUse(q)'
    <2>1. ASSUME NEW r \in WithdrawRequest, NEW certificates, Swapped(r, certificates)
          PROVE  outputInUse(q)'
      BY <1>2, <2>1 DEF Swapped, Exchange, quoteVars
    <2>2. ASSUME NEW r \in WithdrawRequest, NEW hash \in Hash, Melt(r, hash)
          PROVE  outputInUse(q)'
      BY <1>2, <2>2 DEF Melt
    <2>3. ASSUME NEW timer \in timers, MeltResolves(timer)
          PROVE  outputInUse(q)'
      BY <1>2, <2>3 DEF MeltResolves
    <2>4. ASSUME NEW hash \in Hash, NEW u \in Username, NEW gross \in Gross,
                 AddressQuote(u, gross, hash)
          PROVE  outputInUse(q)'
      BY <1>2, <2>4 DEF AddressQuote
    <2>5. ASSUME NEW hash \in Hash, SettleAddressPayment(hash) \/ SettleAddressFee(hash)
          PROVE  outputInUse(q)'
      BY <1>2, <2>5 DEF SettleAddressPayment, SettleAddressFee
    <2>6. ASSUME NEW u \in Username, NEW sig \in BOOLEAN, NEW newsig \in BOOLEAN,
                 NEW cx1 \in Cx1 \cup {None}, NEW hash \in Hash \cup {None},
                 Delete(u, sig) \/ Post(u, cx1, sig, hash) \/ Put(u, cx1, sig, newsig)
          PROVE  outputInUse(q)'
      BY <1>2, <2>6 DEF Delete, Post, Put, quoteVars
    <2> QED
      BY <1>2, <1>3, <1>4, <1>5, <2>1, <2>2, <2>3, <2>4, <2>5, <2>6, Steps DEF Idle, Typed
  <1> QED
    BY <1>2, <1>5 DEF vars

\* A step that touches no quote, and mints over nothing that is in use,
\* leaves every claim as it was.
LEMMA ClaimsAside ==
  ASSUME Typed, Claims, [Next]_vars,
         UNCHANGED <<invoiceNotes, boundOutputs>>,
         \A hash \in Hash : invoices[hash].use = "mint" \/ invoices'[hash].use = "mint"
                              => invoices'[hash] = invoices[hash],
         \A q \in Output : notes[q].state = "absent" /\ outputInUse(q)
                              => notes'[q].state = "absent"
  PROVE  Claims'
  <1> USE DEF Claims
  <1>1. \A hash \in Hash : target(hash) \in Output /\ BearerOf[hash] \in Output
    BY TargetIsOutput, DerivationsAreFunctions
  <1>2. \A hash \in Hash : invoices'[hash].use = "mint" =>
          target(hash)' = target(hash) /\ OpenQuote(hash)' = OpenQuote(hash)
    BY DEF target, OpenQuote
  <1>3. QuoteReserved'
    <2>1. \A hash \in Hash : OpenQuote(hash)' => OpenQuote(hash) /\ outputInUse(target(hash))
      BY <1>2 DEF OpenQuote, QuoteClaims
    <2>2. \A hash \in Hash : OpenQuote(hash)' =>
             invoices'[hash] = invoices[hash] /\ notes'[target(hash)].state = "absent"
      BY <1>1, <2>1 DEF QuoteReserved, OpenQuote
    <2>3. \A q \in Output : boundOutputs[q] # None => boundOutputs[q] \in Hash
      BY DEF Typed, TypeOK
    <2>4. \A q \in Output : boundOutputs'[q] # None =>
             OpenQuote(boundOutputs[q])' /\ invoices'[boundOutputs'[q]].boundTo = q
      BY <1>2, <2>3 DEF QuoteReserved, OpenQuote
    <2>5. \A hash \in Hash : OpenQuote(hash)' =>
             /\ notes'[target(hash)'].state = "absent"
             /\ IF invoices'[hash].boundTo = None THEN target(hash)' \in invoiceNotes'
                                                  ELSE boundOutputs'[target(hash)'] = hash
      BY <1>2, <2>1, <2>2 DEF QuoteReserved, OpenQuote
    <2> QED
      BY <2>4, <2>5 DEF QuoteReserved
  <1>4. QuoteClaims'
    <2>1. \A hash \in Hash : invoices'[hash].use = "mint" => outputInUse(target(hash))'
      <3> SUFFICES ASSUME NEW hash \in Hash, invoices'[hash].use = "mint"
                   PROVE  outputInUse(target(hash))'
        OBVIOUS
      <3>1. outputInUse(target(hash)) /\ target(hash) \in Output /\ target(hash)' = target(hash)
        BY <1>1, <1>2 DEF QuoteClaims
      <3>2. \A q \in Output : outputInUse(q) => outputInUse(q)'
        BY InUseKept
      <3> QED
        BY <3>1, <3>2 DEF outputInUse
    <2> QED
      BY <1>2, <2>1 DEF QuoteClaims, On
  <1>5. PreimageOpensNothing'
    <2>1. \A hash \in Hash : invoices'[hash].use = "mint" => outputInUse(BearerOf[hash])
      BY DEF QuoteClaims, outputInUse
    <2> QED
      BY <1>1, <2>1 DEF PreimageOpensNothing, On
  <1> QED
    BY <1>3, <1>4, <1>5

\* A new quote claims what nothing had claimed, and its fallback note with it.
LEMMA ClaimsQuote ==
  ASSUME Typed, UsesKept, Claims, NEW hash \in Hash, NEW gross \in Gross,
         NEW comment \in Output \cup {None}, NEW h \in Output \cup {None},
         Quote(gross, comment, h, hash)
  PROVE  Claims'
  <1> DEFINE bound == IF comment # None THEN comment ELSE readH(h)
             mine == IF bound # None THEN bound ELSE BearerOf[hash]
             new == [NoInvoice EXCEPT !.use = "mint", !.boundTo = bound,
                                      !.amountMsat = applyFee(Fees, gross),
                                      !.invoiced = gross]
  <1> USE DEF Claims
  <1>1. /\ invoices' = [invoices EXCEPT ![hash] = new]
        /\ boundOutputs' = [q \in Output |-> IF q = bound THEN hash ELSE boundOutputs[q]]
        /\ invoiceNotes' = invoiceNotes \cup {BearerOf[hash]}
        /\ UNCHANGED notes /\ Fresh(hash) /\ BearerOf[hash] # bound
    BY DEF Quote, noteVars
  <1>2. new.use = "mint" /\ new.boundTo = bound /\ new.settled = FALSE
    BY DEF NoInvoice
  <1>3. bound \in Output \cup {None} /\ mine \in Output /\ BearerOf[hash] \in Output
    BY DerivationsAreFunctions DEF readH
  <1>4. ~outputInUse(mine) /\ ~outputInUse(BearerOf[hash])
    BY <1>1 DEF Quote, NamesFreeOutput, readH, Fresh
  <1>5. bound = None => On("commentFallsBack")
    BY DEF Quote, NamesFreeOutput, readH
  <1>6. \A g \in Hash : g # hash => invoices'[g] = invoices[g] /\ target(g)' = target(g)
    BY <1>1 DEF target
  <1>7. invoices'[hash] = new /\ target(hash)' = mine
    BY <1>1, <1>2 DEF target, Typed, TypeOK
  <1>8. \A g \in Hash : g # hash /\ invoices[g].use = "mint" =>
          /\ target(g) \in Output /\ target(g) # mine /\ target(g) # BearerOf[hash]
          /\ BearerOf[g] # mine /\ BearerOf[g] # BearerOf[hash]
    BY <1>4, TargetIsOutput, HashesDoNotCollide DEF QuoteClaims, outputInUse
  <1>9. \A g \in Hash : invoices[g].use = "mint" => g # hash
    BY <1>1 DEF Fresh
  <1>10. QuoteReserved'
    <2>1. \A g \in Hash : OpenQuote(g)' =>
             /\ notes'[target(g)'].state = "absent"
             /\ IF invoices'[g].boundTo = None THEN target(g)' \in invoiceNotes'
                                               ELSE boundOutputs'[target(g)'] = g
      <3> TAKE g \in Hash
      <3> HAVE OpenQuote(g)'
      <3>1. CASE g = hash
        BY <1>1, <1>2, <1>3, <1>4, <1>7, <3>1 DEF outputInUse
      <3>2. CASE g # hash
        <4>1. OpenQuote(g) /\ target(g)' = target(g) /\ invoices'[g] = invoices[g]
          BY <1>6, <3>2 DEF OpenQuote
        <4>2. target(g) # bound /\ target(g) \in Output
          BY <1>3, <1>8, <3>2, <4>1, NoneIsNothing DEF OpenQuote
        <4> QED
          BY <1>1, <4>1, <4>2 DEF QuoteReserved
      <3> QED
        BY <3>1, <3>2
    <2>2. \A q \in Output : boundOutputs'[q] # None =>
             OpenQuote(boundOutputs[q])' /\ invoices'[boundOutputs'[q]].boundTo = q
      <3> TAKE q \in Output
      <3> HAVE boundOutputs'[q] # None
      <3>1. CASE q = bound
        BY <1>1, <1>2, <1>7, <3>1 DEF OpenQuote
      <3>2. CASE q # bound
        <4>1. boundOutputs'[q] = boundOutputs[q] /\ boundOutputs[q] \in Hash
          BY <1>1, <3>2 DEF Typed, TypeOK
        <4>2. OpenQuote(boundOutputs[q]) /\ invoices[boundOutputs[q]].boundTo = q
          BY <4>1 DEF QuoteReserved
        <4> QED
          BY <1>6, <1>9, <4>1, <4>2 DEF OpenQuote
      <3> QED
        BY <3>1, <3>2
    <2> QED
      BY <2>1, <2>2 DEF QuoteReserved
  <1>11. QuoteClaims'
    <2>1. \A g \in Hash : invoices'[g].use = "mint" =>
             /\ target(g)' \in Output
             /\ \/ notes'[target(g)'].state # "absent" \/ target(g)' \in invoiceNotes'
                \/ boundOutputs'[target(g)'] # None
             /\ BearerOf[g] \in invoiceNotes'
             /\ invoices'[g].boundTo = None => On("commentFallsBack")
      <3> TAKE g \in Hash
      <3> HAVE invoices'[g].use = "mint"
      <3>1. CASE g = hash
        BY <1>1, <1>2, <1>3, <1>5, <1>7, <3>1, NoneIsNothing
      <3>2. CASE g # hash
        <4>1. target(g)' = target(g) /\ invoices'[g] = invoices[g] /\ target(g) \in Output
          BY <1>6, <3>2, TargetIsOutput
        <4>2. outputInUse(target(g)) /\ BearerOf[g] \in invoiceNotes
              /\ (invoices[g].boundTo = None => On("commentFallsBack"))
          BY <4>1 DEF QuoteClaims
        <4>3. boundOutputs[target(g)] # None => boundOutputs'[target(g)] # None
          BY <1>1, <4>1, NoneIsNothing
        <4> QED
          BY <1>1, <4>1, <4>2, <4>3 DEF outputInUse
      <3> QED
        BY <3>1, <3>2
    <2>2. \A g, other \in Hash : invoices'[g].use = "mint" /\ invoices'[other].use = "mint" =>
             /\ g # other => target(g)' # target(other)'
             /\ invoices'[g].boundTo # BearerOf[other]
      <3> TAKE g, other \in Hash
      <3> HAVE invoices'[g].use = "mint" /\ invoices'[other].use = "mint"
      <3>1. CASE g # hash /\ other # hash
        BY <1>6, <3>1 DEF QuoteClaims
      <3>2. CASE g = hash /\ other # hash
        <4>1. BearerOf[other] # mine /\ target(other)' # mine
          BY <1>6, <1>8, <3>2
        <4>2. BearerOf[other] \in Output
          BY DerivationsAreFunctions
        <4> QED
          BY <1>2, <1>7, <3>2, <4>1, <4>2, NoneIsNothing
      <3>3. CASE g # hash /\ other = hash
        <4>1. invoices[g].use = "mint" /\ target(g)' = target(g) /\ invoices'[g] = invoices[g]
          BY <1>6, <3>3
        <4>2. target(g) # mine /\ target(g) # BearerOf[hash]
          BY <1>8, <3>3, <4>1
        <4>3. invoices[g].boundTo # BearerOf[hash]
          BY <4>2, <1>3, NoneIsNothing DEF target
        <4> QED
          BY <1>7, <3>3, <4>1, <4>2, <4>3
      <3>4. CASE g = hash /\ other = hash
        BY <1>1, <1>2, <1>7, <3>4
      <3> QED
        BY <3>1, <3>2, <3>3, <3>4
    <2> QED
      BY <2>1, <2>2 DEF QuoteClaims, outputInUse, On
  <1>12. PreimageOpensNothing'
    BY <1>1, <1>4, <1>6 DEF PreimageOpensNothing, outputInUse, On
  <1> QED
    BY <1>10, <1>11, <1>12

\* The payment of a quote mints its own note and frees only its own claim.
LEMMA ClaimsSettle ==
  ASSUME Typed, UsesKept, Claims, [Next]_vars, NEW hash \in Hash, SettleQuote(hash),
         invoices[hash].use = "mint"
  PROVE  Claims'
  <1> DEFINE mine == target(hash)
  <1> USE DEF Claims
  <1>1. /\ invoices' = [invoices EXCEPT ![hash].settled = TRUE]
        /\ \A q \in Output : q # mine => notes'[q] = notes[q]
        /\ \A q \in Output : boundOutputs'[q] = IF q = invoices[hash].boundTo THEN None
                                                ELSE boundOutputs[q]
        /\ UNCHANGED invoiceNotes /\ ~invoices[hash].settled
    BY DEF SettleQuote, Reported
  <1>2. \A g \in Hash : /\ invoices[g] \in Invoice
                        /\ target(g) \in Output /\ BearerOf[g] \in Output
    BY TargetIsOutput, DerivationsAreFunctions DEF Typed, TypeOK
  <1>3. \A g \in Hash : /\ invoices'[g].use = invoices[g].use
                        /\ invoices'[g].boundTo = invoices[g].boundTo
                        /\ invoices'[g].settled = (invoices[g].settled \/ g = hash)
    BY <1>1, <1>2 DEF Typed, TypeOK, Invoice
  <1>4. \A g \in Hash : target(g)' = target(g)
    BY <1>3 DEF target
  <1>5. QuoteReserved'
    <2>1. \A g \in Hash : OpenQuote(g)' => OpenQuote(g) /\ g # hash /\ target(g) # mine
      BY <1>3 DEF OpenQuote, QuoteClaims
    <2>2. \A g \in Hash : OpenQuote(g)' =>
             /\ notes'[target(g)'].state = "absent"
             /\ IF invoices'[g].boundTo = None THEN target(g)' \in invoiceNotes'
                                               ELSE boundOutputs'[target(g)'] = g
      <3> TAKE g \in Hash
      <3> HAVE OpenQuote(g)'
      <3>1. OpenQuote(g) /\ target(g) # mine /\ target(g)' = target(g)
        BY <1>4, <2>1
      <3>2. notes'[target(g)] = notes[target(g)]
        BY <1>1, <1>2, <3>1
      <3>3. invoices[hash].boundTo # None => target(g) # invoices[hash].boundTo
        BY <3>1 DEF target
      <3>4. invoices[g].boundTo # None =>
               boundOutputs'[target(g)] = boundOutputs[target(g)]
        BY <1>1, <1>2, <3>1, <3>3, NoneIsNothing
      <3> QED
        BY <1>1, <1>3, <3>1, <3>2, <3>4 DEF QuoteReserved
    <2>3. \A q \in Output : boundOutputs'[q] # None =>
             OpenQuote(boundOutputs[q])' /\ invoices'[boundOutputs'[q]].boundTo = q
      <3> TAKE q \in Output
      <3> HAVE boundOutputs'[q] # None
      <3>1. boundOutputs'[q] = boundOutputs[q] /\ q # invoices[hash].boundTo
        BY <1>1
      <3>2. boundOutputs[q] \in Hash /\ OpenQuote(boundOutputs[q])
            /\ invoices[boundOutputs[q]].boundTo = q
        BY <3>1 DEF QuoteReserved, Typed, TypeOK
      <3> QED
        BY <1>3, <3>1, <3>2 DEF OpenQuote
    <2> QED
      BY <2>2, <2>3 DEF QuoteReserved
  <1>6. QuoteClaims'
    <2>1. \A g \in Hash : invoices'[g].use = "mint" => outputInUse(target(g))'
      <3> SUFFICES ASSUME NEW g \in Hash, invoices'[g].use = "mint"
                   PROVE  outputInUse(target(g))'
        OBVIOUS
      <3>1. outputInUse(target(g)) /\ target(g) \in Output /\ target(g)' = target(g)
        BY <1>2, <1>3, <1>4 DEF QuoteClaims
      <3>2. \A q \in Output : outputInUse(q) => outputInUse(q)'
        BY InUseKept
      <3> QED
        BY <3>1, <3>2 DEF outputInUse
    <2> QED
      BY <1>1, <1>3, <1>4, <2>1 DEF QuoteClaims, On
  <1>7. PreimageOpensNothing'
    <2>1. ~On("commentFallsBack") => \A g \in Hash : invoices[g].use = "mint" => BearerOf[g] # mine
      BY DEF QuoteClaims, target
    <2> QED
      BY <1>1, <1>2, <1>3, <2>1 DEF PreimageOpensNothing, On
  <1> QED
    BY <1>5, <1>6, <1>7

\* What every handler and timer mints or moves leaves the claims alone.
LEMMA ClaimsStep ==
  ASSUME "melt" \notin Payable, Typed, UsesKept, Claims, [Next]_vars
  PROVE  Claims'
  <1> DEFINE Untouched ==
        \A hash \in Hash : invoices[hash].use = "mint" \/ invoices'[hash].use = "mint"
                              => invoices'[hash] = invoices[hash]
  <1>1. ASSUME UNCHANGED <<notes, invoiceNotes, boundOutputs>>, Untouched
        PROVE  Claims'
    BY <1>1, ClaimsAside
  <1>2. ASSUME NEW hash \in Hash, NEW new, Fresh(hash), new.use # "mint",
               invoices' = [invoices EXCEPT ![hash] = new]
        PROVE  Untouched
    BY <1>2 DEF Fresh, Typed, TypeOK
  <1>3. ASSUME NEW hash \in Hash, invoices[hash].use # "mint",
               \/ invoices' = [invoices EXCEPT ![hash].settled = TRUE]
               \/ \E note : invoices' = [invoices EXCEPT ![hash].settled = TRUE,
                                                         ![hash].creditedTo = note]
        PROVE  Untouched
    <2>1. invoices[hash] \in Invoice
      BY DEF Typed, TypeOK
    <2> QED
      BY <1>3, <2>1 DEF Typed, TypeOK, Invoice
  <1>4. ASSUME NEW r \in WithdrawRequest, NEW certificates, Swapped(r, certificates)
        PROVE  Claims'
    <2>1. \A q \in Output : notes[q].state = "absent" /\ outputInUse(q)
                              => notes'[q].state = "absent"
      BY <1>4 DEF Swapped, Exchange, Live
    <2> QED
      BY <1>4, <2>1, ClaimsAside DEF Swapped, Exchange, quoteVars
  <1>5. ASSUME NEW r \in WithdrawRequest, NEW hash \in Hash, Melt(r, hash)
        PROVE  Claims'
    <2>1. \A q \in Output : notes[q].state = "absent" => notes'[q].state = "absent"
      BY <1>5, MeltNote DEF Melt, Moved
    <2>2. Untouched
      <3> DEFINE new == [NoInvoice EXCEPT !.use = "melt", !.amountMsat = notes[r.k1[1]].amountMsat]
      <3>1. new.use = "melt"
        BY DEF NoInvoice
      <3> QED
        BY <1>2, <1>5, <3>1 DEF Melt
    <2> QED
      BY <1>5, <2>1, <2>2, ClaimsAside DEF Melt
  <1>6. ASSUME NEW timer \in timers, MeltResolves(timer)
        PROVE  Claims'
    <2>1. \A q \in Output : notes[q].state = "absent" => notes'[q].state = "absent"
      BY <1>6 DEF MeltResolves, Moved, Typed, TimersOwnPending
    <2>2. Untouched
      <3>1. timer.hash # None => timer.hash \in Hash /\ invoices[timer.hash].use = "melt"
        BY DEF UsesKept, Typed, TypeOK, Timer
      <3> QED
        BY <1>3, <1>6, <3>1 DEF MeltResolves
    <2> QED
      BY <1>6, <2>1, <2>2, ClaimsAside DEF MeltResolves
  <1>7. ASSUME NEW hash \in Hash, NEW u \in Username, NEW gross \in Gross,
               AddressQuote(u, gross, hash)
        PROVE  Claims'
    <2> DEFINE new == [NoInvoice EXCEPT !.use = "address", !.user = u,
                         !.amountMsat = applyFee(Fees, gross), !.invoiced = gross]
    <2>1. invoices' = [invoices EXCEPT ![hash] = new] /\ Fresh(hash) /\ new.use = "address"
      BY <1>7 DEF AddressQuote, NoInvoice
    <2> QED
      BY <1>1, <1>2, <1>7, <2>1 DEF AddressQuote, noteVars
  <1>8. ASSUME NEW hash \in Hash, SettleQuote(hash)
        PROVE  Claims'
    <2>1. invoices[hash].use = "mint"
      BY <1>8 DEF SettleQuote, Reported
    <2> QED
      BY <1>8, <2>1, ClaimsSettle
  <1>9. ASSUME NEW hash \in Hash, SettleAddressPayment(hash)
        PROVE  Claims'
    <2>1. Untouched
      BY <1>3, <1>9 DEF SettleAddressPayment
    <2>2. \A q \in Output : notes[q].state = "absent" /\ outputInUse(q)
                              => notes'[q].state = "absent"
      BY <1>9 DEF SettleAddressPayment, NextShareNote, Typed, TypeOK
    <2> QED
      BY <1>9, <2>1, <2>2, ClaimsAside DEF SettleAddressPayment
  <1>10. ASSUME NEW hash \in Hash, SettleAddressFee(hash)
         PROVE  Claims'
    BY <1>1, <1>3, <1>10 DEF SettleAddressFee, noteVars
  <1>11. ASSUME NEW u \in Username, NEW sig \in BOOLEAN, NEW newsig \in BOOLEAN,
                NEW cx1 \in Cx1 \cup {None}, NEW hash \in Hash \cup {None},
                Delete(u, sig) \/ Post(u, cx1, sig, hash) \/ Put(u, cx1, sig, newsig)
         PROVE  Claims'
    <2>1. UNCHANGED <<notes, invoiceNotes, boundOutputs>>
      BY <1>11 DEF Delete, Post, Put, noteVars, quoteVars
    <2>2. CASE UNCHANGED invoices
      BY <1>1, <2>1, <2>2
    <2>3. CASE Post(u, cx1, sig, hash) /\ AddressFee # 0
      <3> DEFINE new == [NoInvoice EXCEPT !.use = "addressFee", !.user = u,
                                          !.amountMsat = AddressFee, !.invoiced = AddressFee]
      <3>1. hash \in Hash /\ invoices' = [invoices EXCEPT ![hash] = new] /\ Fresh(hash)
            /\ new.use = "addressFee"
        BY <2>3 DEF Post, NoInvoice
      <3> QED
        BY <1>1, <1>2, <2>1, <3>1
    <2> QED
      BY <1>11, <2>2, <2>3 DEF Delete, Post, Put, quoteVars
  <1>12. CASE Next
    BY <1>1, <1>4, <1>5, <1>6, <1>7, <1>8, <1>9, <1>10, <1>11, <1>12, Steps, ClaimsQuote
    DEF Idle, Typed
  <1> QED
    BY <1>1, <1>12 DEF vars

---------------------------------------------------------------------------
(***************************************************************************)
(* No two payments end in one note.                                        *)
(***************************************************************************)
Credits == CreditsDistinct /\ CreditedNotesExist

\* What an invoice credits depends on nothing but the invoice.
LEMMA CreditedKept ==
  ASSUME NEW hash \in Hash, invoices'[hash] = invoices[hash]
  PROVE  Credited(hash)' = Credited(hash)
  BY DEF Credited, target

\* What is credited is an output that is in use.
LEMMA CreditedInUse ==
  ASSUME Typed, Claims, Credits, NEW hash \in Hash, NEW q \in Credited(hash)
  PROVE  q \in Output /\ outputInUse(q)
  <1>1. invoices[hash] \in Invoice /\ target(hash) \in Output
    BY TargetIsOutput DEF Typed, TypeOK
  <1>2. q \in Output
    BY <1>1 DEF Credited, Invoice
  <1> QED
    BY <1>2 DEF Credits, CreditedNotesExist, outputInUse

\* A payment credits a note nothing was credited before.
LEMMA CreditsNew ==
  ASSUME Typed, Credits, [Next]_vars, NEW hash \in Hash, NEW q \in Output,
         invoices'[hash].settled, Credited(hash)' = {q}, notes'[q].state # "absent",
         \A g \in Hash \ {hash} : invoices'[g] = invoices[g] /\ q \notin Credited(g),
         \A g \in Hash : Credited(g) \subseteq Output
  PROVE  Credits'
  <1>1. \A g \in Hash \ {hash} : Credited(g)' = Credited(g)
    BY CreditedKept
  <1>2. \A p \in Output : notes[p].state # "absent" => notes'[p].state # "absent"
    BY NotesStay
  <1>3. CreditsDistinct'
    BY <1>1 DEF Credits, CreditsDistinct
  <1>4. CreditedNotesExist'
    BY <1>1, <1>2 DEF Credits, CreditedNotesExist
  <1> QED
    BY <1>3, <1>4 DEF Credits

\* A step that credits nothing keeps what was credited.
LEMMA CreditsAside ==
  ASSUME Typed, Credits, [Next]_vars,
         \A g \in Hash : Credited(g)' = Credited(g),
         \A g \in Hash : ~invoices'[g].settled => invoices'[g].creditedTo = None,
         \A g \in Hash : Credited(g) \subseteq Output
  PROVE  Credits'
  <1>1. \A p \in Output : notes[p].state # "absent" => notes'[p].state # "absent"
    BY NotesStay
  <1> QED
    BY <1>1 DEF Credits, CreditsDistinct, CreditedNotesExist

\* Each step credits the note its payment is for, and nothing twice.
LEMMA CreditsStep ==
  ASSUME Typed, UsesKept, Claims, Credits, [Next]_vars
  PROVE  Credits'
  <1>1. \A g \in Hash : Credited(g) \subseteq Output /\ \A q \in Credited(g) : outputInUse(q)
    BY CreditedInUse
  <1>2. \A g \in Hash : invoices[g] \in Invoice
                         /\ (~invoices[g].settled => invoices[g].creditedTo = None)
    BY DEF Typed, TypeOK, Credits, CreditedNotesExist
  <1>3. ASSUME UNCHANGED invoices
        PROVE  Credits'
    BY <1>1, <1>2, <1>3, CreditsAside, CreditedKept
  <1>4. ASSUME NEW hash \in Hash, NEW new, Fresh(hash),
               invoices' = [invoices EXCEPT ![hash] = new],
               ~new.settled, new.creditedTo = None
        PROVE  Credits'
    <2>1. \A g \in Hash : g # hash => invoices'[g] = invoices[g]
      BY <1>4
    <2>2. Credited(hash)' = Credited(hash) /\ invoices'[hash] = new
      <3>1. invoices'[hash] = new
        BY <1>4 DEF Typed, TypeOK
      <3>2. Credited(hash)' = {}
        BY <1>4, <3>1 DEF Credited
      <3>3. Credited(hash) = {}
        BY <1>4 DEF Credited, Fresh
      <3> QED
        BY <3>1, <3>2, <3>3
    <2> QED
      BY <1>1, <1>2, <1>4, <2>1, <2>2, CreditsAside, CreditedKept
  <1>5. ASSUME NEW hash \in Hash, ~invoices[hash].settled, invoices[hash].use # "mint",
               invoices' = [invoices EXCEPT ![hash].settled = TRUE]
        PROVE  Credits'
    <2>1. \A g \in Hash : g # hash => invoices'[g] = invoices[g]
      BY <1>5
    <2>2. /\ invoices'[hash].settled /\ invoices'[hash].use = invoices[hash].use
          /\ invoices'[hash].creditedTo = None
      BY <1>2, <1>5 DEF Typed, TypeOK, Invoice
    <2>3. Credited(hash)' = Credited(hash)
      BY <1>5, <2>2 DEF Credited
    <2> QED
      BY <1>1, <1>2, <2>1, <2>2, <2>3, CreditsAside, CreditedKept
  <1>6. ASSUME NEW hash \in Hash, SettleQuote(hash)
        PROVE  Credits'
    <2>1. CASE invoices[hash].use = "melt"
      BY <1>5, <1>6, <2>1 DEF SettleQuote, Reported
    <2>2. CASE invoices[hash].use = "mint"
      <3> DEFINE q == target(hash)
      <3>1. /\ invoices' = [invoices EXCEPT ![hash].settled = TRUE]
            /\ ~invoices[hash].settled
        BY <1>6 DEF SettleQuote, Reported
      <3>2. q \in Output /\ notes[q].state = "absent"
        BY <2>2, <3>1, TargetIsOutput DEF Claims, QuoteReserved, OpenQuote
      <3>3. notes'[q].state # "absent"
        BY <1>6, <3>2 DEF SettleQuote, Minted
      <3>4. /\ invoices'[hash].settled /\ invoices'[hash].use = "mint"
            /\ invoices'[hash].boundTo = invoices[hash].boundTo
        BY <1>2, <2>2, <3>1 DEF Typed, TypeOK, Invoice
      <3>5. Credited(hash)' = {q}
        BY <3>4 DEF Credited, target
      <3>6. \A g \in Hash \ {hash} : invoices'[g] = invoices[g] /\ q \notin Credited(g)
        <4>1. \A g \in Hash \ {hash} : Credited(g) # {} =>
                 \/ Credited(g) = {target(g)} /\ target(g) # q
                 \/ \A p \in Credited(g) : notes[p].state # "absent"
          BY <2>2 DEF Claims, QuoteClaims, Credits, CreditedNotesExist
        <4> QED
          BY <3>1, <3>2, <4>1
      <3> QED
        BY <1>1, <3>2, <3>3, <3>4, <3>5, <3>6, CreditsNew
    <2> QED
      BY <1>6, <2>1, <2>2 DEF SettleQuote
  <1>7. ASSUME NEW hash \in Hash, SettleAddressPayment(hash)
        PROVE  Credits'
    <2>1. invoices[hash].use = "address" /\ ~invoices[hash].settled
      BY <1>7 DEF SettleAddressPayment, Reported
    <2>2. CASE invoices' = [invoices EXCEPT ![hash].settled = TRUE]
      BY <1>5, <2>1, <2>2
    <2>3. ASSUME NEW q \in Output, ~outputInUse(q),
                 invoices' = [invoices EXCEPT ![hash].settled = TRUE, ![hash].creditedTo = q],
                 notes' = [notes EXCEPT ![q] = Minted(invoices[hash].amountMsat)]
          PROVE  Credits'
      <3>1. /\ invoices'[hash].settled /\ invoices'[hash].use = "address"
            /\ invoices'[hash].creditedTo = q
        BY <1>2, <2>1, <2>3 DEF Typed, TypeOK, Invoice
      <3>2. Credited(hash)' = {q}
        BY <3>1, NoneIsNothing DEF Credited
      <3>3. notes'[q].state # "absent"
        BY <2>3 DEF Minted, Typed, TypeOK
      <3>4. \A g \in Hash \ {hash} : invoices'[g] = invoices[g]
        BY <2>3 DEF Typed, TypeOK
      <3>5. \A g \in Hash : q \notin Credited(g)
        BY <1>1, <2>3
      <3> QED
        BY <1>1, <3>1, <3>2, <3>3, <3>4, <3>5, CreditsNew
    <2> QED
      BY <1>7, <2>2, <2>3 DEF SettleAddressPayment, NextShareNote
  <1>8. ASSUME NEW hash \in Hash, SettleAddressFee(hash)
        PROVE  Credits'
    BY <1>5, <1>8 DEF SettleAddressFee, Reported
  <1>9. ASSUME NEW hash \in Hash, NEW gross \in Gross, NEW comment \in Output \cup {None},
               NEW h \in Output \cup {None}, Quote(gross, comment, h, hash)
        PROVE  Credits'
    <2> DEFINE new == [NoInvoice EXCEPT !.use = "mint",
                         !.boundTo = IF comment # None THEN comment ELSE readH(h),
                         !.amountMsat = applyFee(Fees, gross), !.invoiced = gross]
    <2>1. invoices' = [invoices EXCEPT ![hash] = new] /\ Fresh(hash)
      BY <1>9 DEF Quote
    <2>2. ~new.settled /\ new.creditedTo = None
      BY DEF NoInvoice
    <2> QED
      BY <1>4, <2>1, <2>2
  <1>10. ASSUME NEW hash \in Hash, NEW u \in Username, NEW gross \in Gross,
                AddressQuote(u, gross, hash)
         PROVE  Credits'
    <2> DEFINE new == [NoInvoice EXCEPT !.use = "address", !.user = u,
                         !.amountMsat = applyFee(Fees, gross), !.invoiced = gross]
    <2>1. invoices' = [invoices EXCEPT ![hash] = new] /\ Fresh(hash)
      BY <1>10 DEF AddressQuote
    <2>2. ~new.settled /\ new.creditedTo = None
      BY DEF NoInvoice
    <2> QED
      BY <1>4, <2>1, <2>2
  <1>11. ASSUME NEW u \in Username, NEW sig \in BOOLEAN, NEW newsig \in BOOLEAN,
                NEW cx1 \in Cx1 \cup {None}, NEW hash \in Hash \cup {None},
                Delete(u, sig) \/ Post(u, cx1, sig, hash) \/ Put(u, cx1, sig, newsig)
         PROVE  Credits'
    <2>1. CASE Post(u, cx1, sig, hash) /\ AddressFee # 0
      <3> DEFINE new == [NoInvoice EXCEPT !.use = "addressFee", !.user = u,
                                          !.amountMsat = AddressFee, !.invoiced = AddressFee]
      <3>1. hash \in Hash /\ invoices' = [invoices EXCEPT ![hash] = new] /\ Fresh(hash)
        BY <2>1 DEF Post
      <3>2. ~new.settled /\ new.creditedTo = None
        BY DEF NoInvoice
      <3> QED
        BY <1>4, <3>1, <3>2
    <2> QED
      BY <1>3, <1>11, <2>1 DEF Delete, Post, Put, quoteVars
  <1>12. ASSUME NEW r \in WithdrawRequest, NEW hash \in Hash, Melt(r, hash)
         PROVE  Credits'
    <2>1. CASE On("verify")
      <3> DEFINE new == [NoInvoice EXCEPT !.use = "melt", !.amountMsat = notes[r.k1[1]].amountMsat]
      <3>1. invoices' = [invoices EXCEPT ![hash] = new] /\ Fresh(hash)
        BY <1>12, <2>1 DEF Melt
      <3>2. ~new.settled /\ new.creditedTo = None
        BY DEF NoInvoice
      <3> QED
        BY <1>4, <3>1, <3>2
    <2> QED
      BY <1>3, <1>12, <2>1 DEF Melt
  <1>13. ASSUME NEW timer \in timers, MeltResolves(timer)
         PROVE  Credits'
    <2>1. CASE UNCHANGED invoices
      BY <1>3, <2>1
    <2>2. CASE timer.hash # None /\ invoices' = [invoices EXCEPT ![timer.hash].settled = TRUE]
      <3>1. timer.hash \in Hash /\ invoices[timer.hash].use = "melt"
        BY <2>2 DEF UsesKept, Typed, TypeOK, Timer
      <3>2. CASE invoices[timer.hash].settled
        BY <1>2, <1>3, <2>2, <3>1, <3>2 DEF Typed, TypeOK, Invoice
      <3> QED
        BY <1>5, <2>2, <3>1, <3>2
    <2> QED
      BY <1>13, <2>1, <2>2 DEF MeltResolves
  <1>14. ASSUME NEW r \in WithdrawRequest, NEW certificates, Swapped(r, certificates)
         PROVE  Credits'
    BY <1>3, <1>14 DEF Swapped, Exchange, quoteVars
  <1>15. CASE Next
    BY <1>3, <1>6, <1>7, <1>8, <1>9, <1>10, <1>11, <1>12, <1>13, <1>14, <1>15, Steps
    DEF Idle, Typed
  <1> QED
    BY <1>3, <1>15 DEF vars


---------------------------------------------------------------------------
(***************************************************************************)
(* What was exchanged for what.                                            *)
(***************************************************************************)
Exchanges == NoDoubleSpend /\ CertificatesTrue

\* A note that was burned, or that a certificate names, is burned or has that
\* value for good.
LEMMA NotesLast ==
  ASSUME Typed, [Next]_vars, NEW q \in Output, notes[q].state # "absent"
  PROVE  /\ notes'[q].state # "absent" /\ notes'[q].amountMsat = notes[q].amountMsat
         /\ notes[q].state = "burned" => notes'[q].state = "burned"
  BY NotesAge, NotesStay DEF Ages, Advance

\* Whatever keeps the record of swaps keeps it true.
LEMMA ExchangesAside ==
  ASSUME Typed, Exchanges, [Next]_vars, UNCHANGED swaps
  PROVE  Exchanges'
  <1>1. \A s \in swaps : s.identity.inputs \subseteq Output /\ \A cert \in s.outputs : cert.q \in Output
    BY DEF Typed, TypeOK, Swap, Identity, Certificate
  <1>2. NoDoubleSpend'
    <2>1. \A s \in swaps : \A q \in s.identity.inputs : notes'[q].state = "burned"
      BY <1>1, NotesLast DEF Exchanges, NoDoubleSpend
    <2> QED
      BY <2>1 DEF Exchanges, NoDoubleSpend
  <1>3. CertificatesTrue'
    BY <1>1, NotesLast DEF Exchanges, CertificatesTrue
  <1> QED
    BY <1>2, <1>3 DEF Exchanges

\* An exchange consumes notes that no swap has, and creates notes that no
\* swap has: its inputs are outstanding, and its outputs not there yet.
LEMMA ExchangesSwap ==
  ASSUME Typed, Exchanges, [Next]_vars, NEW r, NEW certificates, Swapped(r, certificates)
  PROVE  Exchanges'
  <1> DEFINE new == [identity |-> swapIdentity(r), outputs |-> certificates]
  <1>1. \A s \in swaps' : s = new \/ s \in swaps
    BY DEF Swapped, Exchange
  <1>2. new.identity.inputs = inputs(r) /\ new.outputs = certificates
    BY DEF swapIdentity
  <1>3. /\ \A q \in inputs(r) : q \in Output /\ notes[q].state = "outstanding"
        /\ \A cert \in certificates : /\ cert.q \in Output /\ notes[cert.q].state = "absent"
                                      /\ cert.q \notin inputs(r)
    BY DEF Swapped, Live, Certificate, outputInUse
  <1>4. \A s \in swaps : /\ \A q \in s.identity.inputs : q \in Output /\ notes[q].state = "burned"
                         /\ \A cert \in s.outputs : /\ cert.q \in Output
                                                    /\ notes[cert.q].state # "absent"
    BY DEF Exchanges, NoDoubleSpend, CertificatesTrue, Typed, TypeOK, Swap, Identity, Certificate
  <1>5. \A q \in inputs(r) : notes'[q].state = "burned"
    BY <1>3 DEF Swapped, Exchange, Typed, TypeOK, Note, NoNote
  <1>6. \A cert \in certificates : notes'[cert.q] = Minted(cert.amountMsat)
    <2> TAKE cert \in certificates
    <2>1. \A other \in certificates : other.q = cert.q => other = cert
      BY DEF Swapped
    <2>2. (CHOOSE other \in certificates : other.q = cert.q) = cert
      BY <2>1
    <2> QED
      BY <1>3, <2>2 DEF Swapped, Exchange
  <1>7. NoDoubleSpend'
    <2>1. \A s \in swaps' : \A q \in s.identity.inputs : notes'[q].state = "burned"
      <3> TAKE s \in swaps'
      <3>1. CASE s = new
        BY <1>2, <1>5, <3>1
      <3>2. CASE s \in swaps
        BY <1>4, <3>2, NotesLast
      <3> QED
        BY <1>1, <3>1, <3>2
    <2>2. \A s \in swaps : /\ s.identity.inputs \cap inputs(r) = {}
                           /\ {cert.q : cert \in s.outputs} \cap {cert.q : cert \in certificates} = {}
      BY <1>3, <1>4
    <2>3. \A s, t \in swaps' : s # t =>
             /\ s.identity.inputs \cap t.identity.inputs = {}
             /\ {cert.q : cert \in s.outputs} \cap {cert.q : cert \in t.outputs} = {}
      <3> TAKE s, t \in swaps'
      <3> HAVE s # t
      <3>1. CASE s \in swaps /\ t \in swaps
        BY <3>1 DEF Exchanges, NoDoubleSpend
      <3>2. CASE s = new /\ t \in swaps
        BY <1>2, <2>2, <3>2
      <3>3. CASE s \in swaps /\ t = new
        BY <1>2, <2>2, <3>3
      <3> QED
        BY <1>1, <3>1, <3>2, <3>3
    <2> QED
      BY <2>1, <2>3 DEF NoDoubleSpend
  <1>8. CertificatesTrue'
    <2> SUFFICES ASSUME NEW s \in swaps', NEW cert \in s.outputs
                 PROVE  notes'[cert.q].state # "absent" /\ notes'[cert.q].amountMsat = cert.amountMsat
      BY DEF CertificatesTrue
    <2>1. CASE s = new
      <3>1. cert \in certificates
        BY <1>2, <2>1
      <3>2. notes'[cert.q] = Minted(cert.amountMsat)
        BY <1>6, <3>1
      <3> QED
        BY <3>2 DEF Minted
    <2>2. CASE s \in swaps
      BY <1>4, <2>2, NotesLast DEF Exchanges, CertificatesTrue
    <2> QED
      BY <1>1, <2>1, <2>2
  <1> QED
    BY <1>7, <1>8 DEF Exchanges

\* Only a split or a merge adds to the record of swaps.
LEMMA ExchangesStep ==
  ASSUME Typed, Exchanges, [Next]_vars
  PROVE  Exchanges'
  <1>1. CASE UNCHANGED swaps
    BY <1>1, ExchangesAside
  <1>2. CASE Next
    <2>1. ASSUME NEW hash \in Hash,
                 \/ \E r \in WithdrawRequest : Melt(r, hash)
                 \/ \E gross \in Gross, comment, h \in Output \cup {None} :
                      Quote(gross, comment, h, hash)
                 \/ \E u \in Username, gross \in Gross : AddressQuote(u, gross, hash)
                 \/ SettleQuote(hash) \/ SettleAddressPayment(hash) \/ SettleAddressFee(hash)
          PROVE  UNCHANGED swaps
      BY <2>1 DEF Melt, Quote, AddressQuote, SettleQuote, SettleAddressPayment,
                  SettleAddressFee, noteVars
    <2>2. ASSUME NEW timer \in timers, MeltResolves(timer)
          PROVE  UNCHANGED swaps
      BY <2>2 DEF MeltResolves
    <2>3. ASSUME NEW u \in Username, NEW sig \in BOOLEAN, NEW newsig \in BOOLEAN,
                 NEW cx1 \in Cx1 \cup {None}, NEW hash \in Hash \cup {None},
                 Delete(u, sig) \/ Post(u, cx1, sig, hash) \/ Put(u, cx1, sig, newsig)
          PROVE  UNCHANGED swaps
      BY <2>3 DEF Delete, Post, Put, noteVars
    <2>4. \/ \E r \in WithdrawRequest : \E certificates : Swapped(r, certificates)
          \/ UNCHANGED swaps
      BY <1>2, <2>1, <2>2, <2>3, Steps DEF Idle, Typed
    <2> QED
      BY <1>1, <2>4, ExchangesSwap
  <1> QED
    BY <1>1, <1>2 DEF vars

---------------------------------------------------------------------------
(***************************************************************************)
(* Whose share is whose.                                                   *)
(***************************************************************************)
Shares == SharesOnFile /\ SharesUsed

\* A registration's fee keeps waiting for it while no fee is settled.
LEMMA SharesAside ==
  ASSUME Typed, UsesKept, Shares, [Next]_vars, UNCHANGED <<registrations, usedKeys>>,
         \A hash \in Hash : invoices[hash].use = "addressFee" =>
                              invoices'[hash].settled = invoices[hash].settled
  PROVE  Shares' /\ NewKeysOnly
  <1>1. \A hash \in Hash : invoices[hash].use = "addressFee" =>
          /\ invoices'[hash].use = "addressFee"
          /\ invoices'[hash].user = invoices[hash].user
          /\ invoices'[hash].settled = invoices[hash].settled
    <2> SUFFICES ASSUME NEW hash \in Hash, invoices[hash].use = "addressFee"
                 PROVE  /\ invoices'[hash].use = "addressFee"
                        /\ invoices'[hash].user = invoices[hash].user
      OBVIOUS
    <2>1. invoices'[hash] = [invoices[hash] EXCEPT
             !.settled = invoices'[hash].settled, !.creditedTo = invoices'[hash].creditedTo]
      BY UsesStep
    <2>2. invoices[hash] \in Invoice
      BY DEF Typed, TypeOK
    <2> QED
      BY <2>1, <2>2 DEF Invoice
  <1>2. \A u \in Username : registrations[u].paymentHash \in Hash \cup {None}
    BY DEF Typed, TypeOK, Registration
  <1>3. SharesUsed'
    BY DEF Shares, SharesUsed, Registered
  <1>4. SharesOnFile'
    BY <1>1, <1>2 DEF Shares, SharesOnFile, Registered
  <1>5. NewKeysOnly
    BY DEF NewKeysOnly
  <1> QED
    BY <1>3, <1>4, <1>5 DEF Shares

\* Each key is accepted once, so no two usernames hold one, and a fee settles
\* only the registration it was issued for.
LEMMA SharesStep ==
  ASSUME Typed, UsesKept, Shares, [Next]_vars
  PROVE  Shares' /\ NewKeysOnly
  <1> USE DEF Shares
  <1>0. /\ \A g \in Hash : invoices[g] \in Invoice
        /\ \A u \in Username : registrations[u] \in Registration
    BY DEF Typed, TypeOK
  <1>1. ASSUME UNCHANGED <<registrations, usedKeys, invoices>>
        PROVE  Shares' /\ NewKeysOnly
    BY <1>1, SharesAside
  <1>2. ASSUME NEW hash \in Hash, invoices[hash].use # "addressFee",
               UNCHANGED <<registrations, usedKeys>>,
               \A g \in Hash \ {hash} : invoices'[g] = invoices[g]
        PROVE  Shares' /\ NewKeysOnly
    BY <1>2, SharesAside
  <1>3. ASSUME NEW u \in Username, NEW cx1 \in Cx1, ~cx1Used(cx1), NEW paid \in BOOLEAN,
               NEW fee \in Hash \cup {None}, registerShare(u, cx1, paid, fee),
               \A g \in Hash : invoices[g].use = "addressFee" => invoices'[g] = invoices[g],
               fee = None => paid,
               fee # None => /\ invoices'[fee].use = "addressFee"
                             /\ invoices'[fee].user = u /\ invoices'[fee].settled = paid
        PROVE  Shares' /\ NewKeysOnly
    <2>1. /\ registrations'[u] = [cx1 |-> cx1, paid |-> paid, paymentHash |-> fee]
          /\ \A v \in Username \ {u} : registrations'[v] = registrations[v]
          /\ usedKeys' = usedKeys \cup {KeyOf[cx1]}
      BY <1>3 DEF registerShare, Typed, TypeOK
    <2>2. SharesUsed'
      BY <2>1 DEF SharesUsed, Registered
    <2>3. \A v \in Username \ {u} : Registered(v) => KeyOf[registrations[v].cx1] # KeyOf[cx1]
      BY <1>3 DEF SharesUsed, cx1Used
    <2>4. \A v, w \in Username : v # w /\ Registered(v)' /\ Registered(w)' =>
             KeyOf[registrations'[v].cx1] # KeyOf[registrations'[w].cx1]
      BY <2>1, <2>3 DEF SharesOnFile, Registered
    <2>5. \A v \in Username : Registered(v)' =>
             LET mine == registrations'[v].paymentHash IN
             IF mine = None THEN registrations'[v].paid
             ELSE /\ invoices'[mine].use = "addressFee" /\ invoices'[mine].user = v
                  /\ invoices'[mine].settled = registrations'[v].paid
      <3> TAKE v \in Username
      <3>1. CASE v = u
        BY <1>3, <2>1, <3>1
      <3>2. CASE v # u
        BY <1>0, <1>3, <2>1, <3>2 DEF SharesOnFile, Registered, Registration
      <3> QED
        BY <3>1, <3>2
    <2>6. NewKeysOnly
      BY <1>3, <2>1 DEF NewKeysOnly, cx1Used
    <2> QED
      BY <2>2, <2>4, <2>5, <2>6 DEF SharesOnFile
  <1>4. ASSUME NEW u \in Username, NEW sig \in BOOLEAN, Delete(u, sig)
        PROVE  Shares' /\ NewKeysOnly
    <2>1. /\ registrations' = [registrations EXCEPT ![u] = NoRegistration]
          /\ UNCHANGED <<usedKeys, invoices>>
      BY <1>4 DEF Delete, quoteVars
    <2>2. \A v \in Username : Registered(v)' => v # u /\ registrations'[v] = registrations[v]
                                                 /\ Registered(v)
      BY <2>1 DEF Registered, NoRegistration, Typed, TypeOK
    <2>3. NewKeysOnly
      BY <2>1 DEF NewKeysOnly, NoRegistration, Typed, TypeOK
    <2> QED
      BY <2>1, <2>2, <2>3 DEF SharesOnFile, SharesUsed
  <1>5. ASSUME NEW hash \in Hash, SettleAddressFee(hash)
        PROVE  Shares' /\ NewKeysOnly
    <2> DEFINE u == invoices[hash].user
    <2>1. /\ invoices[hash].use = "addressFee"
          /\ invoices' = [invoices EXCEPT ![hash].settled = TRUE]
          /\ UNCHANGED usedKeys
      BY <1>5 DEF SettleAddressFee
    <2>2. \A v \in Username : /\ registrations'[v].cx1 = registrations[v].cx1
                              /\ registrations'[v].paymentHash = registrations[v].paymentHash
                              /\ registrations'[v].paid =
                                   (registrations[v].paid \/ (v = u /\ registrations[v].paymentHash = hash))
      BY <1>0, <1>5 DEF SettleAddressFee, Typed, TypeOK, Registration
    <2>3. \A g \in Hash : g # hash => invoices'[g] = invoices[g]
      BY <2>1
    <2>4. \A v \in Username : Registered(v) /\ registrations[v].paymentHash = hash => v = u
      BY <1>0, NoneIsNothing DEF SharesOnFile
    <2>5. \A v \in Username : Registered(v)' = Registered(v)
      BY <2>2 DEF Registered
    <2>6. SharesUsed'
      BY <2>1, <2>2, <2>5 DEF SharesUsed
    <2>7. ASSUME NEW v \in Username, Registered(v)'
          PROVE  LET mine == registrations'[v].paymentHash IN
                 IF mine = None THEN registrations'[v].paid
                 ELSE /\ invoices'[mine].use = "addressFee" /\ invoices'[mine].user = v
                      /\ invoices'[mine].settled = registrations'[v].paid
      <3>1. Registered(v) /\ registrations[v].paymentHash \in Hash \cup {None}
        BY <1>0, <2>5, <2>7 DEF Registration
      <3>2. CASE registrations[v].paymentHash = hash
        <4>1. hash # None /\ v = u /\ invoices[hash].user = v
          BY <2>4, <3>1, <3>2, NoneIsNothing
        <4>2. registrations'[v].paid = TRUE /\ registrations'[v].paymentHash = hash
          BY <2>2, <3>2, <4>1
        <4>3. invoices'[hash] = [invoices[hash] EXCEPT !.settled = TRUE]
          BY <2>1 DEF Typed, TypeOK
        <4>4. /\ invoices'[hash].use = "addressFee" /\ invoices'[hash].user = v
              /\ invoices'[hash].settled = TRUE
          BY <1>0, <2>1, <4>1, <4>3 DEF Invoice
        <4> QED
          BY <4>1, <4>2, <4>4
      <3>3. CASE registrations[v].paymentHash # hash
        <4>1. registrations'[v].paid = registrations[v].paid
          BY <1>0, <2>2, <3>3 DEF Registration
        <4> QED
          BY <2>2, <2>3, <3>1, <3>3, <4>1 DEF SharesOnFile
      <3> QED
        BY <3>2, <3>3
    <2>8. NewKeysOnly
      BY <2>1, <2>2 DEF NewKeysOnly
    <2> QED
      BY <2>2, <2>5, <2>6, <2>7, <2>8 DEF SharesOnFile
  <1>6. ASSUME NEW u \in Username, NEW sig \in BOOLEAN, NEW newsig \in BOOLEAN,
               NEW cx1 \in Cx1 \cup {None}, Put(u, cx1, sig, newsig)
        PROVE  Shares' /\ NewKeysOnly
    <2>1. cx1 \in Cx1 /\ ~cx1Used(cx1) /\ registerShare(u, cx1, TRUE, None) /\ UNCHANGED invoices
      BY <1>6 DEF Put, MayUpdate, quoteVars
    <2> QED
      BY <1>3, <2>1
  <1>7. ASSUME NEW u \in Username, NEW sig \in BOOLEAN,
               NEW cx1 \in Cx1 \cup {None}, NEW hash \in Hash \cup {None}, Post(u, cx1, sig, hash)
        PROVE  Shares' /\ NewKeysOnly
    <2>1. cx1 \in Cx1 /\ ~cx1Used(cx1)
      BY <1>7 DEF Post, MayRegister
    <2>2. CASE AddressFee = 0
      BY <1>3, <1>7, <2>1, <2>2 DEF Post
    <2>3. CASE AddressFee # 0
      <3> DEFINE new == [NoInvoice EXCEPT !.use = "addressFee", !.user = u,
                                          !.amountMsat = AddressFee, !.invoiced = AddressFee]
      <3>1. hash \in Hash /\ invoices' = [invoices EXCEPT ![hash] = new] /\ Fresh(hash)
            /\ registerShare(u, cx1, FALSE, hash)
        BY <1>7, <2>3 DEF Post
      <3>2. new.use = "addressFee" /\ new.user = u /\ new.settled = FALSE
        BY DEF NoInvoice
      <3>3. \A g \in Hash : invoices[g].use = "addressFee" => invoices'[g] = invoices[g]
        BY <3>1 DEF Fresh
      <3>4. invoices'[hash] = new /\ hash # None
        BY <3>1, NoneIsNothing DEF Typed, TypeOK
      <3> QED
        BY <1>3, <2>1, <3>1, <3>2, <3>3, <3>4
    <2> QED
      BY <2>2, <2>3
  <1>8. ASSUME NEW timer \in timers, MeltResolves(timer)
        PROVE  Shares' /\ NewKeysOnly
    <2>1. timer.hash # None => timer.hash \in Hash /\ invoices[timer.hash].use = "melt"
      BY DEF UsesKept, Typed, TypeOK, Timer
    <2>2. UNCHANGED <<registrations, usedKeys>>
      BY <1>8 DEF MeltResolves, shareVars
    <2>3. CASE UNCHANGED invoices
      BY <1>1, <2>2, <2>3
    <2>4. CASE timer.hash # None /\ invoices' = [invoices EXCEPT ![timer.hash].settled = TRUE]
      <3>1. \A g \in Hash \ {timer.hash} : invoices'[g] = invoices[g]
        BY <2>4
      <3> QED
        BY <1>2, <2>1, <2>2, <2>4, <3>1
    <2> QED
      BY <1>8, <2>3, <2>4 DEF MeltResolves
  <1>9. ASSUME NEW hash \in Hash,
               \/ \E r \in WithdrawRequest : Melt(r, hash)
               \/ \E gross \in Gross, comment, h \in Output \cup {None} :
                    Quote(gross, comment, h, hash)
               \/ \E u \in Username, gross \in Gross : AddressQuote(u, gross, hash)
        PROVE  Shares' /\ NewKeysOnly
    <2>1. Fresh(hash) /\ UNCHANGED shareVars
      BY <1>9 DEF Melt, Quote, AddressQuote
    <2>2. UNCHANGED invoices \/ \E new : invoices' = [invoices EXCEPT ![hash] = new]
      <3>1. ASSUME NEW r \in WithdrawRequest, Melt(r, hash)
            PROVE  UNCHANGED invoices \/ \E new : invoices' = [invoices EXCEPT ![hash] = new]
        BY <3>1 DEF Melt
      <3>2. ASSUME NEW gross \in Gross, NEW comment \in Output \cup {None},
                   NEW h \in Output \cup {None}, Quote(gross, comment, h, hash)
            PROVE  \E new : invoices' = [invoices EXCEPT ![hash] = new]
        BY <3>2 DEF Quote
      <3>3. ASSUME NEW u \in Username, NEW gross \in Gross, AddressQuote(u, gross, hash)
            PROVE  \E new : invoices' = [invoices EXCEPT ![hash] = new]
        BY <3>3 DEF AddressQuote
      <3> QED
        BY <1>9, <3>1, <3>2, <3>3
    <2>3. \A g \in Hash \ {hash} : invoices'[g] = invoices[g]
      BY <2>2 DEF Typed, TypeOK
    <2> QED
      BY <1>2, <2>1, <2>3 DEF Fresh, shareVars
  <1>10. ASSUME NEW hash \in Hash, SettleQuote(hash) \/ SettleAddressPayment(hash)
         PROVE  Shares' /\ NewKeysOnly
    <2>1. invoices[hash].use # "addressFee" /\ UNCHANGED <<registrations, usedKeys>>
          /\ \A g \in Hash \ {hash} : invoices'[g] = invoices[g]
      BY <1>10 DEF SettleQuote, SettleAddressPayment, shareVars, Typed, TypeOK
    <2> QED
      BY <1>2, <2>1
  <1>11. ASSUME NEW r \in WithdrawRequest, NEW certificates, Swapped(r, certificates)
         PROVE  Shares' /\ NewKeysOnly
    BY <1>1, <1>11 DEF Swapped, Exchange, quoteVars, shareVars
  <1>12. CASE Next
    BY <1>1, <1>4, <1>5, <1>6, <1>7, <1>8, <1>9, <1>10, <1>11, <1>12, Steps DEF Idle, Typed
  <1> QED
    BY <1>1, <1>12 DEF vars

---------------------------------------------------------------------------
(***************************************************************************)
(* The invariants of the mint.                                             *)
(***************************************************************************)
\* A mint that has answered nothing has claimed, credited and exchanged
\* nothing.
LEMMA InvariantsInit == Init => UsesKept /\ Claims /\ Credits /\ Exchanges /\ Shares
  <1> SUFFICES ASSUME Init
               PROVE  UsesKept /\ Claims /\ Credits /\ Exchanges /\ Shares
    OBVIOUS
  <1>1. /\ invoices = [hash \in Hash |-> NoInvoice]
        /\ boundOutputs = [q \in Output |-> None]
        /\ registrations = [u \in Username |-> NoRegistration]
        /\ swaps = {} /\ timers = {}
    BY DEF Init, InitStore
  <1>2. \A hash \in Hash : /\ invoices[hash].use = "none" /\ ~invoices[hash].settled
                           /\ invoices[hash].boundTo = None /\ invoices[hash].creditedTo = None
    BY <1>1 DEF NoInvoice
  <1>3. UsesKept
    BY <1>1, <1>2 DEF UsesKept
  <1>4. Claims
    BY <1>1, <1>2 DEF Claims, QuoteReserved, OpenQuote, QuoteClaims, PreimageOpensNothing
  <1>5. Credits
    BY <1>2 DEF Credits, CreditsDistinct, CreditedNotesExist, Credited
  <1>6. Exchanges
    BY <1>1 DEF Exchanges, NoDoubleSpend, CertificatesTrue
  <1>7. \A u \in Username : ~Registered(u)
    BY <1>1 DEF Registered, NoRegistration
  <1>8. Shares
    BY <1>7 DEF Shares, SharesOnFile, SharesUsed
  <1> QED
    BY <1>3, <1>4, <1>5, <1>6, <1>8

\* A note funds at most one exchange, none is created by two, and a retry is
\* answered with certificates of notes that are there at that value.
THEOREM NotesAreSpentOnce == Spec => [](NoDoubleSpend /\ CertificatesTrue)
  <1>1. Init => Exchanges
    BY InvariantsInit
  <1>2. Typed /\ Exchanges /\ [Next]_vars => Exchanges'
    BY ExchangesStep
  <1>3. Spec => []Exchanges
    BY <1>1, <1>2, TypedAlways, PTL DEF Spec
  <1> QED
    BY <1>3, PTL DEF Exchanges

\* What a replay hands back, and what a first answer did, names a note the mint
\* made with the value it was made with, for as long as the mint runs.
THEOREM CertificatesStayTrue == Spec => []CertificatesTrue
  BY NotesAreSpentOnce, PTL

\* A share credits one username at a time, its key is accepted once in the life
\* of the mint, and what publishes a registration is the fee issued for it.
THEOREM SharesAreExclusive == Spec => SharesExclusive
  <1>1. Init => UsesKept /\ Shares
    BY InvariantsInit
  <1>2. Typed /\ UsesKept /\ Shares /\ [Next]_vars => (UsesKept /\ Shares)'
    BY UsesStep, SharesStep
  <1>3. Spec => [](UsesKept /\ Shares)
    BY <1>1, <1>2, TypedAlways, PTL DEF Spec
  <1>4. Shares => SharesOnFile
    BY DEF Shares
  <1>5. Typed /\ UsesKept /\ Shares /\ [Next]_vars => [NewKeysOnly]_vars
    BY SharesStep
  <1>6. SharesOnFile' /\ [NewKeysOnly]_vars => [SharesOnFile' /\ NewKeysOnly]_vars
    OBVIOUS
  <1> QED
    BY <1>3, <1>4, <1>5, <1>6, TypedAlways, PTL DEF Spec, SharesExclusive

\* While only invoices the mint issued to be paid are paid, an open quote can
\* always land, a mint quote's preimage opens nothing, and no two payments
\* end in one note: the whole inductive invariant.
THEOREM InvariantHolds == "melt" \notin Payable => (Spec => []IInv)
  <1> SUFFICES ASSUME "melt" \notin Payable
               PROVE  Spec => []IInv
    OBVIOUS
  <1> DEFINE Rest == UsesKept /\ Claims /\ Credits /\ Exchanges /\ Shares
  <1>1. Init => Rest
    BY InvariantsInit
  <1>2. Typed /\ Rest /\ [Next]_vars => Rest'
    BY UsesStep, ClaimsStep, CreditsStep, ExchangesStep, SharesStep
  <1>3. Spec => []Rest
    BY <1>1, <1>2, TypedAlways, PTL DEF Spec
  <1>4. Typed /\ Rest => IInv
    BY DEF Typed, Claims, Credits, Exchanges, Shares, IInv
  <1> QED
    BY <1>3, <1>4, TypedAlways, PTL

\* The open quotes of such a mint keep the outputs they were promised.
THEOREM QuotesStayReserved == "melt" \notin Payable => (Spec => []QuoteReserved)
  <1>1. IInv => QuoteReserved
    BY DEF IInv
  <1> QED
    BY <1>1, InvariantHolds, PTL

\* Publishing the preimage of a mint quote, as /verify does, opens no note.
THEOREM PreimagesOpenNothing == "melt" \notin Payable => (Spec => []PreimageOpensNothing)
  <1>1. IInv => PreimageOpensNothing
    BY DEF IInv
  <1> QED
    BY <1>1, InvariantHolds, PTL

\* Two payments never end in the same note.
THEOREM CreditsAreDistinct == "melt" \notin Payable => (Spec => []CreditsDistinct)
  <1>1. IInv => CreditsDistinct
    BY DEF IInv
  <1> QED
    BY <1>1, InvariantHolds, PTL

---------------------------------------------------------------------------
(***************************************************************************)
(* What an invoice asks for.                                               *)
(***************************************************************************)
\* A payment that buys a note covers it and the fee of melting it.
LEMMA NetCovers ==
  ASSUME NEW gross \in Nat, applyFee(Fees, gross) \in Amount
  PROVE  applyFee(Fees, gross) + Fees.base <= gross
  <1>1. /\ Fees.base \in Nat /\ Fees.ppm \in Nat /\ Fees.extra \in Nat
        /\ Million \in Whole /\ MsatPerSat \in Whole
    BY Configuration, Units DEF Schedule, Whole
  <1>2. Proportional(Fees, gross) \in Nat
    <2> DEFINE q == gross \div Million
               r == gross % Million
    <2>1. q \in Nat /\ r \in Nat
      BY <1>1, DivMod
    <2> HIDE DEF q, r
    <2>2. q * Fees.ppm \in Nat /\ r * Fees.ppm \in Nat
      BY <1>1, <2>1
    <2>3. (r * Fees.ppm) \div Million \in Nat
      BY <1>1, <2>2, DivMod
    <2> QED
      BY <2>2, <2>3 DEF Proportional, q, r
  <1> DEFINE exact == Fees.base + Proportional(Fees, gross)
  <1>3. exact \in Nat /\ exact >= Fees.base
    BY <1>1, <1>2
  <1>4. CeilToSat(exact) \in Nat /\ CeilToSat(exact) >= exact
    <2> DEFINE x == exact + MsatPerSat - 1
               a == x \div MsatPerSat
               b == x % MsatPerSat
    <2>1. x \in Nat /\ x - exact = MsatPerSat - 1
      BY <1>1, <1>3 DEF Whole
    <2>2. a \in Nat /\ b \in Nat /\ b < MsatPerSat /\ x = MsatPerSat * a + b
      BY <1>1, <2>1, DivMod
    <2>3. CeilToSat(exact) = a * MsatPerSat
      BY DEF CeilToSat
    <2> HIDE DEF a, b, x, exact
    <2>4. a * MsatPerSat = MsatPerSat * a /\ MsatPerSat * a \in Nat
      BY <1>1, <2>2 DEF Whole
    <2> QED
      BY <1>1, <1>3, <2>1, <2>2, <2>3, <2>4 DEF Whole
  <1>5. feeOf(Fees, gross) \in Nat /\ feeOf(Fees, gross) >= Fees.base
    <2> HIDE DEF exact
    <2>1. feeOf(Fees, gross) = (IF Fees.toSat THEN CeilToSat(exact) ELSE exact) + Fees.extra
      BY DEF feeOf, exact
    <2> QED
      BY <1>1, <1>3, <1>4, <2>1
  <1>6. applyFee(Fees, gross) = gross - feeOf(Fees, gross)
    BY DEF applyFee, Amount
  <1> QED
    BY <1>1, <1>5, <1>6

\* Whatever issues an invoice issues an open one, under a hash none has; and
\* what sells a note asks for all of its cost, and is no mint winding down.
Issued(hash, new) ==
  /\ Fresh(hash)
  /\ invoices' = [invoices EXCEPT ![hash] = new]
  /\ new \in Invoice /\ ~new.settled /\ new.creditedTo = None
  /\ new.use \in {"mint", "address"} =>
       ~On("sunset") /\ new.amountMsat + Fees.base <= new.invoiced

\* A quote issues an invoice, one of an address too.
LEMMA QuoteIssues ==
  ASSUME NEW hash \in Hash, NEW gross \in Gross,
         \/ \E comment, h \in Output \cup {None} : Quote(gross, comment, h, hash)
         \/ \E u \in Username : AddressQuote(u, gross, hash)
  PROVE  \E new : Issued(hash, new)
  <1>1. gross \in Nat
    BY PaymentsAreReported
  <1>2. ~On("sunset") /\ applyFee(Fees, gross) \in Amount
    BY DEF Quote, AddressQuote, AmountAccepted
  <1>3. applyFee(Fees, gross) + Fees.base <= gross /\ applyFee(Fees, gross) \in Nat
    BY <1>1, <1>2, NetCovers, AmountIsNat
  <1>4. ASSUME NEW comment \in Output \cup {None}, NEW h \in Output \cup {None},
               Quote(gross, comment, h, hash)
        PROVE  \E new : Issued(hash, new)
    <2> DEFINE bound == IF comment # None THEN comment ELSE readH(h)
               new == [NoInvoice EXCEPT !.use = "mint", !.boundTo = bound,
                                        !.amountMsat = applyFee(Fees, gross),
                                        !.invoiced = gross]
    <2>1. bound \in Output \cup {None}
      BY DEF readH
    <2>2. new \in Invoice /\ ~new.settled /\ new.creditedTo = None
      BY <1>1, <1>3, <2>1 DEF NoInvoice, Invoice, Use
    <2>3. new.amountMsat = applyFee(Fees, gross) /\ new.invoiced = gross
      BY DEF NoInvoice
    <2>4. Fresh(hash) /\ invoices' = [invoices EXCEPT ![hash] = new]
      BY <1>4, Zenon DEF Quote
    <2> HIDE DEF new
    <2> QED
      BY <1>2, <1>3, <2>2, <2>3, <2>4 DEF Issued
  <1>5. ASSUME NEW u \in Username, AddressQuote(u, gross, hash)
        PROVE  \E new : Issued(hash, new)
    <2> DEFINE new == [NoInvoice EXCEPT !.use = "address", !.user = u,
                                        !.amountMsat = applyFee(Fees, gross),
                                        !.invoiced = gross]
    <2>1. new \in Invoice /\ ~new.settled /\ new.creditedTo = None
      BY <1>1, <1>3 DEF NoInvoice, Invoice, Use
    <2>2. new.amountMsat = applyFee(Fees, gross) /\ new.invoiced = gross
      BY DEF NoInvoice
    <2>3. Fresh(hash) /\ invoices' = [invoices EXCEPT ![hash] = new]
      BY <1>5, Zenon DEF AddressQuote
    <2> HIDE DEF new
    <2> QED
      BY <1>2, <1>3, <2>1, <2>2, <2>3 DEF Issued
  <1> QED
    BY <1>4, <1>5

\* So does a melt under /verify, for what its note is worth.
LEMMA MeltIssues ==
  ASSUME Typed, NEW r \in WithdrawRequest, NEW hash \in Hash, Melt(r, hash)
  PROVE  IF On("verify")
         THEN \E new : /\ Issued(hash, new) /\ new.use = "melt"
                       /\ new.amountMsat = notes[r.k1[1]].amountMsat
         ELSE UNCHANGED invoices
  <1> DEFINE new == [NoInvoice EXCEPT !.use = "melt", !.amountMsat = notes[r.k1[1]].amountMsat]
  <1>1. notes[r.k1[1]].amountMsat \in Nat
    <2>1. notes[r.k1[1]] \in Note /\ notes[r.k1[1]].state = "outstanding"
      BY MeltNote DEF Typed, TypeOK
    <2>2. notes[r.k1[1]].amountMsat \in Amount
      BY <2>1 DEF Note, NoNote
    <2> QED
      BY <2>2, AmountIsNat
  <1>2. new \in Invoice /\ ~new.settled /\ new.creditedTo = None
    BY <1>1 DEF NoInvoice, Invoice, Use
  <1>3. new.use = "melt" /\ new.amountMsat = notes[r.k1[1]].amountMsat
    BY DEF NoInvoice
  <1>4. On("verify") => Fresh(hash) /\ invoices' = [invoices EXCEPT ![hash] = new]
    BY DEF Melt
  <1>5. ~On("verify") => UNCHANGED invoices
    BY DEF Melt
  <1> HIDE DEF new
  <1> QED
    BY <1>2, <1>3, <1>4, <1>5 DEF Issued

\* And a registration that has a fee.
LEMMA PostIssues ==
  ASSUME NEW u \in Username, NEW sig \in BOOLEAN, NEW cx1 \in Cx1 \cup {None},
         NEW hash \in Hash \cup {None}, Post(u, cx1, sig, hash)
  PROVE  UNCHANGED invoices \/ (hash \in Hash /\ \E new : Issued(hash, new) /\ new.use = "addressFee")
  <1> DEFINE new == [NoInvoice EXCEPT !.use = "addressFee", !.user = u,
                                      !.amountMsat = AddressFee, !.invoiced = AddressFee]
  <1>1. new \in Invoice /\ ~new.settled /\ new.creditedTo = None /\ new.use = "addressFee"
    BY Configuration DEF NoInvoice, Invoice, Use
  <1>2. AddressFee = 0 => UNCHANGED invoices
    BY DEF Post
  <1>3. AddressFee # 0 => hash \in Hash /\ Fresh(hash) /\ invoices' = [invoices EXCEPT ![hash] = new]
    BY DEF Post
  <1> HIDE DEF new
  <1> QED
    BY <1>1, <1>2, <1>3 DEF Issued

\* Every step leaves the invoices alone, issues one, or settles one.
LEMMA InvoiceSteps ==
  ASSUME Typed, [Next]_vars
  PROVE  \/ UNCHANGED invoices /\ timers' \subseteq timers
         \/ UNCHANGED invoices /\ \E r \in WithdrawRequest, hash \in Hash : Melt(r, hash)
         \/ \E hash \in Hash : /\ \E new : Issued(hash, new)
                               /\ \/ UNCHANGED timers
                                  \/ \E r \in WithdrawRequest : Melt(r, hash)
         \/ \E timer \in timers : MeltResolves(timer)
         \/ \E hash \in Hash :
              SettleQuote(hash) \/ SettleAddressPayment(hash) \/ SettleAddressFee(hash)
  <1> DEFINE Goal ==
         \/ UNCHANGED invoices /\ timers' \subseteq timers
         \/ UNCHANGED invoices /\ \E r \in WithdrawRequest, hash \in Hash : Melt(r, hash)
         \/ \E hash \in Hash : /\ \E new : Issued(hash, new)
                               /\ \/ UNCHANGED timers
                                  \/ \E r \in WithdrawRequest : Melt(r, hash)
         \/ \E timer \in timers : MeltResolves(timer)
         \/ \E hash \in Hash :
              SettleQuote(hash) \/ SettleAddressPayment(hash) \/ SettleAddressFee(hash)
  <1>1. CASE UNCHANGED <<invoices, timers>>
    BY <1>1
  <1>2. ASSUME NEW r \in WithdrawRequest, NEW certificates, Swapped(r, certificates)
        PROVE  Goal
    BY <1>1, <1>2 DEF Swapped, Exchange, quoteVars
  <1>3. ASSUME NEW r \in WithdrawRequest, NEW hash \in Hash, Melt(r, hash)
        PROVE  Goal
    BY <1>3, MeltIssues
  <1>4. ASSUME NEW hash \in Hash, NEW gross \in Gross, NEW comment \in Output \cup {None},
               NEW h \in Output \cup {None}, Quote(gross, comment, h, hash)
        PROVE  Goal
    <2>1. UNCHANGED timers
      BY <1>4 DEF Quote, noteVars
    <2> QED
      BY <1>4, <2>1, QuoteIssues
  <1>5. ASSUME NEW hash \in Hash, NEW u \in Username, NEW gross \in Gross,
               AddressQuote(u, gross, hash)
        PROVE  Goal
    <2>1. UNCHANGED timers
      BY <1>5 DEF AddressQuote, noteVars
    <2> QED
      BY <1>5, <2>1, QuoteIssues
  <1>6. ASSUME NEW u \in Username, NEW sig \in BOOLEAN, NEW newsig \in BOOLEAN,
               NEW cx1 \in Cx1 \cup {None}, NEW hash \in Hash \cup {None},
               Delete(u, sig) \/ Post(u, cx1, sig, hash) \/ Put(u, cx1, sig, newsig)
        PROVE  Goal
    <2>1. UNCHANGED timers
      BY <1>6 DEF Delete, Post, Put, noteVars
    <2>2. Delete(u, sig) \/ Put(u, cx1, sig, newsig) => UNCHANGED invoices
      BY DEF Delete, Put, quoteVars
    <2> QED
      BY <1>1, <1>6, <2>1, <2>2, PostIssues
  <1>7. CASE Next
    <2>1. CASE Idle
      BY <1>1, <2>1 DEF Idle
    <2> HIDE DEF Goal
    <2> QED
      BY <1>2, <1>3, <1>4, <1>5, <1>6, <1>7, <2>1, Steps DEF Goal, Typed
  <1> QED
    BY <1>1, <1>7 DEF vars

---------------------------------------------------------------------------
(***************************************************************************)
(* What the books rest on, beside IInv: invoices that cover what they buy, *)
(* and melts that are filed under an invoice of their own.                 *)
(***************************************************************************)
\* An invoice asks for its note's cost when it is issued, and nothing changes
\* what it asks for.
LEMMA InvoicesCoverStep ==
  ASSUME Typed, UsesKept, InvoicesCover, [Next]_vars
  PROVE  InvoicesCover'
  <1>1. \A hash \in Hash : invoices[hash] \in Invoice
    BY DEF Typed, TypeOK
  <1>2. \A hash \in Hash : invoices[hash].use # "none" =>
          /\ invoices'[hash].use = invoices[hash].use
          /\ invoices'[hash].amountMsat = invoices[hash].amountMsat
          /\ invoices'[hash].invoiced = invoices[hash].invoiced
    <2> SUFFICES ASSUME NEW hash \in Hash, invoices[hash].use # "none"
                 PROVE  /\ invoices'[hash].use = invoices[hash].use
                        /\ invoices'[hash].amountMsat = invoices[hash].amountMsat
                        /\ invoices'[hash].invoiced = invoices[hash].invoiced
      OBVIOUS
    <2>1. invoices'[hash] = [invoices[hash] EXCEPT
            !.settled = invoices'[hash].settled, !.creditedTo = invoices'[hash].creditedTo]
      BY UsesStep
    <2> QED
      BY <1>1, <2>1 DEF Invoice
  <1>3. ASSUME NEW hash \in Hash, invoices[hash].use = "none",
               invoices'[hash].use \in {"mint", "address"}
        PROVE  invoices'[hash].amountMsat + Fees.base <= invoices'[hash].invoiced
    <2>1. ASSUME NEW other \in Hash, NEW new, Issued(other, new)
          PROVE  invoices'[hash].amountMsat + Fees.base <= invoices'[hash].invoiced
      <3>1. hash = other /\ invoices'[hash] = new
        BY <1>3, <2>1 DEF Issued, Typed, TypeOK
      <3> QED
        BY <1>3, <2>1, <3>1 DEF Issued
    <2>2. ASSUME NEW other \in Hash, NEW q \in Output \cup {None},
                 \/ invoices' = [invoices EXCEPT ![other].settled = TRUE]
                 \/ invoices' = [invoices EXCEPT ![other].settled = TRUE, ![other].creditedTo = q]
          PROVE  FALSE
      <3>1. invoices'[hash].use = invoices[hash].use
        BY <1>1, <2>2 DEF Typed, TypeOK, Invoice
      <3> QED
        BY <1>3, <3>1
    <2>3. ASSUME NEW other \in Hash,
                 SettleQuote(other) \/ SettleAddressPayment(other) \/ SettleAddressFee(other)
          PROVE  FALSE
      BY <2>2, <2>3 DEF SettleQuote, SettleAddressPayment, SettleAddressFee
    <2>4. ASSUME NEW timer \in timers, MeltResolves(timer)
          PROVE  FALSE
      BY <1>3, <2>2, <2>4 DEF MeltResolves, Typed, TypeOK, Timer
    <2>5. ~UNCHANGED invoices
      BY <1>3
    <2> QED
      BY <2>1, <2>3, <2>4, <2>5, InvoiceSteps
  <1> QED
    BY <1>2, <1>3 DEF InvoicesCover, Typed, TypeOK, Invoice

\* A mint winding down has sold nothing since it was set up.
NoSales ==
  On("sunset") => \A hash \in Hash : invoices[hash].use \notin {"mint", "address"}

\* And no step puts one up.
LEMMA NoSalesStep ==
  ASSUME Typed, NoSales, [Next]_vars
  PROVE  NoSales'
  <1>1. \A hash \in Hash : invoices[hash] \in Invoice
    BY DEF Typed, TypeOK
  <1> SUFFICES ASSUME On("sunset"), NEW hash \in Hash,
                      \A g \in Hash : invoices[g].use \notin {"mint", "address"},
                      invoices'[hash].use \in {"mint", "address"}
               PROVE  FALSE
    BY DEF NoSales, On
  <1>2. ASSUME NEW other \in Hash, NEW new, Issued(other, new)
        PROVE  FALSE
    BY <1>2 DEF Issued, Typed, TypeOK
  <1>3. ASSUME NEW other \in Hash, NEW q \in Output \cup {None},
               \/ invoices' = [invoices EXCEPT ![other].settled = TRUE]
               \/ invoices' = [invoices EXCEPT ![other].settled = TRUE, ![other].creditedTo = q]
        PROVE  FALSE
    BY <1>1, <1>3 DEF Typed, TypeOK, Invoice
  <1>4. ASSUME NEW other \in Hash,
               SettleQuote(other) \/ SettleAddressPayment(other) \/ SettleAddressFee(other)
        PROVE  FALSE
    BY <1>3, <1>4 DEF SettleQuote, SettleAddressPayment, SettleAddressFee
  <1>5. ASSUME NEW timer \in timers, MeltResolves(timer)
        PROVE  FALSE
    BY <1>3, <1>5 DEF MeltResolves, Typed, TypeOK, Timer
  <1> QED
    BY <1>2, <1>4, <1>5, InvoiceSteps

\* A melt in flight stays filed while its invoice is not settled.
LEMMA FiledAside ==
  ASSUME Typed, UsesKept, MeltsFiled, [Next]_vars, timers' \subseteq timers,
         \A timer \in timers' : timer.hash # None => ~invoices'[timer.hash].settled
  PROVE  MeltsFiled'
  <1> SUFFICES ASSUME NEW timer \in timers'
               PROVE  /\ On("verify") => timer.hash # None
                      /\ timer.hash # None =>
                           /\ ~invoices'[timer.hash].settled
                           /\ invoices'[timer.hash].amountMsat = notes'[timer.q].amountMsat
                           /\ \A other \in timers' : other.hash = timer.hash => other = timer
    BY DEF MeltsFiled, On
  <1>1. /\ timer \in timers /\ timer.q \in Output /\ timer.hash \in Hash \cup {None}
        /\ notes[timer.q].state # "absent"
    BY DEF Typed, TypeOK, Timer, TimersOwnPending
  <1>2. notes'[timer.q].amountMsat = notes[timer.q].amountMsat
    BY <1>1, NotesLast
  <1>3. timer.hash # None => invoices'[timer.hash].amountMsat = invoices[timer.hash].amountMsat
    <2> SUFFICES ASSUME timer.hash # None
                 PROVE  invoices'[timer.hash].amountMsat = invoices[timer.hash].amountMsat
      OBVIOUS
    <2>1. timer.hash \in Hash /\ invoices[timer.hash].use = "melt"
      BY <1>1 DEF UsesKept
    <2>2. invoices'[timer.hash] = [invoices[timer.hash] EXCEPT
            !.settled = invoices'[timer.hash].settled,
            !.creditedTo = invoices'[timer.hash].creditedTo]
      BY <2>1, UsesStep
    <2>3. invoices[timer.hash] \in Invoice
      BY <2>1 DEF Typed, TypeOK
    <2> QED
      BY <2>2, <2>3 DEF Invoice
  <1> QED
    BY <1>1, <1>2, <1>3 DEF MeltsFiled

\* A melt is filed as it starts, and its timer settles no invoice but its own.
LEMMA MeltsFiledStep ==
  ASSUME "melt" \notin Payable, Typed, UsesKept, MeltsFiled, [Next]_vars
  PROVE  MeltsFiled'
  <1>1. \A timer \in timers : timer.q \in Output /\ timer.hash \in Hash \cup {None}
                              /\ (timer.hash # None => invoices[timer.hash].use = "melt")
    BY DEF Typed, TypeOK, Timer, UsesKept
  <1>2. CASE UNCHANGED invoices /\ timers' \subseteq timers
    BY <1>2, FiledAside DEF MeltsFiled
  <1>3. ASSUME NEW r \in WithdrawRequest, NEW hash \in Hash, Melt(r, hash)
        PROVE  MeltsFiled'
    <2> DEFINE q == r.k1[1]
               filed == IF On("verify") THEN hash ELSE None
    <2>1. q \in Output /\ notes[q].state = "outstanding"
      BY <1>3, MeltNote
    <2>2. notes'[q].amountMsat = notes[q].amountMsat
      BY <2>1, NotesLast
    <2>3. timers' = timers \/ timers' = timers \cup {[q |-> q, hash |-> filed]}
      BY <1>3 DEF Melt
    <2>4. Fresh(hash) /\ \A timer \in timers : timer.hash # hash
      BY <1>1, <1>3, NoneIsNothing DEF Melt, Fresh
    <2>5. \A timer \in timers : timer.hash # None =>
             invoices'[timer.hash] = invoices[timer.hash]
      <3>1. UNCHANGED invoices \/ \E new : invoices' = [invoices EXCEPT ![hash] = new]
        BY <1>3 DEF Melt
      <3> QED
        BY <1>1, <2>4, <3>1 DEF Typed, TypeOK
    <2>6. \A timer \in timers : notes'[timer.q].amountMsat = notes[timer.q].amountMsat
      BY NotesLast DEF Typed, TypeOK, Timer, TimersOwnPending
    <2>7. On("verify") => /\ invoices'[hash].settled = FALSE
                          /\ invoices'[hash].amountMsat = notes[q].amountMsat
      BY <1>3, <2>4, MeltIssues DEF Issued, Typed, TypeOK
    <2>8. /\ On("verify") => filed = hash /\ hash # None
          /\ ~On("verify") => filed = None
      BY NoneIsNothing
    <2> HIDE DEF filed, q
    <2>9. CASE timers' = timers
      BY <2>5, <2>6, <2>9 DEF MeltsFiled, On
    <2>10. CASE timers' = timers \cup {[q |-> q, hash |-> filed]}
      <3> DEFINE mine == [q |-> q, hash |-> filed]
      <3>1. mine.q = q /\ mine.hash = filed /\ \A timer \in timers' : timer \in timers \/ timer = mine
        BY <2>10
      <3> HIDE DEF mine
      <3> SUFFICES ASSUME NEW timer \in timers'
                   PROVE  /\ On("verify") => timer.hash # None
                          /\ timer.hash # None =>
                               /\ ~invoices'[timer.hash].settled
                               /\ invoices'[timer.hash].amountMsat = notes'[timer.q].amountMsat
                               /\ \A other \in timers' : other.hash = timer.hash => other = timer
        BY DEF MeltsFiled, On
      <3>2. CASE timer = mine
        BY <2>2, <2>4, <2>7, <2>8, <3>1, <3>2
      <3>3. CASE timer \in timers
        BY <2>4, <2>5, <2>6, <2>8, <3>1, <3>3 DEF MeltsFiled
      <3> QED
        BY <3>1, <3>2, <3>3
    <2> QED
      BY <2>3, <2>9, <2>10
  <1>4. ASSUME NEW hash \in Hash, NEW new, Issued(hash, new), UNCHANGED timers
        PROVE  MeltsFiled'
    <2>1. \A timer \in timers : timer.hash # None => timer.hash # hash /\ timer.hash \in Hash
      BY <1>1, <1>4 DEF Issued, Fresh
    <2>2. \A g \in Hash : g # hash => invoices'[g] = invoices[g]
      BY <1>4 DEF Issued, Typed, TypeOK
    <2> QED
      BY <1>4, <2>1, <2>2, FiledAside DEF MeltsFiled
  <1>5. ASSUME NEW timer \in timers, MeltResolves(timer)
        PROVE  MeltsFiled'
    <2>1. timers' = timers \ {timer}
      BY <1>5 DEF MeltResolves
    <2>2. UNCHANGED invoices \/ (timer.hash # None /\ invoices' = [invoices EXCEPT ![timer.hash].settled = TRUE])
      BY <1>5 DEF MeltResolves
    <2>3. \A other \in timers' : other.hash # None =>
             other.hash # timer.hash /\ invoices'[other.hash] = invoices[other.hash]
      BY <1>1, <2>1, <2>2 DEF MeltsFiled, Typed, TypeOK
    <2> QED
      BY <2>1, <2>3, FiledAside DEF MeltsFiled
  <1>6. ASSUME NEW hash \in Hash,
               SettleQuote(hash) \/ SettleAddressPayment(hash) \/ SettleAddressFee(hash)
        PROVE  MeltsFiled'
    <2>1. invoices[hash].use # "melt" /\ UNCHANGED timers
      BY <1>6 DEF SettleQuote, SettleAddressPayment, SettleAddressFee, Reported, noteVars
    <2>2. \A g \in Hash : g # hash => invoices'[g] = invoices[g]
      BY <1>6 DEF SettleQuote, SettleAddressPayment, SettleAddressFee, Typed, TypeOK
    <2>3. \A timer \in timers : timer.hash # None => invoices'[timer.hash] = invoices[timer.hash]
      BY <1>1, <2>1, <2>2
    <2> QED
      BY <2>1, <2>3, FiledAside DEF MeltsFiled
  <1> QED
    BY <1>2, <1>3, <1>4, <1>5, <1>6, InvoiceSteps

---------------------------------------------------------------------------
(***************************************************************************)
(* The sums.                                                               *)
(***************************************************************************)
\* The abstract ledger adds up the way the mint does.
LEMMA LedgerSums ==
  ASSUME NEW f, NEW S
  PROVE  Ledger!SumFunctionOnSet(f, S) = SumFunctionOnSet(f, S)
  BY DEF SumFunctionOnSet, Ledger!SumFunctionOnSet, FoldFunctionOnSet,
         Ledger!FoldFunctionOnSet, MapThenFoldSet, Ledger!MapThenFoldSet

\* Its costs and worths are those of the notes.
LEMMA LedgerWorth ==
  /\ Ledger!Cost = Cost /\ Ledger!Cost' = Cost'
  /\ \A S : Ledger!Worth(S) = SumFunctionOnSet(Cost, S)
  /\ \A S : Ledger!Worth(S)' = SumFunctionOnSet(Cost', S)
  BY LedgerSums DEF Ledger!Worth, Ledger!Cost, Cost

\* Every cost is a natural number, and so is every sum of them.
LEMMA CostsAreAmounts ==
  ASSUME Typed
  PROVE  /\ \A q \in Output : Cost[q] = notes[q].amountMsat + Fees.base /\ Cost[q] \in Nat
         /\ \A q \in Output : notes[q].amountMsat \in Nat
         /\ \A S \in SUBSET Output : IsFiniteSet(S) /\ SumFunctionOnSet(Cost, S) \in Nat
  <1>1. \A q \in Output : notes[q].amountMsat \in Nat
    <2>1. ASSUME NEW note \in Note
          PROVE  note.amountMsat \in Nat
      <3>1. CASE note = NoNote
        BY <3>1 DEF NoNote
      <3>2. CASE note \in [state : NoteState \ {"absent"}, amountMsat : Amount]
        <4>1. note.amountMsat \in Amount
          BY <3>2
        <4> QED
          BY <4>1, AmountIsNat
      <3> QED
        BY <3>1, <3>2 DEF Note
    <2>2. \A q \in Output : notes[q] \in Note
      BY DEF Typed, TypeOK
    <2> QED
      BY <2>1, <2>2
  <1>2. Fees.base \in Nat
    BY Configuration DEF Schedule
  <1>3. \A q \in Output : Cost[q] = notes[q].amountMsat + Fees.base /\ Cost[q] \in Nat
    BY <1>1, <1>2 DEF Cost
  <1>4. \A S \in SUBSET Output : IsFiniteSet(S)
    BY KeysAreFinite, FS_Subset
  <1>5. \A S \in SUBSET Output : SumFunctionOnSet(Cost, S) \in Nat
    BY <1>3, <1>4, SumIsNat
  <1> QED
    BY <1>1, <1>3, <1>4, <1>5

\* What each note cost, as an invariant a step can be taken from.
CostsTyped == \A q \in Output : Cost[q] \in Nat
\* The same, of the state a step leads to.
LEMMA CostsNext == Typed' => CostsTyped'
  <1>1. Typed => CostsTyped
    BY CostsAreAmounts DEF CostsTyped
  <1> QED
    BY <1>1, PTL

\* What each note is worth, as one.
AmountsTyped == \A q \in Output : notes[q].amountMsat \in Nat
\* So are the amounts.
LEMMA AmountsNext == Typed' => AmountsTyped'
  <1>1. Typed => AmountsTyped
    BY CostsAreAmounts DEF AmountsTyped
  <1> QED
    BY <1>1, PTL

\* A note that is there costs what it did, and so do any such notes together.
LEMMA CostsKept ==
  ASSUME Typed, [Next]_vars, NEW S \in SUBSET Output, \A q \in S : notes[q].state # "absent"
  PROVE  /\ \A q \in S : Cost'[q] = Cost[q]
         /\ SumFunctionOnSet(Cost', S) = SumFunctionOnSet(Cost, S)
  <1>1. Typed'
    BY TypedStep
  <1>2. \A q \in Output : Cost'[q] = notes'[q].amountMsat + Fees.base
    BY DEF Cost
  <1>3. \A q \in S : Cost'[q] = Cost[q]
    BY <1>2, NotesLast, CostsAreAmounts
  <1>4. IsFiniteSet(S)
    BY CostsAreAmounts
  <1> QED
    BY <1>3, <1>4, SumOfSame

\* What was melted stays so, and nothing else is, in a step that burns the
\* notes it exchanges and no others.
LEMMA MeltedKept ==
  ASSUME Typed, [Next]_vars, (Burned \ Exchanged)' = Burned \ Exchanged
  PROVE  Melted' = Melted
  <1> DEFINE S == Burned \ Exchanged
  <1>1. S \in SUBSET Output /\ \A q \in S : notes[q].state # "absent"
    BY DEF Burned
  <1>2. SumFunctionOnSet(Cost', S) = SumFunctionOnSet(Cost, S)
    BY <1>1, CostsKept
  <1> QED
    BY <1>2 DEF Melted

\* A note melted adds its cost.
LEMMA MeltedMore ==
  ASSUME Typed, [Next]_vars, NEW q \in Output, notes[q].state # "absent",
         q \notin Burned \ Exchanged, (Burned \ Exchanged)' = (Burned \ Exchanged) \cup {q}
  PROVE  Melted' = Melted + Cost[q]
  <1> DEFINE S == Burned \ Exchanged
  <1>1. S \cup {q} \in SUBSET Output /\ \A p \in S \cup {q} : notes[p].state # "absent"
    BY DEF Burned
  <1>2. SumFunctionOnSet(Cost', S \cup {q}) = SumFunctionOnSet(Cost, S \cup {q})
    BY <1>1, CostsKept
  <1>3. /\ IsFiniteSet(S) /\ SumFunctionOnSet(Cost, S) \in Nat /\ Cost[q] \in Nat
        /\ \A p \in S \cup {q} : Cost[p] \in Int
        /\ q \notin S
    BY <1>1, CostsAreAmounts
  <1>4. SumFunctionOnSet(Cost, S \cup {q}) = Cost[q] + SumFunctionOnSet(Cost, S)
    <2> HIDE DEF S
    <2> QED
      BY <1>3, SumWith
  <1>5. Melted = SumFunctionOnSet(Cost, S) /\ Melted' = SumFunctionOnSet(Cost', S \cup {q})
    BY DEF Melted
  <1> HIDE DEF S
  <1> QED
    BY <1>2, <1>3, <1>4, <1>5

\* What the fixture credited is worth a number.
LEMMA GiftsAreNat ==
  SumFunctionOnSet([q \in Output |-> Funded[q] + Fees.base], {q \in Output : Funded[q] > 0}) \in Nat
  <1> DEFINE f == [q \in Output |-> Funded[q] + Fees.base]
             S == {q \in Output : Funded[q] > 0}
  <1>1. \A q \in S : f[q] \in Nat
    BY Configuration DEF Schedule
  <1>2. IsFiniteSet(S)
    BY KeysAreFinite, FS_Subset
  <1> HIDE DEF f, S
  <1>3. SumFunctionOnSet(f, S) \in Nat
    BY <1>1, <1>2, SumIsNat
  <1> QED
    BY <1>3 DEF f, S

\* Both parts of the reserve are numbers.
LEMMA ReserveIsInt ==
  ASSUME Typed
  PROVE  Received \in Nat /\ Melted \in Nat
  <1>1. SumFunctionOnSet([hash \in Hash |-> invoices[hash].invoiced], Bought) \in Nat
    <2> DEFINE f == [hash \in Hash |-> invoices[hash].invoiced]
    <2>1. \A hash \in Bought : f[hash] \in Nat
      BY DEF Typed, TypeOK, Invoice, Bought
    <2>2. IsFiniteSet(Bought)
      BY KeysAreFinite, FS_Subset DEF Bought
    <2> HIDE DEF f
    <2>3. SumFunctionOnSet(f, Bought) \in Nat
      BY <2>1, <2>2, SumIsNat
    <2> QED
      BY <2>3 DEF f
  <1>2. Melted \in Nat
    BY CostsAreAmounts DEF Melted, Burned
  <1> QED
    BY <1>1, <1>2, GiftsAreNat DEF Received

\* And what the mint took in and paid out.
ReserveTyped == Received \in Nat /\ Melted \in Nat
\* And stay so.
LEMMA ReserveNext == Typed' => ReserveTyped'
  <1>1. Typed => ReserveTyped
    BY ReserveIsInt DEF ReserveTyped
  <1> QED
    BY <1>1, PTL

\* A payment already counted is counted the same: an invoice asks for what it
\* asked.
LEMMA InvoicedKept ==
  ASSUME Typed, UsesKept, [Next]_vars
  PROVE  \A hash \in Bought : invoices'[hash].invoiced = invoices[hash].invoiced
  <1> TAKE hash \in Bought
  <1>1. hash \in Hash /\ invoices[hash].use # "none" /\ invoices[hash] \in Invoice
    BY DEF Bought, Credited, Typed, TypeOK
  <1>2. invoices'[hash] = [invoices[hash] EXCEPT
          !.settled = invoices'[hash].settled, !.creditedTo = invoices'[hash].creditedTo]
    BY <1>1, UsesStep
  <1> QED
    BY <1>1, <1>2 DEF Invoice

\* A step that buys nothing leaves what was received.
LEMMA ReceivedKept ==
  ASSUME Typed, UsesKept, [Next]_vars, Bought' = Bought
  PROVE  Received' = Received
  <1> DEFINE f == [hash \in Hash |-> invoices[hash].invoiced]
             g == [hash \in Hash |-> invoices'[hash].invoiced]
             gifts == SumFunctionOnSet([q \in Output |-> Funded[q] + Fees.base],
                                       {q \in Output : Funded[q] > 0})
  <1>1. Bought \subseteq Hash /\ IsFiniteSet(Bought)
    BY KeysAreFinite, FS_Subset DEF Bought
  <1>2. \A hash \in Bought : g[hash] = f[hash]
    BY <1>1, InvoicedKept
  <1>3. Received = SumFunctionOnSet(f, Bought) + gifts
    BY DEF Received
  <1>4. Received' = SumFunctionOnSet(g, Bought) + gifts
    BY DEF Received
  <1> HIDE DEF f, g, gifts
  <1>5. SumFunctionOnSet(g, Bought) = SumFunctionOnSet(f, Bought)
    BY <1>1, <1>2, SumOfSame
  <1> QED
    BY <1>3, <1>4, <1>5

\* A payment that buys a note adds what its invoice asked for.
LEMMA ReceivedMore ==
  ASSUME Typed, UsesKept, [Next]_vars, NEW hash \in Hash, hash \notin Bought,
         Bought' = Bought \cup {hash}, invoices'[hash].invoiced = invoices[hash].invoiced
  PROVE  Received' = Received + invoices[hash].invoiced
  <1> DEFINE f == [h \in Hash |-> invoices[h].invoiced]
             g == [h \in Hash |-> invoices'[h].invoiced]
             gifts == SumFunctionOnSet([q \in Output |-> Funded[q] + Fees.base],
                                       {q \in Output : Funded[q] > 0})
             all == Bought \cup {hash}
  <1>1. Bought \subseteq Hash /\ IsFiniteSet(Bought) /\ IsFiniteSet(all)
    BY KeysAreFinite, FS_Subset DEF Bought
  <1>2. \A h \in all : g[h] = f[h] /\ f[h] \in Int
    BY <1>1, InvoicedKept DEF Typed, TypeOK, Invoice
  <1>3. Received = SumFunctionOnSet(f, Bought) + gifts
    BY DEF Received
  <1>4. Received' = SumFunctionOnSet(g, all) + gifts
    BY DEF Received
  <1>5. f[hash] = invoices[hash].invoiced
    OBVIOUS
  <1>6. SumFunctionOnSet([q \in Output |-> Funded[q] + Fees.base], {q \in Output : Funded[q] > 0}) \in Nat
    BY GiftsAreNat
  <1> HIDE DEF f, g
  <1>7. SumFunctionOnSet(g, all) = SumFunctionOnSet(f, all)
    <2> HIDE DEF all
    <2> QED
      BY <1>1, <1>2, SumOfSame
  <1>8. SumFunctionOnSet(f, all) = f[hash] + SumFunctionOnSet(f, Bought)
    BY <1>1, <1>2, SumWith
  <1>9. SumFunctionOnSet(f, Bought) \in Int /\ f[hash] \in Int /\ gifts \in Int
    BY <1>1, <1>2, <1>6, SumIsInt
  <1> HIDE DEF all, gifts
  <1> QED
    BY <1>3, <1>4, <1>5, <1>7, <1>8, <1>9

---------------------------------------------------------------------------
(***************************************************************************)
(* What is exchanged, melted and bought by a step.                         *)
(***************************************************************************)
\* A request that is well formed names a note.
LEMMA InputsGiven ==
  ASSUME NEW r \in WithdrawRequest, WellFormed(r)
  PROVE  /\ inputs(r) # {} /\ 1 \in DOMAIN r.k1
         /\ Len(r.k1) \in Nat \ {0} /\ DOMAIN r.k1 = 1 .. Len(r.k1)
  <1>1. r.k1 \in Seq(Output) /\ r.k1 # << >>
    BY RequestTyped DEF WellFormed
  <1>2. Len(r.k1) \in Nat \ {0} /\ DOMAIN r.k1 = 1 .. Len(r.k1)
    BY <1>1
  <1>3. 1 \in DOMAIN r.k1
    BY <1>2
  <1> QED
    BY <1>2, <1>3 DEF inputs

\* An exchange melts nothing: what it burns was not burned, and is recorded
\* as exchanged.
LEMMA ExchangeMeltsNothing ==
  ASSUME Typed, NoDoubleSpend, [Next]_vars, NEW r \in WithdrawRequest, NEW certificates,
         Swapped(r, certificates)
  PROVE  (Burned \ Exchanged)' = Burned \ Exchanged
  <1> DEFINE new == [identity |-> swapIdentity(r), outputs |-> certificates]
  <1>1. \A q \in inputs(r) : q \in Output /\ notes[q].state = "outstanding"
    BY DEF Swapped, Live
  <1>2. inputs(r) # {} /\ new.identity.inputs = inputs(r)
    <2>1. new.identity.inputs = inputs(r)
      BY DEF swapIdentity
    <2> QED
      BY <2>1, InputsGiven DEF Swapped, Live, Fundable
  <1>3. \A s \in swaps : s.identity # swapIdentity(r)
    BY <1>1, <1>2 DEF NoDoubleSpend, swapIdentity
  <1>4. swaps' = swaps \cup {new}
    BY <1>3 DEF Swapped, Exchange
  <1>5. Exchanged' = Exchanged \cup inputs(r)
    BY <1>2, <1>4 DEF Exchanged
  <1>6. Burned' = Burned \cup inputs(r)
    <2>1. \A q \in inputs(r) : notes'[q].state = "burned"
      BY <1>1 DEF Swapped, Exchange, Typed, TypeOK, Note, NoNote
    <2>2. \A q \in Output \ inputs(r) : notes'[q].state = "burned" <=> notes[q].state = "burned"
      BY DEF Swapped, Exchange, Minted, outputInUse
    <2> QED
      BY <1>1, <2>1, <2>2 DEF Burned
  <1>7. Burned \cap inputs(r) = {}
    BY <1>1 DEF Burned
  <1> QED
    BY <1>5, <1>6, <1>7

\* Issuing an invoice buys nothing, nor does settling one that sold no note.
LEMMA BoughtKept ==
  ASSUME Typed, CreditedNotesExist,
         \/ UNCHANGED invoices
         \/ \E hash \in Hash : \E new : Issued(hash, new)
         \/ \E hash \in Hash : /\ invoices[hash].use # "mint" /\ ~invoices[hash].settled
                               /\ invoices' = [invoices EXCEPT ![hash].settled = TRUE]
  PROVE  Bought' = Bought
  <1> SUFFICES \A g \in Hash : Credited(g)' = Credited(g)
    BY DEF Bought
  <1>1. CASE UNCHANGED invoices
    BY <1>1, CreditedKept
  <1>2. ASSUME NEW hash \in Hash, NEW new, Issued(hash, new)
        PROVE  \A g \in Hash : Credited(g)' = Credited(g)
    <2>1. \A g \in Hash \ {hash} : invoices'[g] = invoices[g]
      BY <1>2 DEF Issued
    <2>2. invoices'[hash] = new /\ ~new.settled /\ invoices[hash].use = "none"
      BY <1>2 DEF Issued, Fresh, Typed, TypeOK
    <2>3. Credited(hash)' = {} /\ Credited(hash) = {}
      BY <2>2 DEF Credited
    <2> QED
      BY <2>1, <2>3, CreditedKept
  <1>3. ASSUME NEW hash \in Hash, invoices[hash].use # "mint", ~invoices[hash].settled,
               invoices' = [invoices EXCEPT ![hash].settled = TRUE]
        PROVE  \A g \in Hash : Credited(g)' = Credited(g)
    <2>1. \A g \in Hash \ {hash} : invoices'[g] = invoices[g]
      BY <1>3 DEF Typed, TypeOK
    <2>2. /\ invoices'[hash].use = invoices[hash].use
          /\ invoices'[hash].creditedTo = None
      BY <1>3 DEF CreditedNotesExist, Typed, TypeOK, Invoice
    <2>3. Credited(hash)' = {} /\ Credited(hash) = {}
      BY <1>3, <2>2 DEF Credited
    <2> QED
      BY <2>1, <2>3, CreditedKept
  <1> QED
    BY <1>1, <1>2, <1>3

\* A payment that credits a note buys it.
LEMMA BoughtMore ==
  ASSUME Typed, NEW hash \in Hash, ~invoices[hash].settled, Credited(hash)' # {},
         \A g \in Hash \ {hash} : invoices'[g] = invoices[g]
  PROVE  hash \notin Bought /\ Bought' = Bought \cup {hash}
  <1>1. Credited(hash) = {}
    BY DEF Credited
  <1>2. \A g \in Hash \ {hash} : Credited(g)' = Credited(g)
    BY CreditedKept
  <1> QED
    BY <1>1, <1>2 DEF Bought

---------------------------------------------------------------------------
(***************************************************************************)
(* The steps of the abstract ledger.                                       *)
(***************************************************************************)
\* The notes of a request cost their total and a melt fee for each.
LEMMA InputsWorth ==
  ASSUME Typed, NEW r \in WithdrawRequest, WellFormed(r)
  PROVE  /\ total(r) \in Nat
         /\ SumFunctionOnSet(Cost, inputs(r)) = total(r) + Len(r.k1) * Fees.base
  <1> DEFINE D == DOMAIN r.k1
             listed == [i \in D |-> Cost[r.k1[i]]]
             amounts == [i \in D |-> notes[r.k1[i]].amountMsat]
  <1>1. /\ Len(r.k1) \in Nat \ {0} /\ D = 1 .. Len(r.k1)
        /\ \A i \in D : r.k1[i] \in Output
    BY InputsGiven, RequestTyped
  <1>2. IsFiniteSet(D) /\ Cardinality(D) = Len(r.k1)
    BY <1>1, FS_Interval
  <1>3. \A i, j \in D : r.k1[i] = r.k1[j] => i = j
    BY DEF WellFormed, IsInjective
  <1>4. \A i \in D : Cost[r.k1[i]] \in Int
    BY <1>1, CostsAreAmounts
  <1>5. SumFunctionOnSet(listed, D) = SumFunctionOnSet(Cost, {r.k1[i] : i \in D})
    <2> HIDE DEF D
    <2> QED
      BY <1>2, <1>3, <1>4, SumOfRenamed
  <1>6. Fees.base \in Int
    BY Configuration DEF Schedule
  <1>7. \A i \in D : amounts[i] \in Nat /\ listed[i] = amounts[i] + Fees.base
    BY <1>1, CostsAreAmounts
  <1>8. total(r) = SumFunctionOnSet(amounts, D)
    BY DEF total, SumFunction
  <1> HIDE DEF listed, amounts, D
  <1>9. SumFunctionOnSet(amounts, D) \in Nat
    BY <1>2, <1>7, SumIsNat
  <1>10. SumFunctionOnSet(listed, D) = SumFunctionOnSet(amounts, D) + Cardinality(D) * Fees.base
    BY <1>2, <1>6, <1>7, SumOfShifted
  <1>11. inputs(r) = {r.k1[i] : i \in D}
    BY DEF inputs, D
  <1> QED
    BY <1>2, <1>5, <1>8, <1>9, <1>10, <1>11

\* An exchange leaves exactly its inputs burned and its outputs outstanding.
LEMMA ExchangeMoves ==
  ASSUME Typed, NEW r \in WithdrawRequest, NEW certificates, Swapped(r, certificates)
  PROVE  /\ \A q \in inputs(r) : q \in Output /\ notes[q].state = "outstanding"
                                 /\ notes'[q] = [notes[q] EXCEPT !.state = "burned"]
         /\ \A cert \in certificates :
              /\ cert.q \in Output /\ notes[cert.q].state = "absent" /\ cert.q \notin inputs(r)
              /\ notes'[cert.q] = Minted(cert.amountMsat)
         /\ \A q \in Output : q \notin inputs(r) /\ (\A cert \in certificates : cert.q # q)
                                => notes'[q] = notes[q]
  <1>1. \A q \in inputs(r) : q \in Output /\ notes[q].state = "outstanding"
    BY DEF Swapped, Live
  <1>2. notes' = [q \in Output |->
                IF q \in inputs(r) THEN [notes[q] EXCEPT !.state = "burned"]
                ELSE IF \E cert \in certificates : cert.q = q
                     THEN Minted((CHOOSE cert \in certificates : cert.q = q).amountMsat)
                     ELSE notes[q]]
    BY DEF Swapped, Exchange
  <1>3. \A cert \in certificates :
          cert.q \in Output /\ notes[cert.q].state = "absent" /\ cert.q \notin inputs(r)
    BY <1>1 DEF Swapped, Certificate, outputInUse
  <1>4. \A cert \in certificates : notes'[cert.q] = Minted(cert.amountMsat)
    <2> TAKE cert \in certificates
    <2>1. (CHOOSE other \in certificates : other.q = cert.q) = cert
      BY DEF Swapped
    <2> QED
      BY <1>2, <1>3, <2>1
  <1> QED
    BY <1>1, <1>2, <1>3, <1>4

\* The notes a split certifies cost a melt fee more than its total less the
\* fee of the second note; the note of a merge costs what its inputs did.
LEMMA CertifiedCosts ==
  ASSUME Typed, NEW r \in WithdrawRequest, Split(r) \/ Merge(r)
  PROVE  SumFunctionOnSet(Cost', {cert.q : cert \in Certified(r)})
           <= SumFunctionOnSet(Cost, inputs(r))
  <1>1. Swapped(r, Certified(r)) /\ WellFormed(r) /\ Live(r) /\ ~r.pr
    BY SplitSwaps, MergeSwaps DEF Split, Merge, Live, Fundable
  <1>2. total(r) \in Nat /\ Fees.base \in Nat /\ Len(r.k1) \in Nat \ {0}
    BY <1>1, InputsWorth, InputsGiven, Configuration DEF Schedule
  <1>3. \A cert \in Certified(r) : cert.q \in Output /\ Cost'[cert.q] = cert.amountMsat + Fees.base
    <2> TAKE cert \in Certified(r)
    <2>1. cert.q \in Output /\ notes'[cert.q] = Minted(cert.amountMsat)
      BY <1>1, ExchangeMoves
    <2>2. notes'[cert.q].amountMsat = cert.amountMsat
      BY <2>1 DEF Minted
    <2> QED
      BY <2>1, <2>2 DEF Cost
  <1> DEFINE whole == Len(r.k1) * Fees.base
             rest == (Len(r.k1) - 1) * Fees.base
             spent == SumFunctionOnSet(Cost, inputs(r))
             made == SumFunctionOnSet(Cost', {cert.q : cert \in Certified(r)})
  <1>4. whole = rest + Fees.base /\ rest \in Nat
    <2>1. \A n \in Nat \ {0} : n * Fees.base = (n - 1) * Fees.base + Fees.base
                               /\ (n - 1) * Fees.base \in Nat
      BY <1>2
    <2> QED
      BY <1>2, <2>1
  <1>5. spent = total(r) + whole
    BY <1>1, InputsWorth
  <1> SUFFICES made <= spent
    OBVIOUS
  <1>6. CASE Merge(r)
    <2> DEFINE p == r.p1
    <2>1. Certified(r) = {[q |-> p, amountMsat |-> total(r) + refund(r)]}
      BY <1>6 DEF Merge, Certified
    <2>2. Cost'[p] = total(r) + refund(r) + Fees.base /\ {cert.q : cert \in Certified(r)} = {p}
      BY <1>3, <2>1
    <2>3. refund(r) = (Len(r.k1) - 1) * Fees.base
      BY DEF refund
    <2> HIDE DEF p, whole, rest
    <2>4. Cost'[p] = total(r) + rest + Fees.base /\ Cost'[p] \in Int
      BY <1>2, <1>4, <2>2, <2>3 DEF rest
    <2>5. SumFunctionOnSet(Cost', {p}) = Cost'[p] + SumFunctionOnSet(Cost', {})
      BY <2>4, SumWith, FS_EmptySet
    <2>6. SumFunctionOnSet(Cost', {p}) = Cost'[p]
      BY <2>4, <2>5, SumOfNone
    <2>7. made = Cost'[p]
      BY <2>2, <2>6
    <2> HIDE DEF made, spent
    <2> QED
      BY <1>2, <1>4, <1>5, <2>4, <2>7
  <1>7. CASE Split(r)
    <2> DEFINE p == r.p1
               o == r.p2
    <2>1. splits(r) /\ OutputsFree(r) /\ r.amount \in SafeInteger /\ out2(r) = r.p2
      BY <1>7 DEF Split, splits, out2
    <2>2. Certified(r) = {[q |-> p, amountMsat |-> r.amount], [q |-> o, amountMsat |-> change(r)]}
      BY <2>1 DEF Certified
    <2>3. /\ Cost'[p] = r.amount + Fees.base /\ Cost'[o] = change(r) + Fees.base
          /\ {cert.q : cert \in Certified(r)} = {p, o} /\ p # o
      BY <1>3, <2>1, <2>2 DEF OutputsFree
    <2>4. change(r) = total(r) - r.amount - Fees.base /\ r.amount \in Int
      BY <2>1, Configuration DEF change, SafeInteger
    <2> HIDE DEF p, o, whole, rest
    <2>5. Cost'[p] \in Int /\ Cost'[o] \in Int
      BY <1>2, <2>3, <2>4
    <2>6. IsFiniteSet({o}) /\ p \notin {o} /\ o \notin {} /\ {o} \cup {p} = {p, o} /\ {} \cup {o} = {o}
      BY <2>3, FS_Singleton
    <2>7. SumFunctionOnSet(Cost', {p, o}) = Cost'[p] + SumFunctionOnSet(Cost', {o})
      BY <2>5, <2>6, SumWith
    <2>8. SumFunctionOnSet(Cost', {o}) = Cost'[o] + SumFunctionOnSet(Cost', {})
      BY <2>5, <2>6, SumWith, FS_EmptySet
    <2>9. SumFunctionOnSet(Cost', {p, o}) = Cost'[p] + Cost'[o]
      BY <2>5, <2>7, <2>8, SumOfNone
    <2>10. made = Cost'[p] + Cost'[o]
      BY <2>3, <2>9
    <2>11. Cost'[p] + Cost'[o] = total(r) + Fees.base
      BY <1>2, <2>3, <2>4
    <2> HIDE DEF made, spent
    <2> QED
      BY <1>2, <1>4, <1>5, <2>10, <2>11
  <1> QED
    BY <1>6, <1>7

\* What the steps of the ledger are read against: everything IInv, and the
\* two conjuncts beside it, say that they need.
BooksKept == UsesKept /\ Claims /\ Credits /\ Exchanges /\ InvoicesCover

\* A step that buys nothing and melts nothing leaves the reserve.
LEMMA ReserveKept ==
  ASSUME Typed, BooksKept, [Next]_vars, Bought' = Bought,
         (Burned \ Exchanged)' = Burned \ Exchanged
  PROVE  UNCHANGED (Received - Melted)
  BY ReceivedKept, MeltedKept DEF BooksKept

\* A split, a rotate and a merge are swaps of the ledger.
LEMMA ExchangeSwaps ==
  ASSUME Typed, BooksKept, [Next]_vars, NEW r \in WithdrawRequest, Split(r) \/ Merge(r)
  PROVE  Ledger!Next
  <1> DEFINE minted == {cert.q : cert \in Certified(r)}
  <1>1. Swapped(r, Certified(r)) /\ WellFormed(r)
    BY SplitSwaps, MergeSwaps DEF Split, Merge, Live, Fundable
  <1>2. UNCHANGED (Received - Melted)
    <2>1. Bought' = Bought
      BY <1>1, BoughtKept DEF Swapped, Exchange, quoteVars, BooksKept, Credits
    <2>2. (Burned \ Exchanged)' = Burned \ Exchanged
      BY <1>1, ExchangeMeltsNothing DEF BooksKept, Exchanges
    <2> QED
      BY <2>1, <2>2, ReserveKept
  <1>3. inputs(r) # {} /\ inputs(r) \subseteq Ledger!In("outstanding")
    BY <1>1, InputsGiven, ExchangeMoves DEF Ledger!In
  <1>4. minted # {} /\ minted \subseteq Ledger!In("absent")
    <2>1. Certified(r) # {}
      BY DEF Certified
    <2> QED
      BY <1>1, <2>1, ExchangeMoves DEF Ledger!In
  <1>5. \A q \in Output :
          IF q \in inputs(r) THEN notes'[q] = [notes[q] EXCEPT !.state = "burned"]
          ELSE IF q \in minted THEN notes'[q].state = "outstanding"
          ELSE notes'[q] = notes[q]
    <2>1. \A q \in minted : notes'[q].state = "outstanding"
      <3>1. \A cert \in Certified(r) : notes'[cert.q] = Minted(cert.amountMsat)
        BY <1>1, ExchangeMoves
      <3>2. \A n : Minted(n).state = "outstanding"
        BY DEF Minted
      <3>3. \A cert \in Certified(r) : notes'[cert.q].state = "outstanding"
        BY <3>1, <3>2
      <3> QED
        BY <3>3
    <2>2. \A q \in Output : q \notin inputs(r) /\ q \notin minted => notes'[q] = notes[q]
      BY <1>1, ExchangeMoves
    <2>3. \A q \in inputs(r) : notes'[q] = [notes[q] EXCEPT !.state = "burned"]
      BY <1>1, ExchangeMoves
    <2> HIDE DEF minted
    <2> QED
      BY <2>1, <2>2, <2>3
  <1>6. Ledger!SumFunctionOnSet(Ledger!Cost', minted) <= Ledger!Worth(inputs(r))
    <2>1. Ledger!SumFunctionOnSet(Ledger!Cost', minted) = SumFunctionOnSet(Cost', minted)
      BY LedgerSums, LedgerWorth
    <2>2. Ledger!Worth(inputs(r)) = SumFunctionOnSet(Cost, inputs(r))
      BY LedgerWorth
    <2> QED
      BY <2>1, <2>2, CertifiedCosts
  <1> HIDE DEF minted
  <1>7. Ledger!Swap(inputs(r), minted)
    BY <1>2, <1>3, <1>4, <1>5, <1>6 DEF Ledger!Swap
  <1>8. inputs(r) \in SUBSET Output /\ minted \in SUBSET Output
    BY <1>3, <1>4 DEF Ledger!In
  <1> QED
    BY <1>7, <1>8 DEF Ledger!Next

\* A melt holds its note and pays nothing yet.
LEMMA MeltHolds ==
  ASSUME Typed, BooksKept, [Next]_vars, NEW r \in WithdrawRequest, NEW hash \in Hash,
         Melt(r, hash)
  PROVE  Ledger!Next
  <1> DEFINE q == r.k1[1]
  <1>1. q \in Output /\ notes[q].state = "outstanding"
    BY MeltNote
  <1>2. notes' = Moved(notes, {q}, "pending") /\ UNCHANGED swaps
    BY DEF Melt
  <1>3. notes' = [p \in Output |-> IF p \in {q} THEN [notes[p] EXCEPT !.state = "pending"]
                                               ELSE notes[p]]
    BY <1>2 DEF Moved
  <1> HIDE DEF q
  <1>4. (Burned \ Exchanged)' = Burned \ Exchanged
    <2>1. \A p \in Output : notes'[p].state = "burned" <=> notes[p].state = "burned"
      BY <1>1, <1>3 DEF Typed, TypeOK, Note, NoNote
    <2> QED
      BY <1>2, <2>1 DEF Burned, Exchanged
  <1>5. Bought' = Bought
    <2>1. UNCHANGED invoices \/ \E new : Issued(hash, new)
      BY MeltIssues
    <2> QED
      BY <2>1, BoughtKept DEF BooksKept, Credits
  <1>6. UNCHANGED (Received - Melted)
    BY <1>4, <1>5, ReserveKept
  <1>7. Ledger!Hold(q)
    BY <1>1, <1>3, <1>6 DEF Ledger!Hold, Ledger!Become
  <1> QED
    BY <1>1, <1>7 DEF Ledger!Next

\* A timer melts its note, and no other, if the payment was made.
LEMMA TimerMelts ==
  ASSUME Typed, NoDoubleSpend, [Next]_vars, NEW timer \in timers, MeltResolves(timer)
  PROVE  /\ timer.q \in Output /\ notes[timer.q].state = "pending"
         /\ notes' = [p \in Output |->
                       IF p \in {timer.q} THEN [notes[p] EXCEPT !.state = MeltOutcome]
                                          ELSE notes[p]]
         /\ MeltOutcome = "outstanding" => (Burned \ Exchanged)' = Burned \ Exchanged
         /\ MeltOutcome = "burned" => Melted' = Melted + Cost[timer.q]
  <1> DEFINE q == timer.q
  <1>1. q \in Output /\ notes[q].state = "pending"
    BY DEF Typed, TypeOK, Timer, TimersOwnPending
  <1>2. notes' = Moved(notes, {q}, MeltOutcome) /\ UNCHANGED swaps
    BY DEF MeltResolves
  <1>3. notes' = [p \in Output |-> IF p \in {q} THEN [notes[p] EXCEPT !.state = MeltOutcome]
                                               ELSE notes[p]]
    BY <1>2 DEF Moved
  <1>4. notes'[q].state = MeltOutcome
    BY <1>1, <1>3 DEF Typed, TypeOK, Note, NoNote
  <1> HIDE DEF q
  <1>5. CASE MeltOutcome = "outstanding"
    <2>1. \A p \in Output : notes'[p].state = "burned" <=> notes[p].state = "burned"
      BY <1>1, <1>3, <1>4, <1>5
    <2>2. (Burned \ Exchanged)' = Burned \ Exchanged
      BY <1>2, <2>1 DEF Burned, Exchanged
    <2> QED
      BY <1>1, <1>3, <1>5, <2>2 DEF q
  <1>6. CASE MeltOutcome = "burned"
    <2>1. q \notin Exchanged /\ q \notin Burned
      BY <1>1 DEF NoDoubleSpend, Exchanged, Burned
    <2>2. \A p \in Output : notes'[p].state = "burned" <=> notes[p].state = "burned" \/ p = q
      BY <1>1, <1>3, <1>4, <1>6
    <2>3. (Burned \ Exchanged)' = (Burned \ Exchanged) \cup {q}
      BY <1>1, <1>2, <2>1, <2>2 DEF Burned, Exchanged
    <2>4. Melted' = Melted + Cost[q]
      BY <1>1, <2>1, <2>3, MeltedMore
    <2> QED
      BY <1>1, <1>3, <1>6, <2>4 DEF q
  <1> QED
    BY <1>5, <1>6 DEF MeltOutcome

\* It gives the note back, or pays its cost out of the reserve.
LEMMA ResolveSettles ==
  ASSUME Typed, BooksKept, [Next]_vars, NEW timer \in timers, MeltResolves(timer)
  PROVE  Ledger!Next
  <1> DEFINE q == timer.q
  <1>1. /\ q \in Output /\ notes[q].state = "pending"
        /\ notes' = [p \in Output |-> IF p \in {q} THEN [notes[p] EXCEPT !.state = MeltOutcome]
                                                  ELSE notes[p]]
        /\ MeltOutcome = "outstanding" => (Burned \ Exchanged)' = Burned \ Exchanged
        /\ MeltOutcome = "burned" => Melted' = Melted + Cost[q]
    BY TimerMelts DEF BooksKept, Exchanges
  <1>2. timer.hash \in Hash \cup {None}
    BY DEF Typed, TypeOK, Timer
  <1> HIDE DEF q
  <1>3. Bought' = Bought
    <2>1. CASE UNCHANGED invoices
      BY <2>1, BoughtKept DEF BooksKept, Credits
    <2>2. CASE timer.hash # None /\ invoices' = [invoices EXCEPT ![timer.hash].settled = TRUE]
      <3>1. timer.hash \in Hash /\ invoices[timer.hash].use = "melt"
        BY <1>2, <2>2 DEF BooksKept, UsesKept
      <3>2. CASE invoices[timer.hash].settled
        <4>1. invoices[timer.hash] \in Invoice /\ invoices \in [Hash -> Invoice]
          BY <3>1 DEF Typed, TypeOK
        <4>2. UNCHANGED invoices
          BY <2>2, <3>1, <3>2, <4>1 DEF Invoice
        <4> QED
          BY <2>1, <4>2
      <3>3. CASE ~invoices[timer.hash].settled
        BY <2>2, <3>1, <3>3, BoughtKept DEF BooksKept, Credits
      <3> QED
        BY <3>2, <3>3
    <2> QED
      BY <2>1, <2>2 DEF MeltResolves
  <1>4. CASE MeltOutcome = "outstanding"
    <2>1. UNCHANGED (Received - Melted)
      BY <1>1, <1>3, <1>4, ReserveKept
    <2>2. Ledger!Restore(q)
      BY <1>1, <1>4, <2>1 DEF Ledger!Restore, Ledger!Become
    <2> QED
      BY <1>1, <2>2 DEF Ledger!Next
  <1>5. CASE MeltOutcome = "burned"
    <2>1. Received' = Received
      BY <1>3, ReceivedKept DEF BooksKept
    <2>2. Cost[q] = notes[q].amountMsat + Fees.base /\ notes[q].amountMsat \in Nat /\ Fees.base \in Nat
      BY <1>1, CostsAreAmounts, Configuration DEF Schedule
    <2>3. (Received - Melted)' = Received - Melted - notes[q].amountMsat - Fees.base
      BY <1>1, <1>5, <2>1, <2>2, ReserveIsInt
    <2>4. Ledger!Redeem(q)
      BY <1>1, <1>5, <2>3 DEF Ledger!Redeem, Ledger!Become
    <2> QED
      BY <1>1, <2>4 DEF Ledger!Next
  <1> QED
    BY <1>4, <1>5 DEF MeltOutcome

\* A payment that mints a note brings in what it costs, and a little more.
LEMMA PaymentDeposits ==
  ASSUME Typed, BooksKept, [Next]_vars, NEW hash \in Hash, NEW q \in Output,
         invoices[hash].use \in {"mint", "address"}, ~invoices[hash].settled,
         \A g \in Hash \ {hash} : invoices'[g] = invoices[g],
         Credited(hash)' # {}, invoices'[hash].invoiced = invoices[hash].invoiced,
         notes[q].state = "absent", UNCHANGED swaps,
         notes' = [notes EXCEPT ![q] = Minted(invoices[hash].amountMsat)]
  PROVE  Ledger!Deposit(q)
  <1>1. hash \notin Bought /\ Bought' = Bought \cup {hash}
    BY BoughtMore
  <1>2. Received' = Received + invoices[hash].invoiced
    BY <1>1, ReceivedMore DEF BooksKept
  <1>3. /\ notes'[q] = Minted(invoices[hash].amountMsat)
        /\ \A p \in Output \ {q} : notes'[p] = notes[p]
    BY DEF Typed, TypeOK
  <1>4. Melted' = Melted
    <2>1. \A p \in Output : notes'[p].state = "burned" <=> notes[p].state = "burned"
      BY <1>3 DEF Minted
    <2>2. (Burned \ Exchanged)' = Burned \ Exchanged
      BY <2>1 DEF Burned, Exchanged
    <2> QED
      BY <2>2, MeltedKept
  <1>5. notes'[q].state = "outstanding" /\ notes'[q].amountMsat = invoices[hash].amountMsat
    BY <1>3 DEF Minted
  <1>6. /\ invoices[hash].invoiced \in Nat /\ invoices[hash].amountMsat \in Nat /\ Fees.base \in Nat
        /\ invoices[hash].amountMsat + Fees.base <= invoices[hash].invoiced
    BY Configuration DEF BooksKept, InvoicesCover, Typed, TypeOK, Invoice, Schedule
  <1>7. (Received - Melted)' >= Received - Melted + notes'[q].amountMsat + Fees.base
    BY <1>2, <1>4, <1>5, <1>6, ReserveIsInt
  <1> QED
    BY <1>3, <1>5, <1>7 DEF Ledger!Deposit

\* The payment of a quote is a deposit of the note it reserved.
LEMMA QuoteDeposits ==
  ASSUME "melt" \notin Payable, Typed, BooksKept, [Next]_vars, NEW hash \in Hash,
         SettleQuote(hash)
  PROVE  Ledger!Next
  <1> DEFINE q == target(hash)
  <1>1. invoices[hash].use = "mint" /\ ~invoices[hash].settled
    BY DEF SettleQuote, Reported
  <1>2. q \in Output /\ notes[q].state = "absent"
    BY <1>1, TargetIsOutput DEF BooksKept, Claims, QuoteReserved, OpenQuote
  <1>3. /\ invoices' = [invoices EXCEPT ![hash].settled = TRUE] /\ UNCHANGED swaps
        /\ invoices \in [Hash -> Invoice]
    BY DEF SettleQuote, Typed, TypeOK
  <1>4. /\ \A g \in Hash \ {hash} : invoices'[g] = invoices[g]
        /\ invoices'[hash].invoiced = invoices[hash].invoiced
        /\ invoices'[hash].settled /\ invoices'[hash].use = "mint"
    BY <1>1, <1>3 DEF Invoice
  <1>5. Credited(hash)' # {}
    BY <1>4 DEF Credited
  <1>6. notes' = [p \in Output |-> IF p = q THEN Minted(invoices[hash].amountMsat) ELSE notes[p]]
    <2>1. notes' = [p \in Output |-> IF p = q /\ notes[p].state = "absent"
                                     THEN Minted(invoices[hash].amountMsat) ELSE notes[p]]
      BY DEF SettleQuote
    <2> HIDE DEF q
    <2> QED
      BY <1>2, <2>1
  <1> HIDE DEF q
  <1>7. notes' = [notes EXCEPT ![q] = Minted(invoices[hash].amountMsat)]
    BY <1>2, <1>6 DEF Typed, TypeOK
  <1>8. Ledger!Deposit(q)
    BY <1>1, <1>2, <1>3, <1>4, <1>5, <1>7, PaymentDeposits
  <1> QED
    BY <1>2, <1>8 DEF Ledger!Next

\* That of an address is one of its share's next note, or is none at all.
LEMMA AddressDeposits ==
  ASSUME Typed, BooksKept, [Next]_vars, NEW hash \in Hash, SettleAddressPayment(hash)
  PROVE  Ledger!Next \/ UNCHANGED <<notes, Received - Melted>>
  <1>1. /\ invoices[hash].use = "address" /\ ~invoices[hash].settled /\ UNCHANGED swaps
        /\ invoices \in [Hash -> Invoice]
    BY DEF SettleAddressPayment, Reported, Typed, TypeOK
  <1>2. CASE UNCHANGED notes /\ invoices' = [invoices EXCEPT ![hash].settled = TRUE]
    <2>1. Bought' = Bought
      BY <1>1, <1>2, BoughtKept DEF BooksKept, Credits
    <2>2. (Burned \ Exchanged)' = Burned \ Exchanged
      BY <1>1, <1>2 DEF Burned, Exchanged
    <2> QED
      BY <1>2, <2>1, <2>2, ReserveKept
  <1>3. ASSUME NEW q \in Output, ~outputInUse(q),
               invoices' = [invoices EXCEPT ![hash].settled = TRUE, ![hash].creditedTo = q],
               notes' = [notes EXCEPT ![q] = Minted(invoices[hash].amountMsat)]
        PROVE  Ledger!Next
    <2>1. /\ \A g \in Hash \ {hash} : invoices'[g] = invoices[g]
          /\ invoices'[hash].invoiced = invoices[hash].invoiced
          /\ invoices'[hash].settled /\ invoices'[hash].use = "address"
          /\ invoices'[hash].creditedTo = q
      BY <1>1, <1>3 DEF Invoice
    <2>2. Credited(hash)' # {}
      BY <2>1, NoneIsNothing DEF Credited
    <2>3. notes[q].state = "absent"
      BY <1>3 DEF outputInUse
    <2>4. Ledger!Deposit(q)
      BY <1>1, <1>3, <2>1, <2>2, <2>3, PaymentDeposits
    <2> QED
      BY <2>4 DEF Ledger!Next
  <1> QED
    BY <1>2, <1>3 DEF SettleAddressPayment, NextShareNote

\* A step that moves no note and buys none is none of the ledger's.
LEMMA QuietSteps ==
  ASSUME Typed, BooksKept, [Next]_vars, UNCHANGED <<notes, swaps>>,
         \/ UNCHANGED invoices
         \/ \E hash \in Hash : \E new : Issued(hash, new)
         \/ \E hash \in Hash : SettleAddressFee(hash)
  PROVE  UNCHANGED <<notes, Received - Melted>>
  <1>1. (Burned \ Exchanged)' = Burned \ Exchanged
    BY DEF Burned, Exchanged
  <1>2. \A hash \in Hash : SettleAddressFee(hash) =>
          /\ invoices[hash].use # "mint" /\ ~invoices[hash].settled
          /\ invoices' = [invoices EXCEPT ![hash].settled = TRUE]
    BY DEF SettleAddressFee, Reported
  <1>3. Bought' = Bought
    BY <1>2, BoughtKept DEF BooksKept, Credits
  <1> QED
    BY <1>1, <1>3, ReserveKept

\* Every step of the mint is one of the ledger, or none of its business.
LEMMA LedgerStep ==
  ASSUME "melt" \notin Payable, Typed, BooksKept, [Next]_vars
  PROVE  Ledger!Next \/ UNCHANGED <<notes, Received - Melted>>
  <1> DEFINE Goal == Ledger!Next \/ UNCHANGED <<notes, Received - Melted>>
  <1>1. CASE UNCHANGED vars
    <2>1. UNCHANGED <<notes, swaps, invoices>>
      BY <1>1 DEF vars
    <2> QED
      BY <2>1, QuietSteps
  <1>2. CASE Idle
    BY <1>2, QuietSteps DEF Idle
  <1>3. ASSUME NEW hash \in Hash, NEW gross \in Gross, NEW comment \in Output \cup {None},
               NEW h \in Output \cup {None}, Quote(gross, comment, h, hash)
        PROVE  Goal
    <2>1. UNCHANGED <<notes, swaps>>
      BY <1>3 DEF Quote, noteVars
    <2> QED
      BY <1>3, <2>1, QuoteIssues, QuietSteps
  <1>4. ASSUME NEW hash \in Hash, NEW u \in Username, NEW gross \in Gross,
               AddressQuote(u, gross, hash)
        PROVE  Goal
    <2>1. UNCHANGED <<notes, swaps>>
      BY <1>4 DEF AddressQuote, noteVars
    <2> QED
      BY <1>4, <2>1, QuoteIssues, QuietSteps
  <1>5. ASSUME NEW u \in Username, NEW sig \in BOOLEAN, NEW newsig \in BOOLEAN,
               NEW cx1 \in Cx1 \cup {None}, NEW hash \in Hash \cup {None},
               Delete(u, sig) \/ Post(u, cx1, sig, hash) \/ Put(u, cx1, sig, newsig)
        PROVE  Goal
    <2>1. UNCHANGED <<notes, swaps>>
      BY <1>5 DEF Delete, Post, Put, noteVars
    <2>2. Delete(u, sig) \/ Put(u, cx1, sig, newsig) => UNCHANGED invoices
      BY DEF Delete, Put, quoteVars
    <2> QED
      BY <1>5, <2>1, <2>2, PostIssues, QuietSteps
  <1>6. ASSUME NEW hash \in Hash, SettleAddressFee(hash)
        PROVE  Goal
    <2>1. UNCHANGED <<notes, swaps>>
      BY <1>6 DEF SettleAddressFee, noteVars
    <2> QED
      BY <1>6, <2>1, QuietSteps
  <1>7. CASE Next
    <2> HIDE DEF Goal
    <2>1. ASSUME NEW r \in WithdrawRequest, Split(r) \/ Merge(r) PROVE Goal
      BY <2>1, ExchangeSwaps DEF Goal
    <2>2. ASSUME NEW r \in WithdrawRequest, NEW hash \in Hash, Melt(r, hash) PROVE Goal
      BY <2>2, MeltHolds DEF Goal
    <2>3. ASSUME NEW timer \in timers, MeltResolves(timer) PROVE Goal
      BY <2>3, ResolveSettles DEF Goal
    <2>4. ASSUME NEW hash \in Hash, SettleQuote(hash) \/ SettleAddressPayment(hash) PROVE Goal
      BY <2>4, QuoteDeposits, AddressDeposits DEF Goal
    <2>5. Idle => Goal
      BY <1>2 DEF Goal
    <2> QED
      BY <1>3, <1>4, <1>5, <1>6, <1>7, <2>1, <2>2, <2>3, <2>4, <2>5, AllSteps DEF Goal, Typed
  <1> QED
    BY <1>1, <1>7

---------------------------------------------------------------------------
(***************************************************************************)
(* The books, always.                                                      *)
(***************************************************************************)
\* The conjuncts of BooksInv, as their step lemmas name them.
LEMMA BooksSplit == BooksInv <=> Typed /\ BooksKept /\ Shares /\ MeltsFiled
  BY DEF BooksInv, IInv, Typed, BooksKept, Claims, Credits, Exchanges, Shares

\* While only invoices the mint issued to be paid are paid, the whole of the
\* invariant that its books rest on holds.
THEOREM BooksHold == "melt" \notin Payable => (Spec => []BooksInv)
  <1> SUFFICES ASSUME "melt" \notin Payable
               PROVE  Spec => []BooksInv
    OBVIOUS
  <1>1. Init => BooksInv
    <2> SUFFICES ASSUME Init PROVE BooksInv
      OBVIOUS
    <2>1. Typed /\ UsesKept /\ Claims /\ Credits /\ Exchanges /\ Shares
      BY TypedInit, InvariantsInit
    <2>2. InvoicesCover /\ MeltsFiled
      BY DEF Init, InitStore, NoInvoice, InvoicesCover, MeltsFiled
    <2> QED
      BY <2>1, <2>2, BooksSplit DEF BooksKept
  <1>2. BooksInv /\ [Next]_vars => BooksInv'
    <2> SUFFICES ASSUME BooksInv, [Next]_vars PROVE BooksInv'
      OBVIOUS
    <2>1. Typed /\ BooksKept /\ Shares /\ MeltsFiled
      BY BooksSplit
    <2>2. Typed' /\ UsesKept' /\ Claims' /\ Credits' /\ Exchanges' /\ Shares'
      BY <2>1, TypedStep, UsesStep, ClaimsStep, CreditsStep, ExchangesStep, SharesStep
      DEF BooksKept
    <2>3. InvoicesCover' /\ MeltsFiled'
      BY <2>1, InvoicesCoverStep, MeltsFiledStep DEF BooksKept
    <2> QED
      BY <2>2, <2>3
      DEF BooksInv, IInv, Typed, Claims, Credits, Exchanges, Shares
  <1> QED
    BY <1>1, <1>2, PTL DEF Spec

\* The mint starts with the notes the fixture paid for.
LEMMA LedgerInit ==
  ASSUME Init
  PROVE  Ledger!Init
  <1> DEFINE given == {q \in Output : Funded[q] > 0}
             gift == [q \in Output |-> Funded[q] + Fees.base]
  <1>1. Typed
    BY TypedInit
  <1>2. /\ \A q \in Output : Funded[q] \in Nat
        /\ Fees.base \in Nat
    BY Configuration DEF Schedule
  <1>3. \A q \in Output : notes[q] = IF Funded[q] = 0 THEN NoNote ELSE Minted(Funded[q])
    BY DEF Init, InitStore
  <1>4. \A q \in Output : /\ q \in given => notes[q] = Minted(Funded[q])
                          /\ q \notin given => notes[q] = NoNote
    BY <1>2, <1>3
  <1>5. /\ \A q \in given : notes[q].state = "outstanding" /\ Cost[q] = gift[q]
        /\ \A q \in Output : q \notin given => notes[q].state = "absent"
    <2>1. \A q \in given : notes[q].state = "outstanding" /\ notes[q].amountMsat = Funded[q]
      <3>1. \A n : Minted(n).state = "outstanding" /\ Minted(n).amountMsat = n
        BY DEF Minted
      <3>2. \A q \in given : notes[q] = Minted(Funded[q])
        BY <1>4
      <3> HIDE DEF given
      <3> QED
        BY <3>1, <3>2
    <2>2. \A q \in Output : q \notin given => notes[q].state = "absent"
      BY <1>4 DEF NoNote
    <2> QED
      BY <2>1, <2>2 DEF Cost
  <1>6. Ledger!In("outstanding") = given /\ Ledger!In("pending") = {} /\ Burned = {}
        /\ Ledger!In("burned") = {}
    <2> HIDE DEF given, gift
    <2>1. \A q \in Output : notes[q].state = IF q \in given THEN "outstanding" ELSE "absent"
      BY <1>5
    <2>2. given \subseteq Output
      BY DEF given
    <2> QED
      BY <2>1, <2>2 DEF Ledger!In, Burned
  <1>7. Ledger!Circulating = given
    BY <1>6 DEF Ledger!Circulating
  <1>8. Melted = 0
    <2>1. Burned \ Exchanged = {}
      BY <1>6
    <2> QED
      BY <2>1, SumOfNone DEF Melted
  <1>9. Received = SumFunctionOnSet(gift, given) /\ SumFunctionOnSet(gift, given) \in Nat
    <2>1. Bought = {}
      BY DEF Bought, Credited, Init, InitStore, NoInvoice
    <2>2. SumFunctionOnSet([hash \in Hash |-> invoices[hash].invoiced], Bought) = 0
      BY <2>1, SumOfNone
    <2> QED
      BY <2>2, GiftsAreNat DEF Received
  <1>10. SumFunctionOnSet(Cost, given) = SumFunctionOnSet(gift, given)
    <2>1. IsFiniteSet(given)
      BY KeysAreFinite, FS_Subset
    <2>2. \A q \in given : Cost[q] = gift[q]
      BY <1>5
    <2> HIDE DEF given, gift
    <2> QED
      BY <2>1, <2>2, SumOfSame
  <1>11. Ledger!Worth(Ledger!Circulating) = SumFunctionOnSet(Cost, given)
    BY <1>7, LedgerWorth
  <1> HIDE DEF given, gift
  <1>12. Received - Melted = Ledger!Worth(Ledger!Circulating)
    BY <1>8, <1>9, <1>10, <1>11
  <1> QED
    BY <1>6, <1>12 DEF Ledger!Init

\* Every behaviour of the mint is one of the abstract ledger: value enters
\* only against a payment and leaves only by a melt, whatever quotes, splits,
\* merges, retries, registrations and timers do in between.
THEOREM MintKeepsALedger == "melt" \notin Payable => (Spec => ImplementsLedger)
  <1> SUFFICES ASSUME "melt" \notin Payable
               PROVE  Spec => ImplementsLedger
    OBVIOUS
  <1>1. Init => Ledger!Init
    BY LedgerInit
  <1>2. BooksInv /\ [Next]_vars => [Ledger!Next]_<<notes, Received - Melted>>
    BY LedgerStep, BooksSplit
  <1> QED
    BY <1>1, <1>2, BooksHold, PTL DEF Spec, ImplementsLedger, Ledger!Spec

\* A step of the ledger that deposits nothing brings nothing into circulation:
\* what is there afterwards is worth no more.
LEMMA CirculationShrinks ==
  ASSUME Typed, [Next]_vars, Ledger!Next \/ UNCHANGED <<notes, Received - Melted>>
  PROVE  \/ \E q \in Output :
              /\ Ledger!Deposit(q) /\ q \notin Ledger!Circulating
              /\ Ledger!Circulating' = Ledger!Circulating \cup {q}
         \/ /\ UNCHANGED (Received - Melted)
            /\ SumFunctionOnSet(Cost', Ledger!Circulating')
                 <= SumFunctionOnSet(Cost, Ledger!Circulating)
         \/ \E q \in Output :
              /\ Ledger!Redeem(q) /\ q \in Ledger!Circulating
              /\ Ledger!Circulating' = Ledger!Circulating \ {q}
  <1> DEFINE C == Ledger!Circulating
  <1>1. /\ C = {q \in Output : notes[q].state \in {"outstanding", "pending"}}
        /\ C' = {q \in Output : notes'[q].state \in {"outstanding", "pending"}}
    BY DEF Ledger!Circulating, Ledger!In
  <1>2. \A q \in Output : notes[q] \in Note
    BY DEF Typed, TypeOK
  <1>3. \A S \in SUBSET C : SumFunctionOnSet(Cost', S) = SumFunctionOnSet(Cost, S)
    <2> TAKE S \in SUBSET C
    <2>1. S \in SUBSET Output /\ \A q \in S : notes[q].state # "absent"
      BY <1>1
    <2> QED
      BY <2>1, CostsKept
  <1>4. SumFunctionOnSet(Cost, C) \in Nat
    BY <1>1, CostsAreAmounts
  <1>5. ASSUME C' = C
        PROVE  SumFunctionOnSet(Cost', C') <= SumFunctionOnSet(Cost, C)
    <2>1. SumFunctionOnSet(Cost', C) = SumFunctionOnSet(Cost, C)
      BY <1>3
    <2> QED
      BY <1>4, <1>5, <2>1
  <1>6. CASE UNCHANGED <<notes, Received - Melted>>
    <2>1. C' = C
      BY <1>1, <1>6
    <2> QED
      BY <1>5, <1>6, <2>1
  <1>7. ASSUME NEW q \in Output, Ledger!Deposit(q)
        PROVE  q \notin C /\ C' = C \cup {q}
    BY <1>1, <1>7 DEF Ledger!Deposit
  <1>8. ASSUME NEW q \in Output, NEW state, Ledger!Become({q}, state)
        PROVE  /\ notes'[q].state = state
               /\ \A p \in Output \ {q} : notes'[p].state = notes[p].state
    BY <1>2, <1>8 DEF Ledger!Become, Note, NoNote
  <1>9. ASSUME NEW q \in Output, Ledger!Hold(q) \/ Ledger!Restore(q)
        PROVE  C' = C /\ UNCHANGED (Received - Melted)
    BY <1>1, <1>8, <1>9 DEF Ledger!Hold, Ledger!Restore
  <1>10. ASSUME NEW q \in Output, Ledger!Redeem(q)
         PROVE  q \in C /\ C' = C \ {q}
    <2>1. notes[q].state = "pending" /\ Ledger!Become({q}, "burned")
      BY <1>10 DEF Ledger!Redeem
    <2>2. notes'[q].state = "burned" /\ \A p \in Output \ {q} : notes'[p].state = notes[p].state
      BY <1>8, <2>1
    <2> QED
      BY <1>1, <2>1, <2>2
  <1>11. ASSUME NEW burned \in SUBSET Output, NEW minted \in SUBSET Output,
                Ledger!Swap(burned, minted)
         PROVE  /\ UNCHANGED (Received - Melted)
                /\ SumFunctionOnSet(Cost', C') <= SumFunctionOnSet(Cost, C)
    <2> DEFINE kept == C \ burned
    <2>1. /\ \A q \in burned : notes[q].state = "outstanding" /\ notes'[q].state = "burned"
          /\ \A q \in minted : notes[q].state = "absent" /\ notes'[q].state = "outstanding"
          /\ \A q \in Output : q \notin burned /\ q \notin minted => notes'[q] = notes[q]
      BY <1>2, <1>11 DEF Ledger!Swap, Ledger!In, Note, NoNote
    <2>2. /\ C = burned \cup kept /\ burned \cap kept = {}
          /\ C' = minted \cup kept /\ minted \cap kept = {}
      BY <1>1, <2>1
    <2>3. /\ IsFiniteSet(burned) /\ IsFiniteSet(minted) /\ IsFiniteSet(kept) /\ kept \subseteq Output
          /\ kept \in SUBSET C
      BY <1>1, CostsAreAmounts
    <2> HIDE DEF kept, C
    <2>4. /\ \A q \in Output : Cost[q] \in Int /\ Cost'[q] \in Int
          /\ SumFunctionOnSet(Cost, burned) \in Nat /\ SumFunctionOnSet(Cost, kept) \in Nat
      <3>1. \A q \in Output : Cost'[q] \in Nat
        BY TypedStep, CostsNext DEF CostsTyped
      <3> QED
        BY <2>3, <3>1, CostsAreAmounts
    <2>5. SumFunctionOnSet(Cost, burned \cup kept)
            = SumFunctionOnSet(Cost, burned) + SumFunctionOnSet(Cost, kept)
      BY <2>2, <2>3, <2>4, SumOfBoth
    <2>6. SumFunctionOnSet(Cost', minted \cup kept)
            = SumFunctionOnSet(Cost', minted) + SumFunctionOnSet(Cost', kept)
      BY <2>2, <2>3, <2>4, SumOfBoth
    <2>7. SumFunctionOnSet(Cost', minted) <= SumFunctionOnSet(Cost, burned)
      BY <1>11, LedgerSums, LedgerWorth DEF Ledger!Swap
    <2>8. SumFunctionOnSet(Cost', kept) = SumFunctionOnSet(Cost, kept)
      BY <1>3, <2>3
    <2>9. SumFunctionOnSet(Cost', minted) \in Int
      BY <2>3, <2>4, SumIsInt
    <2>10. UNCHANGED (Received - Melted)
      BY <1>11 DEF Ledger!Swap
    <2> QED
      BY <2>2, <2>4, <2>5, <2>6, <2>7, <2>8, <2>9, <2>10
  <1> HIDE DEF C
  <1>12. CASE Ledger!Next
    BY <1>5, <1>7, <1>9, <1>10, <1>11, <1>12 DEF Ledger!Next, C
  <1> QED
    BY <1>6, <1>12 DEF C

\* No step of the ledger makes it owe more than it holds.
LEMMA SolventStep ==
  ASSUME Typed, [Next]_vars, Ledger!Next \/ UNCHANGED <<notes, Received - Melted>>,
         Ledger!Solvent
  PROVE  Ledger!Solvent'
  <1> DEFINE C == Ledger!Circulating
             owed == SumFunctionOnSet(Cost, C)
             owes == SumFunctionOnSet(Cost', C')
             held == Received - Melted
             holds == (Received - Melted)'
  <1>1. C \in SUBSET Output /\ \A q \in C : notes[q].state # "absent"
    BY DEF Ledger!Circulating, Ledger!In
  <1>2. /\ IsFiniteSet(C) /\ owed \in Nat /\ SumFunctionOnSet(Cost', C) = owed
        /\ \A q \in Output : Cost'[q] \in Nat
    BY <1>1, CostsAreAmounts, CostsKept, TypedStep, CostsNext DEF CostsTyped
  <1>3. held \in Int /\ holds \in Int
    BY TypedStep, ReserveIsInt, ReserveNext DEF ReserveTyped
  <1>4. owed <= held
    BY LedgerWorth DEF Ledger!Solvent
  <1>5. Ledger!Solvent' <=> owes <= holds
    BY LedgerSums, LedgerWorth DEF Ledger!Solvent, Ledger!Worth
  <1>6. ASSUME NEW q \in Output, Ledger!Deposit(q), q \notin C, C' = C \cup {q}
        PROVE  owes <= holds
    <2>1. /\ holds >= held + notes'[q].amountMsat + Fees.base
          /\ Cost'[q] = notes'[q].amountMsat + Fees.base
      BY <1>6 DEF Ledger!Deposit, Cost
    <2>2. owes = SumFunctionOnSet(Cost', C \cup {q})
      BY <1>6
    <2> HIDE DEF C, owed, owes, held, holds
    <2>3. SumFunctionOnSet(Cost', C \cup {q}) = Cost'[q] + SumFunctionOnSet(Cost', C)
      <3>1. IsFiniteSet(C) /\ q \notin C /\ \A p \in C \cup {q} : Cost'[p] \in Int
        BY <1>1, <1>2, <1>6
      <3> QED
        BY <3>1, SumWith
    <2>4. notes'[q].amountMsat \in Nat /\ Fees.base \in Nat /\ Cost'[q] \in Nat
      BY <1>2, TypedStep, AmountsNext, Configuration DEF AmountsTyped, Schedule
    <2> QED
      BY <1>2, <1>3, <1>4, <2>1, <2>2, <2>3, <2>4
  <1>7. ASSUME UNCHANGED (Received - Melted), owes <= owed
        PROVE  owes <= holds
    <2>1. holds = held
      BY <1>7
    <2>2. owes \in Nat
      <3>1. C' \subseteq Output
        BY DEF Ledger!Circulating, Ledger!In
      <3>2. IsFiniteSet(C') /\ \A q \in C' : Cost'[q] \in Nat
        BY <1>2, <3>1, KeysAreFinite, FS_Subset
      <3> HIDE DEF C
      <3> QED
        BY <3>2, SumIsNat
    <2> HIDE DEF owes, owed, held, holds
    <2> QED
      BY <1>2, <1>3, <1>4, <1>7, <2>1, <2>2
  <1>8. ASSUME NEW q \in Output, Ledger!Redeem(q), q \in C, C' = C \ {q}
        PROVE  owes <= holds
    <2>1. holds = held - notes[q].amountMsat - Fees.base
      BY <1>8 DEF Ledger!Redeem
    <2>2. owes = SumFunctionOnSet(Cost', C \ {q})
      BY <1>8
    <2>3. /\ Cost'[q] = Cost[q] /\ Cost[q] = notes[q].amountMsat + Fees.base
          /\ notes[q].amountMsat \in Nat /\ Fees.base \in Nat
      BY <1>1, <1>8, CostsKept, CostsAreAmounts, Configuration DEF Schedule
    <2> HIDE DEF C, owed, owes, held, holds
    <2>4. SumFunctionOnSet(Cost', C) = Cost'[q] + SumFunctionOnSet(Cost', C \ {q})
      BY <1>1, <1>2, <1>8, SumWithout
    <2>5. SumFunctionOnSet(Cost', C \ {q}) \in Int
      <3>1. IsFiniteSet(C \ {q}) /\ \A p \in C \ {q} : Cost'[p] \in Int
        BY <1>1, <1>2, FS_Subset
      <3> QED
        BY <3>1, SumIsInt
    <2> QED
      BY <1>2, <1>3, <1>4, <2>1, <2>2, <2>3, <2>4, <2>5
  <1> HIDE DEF owed, owes, held, holds
  <1> QED
    BY <1>5, <1>6, <1>7, <1>8, CirculationShrinks DEF owed, owes

\* No interleaving leaves the mint owing more than it was paid and has not
\* paid out, melt fees included.
THEOREM ReserveCovers == "melt" \notin Payable => (Spec => []Backed)
  <1> SUFFICES ASSUME "melt" \notin Payable
               PROVE  Spec => []Backed
    OBVIOUS
  <1>1. Init => Backed
    <2> SUFFICES ASSUME Init PROVE Backed
      OBVIOUS
    <2>1. Received - Melted = Ledger!Worth(Ledger!Circulating)
      BY LedgerInit DEF Ledger!Init
    <2>2. Received - Melted \in Int
      BY TypedInit, ReserveIsInt
    <2> QED
      BY <2>1, <2>2 DEF Backed, Ledger!Solvent
  <1>2. BooksInv /\ Backed /\ [Next]_vars => Backed'
    BY LedgerStep, SolventStep, BooksSplit DEF Backed
  <1> QED
    BY <1>1, <1>2, BooksHold, PTL DEF Spec

---------------------------------------------------------------------------
(***************************************************************************)
(* What the books report.                                                  *)
(***************************************************************************)
\* Nothing melts but by a timer.
LEMMA OnlyTimersMelt ==
  ASSUME Typed, BooksKept, [Next]_vars, ~\E timer \in timers : MeltResolves(timer)
  PROVE  Melted' = Melted
  <1> SUFFICES (Burned \ Exchanged)' = Burned \ Exchanged
    BY MeltedKept
  <1>1. ASSUME UNCHANGED swaps, \A q \in Output : notes'[q].state = "burned" => notes[q].state = "burned"
        PROVE  (Burned \ Exchanged)' = Burned \ Exchanged
    BY <1>1, NotesLast DEF Burned, Exchanged
  <1>2. CASE UNCHANGED <<notes, swaps>>
    BY <1>1, <1>2
  <1>3. ASSUME NEW r \in WithdrawRequest, NEW certificates, Swapped(r, certificates)
        PROVE  (Burned \ Exchanged)' = Burned \ Exchanged
    BY <1>3, ExchangeMeltsNothing DEF BooksKept, Exchanges
  <1>4. ASSUME NEW r \in WithdrawRequest, NEW hash \in Hash, Melt(r, hash)
        PROVE  (Burned \ Exchanged)' = Burned \ Exchanged
    <2>1. \A q \in Output : notes'[q].state = "burned" => notes[q].state = "burned"
      <3>1. \A q \in Output : notes'[q] = notes[q] \/ notes'[q] = [notes[q] EXCEPT !.state = "pending"]
        BY <1>4 DEF Melt, Moved
      <3>2. \A q \in Output : notes[q] \in Note
        BY DEF Typed, TypeOK
      <3> QED
        BY <3>1, <3>2 DEF Note, NoNote
    <2> QED
      BY <1>1, <1>4, <2>1 DEF Melt
  <1>5. ASSUME NEW hash \in Hash, SettleQuote(hash) \/ SettleAddressPayment(hash)
        PROVE  (Burned \ Exchanged)' = Burned \ Exchanged
    <2>1. \A q \in Output : notes'[q] = notes[q] \/ notes'[q].state = "outstanding"
      BY <1>5 DEF SettleQuote, SettleAddressPayment, Minted, Typed, TypeOK
    <2> QED
      BY <1>1, <1>5, <2>1 DEF SettleQuote, SettleAddressPayment
  <1>6. CASE Next
    <2>1. CASE Idle
      BY <1>2, <2>1 DEF Idle
    <2>2. ASSUME NEW hash \in Hash, NEW gross \in Gross,
                 NEW comment \in Output \cup {None}, NEW h \in Output \cup {None},
                 Quote(gross, comment, h, hash)
          PROVE  UNCHANGED <<notes, swaps>>
      BY <2>2 DEF Quote, noteVars
    <2>3. ASSUME NEW hash \in Hash, NEW u \in Username, NEW gross \in Gross,
                 AddressQuote(u, gross, hash) \/ SettleAddressFee(hash)
          PROVE  UNCHANGED <<notes, swaps>>
      BY <2>3 DEF AddressQuote, SettleAddressFee, noteVars
    <2>4. ASSUME NEW u \in Username, NEW sig \in BOOLEAN, NEW newsig \in BOOLEAN,
                 NEW cx1 \in Cx1 \cup {None}, NEW hash \in Hash \cup {None},
                 Delete(u, sig) \/ Post(u, cx1, sig, hash) \/ Put(u, cx1, sig, newsig)
          PROVE  UNCHANGED <<notes, swaps>>
      BY <2>4 DEF Delete, Post, Put, noteVars
    <2>5. ASSUME NEW hash \in Hash, SettleAddressFee(hash)
          PROVE  UNCHANGED <<notes, swaps>>
      BY <2>5 DEF SettleAddressFee, noteVars
    <2> QED
      BY <1>2, <1>3, <1>4, <1>5, <1>6, <2>1, <2>2, <2>3, <2>4, <2>5, Steps DEF Typed
  <1> QED
    BY <1>2, <1>6 DEF vars

\* What is reported paid stays so, at what it was.
LEMMA ReportsKept ==
  ASSUME Typed, UsesKept, [Next]_vars
  PROVE  /\ ReportedPaid \subseteq ReportedPaid' \cap Hash /\ ReportedPaid' \subseteq Hash
         /\ IsFiniteSet(ReportedPaid) /\ \A hash \in ReportedPaid : PaidOut[hash] \in Nat
         /\ \A hash \in ReportedPaid : PaidOut'[hash] = PaidOut[hash]
         /\ SumFunctionOnSet(PaidOut', ReportedPaid) = SumFunctionOnSet(PaidOut, ReportedPaid)
  <1>1. ReportedPaid \subseteq Hash /\ ReportedPaid' \subseteq Hash /\ IsFiniteSet(ReportedPaid)
    BY KeysAreFinite, FS_Subset DEF ReportedPaid
  <1>2. \A hash \in Hash : invoices[hash] \in Invoice /\ PaidOut[hash] \in Nat
    BY Configuration DEF Typed, TypeOK, Invoice, PaidOut, Schedule
  <1>3. \A hash \in ReportedPaid : invoices'[hash] = [invoices[hash] EXCEPT
          !.settled = invoices'[hash].settled, !.creditedTo = invoices'[hash].creditedTo]
    BY <1>1, UsesStep DEF ReportedPaid
  <1>4. \A hash \in ReportedPaid : /\ invoices'[hash].use = "melt"
                                   /\ invoices'[hash].amountMsat = invoices[hash].amountMsat
    BY <1>1, <1>2, <1>3 DEF ReportedPaid, Invoice
  <1>5. \A hash \in ReportedPaid : PaidOut'[hash] = PaidOut[hash]
    BY <1>1, <1>4 DEF PaidOut
  <1>6. \A hash \in ReportedPaid : invoices'[hash].settled
    <2>1. ASSUME NEW hash \in ReportedPaid, NEW other \in Hash, NEW new, Issued(other, new)
          PROVE  invoices'[hash].settled
      <3>1. other # hash
        BY <2>1 DEF Issued, Fresh, ReportedPaid
      <3> QED
        BY <1>1, <2>1, <3>1 DEF Issued, ReportedPaid
    <2>2. ASSUME NEW hash \in ReportedPaid, NEW other \in Hash, NEW q,
                 \/ invoices' = [invoices EXCEPT ![other].settled = TRUE]
                 \/ invoices' = [invoices EXCEPT ![other].settled = TRUE, ![other].creditedTo = q]
          PROVE  invoices'[hash].settled
      BY <1>1, <1>2, <2>2 DEF ReportedPaid, Invoice, Typed, TypeOK
    <2>3. ASSUME NEW hash \in ReportedPaid, NEW other \in Hash,
                 SettleQuote(other) \/ SettleAddressPayment(other) \/ SettleAddressFee(other)
          PROVE  invoices'[hash].settled
      BY <2>2, <2>3 DEF SettleQuote, SettleAddressPayment, SettleAddressFee
    <2>4. ASSUME NEW hash \in ReportedPaid, NEW timer \in timers, MeltResolves(timer)
          PROVE  invoices'[hash].settled
      <3>1. CASE UNCHANGED invoices
        BY <3>1 DEF ReportedPaid
      <3>2. CASE timer.hash \in Hash /\ invoices' = [invoices EXCEPT ![timer.hash].settled = TRUE]
        BY <2>2, <3>2
      <3> QED
        BY <2>4, <3>1, <3>2 DEF MeltResolves, Typed, TypeOK, Timer
    <2>5. UNCHANGED invoices => \A hash \in ReportedPaid : invoices'[hash].settled
      BY DEF ReportedPaid
    <2> QED
      BY <2>1, <2>3, <2>4, <2>5, InvoiceSteps
  <1>7. ReportedPaid \subseteq ReportedPaid'
    BY <1>1, <1>4, <1>6 DEF ReportedPaid
  <1> QED
    BY <1>1, <1>2, <1>5, <1>7, SumOfSame

\* Only a timer that melts a note reports one paid.
LEMMA OnlyTimersReport ==
  ASSUME "melt" \notin Payable, Typed, UsesKept, [Next]_vars,
         ~\E timer \in timers : MeltResolves(timer)
  PROVE  ReportedPaid' = ReportedPaid
  <1>1. \A hash \in Hash : invoices[hash] \in Invoice
    BY DEF Typed, TypeOK
  <1>2. ASSUME NEW hash \in Hash, hash \in ReportedPaid', NEW other \in Hash, NEW new,
               Issued(other, new)
        PROVE  hash \in ReportedPaid
    <2>1. hash # other
      BY <1>2 DEF Issued, ReportedPaid, Typed, TypeOK
    <2> QED
      BY <1>2, <2>1 DEF Issued, ReportedPaid, Typed, TypeOK
  <1>3. ASSUME NEW hash \in Hash, hash \in ReportedPaid', NEW other \in Hash,
               SettleQuote(other) \/ SettleAddressPayment(other) \/ SettleAddressFee(other)
        PROVE  hash \in ReportedPaid
    <2>1. invoices[other].use # "melt"
      BY <1>3 DEF SettleQuote, SettleAddressPayment, SettleAddressFee, Reported
    <2>2. invoices'[other].use = invoices[other].use
      BY <1>1, <1>3 DEF SettleQuote, SettleAddressPayment, SettleAddressFee, Typed, TypeOK, Invoice
    <2>3. hash # other
      BY <1>3, <2>1, <2>2 DEF ReportedPaid
    <2>4. invoices'[hash] = invoices[hash]
      BY <1>3, <2>3 DEF SettleQuote, SettleAddressPayment, SettleAddressFee, Typed, TypeOK
    <2> QED
      BY <1>3, <2>4 DEF ReportedPaid
  <1>4. UNCHANGED invoices => ReportedPaid' = ReportedPaid
    BY DEF ReportedPaid
  <1>5. ReportedPaid \subseteq ReportedPaid' /\ ReportedPaid' \subseteq Hash
    BY ReportsKept
  <1>6. CASE ~UNCHANGED invoices
    <2>1. \E other \in Hash :
             \/ \E new : Issued(other, new)
             \/ SettleQuote(other) \/ SettleAddressPayment(other) \/ SettleAddressFee(other)
      BY <1>6, InvoiceSteps
    <2>2. \A hash \in ReportedPaid' : hash \in ReportedPaid
      BY <1>2, <1>3, <1>5, <2>1
    <2> QED
      BY <1>5, <2>2
  <1> QED
    BY <1>4, <1>6

\* A melt is reported when its note is burned, for what the note cost.
LEMMA MeltsAccountedStep ==
  ASSUME "melt" \notin Payable, Typed, BooksKept, MeltsFiled, MeltsAccounted, [Next]_vars
  PROVE  MeltsAccounted'
  <1> SUFFICES ASSUME On("verify"), SumFunctionOnSet(PaidOut, ReportedPaid) = Melted
               PROVE  SumFunctionOnSet(PaidOut', ReportedPaid') = Melted'
    BY DEF MeltsAccounted, On
  <1>1. UsesKept
    BY DEF BooksKept
  <1>2. SumFunctionOnSet(PaidOut', ReportedPaid) = Melted
    BY <1>1, ReportsKept
  <1>3. CASE ~\E timer \in timers : MeltResolves(timer)
    BY <1>1, <1>2, <1>3, OnlyTimersMelt, OnlyTimersReport
  <1>4. ASSUME NEW timer \in timers, MeltResolves(timer)
        PROVE  SumFunctionOnSet(PaidOut', ReportedPaid') = Melted'
    <2> DEFINE h == timer.hash
               q == timer.q
    <2>1. /\ q \in Output
          /\ MeltOutcome = "outstanding" => (Burned \ Exchanged)' = Burned \ Exchanged
          /\ MeltOutcome = "burned" => Melted' = Melted + Cost[q]
      BY <1>4, TimerMelts DEF BooksKept, Exchanges
    <2>2. /\ h # None /\ h \in Hash /\ invoices[h].use = "melt" /\ ~invoices[h].settled
          /\ invoices[h].amountMsat = notes[q].amountMsat /\ invoices[h] \in Invoice
      BY <1>1 DEF MeltsFiled, Typed, TypeOK, Timer, UsesKept
    <2>3. CASE On("meltAlwaysFails")
      <3>1. UNCHANGED invoices /\ MeltOutcome = "outstanding"
        BY <1>4, <2>3 DEF MeltResolves, MeltOutcome
      <3>2. ReportedPaid' = ReportedPaid
        BY <3>1 DEF ReportedPaid
      <3>3. Melted' = Melted
        BY <2>1, <3>1, MeltedKept
      <3> QED
        BY <1>2, <3>2, <3>3
    <2>4. CASE ~On("meltAlwaysFails")
      <3>1. MeltOutcome = "burned" /\ invoices' = [invoices EXCEPT ![h].settled = TRUE]
        BY <1>4, <2>2, <2>4 DEF MeltResolves, MeltOutcome
      <3>2. /\ invoices'[h].settled /\ invoices'[h].use = "melt"
            /\ invoices'[h].amountMsat = notes[q].amountMsat
            /\ \A g \in Hash \ {h} : invoices'[g] = invoices[g]
        BY <2>2, <3>1 DEF Typed, TypeOK, Invoice
      <3>3. h \notin ReportedPaid /\ ReportedPaid' = ReportedPaid \cup {h}
        BY <2>2, <3>2 DEF ReportedPaid
      <3>4. PaidOut'[h] = Cost[q] /\ Cost[q] \in Nat
        BY <2>1, <2>2, <3>2, CostsAreAmounts DEF PaidOut
      <3>5. IsFiniteSet(ReportedPaid) /\ \A g \in ReportedPaid \cup {h} : PaidOut'[g] \in Int
        <4>1. \A g \in ReportedPaid : PaidOut'[g] \in Nat
          BY <1>1, ReportsKept
        <4> QED
          BY <1>1, <3>4, <4>1, ReportsKept
      <3> HIDE DEF h, q
      <3>6. SumFunctionOnSet(PaidOut', ReportedPaid \cup {h})
              = PaidOut'[h] + SumFunctionOnSet(PaidOut', ReportedPaid)
        BY <3>3, <3>5, SumWith
      <3> QED
        BY <1>2, <2>1, <3>1, <3>3, <3>4, <3>6, ReserveIsInt
    <2> QED
      BY <2>3, <2>4
  <1> QED
    BY <1>3, <1>4

\* Under /verify what has been reported paid is what melts have burned.
THEOREM MeltsAreReported == "melt" \notin Payable => (Spec => []MeltsAccounted)
  <1> SUFFICES ASSUME "melt" \notin Payable
               PROVE  Spec => []MeltsAccounted
    OBVIOUS
  <1>1. Init => MeltsAccounted
    <2> SUFFICES ASSUME Init PROVE MeltsAccounted
      OBVIOUS
    <2>1. ReportedPaid = {}
      BY DEF ReportedPaid, Init, InitStore, NoInvoice
    <2>2. Burned = {}
      BY DEF Burned, Init, InitStore, NoNote, Minted
    <2>3. Burned \ Exchanged = {}
      BY <2>2
    <2> QED
      BY <2>1, <2>3, SumOfNone DEF MeltsAccounted, Melted
  <1>2. BooksInv /\ MeltsAccounted /\ [Next]_vars => MeltsAccounted'
    BY MeltsAccountedStep, BooksSplit
  <1> QED
    BY <1>1, <1>2, BooksHold, PTL DEF Spec

\* A mint winding down is paid for no note any more.
LEMMA NothingDeposited ==
  ASSUME Typed, BooksKept, NoSales, On("sunset"), [Next]_vars, NEW q \in Output,
         Ledger!Deposit(q)
  PROVE  FALSE
  <1>1. Received' = Received
    <2>1. NoSales'
      BY NoSalesStep
    <2>2. Bought = {} /\ Bought' = {}
      BY <2>1 DEF NoSales, Bought, Credited, On
    <2> QED
      BY <2>2, ReceivedKept DEF BooksKept
  <1>2. Melted' \in Nat /\ Melted' >= Melted
    <2>1. Melted' = Melted \/ \E p \in Output : Melted' = Melted + Cost[p]
      <3>1. CASE ~\E timer \in timers : MeltResolves(timer)
        BY <3>1, OnlyTimersMelt
      <3>2. ASSUME NEW timer \in timers, MeltResolves(timer)
            PROVE  Melted' = Melted \/ \E p \in Output : Melted' = Melted + Cost[p]
        BY <3>2, TimerMelts, MeltedKept DEF BooksKept, Exchanges, MeltOutcome
      <3> QED
        BY <3>1, <3>2
    <2> QED
      BY <2>1, CostsAreAmounts, ReserveIsInt
  <1>3. notes'[q].amountMsat \in Nat /\ notes'[q].amountMsat > 0
    <2>1. Typed'
      BY TypedStep
    <2>2. notes'[q] \in Note /\ notes'[q].state = "outstanding"
      BY <2>1 DEF Typed, TypeOK, Ledger!Deposit
    <2>3. notes'[q].amountMsat \in Amount
      BY <2>2 DEF Note, NoNote
    <2> QED
      BY <2>3, Configuration DEF Amount
  <1>4. (Received - Melted)' >= Received - Melted + notes'[q].amountMsat + Fees.base
    BY DEF Ledger!Deposit
  <1>5. Fees.base \in Nat
    BY Configuration DEF Schedule
  <1> QED
    BY <1>1, <1>2, <1>3, <1>4, <1>5, ReserveIsInt

\* Where melting costs nothing a note is owed at its face value.
LEMMA OwedAtFaceValue ==
  ASSUME Fees.base = 0, Typed, Typed'
  PROVE  /\ Liabilities = SumFunctionOnSet(Cost, Ledger!Circulating)
         /\ Liabilities' = SumFunctionOnSet(Cost', Ledger!Circulating')
  <1> DEFINE face == [q \in Output |-> notes[q].amountMsat]
             C == Ledger!Circulating
  <1>1. /\ C = {q \in Output : notes[q].state \in {"outstanding", "pending"}}
        /\ C' = {q \in Output : notes'[q].state \in {"outstanding", "pending"}}
    BY DEF Ledger!Circulating, Ledger!In
  <1>2. Liabilities = SumFunctionOnSet(face, C) /\ Liabilities' = SumFunctionOnSet(face', C')
    BY <1>1 DEF Liabilities
  <1>3. /\ \A q \in C : face[q] = Cost[q]
        /\ \A q \in C' : face'[q] = Cost'[q]
    BY <1>1, CostsAreAmounts, AmountsNext DEF Cost, AmountsTyped
  <1>4. IsFiniteSet(C) /\ IsFiniteSet(C')
    BY <1>1, KeysAreFinite, FS_Subset
  <1> HIDE DEF face, C
  <1>5. SumFunctionOnSet(face, C) = SumFunctionOnSet(Cost, C)
        /\ SumFunctionOnSet(face', C') = SumFunctionOnSet(Cost', C')
    BY <1>3, <1>4, SumOfSame
  <1> QED
    BY <1>2, <1>5 DEF C

\* Nothing it still does makes it owe more.
LEMMA SunsetStep ==
  ASSUME "melt" \notin Payable, Fees.base = 0, Typed, BooksKept, NoSales, On("sunset"),
         [Next]_vars
  PROVE  Liabilities' <= Liabilities
  <1> DEFINE C == Ledger!Circulating
  <1>1. /\ Liabilities = SumFunctionOnSet(Cost, C) /\ Liabilities' = SumFunctionOnSet(Cost', C')
        /\ SumFunctionOnSet(Cost, C) \in Nat
    <2>1. C \subseteq Output
      BY DEF Ledger!Circulating, Ledger!In
    <2> QED
      BY <2>1, TypedStep, OwedAtFaceValue, CostsAreAmounts
  <1>2. ASSUME NEW q \in Output, Ledger!Redeem(q), q \in C, C' = C \ {q}
        PROVE  SumFunctionOnSet(Cost', C') <= SumFunctionOnSet(Cost, C)
    <2>1. C \in SUBSET Output /\ \A p \in C : notes[p].state # "absent"
      BY DEF Ledger!Circulating, Ledger!In
    <2>2. C \ {q} \in SUBSET Output /\ \A p \in C \ {q} : notes[p].state # "absent"
      BY <2>1
    <2>3. /\ SumFunctionOnSet(Cost', C \ {q}) = SumFunctionOnSet(Cost, C \ {q})
          /\ SumFunctionOnSet(Cost, C \ {q}) \in Nat
          /\ IsFiniteSet(C) /\ \A p \in C : Cost[p] \in Nat
      BY <2>1, <2>2, CostsKept, CostsAreAmounts
    <2> HIDE DEF C
    <2>4. SumFunctionOnSet(Cost, C) = Cost[q] + SumFunctionOnSet(Cost, C \ {q})
      BY <1>2, <2>3, SumWithout
    <2> QED
      BY <1>2, <2>3, <2>4
  <1>3. \A q \in Output : ~Ledger!Deposit(q)
    BY NothingDeposited
  <1>4. SumFunctionOnSet(Cost', C') <= SumFunctionOnSet(Cost, C)
    BY <1>2, <1>3, LedgerStep, CirculationShrinks
  <1> HIDE DEF C
  <1> QED
    BY <1>1, <1>4

\* A mint winding down owes no more from step to step, as long as melting is
\* free: a refunded merge fee is what makes it owe more.
THEOREM WindingDownOwesLess ==
  "melt" \notin Payable /\ Fees.base = 0 => (Spec => SunsetStopsGrowth)
  <1> SUFFICES ASSUME "melt" \notin Payable, Fees.base = 0
               PROVE  Spec => SunsetStopsGrowth
    OBVIOUS
  <1>1. Init => NoSales
    BY DEF Init, InitStore, NoInvoice, NoSales
  <1>2. BooksInv /\ NoSales /\ [Next]_vars => NoSales'
    BY NoSalesStep, BooksSplit
  <1>3. BooksInv /\ NoSales /\ [Next]_vars => [On("sunset") => Liabilities' <= Liabilities]_vars
    BY SunsetStep, BooksSplit
  <1> QED
    BY <1>1, <1>2, <1>3, BooksHold, PTL DEF Spec, SunsetStopsGrowth
===========================================================================
