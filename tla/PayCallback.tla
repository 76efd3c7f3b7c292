---------------------------- MODULE PayCallback ----------------------------
(***************************************************************************)
(* GET /p/cb and /p/cb/<name>, which quote a note for a payment, and       *)
(* settleInvoice, which the node's report of a payment reaches: it mints   *)
(* the note of a quote, credits an address's share, or publishes the       *)
(* registration its fee was for.                                           *)
(***************************************************************************)
EXTENDS MintStore

CONSTANTS
  Gross,     \* the amounts a payer asks an invoice for
  Payable    \* the invoices, by use, a payment can be reported for

ASSUME PaymentsAreReported ==
  /\ Gross \subseteq Nat
  /\ Payable \subseteq Use \ {"none"}
  /\ MaxSendable <= MaxAmount   \* so that every net amount is an Amount

\* Above this the search for the smallest sendable amount gives up.
SearchBound == 4 * (ConfiguredMin + Fees.base + 1 + MaxSendable)
MinSendable == minSendableMsat(Fees, ConfiguredMin, SearchBound)

\* Fault: a mint winding down still sells notes.
AmountAccepted_sunset(gross) ==
  /\ gross >= MinSendable /\ gross <= MaxSendable
  /\ applyFee(Fees, gross) \in Amount
AmountAccepted(gross) ==
  /\ ~On("sunset")
  /\ gross >= MinSendable /\ gross <= MaxSendable
  /\ applyFee(Fees, gross) \in Amount

\* The h parameter is read only under mintToHash; the comment always is.
readH(h) == IF On("mintToHash") THEN h ELSE None

NamesFreeOutput(comment, h) ==
  /\ \A q \in {comment, readH(h)} \ {None} : ~outputInUse(q)
  /\ comment # None /\ readH(h) # None => comment = h
  /\ comment # None \/ On("commentFallsBack")

\* A quote binds the output its comment names, or failing that its h, and
\* keeps the fallback note of its payment hash from being minted over.
Quote(gross, comment, h, hash) ==
  LET bound == IF comment # None THEN comment ELSE readH(h) IN
  /\ AmountAccepted(gross)
  /\ NamesFreeOutput(comment, h)
  /\ Fresh(hash)
  /\ BearerOf[hash] # bound
  /\ invoices' = [invoices EXCEPT ![hash] =
                   [NoInvoice EXCEPT !.use = "mint", !.boundTo = bound,
                                     !.amountMsat = applyFee(Fees, gross),
                                     !.invoiced = gross]]
  /\ invoiceNotes' = invoiceNotes \cup {BearerOf[hash]}
  /\ boundOutputs' = [q \in Output |-> IF q = bound THEN hash ELSE boundOutputs[q]]
  /\ Reply("OK", {})
  /\ UNCHANGED <<noteVars, shareVars>>

QuoteRefusable == \E gross \in Gross, comment, h \in Output \cup {None} :
                    ~(AmountAccepted(gross) /\ NamesFreeOutput(comment, h))

RefuseQuote ==
  /\ QuoteRefusable = TRUE
  /\ Reply("refused", {})
  /\ UNCHANGED <<noteVars, quoteVars, shareVars>>

\* A Lightning Address reads no comment: the note is chosen on settlement.
Published(u) == registrations[u].cx1 # None /\ registrations[u].paid

AddressQuote(u, gross, hash) ==
  /\ Published(u)
  /\ AmountAccepted(gross)
  /\ Fresh(hash)
  /\ invoices' = [invoices EXCEPT ![hash] =
                   [NoInvoice EXCEPT !.use = "address", !.user = u,
                                     !.amountMsat = applyFee(Fees, gross),
                                     !.invoiced = gross]]
  /\ Reply("OK", {})
  /\ UNCHANGED <<invoiceNotes, boundOutputs, noteVars, shareVars>>

RefuseAddressQuote ==
  /\ \E u \in Username, gross \in Gross : ~(Published(u) /\ AmountAccepted(gross))
  /\ Reply("refused", {})
  /\ UNCHANGED <<noteVars, quoteVars, shareVars>>

---------------------------------------------------------------------------
Reported(hash) == invoices[hash].use \in Payable /\ ~invoices[hash].settled

\* The comment-bound note, or the note the payment preimage opens.
target(hash) == IF invoices[hash].boundTo # None THEN invoices[hash].boundTo
                                                 ELSE BearerOf[hash]

SettleQuote(hash) ==
  /\ Reported(hash)
  /\ invoices[hash].use \in {"mint", "melt"}
  /\ invoices' = [invoices EXCEPT ![hash].settled = TRUE]
  /\ notes' = [q \in Output |->
                IF q = target(hash) /\ notes[q].state = "absent"
                THEN Minted(invoices[hash].amountMsat) ELSE notes[q]]
  /\ boundOutputs' = [q \in Output |-> IF q = invoices[hash].boundTo THEN None
                                       ELSE boundOutputs[q]]
  /\ answer' = Silence
  /\ UNCHANGED <<swaps, timers, invoiceNotes, shareVars>>

\* Fault: only notes count as used, not the outputs quotes have claimed.
NextShareNote_ignoresQuotes(cx1, q) ==
  \E i \in Index :
    /\ q = ShareNote[cx1][i]
    /\ notes[q].state = "absent"
    /\ \A j \in 0 .. i - 1 : notes[ShareNote[cx1][j]].state # "absent"
\* The share registered now, at its first index not in use.
NextShareNote(cx1, q) ==
  \E i \in Index :
    /\ q = ShareNote[cx1][i]
    /\ ~outputInUse(q)
    /\ \A j \in 0 .. i - 1 : outputInUse(ShareNote[cx1][j])

SettleAddressPayment(hash) ==
  LET cx1 == registrations[invoices[hash].user].cx1 IN
  /\ Reported(hash)
  /\ invoices[hash].use = "address"
  /\ \/ /\ cx1 = None
        /\ invoices' = [invoices EXCEPT ![hash].settled = TRUE]
        /\ UNCHANGED notes
     \/ /\ cx1 # None
        /\ \E q \in Output :
             /\ NextShareNote(cx1, q)
             /\ invoices' = [invoices EXCEPT ![hash].settled = TRUE,
                                             ![hash].creditedTo = q]
             /\ notes' = [notes EXCEPT ![q] = Minted(invoices[hash].amountMsat)]
  /\ answer' = Silence
  /\ UNCHANGED <<swaps, timers, invoiceNotes, boundOutputs, shareVars>>

\* Fault: any fee once issued for the username publishes what it now serves.
SettleAddressFee_anyFee(hash) ==
  LET u == invoices[hash].user IN
  /\ Reported(hash)
  /\ invoices[hash].use = "addressFee"
  /\ invoices' = [invoices EXCEPT ![hash].settled = TRUE]
  /\ registrations' = IF registrations[u].cx1 # None
                      THEN [registrations EXCEPT ![u].paid = TRUE]
                      ELSE registrations
  /\ answer' = Silence
  /\ UNCHANGED <<usedKeys, invoiceNotes, boundOutputs, noteVars>>
\* Only the fee of the registration now on file publishes it.
SettleAddressFee(hash) ==
  LET u == invoices[hash].user IN
  /\ Reported(hash)
  /\ invoices[hash].use = "addressFee"
  /\ invoices' = [invoices EXCEPT ![hash].settled = TRUE]
  /\ registrations' = IF registrations[u].paymentHash = hash
                      THEN [registrations EXCEPT ![u].paid = TRUE]
                      ELSE registrations
  /\ answer' = Silence
  /\ UNCHANGED <<usedKeys, invoiceNotes, boundOutputs, noteVars>>

PayStep ==
  \/ RefuseQuote
  \/ RefuseAddressQuote
  \/ \E hash \in Hash :
       \/ \E gross \in Gross, comment, h \in Output \cup {None} :
            Quote(gross, comment, h, hash)
       \/ \E u \in Username, gross \in Gross : AddressQuote(u, gross, hash)
       \/ SettleQuote(hash)
       \/ SettleAddressPayment(hash)
       \/ SettleAddressFee(hash)
=============================================================================
