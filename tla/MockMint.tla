------------------------------ MODULE MockMint ------------------------------
(***************************************************************************)
(* The SERVICE of mock-mint/index.mjs: its three groups of handlers over   *)
(* one store, and what holds of every interleaving of their steps.         *)
(***************************************************************************)
EXTENDS WithdrawCallback, PayCallback, AddressRegistry

Init == InitStore

Next == WithdrawStep \/ PayStep \/ RegistryStep

\* node fires every timer it has set.
Fairness == \A q \in Output, hash \in Hash \cup {None} :
              WF_vars(MeltResolves([q |-> q, hash |-> hash]))

Spec == Init /\ [][Next]_vars
FairSpec == Spec /\ Fairness

---------------------------------------------------------------------------
\* Every map holds what its comment says it holds.
TypeOK ==
  /\ notes \in [Output -> Note]
  /\ invoices \in [Hash -> Invoice]
  /\ invoiceNotes \subseteq Output
  /\ swaps \subseteq Swap
  /\ boundOutputs \in [Output -> Hash \cup {None}]
  /\ registrations \in [Username -> Registration]
  /\ usedKeys \subseteq XOnly
  /\ timers \subseteq Timer
  /\ answer \in Answer \cup {Silence}

\* The note a settled payment bought: the one its quote named, or the next of
\* an address's share, if the address was still there.
Credited(hash) ==
  IF ~invoices[hash].settled THEN {}
  ELSE CASE invoices[hash].use = "mint" -> {target(hash)}
         [] invoices[hash].use = "address" -> {invoices[hash].creditedTo} \ {None}
         [] OTHER -> {}

\* Face value, and the fee kept back to pay for melting the note one day.
Cost == [q \in Output |-> notes[q].amountMsat + Fees.base]

\* What the mint was given: the payments that bought notes, and the notes the
\* fixture credited.
Bought == {hash \in Hash : Credited(hash) # {}}
Received ==
  SumFunctionOnSet([hash \in Hash |-> invoices[hash].invoiced], Bought)
  + SumFunctionOnSet([q \in Output |-> Funded[q] + Fees.base],
                     {q \in Output : Funded[q] > 0})

\* What it paid out: a burned note no swap consumed was melted.
Burned == {q \in Output : notes[q].state = "burned"}
Exchanged == UNION {swap.identity.inputs : swap \in swaps}
Melted == SumFunctionOnSet(Cost, Burned \ Exchanged)

Ledger == INSTANCE NoteLedger WITH ledger <- notes, reserve <- Received - Melted,
                                   MeltFee <- Fees.base

\* No interleaving of quotes, settlements, rotates, merges, splits, melts and
\* retries leaves the mint owing more than it was paid and has not paid out,
\* melt fees included (applyFee, the split fee at index.mjs:1521 and the merge
\* refund at index.mjs:1555).
Backed == Ledger!Solvent

\* Every step of the mint is a step of the abstract ledger, or none of its
\* business: value enters only against a payment and leaves only by a melt.
ImplementsLedger == Ledger!Spec

\* An open quote can always land: the note its payment will mint is not there
\* yet and is reserved for it, since settleInvoice silently skips minting over
\* an existing note (index.mjs:665) and the payer would have paid for nothing.
OpenQuote(hash) == invoices[hash].use = "mint" /\ ~invoices[hash].settled
QuoteReserved ==
  /\ \A hash \in Hash :
       OpenQuote(hash) =>
         /\ notes[target(hash)].state = "absent"
         /\ IF invoices[hash].boundTo = None THEN target(hash) \in invoiceNotes
                                             ELSE boundOutputs[target(hash)] = hash
  /\ \A q \in Output :
       boundOutputs[q] # None =>
         OpenQuote(boundOutputs[q]) /\ invoices[boundOutputs[q]].boundTo = q

\* A note pays for at most one exchange and is created by at most one: no two
\* recorded swaps share an input or an output, and every input is burned.
NoDoubleSpend ==
  /\ \A s \in swaps : \A q \in s.identity.inputs : notes[q].state = "burned"
  /\ \A s, t \in swaps :
       s # t => /\ s.identity.inputs \cap t.identity.inputs = {}
                /\ {c.q : c \in s.outputs} \cap {c.q : c \in t.outputs} = {}

\* Every certificate the mint can hand out again on a retry names a note it
\* minted, at the value that note still has (the replay branch, index.mjs:1421).
CertificatesTrue ==
  \A s \in swaps : \A c \in s.outputs :
    notes[c.q].state # "absent" /\ notes[c.q].amountMsat = c.amountMsat

\* A note in flight has exactly one timer, and a timer exactly one note in
\* flight: its unconditional write (index.mjs:1489) touches nothing else.
TimersOwnPending ==
  /\ \A t \in timers : notes[t.q].state = "pending"
  /\ \A s, t \in timers : s.q = t.q => s = t

\* The note a mint quote's payment preimage would open is never minted while
\* quotes must be named, so /verify may publish the preimage (index.mjs:1208).
PreimageOpensNothing ==
  On("commentFallsBack") \/
  \A hash \in Hash :
    invoices[hash].use = "mint" => notes[BearerOf[hash]].state = "absent"

\* No two payments are credited to one note: the notes that settled quotes and
\* settled address payments brought into existence are all different.
CreditsDistinct ==
  \A g, h \in Hash : g # h => Credited(g) \cap Credited(h) = {}

\* A share is on file for one username at a time, and a registration that has
\* a fee is published exactly when the fee issued for it is paid, not when a
\* late one for a registration since given up is (settleInvoice, index.mjs:653).
SharesOnFile ==
  /\ \A u, v \in Username :
       /\ u # v /\ Registered(u) /\ Registered(v)
       => KeyOf[registrations[u].cx1] # KeyOf[registrations[v].cx1]
  /\ \A u \in Username :
       LET fee == registrations[u].paymentHash IN
       Registered(u) =>
         IF fee = None THEN registrations[u].paid
         ELSE /\ invoices[fee].use = "addressFee" /\ invoices[fee].user = u
              /\ invoices[fee].settled = registrations[u].paid

\* What comes on file has a key never accepted before, and it is not forgotten.
NewKeysOnly ==
  /\ usedKeys \subseteq usedKeys'
  /\ \A u \in Username :
       registrations'[u].cx1 \notin {None, registrations[u].cx1}
         => KeyOf[registrations'[u].cx1] \in usedKeys' \ usedKeys

\* A share serves one username at a time and, whatever is given up or replaced
\* meanwhile and under whatever chain code, is accepted no more than once
\* (cx1Used, index.mjs:550); an unpaid registration is not published.  The mint
\* starts with nothing on file.
SharesExclusive == [][SharesOnFile' /\ NewKeysOnly]_vars

\* Once burned, a note stays burned, and no note ever changes its value: a
\* prior holder's spend never opens anything again.
Advance == [absent      |-> {"absent", "outstanding"},
            outstanding |-> {"outstanding", "pending", "burned"},
            pending     |-> {"pending", "outstanding", "burned"},
            burned      |-> {"burned"}]
BurnedStaysBurned ==
  [][\A q \in Output :
       /\ notes'[q].state \in Advance[notes[q].state]
       /\ notes[q].state # "absent" => notes'[q].amountMsat = notes[q].amountMsat]_vars

---------------------------------------------------------------------------
(***************************************************************************)
(* What the invariants above rest on.                                      *)
(***************************************************************************)
\* An invoice that buys or pays for a note is worth one.
InvoicesWorth ==
  \A hash \in Hash :
    invoices[hash].use \in {"mint", "address", "melt"} => invoices[hash].amountMsat \in Amount

\* Only the quote of a note is bound to an output, and a melt's timer settles
\* the invoice of a melt.
UsesKept ==
  /\ \A hash \in Hash : invoices[hash].use # "mint" => invoices[hash].boundTo = None
  /\ \A timer \in timers : timer.hash # None => invoices[timer.hash].use = "melt"

\* Every quote, settled or not, has an output of its own that is taken, and a
\* fallback note that is taken; only the legacy flag leaves a quote unnamed.
QuoteClaims ==
  /\ \A hash \in Hash :
       invoices[hash].use = "mint" =>
         /\ outputInUse(target(hash))
         /\ BearerOf[hash] \in invoiceNotes
         /\ invoices[hash].boundTo = None => On("commentFallsBack")
  /\ \A hash, other \in Hash :
       invoices[hash].use = "mint" /\ invoices[other].use = "mint" =>
         /\ hash # other => target(hash) # target(other)
         /\ invoices[hash].boundTo # BearerOf[other]

\* A note a payment has credited is never absent again, and none is credited
\* before the payment.
CreditedNotesExist ==
  \A hash \in Hash :
    /\ \A q \in Credited(hash) : notes[q].state # "absent"
    /\ ~invoices[hash].settled => invoices[hash].creditedTo = None

\* The key of a registered share is among the keys ever accepted.
SharesUsed == \A u \in Username : Registered(u) => KeyOf[registrations[u].cx1] \in usedKeys

IInv ==
  /\ TypeOK /\ InvoicesWorth /\ UsesKept
  /\ TimersOwnPending
  /\ QuoteReserved /\ QuoteClaims /\ PreimageOpensNothing
  /\ CreditsDistinct /\ CreditedNotesExist
  /\ NoDoubleSpend /\ CertificatesTrue
  /\ SharesOnFile /\ SharesUsed

\* What an invoice asks for covers the note it buys and the fee kept back for
\* melting that note (applyFee, index.mjs:674).
InvoicesCover ==
  \A hash \in Hash :
    invoices[hash].use \in {"mint", "address"} =>
      invoices[hash].amountMsat + Fees.base <= invoices[hash].invoiced

\* Under /verify each melt in flight has an invoice of its own, for what its
\* note is worth, which no other report has settled.
MeltsFiled ==
  \A timer \in timers :
    /\ On("verify") => timer.hash # None
    /\ timer.hash # None =>
         /\ ~invoices[timer.hash].settled
         /\ invoices[timer.hash].amountMsat = notes[timer.q].amountMsat
         /\ \A other \in timers : other.hash = timer.hash => other = timer

BooksInv == IInv /\ InvoicesCover /\ MeltsFiled

---------------------------------------------------------------------------
\* A melt that starts is resolved the way its payment ended: the note comes
\* back if the payment failed and is burned if it was made.
MeltsResolve ==
  \A q \in Output :
    notes[q].state = "pending"
      ~> notes[q].state = IF On("meltAlwaysFails") THEN "outstanding" ELSE "burned"

\* What /verify reports as paid out is exactly what melts have burned.
PaidOut == [hash \in Hash |-> invoices[hash].amountMsat + Fees.base]
ReportedPaid == {hash \in Hash : invoices[hash].use = "melt" /\ invoices[hash].settled}
MeltsAccounted == On("verify") => SumFunctionOnSet(PaidOut, ReportedPaid) = Melted

\* Under --sunset the mint's liabilities never grow (README.md:108).
Liabilities == SumFunctionOnSet([q \in Output |-> notes[q].amountMsat],
                 {q \in Output : notes[q].state \in {"outstanding", "pending"}})
SunsetStopsGrowth == [][On("sunset") => Liabilities' <= Liabilities]_vars

\* A settled address payment has credited a note ("an address payment credits
\* the share's next unused key", index.mjs:643).
AddressPaymentsLand ==
  \A hash \in Hash : invoices[hash].use = "address" /\ invoices[hash].settled
                      => invoices[hash].creditedTo # None
=============================================================================
