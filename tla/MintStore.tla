----------------------------- MODULE MintStore -----------------------------
(***************************************************************************)
(* What one createMockMint(options) closes over: the notes, the invoices,  *)
(* the outputs spoken for, the record of swaps, the Lightning Address      *)
(* registrations and the running melt timers, with the helpers every       *)
(* handler shares.  A Map that has no entry for a key is a total function  *)
(* holding "absent", "none" or None there.                                 *)
(***************************************************************************)
EXTENDS Integers, FiniteSets, Functions, FeeSchedule

CONSTANTS
  Output,       \* output keys hex(Q): notes and the names of notes to be
  Hash,         \* payment hashes a random preimage can have
  Username,     \* Lightning Address names
  Cx1,          \* the cx1 a registration may carry: a share's public half
  XOnly,        \* the share keys P those hold
  None,         \* the null and undefined of the code
  BearerOf,     \* Hash -> Output: the bearer note a preimage opens
  KeyOf,        \* Cx1 -> XOnly: two cx1 may hold one key
  ShareNote,    \* Cx1 -> Index -> Output: the notes a share derives
  ShareDepth,   \* bound on the indices of a share: the code has no end
  Funded,       \* notes the fixture credits before any request: Output -> Nat
  Options,      \* the opts that are on
  Fees,         \* opts.baseFeeMsat and the rest of the fee schedule
  ConfiguredMin, MaxSendable, AddressFee, MergeCap,
  MaxAmount     \* bound on the value of a note, the safe integers of the code

\* Those of the DEFAULTS (index.mjs:73) that the mint modelled here reads;
\* refuseRetries is its retriedMutation: 'refuse'.
OptionName == {"sunset", "verify", "meltNeverSettles", "meltAlwaysFails",
               "refuseRetries", "dropAfterMutation", "mintToHash",
               "commentFallsBack"}

Index == 0 .. ShareDepth
Amount == 1 .. MaxAmount
SafeInteger == -MaxAmount .. MaxAmount

ASSUME NoneIsNothing ==
  None \notin Output \cup Hash \cup Username \cup Cx1 \cup Nat
\* An output key and a payment hash have a fixed number of bytes.
ASSUME KeysAreFinite == IsFiniteSet(Output) /\ IsFiniteSet(Hash)
ASSUME DerivationsAreFunctions ==
  /\ BearerOf \in [Hash -> Output]
  /\ KeyOf \in [Cx1 -> XOnly]
  /\ ShareNote \in [Cx1 -> [Index -> Output]]
ASSUME HashesDoNotCollide ==
  \A g, h \in Hash : BearerOf[g] = BearerOf[h] => g = h
ASSUME Configuration ==
  /\ Options \subseteq OptionName
  /\ Fees \in Schedule
  /\ {ConfiguredMin, MaxSendable, AddressFee, MergeCap, MaxAmount, ShareDepth}
       \subseteq Nat
  /\ Funded \in [Output -> 0 .. MaxAmount]

VARIABLES
  notes,          \* Output -> the note stored at it
  invoices,       \* Hash -> the invoice
  invoiceNotes,   \* fallback notes of the mint invoices issued so far
  swaps,          \* what each set of inputs was exchanged for
  boundOutputs,   \* Output -> the hash of the quote that will credit it
  registrations,  \* Username -> the share it credits
  usedKeys,       \* every share key ever accepted
  timers,         \* the setTimeout callbacks of melts in flight
  answer          \* the answer to the request this step handled

noteVars == <<notes, swaps, timers>>
quoteVars == <<invoices, invoiceNotes, boundOutputs>>
shareVars == <<registrations, usedKeys>>
vars == <<notes, invoices, invoiceNotes, swaps, boundOutputs,
          registrations, usedKeys, timers, answer>>

---------------------------------------------------------------------------
NoteState == {"absent", "outstanding", "pending", "burned"}
NoNote == [state |-> "absent", amountMsat |-> 0]
Note == {NoNote} \cup [state : NoteState \ {"absent"}, amountMsat : Amount]

\* use names the fields the code fills in: a mint quote may have boundTo, an
\* address payment has share, an address fee has registrationFor, and a melt
\* has none of them.  invoiced is the amount its pr asks for.
Use == {"none", "mint", "address", "addressFee", "melt"}
Invoice == [use : Use, amountMsat : Nat, invoiced : Nat, settled : BOOLEAN,
            boundTo : Output \cup {None}, user : Username \cup {None},
            creditedTo : Output \cup {None}]
NoInvoice == [use |-> "none", amountMsat |-> 0, invoiced |-> 0,
              settled |-> FALSE, boundTo |-> None, user |-> None,
              creditedTo |-> None]

Certificate == [q : Output, amountMsat : Amount]
Identity == [inputs : SUBSET Output, out1 : Output,
             out2 : Output \cup {None}, amount : Nat \cup {None}]
Swap == [identity : Identity, outputs : SUBSET Certificate]

Registration == [cx1 : Cx1 \cup {None}, paid : BOOLEAN,
                 paymentHash : Hash \cup {None}]
NoRegistration == [cx1 |-> None, paid |-> FALSE, paymentHash |-> None]

\* A melt's closure: the note it holds and the hash of its own invoice.
Timer == [q : Output, hash : Hash \cup {None}]

Status == {"OK", "refused", "already in use", "pending"}
Answer == [status : Status, certificates : SUBSET Certificate]
Silence == [status |-> "none", certificates |-> {}]

---------------------------------------------------------------------------
On(option) == option \in Options

Reply(status, certificates) ==
  answer' = [status |-> status, certificates |-> certificates]

\* finish(): a mutation already applied may go unanswered.
Finish(certificates) ==
  answer' = IF On("dropAfterMutation") THEN Silence
            ELSE [status |-> "OK", certificates |-> certificates]

\* Faults in outputInUse the runs must notice: a burned note's output taken
\* for free, a quote's bound output, an invoice's fallback note.
outputInUse_forgetsBurned(q) ==
  notes[q].state \in {"outstanding", "pending"} \/ q \in invoiceNotes \/ boundOutputs[q] # None
outputInUse_forgetsQuotes(q) == notes[q].state # "absent" \/ q \in invoiceNotes
outputInUse_forgetsFallbacks(q) == notes[q].state # "absent" \/ boundOutputs[q] # None

\* A Q spoken for: a note in any state, the fallback note of an invoice, or
\* the output a bound quote is waiting to credit.
outputInUse(q) ==
  \/ notes[q].state # "absent"
  \/ q \in invoiceNotes
  \/ boundOutputs[q] # None

Minted(amount) == [state |-> "outstanding", amountMsat |-> amount]

\* The table with some notes moved to a state, their value untouched.
Moved(table, outputs, state) ==
  [q \in Output |-> IF q \in outputs THEN [table[q] EXCEPT !.state = state]
                                     ELSE table[q]]

\* The hash of a fresh random preimage: no invoice has it, and nobody can
\* have named the note only that preimage opens.
Fresh(hash) ==
  /\ invoices[hash].use = "none"
  /\ ~outputInUse(BearerOf[hash])

InitStore ==
  /\ notes = [q \in Output |-> IF Funded[q] = 0 THEN NoNote
                               ELSE Minted(Funded[q])]
  /\ invoices = [hash \in Hash |-> NoInvoice]
  /\ invoiceNotes = {}
  /\ swaps = {}
  /\ boundOutputs = [q \in Output |-> None]
  /\ registrations = [u \in Username |-> NoRegistration]
  /\ usedKeys = {}
  /\ timers = {}
  /\ answer = Silence
=============================================================================
