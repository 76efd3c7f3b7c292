# A verification of lnurlcash-conformance

This directory holds TLA+ models of lnurlcash-conformance, the TLC
configurations that check them on small instances, and proofs that hold for
every instance. Paths are relative to the repository; `mock` stands for
`mock-mint/index.mjs` and `runner` for `runner/index.mjs`.

## The system

The repository ships a mint that can be told to misbehave (`mock-mint/`), a
grader that judges a mint from the outside (`runner/`), test vectors
(`vectors/`), and the tools that generate the vectors and check both programs
against each other (`tools/`).

| Component | State | Operations | What is hard about it |
| --- | --- | --- | --- |
| Fee schedule, `mock:674-698` | none | `applyFee`, `minSendableMsat` | rounding, the smallest amount, a search that must end |
| Note store, `mock:424-488` | `notes`, `invoices`, `invoiceNotes`, `swaps`, `boundOutputs` | `mintNote`, `outputInUse`, `swapIdentity` | one output with two owners |
| Withdraw callback, `mock:1370-1567` | moves notes, records swaps, sets timers | melt, split, rotate, merge, replay of a retry | a note spent twice, a retry applied twice, value from nothing, a lost answer, a note stuck in flight |
| Pay callbacks and settlement, `mock:646-668`, `1059-1229` | invoices and their claims | quote, address quote, `settleInvoice` | an output taken between quote and payment; a payment that lands nowhere |
| Lightning Address registry, `mock:490-640` | `registrations`, `usedKeys` | POST, PUT, DELETE | a share registered twice, a captured proof replayed, a late fee publishing the wrong registration |
| Informational endpoints, `mock:879-1056`, `1231-1367` | read only | `/w`, the payRequest, the address, `/verify`, `/stats` | a published preimage that opens a note |
| Test hooks, `mock:700-783` | write any of the above | credit, settle, settleMelt, failMelt | a hook racing a melt's own timer |
| Spend judge, `mock-mint/spend.mjs` | none | decode a spend, judge it against the clock | boundaries of the time rules; a second wire form; OP_SUCCESS hidden in data |
| Grader, `runner/index.mjs` | the note it holds, the addresses it registered, the report | gradeNote, gradeMint, gradeRegistration, gradeMintedValue | losing the note when an answer is lost; accusing an honest mint; missing a dishonest one; leaving a mess behind |
| Libraries of the grader, `runner/spend.mjs`, `share.mjs` | none | encode a cw1, build its tree, derive notes | disagreeing with the judge |
| Vector generator, `tools/generate.mjs` | none | derivations, `grossUpFee`, `retryOutcome`, `settleOutcome` | a vector no mint can satisfy |
| Self checks, `tools/selfcheck.mjs`, `selfgrade.mjs` | none | second readings; every option graded | an option that no check catches |

Everything in the mint interacts through the one store. A quote claims an output
(`boundOutputs`, `invoiceNotes`); the withdraw callback must refuse to mint over
it (`outputInUse`); the payment, reported later, mints it. An address payment
picks its output at settlement, from the share registered *then*, among outputs
the other handlers may have taken. A melt leaves a `setTimeout` behind that
writes the note's state 20 ms later without looking at it. The grader is the
mint's client over HTTP: it sends one request at a time, holds one note across
many checks, and must tell a misbehaving mint from a network that loses, repeats
and rate limits.

`PROJECT.json` lists the hazards at their lines, with the properties that would
catch each, the mapping from definitions to source lines, and for each property
a plausible bug of the code that breaks it.

## The modules

The mint, for any number of callers:

| Module | Models | Correspondence |
| --- | --- | --- |
| `FeeSchedule` | `applyFee`, `minSendableMsat` | a schedule is the record of the four fee options; doubling and binary search are recursive functions |
| `MintStore` | the store and its helpers | one variable per map or set, under the code's name; `timers` for pending `setTimeout` callbacks; `answer` for what this step's request was told |
| `WithdrawCallback` | `GET /w/cb` | `Melt`, `MeltResolves`, `Split`, `Merge` (a rotate is a merge of one), `Replay`, `Refuse` |
| `PayCallback` | `GET /p/cb`, `/p/cb/<name>`, `settleInvoice` | `Quote`, `AddressQuote`, the refusals, one settlement per kind of invoice |
| `AddressRegistry` | `handleRegistration` | `Post`, `Put`, `Delete`, `RefuseRegistration` |
| `MockMint` | the handlers over one store | `Next`, the properties, the inductive invariant `IInv` |
| `NoteLedger` | no code: what a mint promises its holders | `Deposit`, `Swap`, `Hold`, `Restore`, `Redeem` over a ledger and a reserve |

The judge of spends:

| Module | Models |
| --- | --- |
| `SpendRules` | the rules of `mock-mint/spend.mjs`: locktime, relative lock, satisfied script, signature and its domain; the probes `runner` makes of them |
| `SpendJudge` | a note whose holder keeps trying every spend while the clock runs |
| `SpendWire` | the frame of a cw1 as both libraries encode and decode it, the walk for OP_SUCCESS, the tree that a leaf's control block opens |

The grader and the mint it grades. Here a mint carries one misbehaviour option,
and a handler is an operator from a store and a request to a store and an answer,
so that a request may be lost, or delivered twice:

| Module | Models |
| --- | --- |
| `Grade` | a check as a sequence of requests, `createReport`, the waits on HTTP 429 in `get` and `call`, and the HTTP underneath |
| `GradedMint` | `/w`, `/w/cb` and certificates, with every option that spoils them |
| `NoteGrader` | `gradeNote`, one action per check and per `await` in it |
| `SelfGrade` | what `tools/selfgrade.mjs` expects of `gradeNote`: which check catches which option |
| `GradedPay` | payRequest, quotes, `/verify`, the mint address, `/stats` and the registry, with every option that spoils them |
| `AddressRules` | the checks `gradeMint` and `gradeRegistration` share |
| `MintGrader`, `RegistrationGrader` | `gradeMint` (payRequest, address, bound mint) and `gradeRegistration`, with what `selfgrade.mjs` expects of each |
| `PayGrader` | both, each against the one mint of `GradedPay` |

The vectors that pin down running code:

| Module | Models |
| --- | --- |
| `MintFees` | a purchase: the wallet's search (`grossUpFee`, one action per turn of its loops), the quote and the credit of the mint, `gradeMintedValue` |
| `RetryVectors` | `retryOutcome` against the callback of `GradedMint`, over sequences of requests |
| `Vectors` | both, one at a time |

`MCMockMint`, `MCSpendJudge`, `MCNoteGrader`, `MCPayGrader` and `MCVectors` give
constants their values; `SpendWire` needs none.

The theorems:

| Module | Proves |
| --- | --- |
| `MockMintProofs` | types; what a note, a quote and a share may become; that the mint is a `NoteLedger`, and its reserve covers what it owes |
| `NoteGraderProofs` | types, and conservation of value, under any grade |
| `HonestMintProofs` | the course of a grade: what an honest mint answers to each of its requests (lemmas only) |
| `HonestGradeProofs` | that a grade keeps to that course, so accuses nobody and holds all the value between checks |
| `PayGraderProofs` | that no grade of the pay side leaves a registration behind, and none of the registrations blames a mint that keeps LUD-26 |
| `SpendJudgeProofs` | the rules of time, and the probes |
| `VectorsProofs` | the two fee searches, purchases, and retries |
| `NumberTheorems` | the arithmetic these share: quotients, and sums over finite sets |

### Abstractions

- *A handler is one action.* The mint has no `await` between its first read of
  the store and its answer; what runs later is the melt's timer, an action of
  its own. A POST body arrives in pieces, but `handleRegistration` runs once it
  is complete. The grader has an `await` at every request, so each of its actions
  runs from one answer to the next request.
- *A `Map`* is a total function that holds `absent`, `none` or `None` where the
  map has no entry (a partial function in the graded mint).
- *Outputs, shares and preimages* are opaque. What the code derives is a constant
  function: `BearerOf[hash]` is the note a preimage opens, `KeyOf[cx1]` the key in
  a `cx1`, `ShareNote[cx1][i]` the i-th note of a share. A fresh random preimage
  is a hash no invoice has and whose note nobody could have named (`Fresh`); two
  hashes never open one note (`HashesDoNotCollide`). Both stand for 256 bits of
  randomness.
- *Signatures* are a bit of the request (`opens`) where only success matters, and
  the pair of signer and message where a check looks inside.
- *Amounts* are integers; the code takes any finite number, fractions included.
- *Spelling*. `MockMint` compares an amount in a mutation's identity as a number;
  `GradedMint` keeps the spelling of notes and outputs, which is what
  `retriedMutation` and `hashLookup` are about.
- *A withheld answer* (`dropAfterMutation`) leaves the store as an answered one
  would, and `answer` empty.
- *Init* credits notes as the `credit` hook would before the first request.

## The properties

The mint. `NoDoubleSpend` and `BurnedStaysBurned`: a note funds one exchange and
is created by one. `CertificatesTrue`: what a retry is answered with is still
what the notes are worth. `TimersOwnPending`: why the timer's unconditional write
is harmless. `QuoteReserved`: an open quote can always land (`settleInvoice`
mints nothing, silently, if its output was taken). `CreditsDistinct`: no two
payments end in one note. `PreimageOpensNothing`: why `/verify` may publish a
quote's preimage. `SharesExclusive`: a share serves one username at a time,
its key is accepted once in the life of the mint, under whatever chain code, and
only the fee issued for a registration publishes it, not a late one for a
registration given up since. `Backed`,
`MeltsAccounted` and `ImplementsLedger`: the books; under the mapping
`ledger <- notes`, `reserve <- Received - Melted` every step is a step of
`NoteLedger` or leaves both alone. `Received` counts the payments that bought a
note: one that landed nowhere is the mint's to keep. Counting a note at its amount *plus the fee to
melt it* is what makes the split fee and the merge refund balance.
`SunsetStopsGrowth`: under sunset no step makes the mint owe more.
`MeltsResolve`: every melt is settled or given back.

The judge. `OpensWhenDue`: a script spend opens exactly when its locks are due,
by a declarative reading of the rules. `OpensFromThenOn`: and stays open.
`ProbesIsolateRules`: each probe of the grader breaks one rule, so a mint that
accepts it is missing that one. `OneWireForm`: no two frames decode to one spend.
`SuccessIsCode`: the walk finds an OP_SUCCESS exactly where one is code.
`TreeOpens`: every leaf opens its tree by its own control block and by no other.

The graders. `FaultsCaught`, `MintFaultsCaught`, `RegistrationFaultsCaught`:
each option fails the checks that are there for it, and an option that breaks no
rule fails none. `HonestPasses`, `PassesClean`: a conforming mint passes,
through GETs that HTTP sends twice and rate limits that are waited out.
`RepeatsAccuse`: a quote is no idempotent GET, and one sent twice fails no more
than the two checks that ask for a quote of their own. `HoldsEverything`: under
the same troubles the grader holds a spend of all the value between any two
checks; `BroughtHome`: so it does under every option that only gets a rule of
spending wrong. `ValueConserved`: whatever HTTP does, an honest mint neither
makes nor destroys value while it is graded. `CleansUp`: no registration is left
behind whose key the grader holds. `GradeEnds`: every `gradeNote` ends.

The vectors. `GrossUpExact`: the wallet pays the least that nets the wanted value.
`SoldAsWanted`, `MinimumBuysANote`: the mint quotes it and the note is worth it;
the advertised minimum buys a note. `GradedFairly`: the grader passes a fee
rounded to a sat or not at all and fails a msat beyond. `RetriesReplayed`,
`DoubleSpendsRefused`: a retry is answered as `retryOutcome` says.
`SearchEnds`: the search ends.

## The runs

Deadlock is checked except in `spend_claims`, `spend_wire` and `vectors`, which
end where the clock, the length bound or the purchase ends. A finished grade
stutters by the action `Done`.

| Run | Question | Distinct states | Instance |
| --- | --- | --- | --- |
| `mint` | can any order of split, merge, rotate, melt, timer, retry, quote and payment spend a note twice, create value, or take what a quote claimed? | 4 954 | two funded notes of 3 and 2, five outputs, two hashes, base fee 1, quotes by comment, `h` or both, every list of one or two notes, a note named twice |
| `addresses` | do address payments land on distinct free notes, backed, while shares change hands? | 213 k | three usernames, one reserved; three `cx1`, two of one key; a fee to register; a proportional mint fee; three hashes; unnamed quotes and rotates that aim at the outputs the shares derive |
| `winding_down` | does what the mint owes never grow, and is every melt resolved, though answers are lost? | 128 | `sunset`, `meltAlwaysFails`, `dropAfterMutation`, retries refused, no base fee |
| `spend_claims` | are the time rules right at each boundary, and do the probes isolate them? | 4 356 | eleven instants around the ends of one and two lock units, a year and ten; every locktime and sequence that meets one; every probe |
| `spend_wire` | has a spend one wire form, and does the walk find every OP_SUCCESS? | 147 098 | every frame of up to 8 bytes in base 3, every script of up to 6 over seven bytes (`OP_0`, two direct pushes, `OP_PUSHDATA1`, `2` and `4`, an OP_SUCCESS), each as the third leaf of a tree |
| `note_grade` | does `gradeNote` catch every misbehaviour, spare honest mints and bring the value home? | 895 k | every option; honest mints under any two troubles of HTTP; a bearer note and a cw1, fee known and unknown; note 8, base fee 2 |
| `pay_grade` | do `gradeMint` and `gradeRegistration`, and do they clean up? | 86 k | every option against everything that can be graded; conforming mints, with and without an address fee, under any two troubles |
| `vectors` | is a purchase exact under every fee, and a retry answered as the vectors say? | 59 125 | base 0-4, every ppm below a whole of ten, rounding on and off, extra -1..1, wants 0-9; three mutations over two notes, repeated, reordered, or changed in one field |
| `sunset_merge`, `address_deleted`, `note_lost`, `note_limited` | findings, below | | |

The bounds:

- *Mint.* `ShareDepth` is how many notes a share has in use (the search for the
  next key is unbounded in the code); `MaxAmount` stands for the safe integers;
  `MergeLimit` for the notes one request names; hashes for invoices and melts
  ever issued. A double spend or a stolen output takes two requests over one
  output, a stale replay a third that moves the minted note on, and each run
  has outputs and hashes for the longest of those. `alice` and `bob` are
  interchangeable in `addresses`, which checks no liveness.
- *Scaling.* The schedule's million and the thousand msat of a sat are the
  constants `Million` and `MsatPerSat`. The mint runs keep them; `vectors` takes
  10 and 4, so that every fee below a whole, every sat boundary and every
  remainder occurs. `Largest` is the mint's `maxSendable`, reached by the
  fees near a whole; `SearchBound` bounds the doubling of `minSendableMsat`. The
  wallet's own search is unbounded, as in the code.
- *Wire.* A length prefix has two digits of base `Base` where the code has two
  bytes of 256, and the locktime and sequence before the items take `HeadBytes`, 2
  for 8. `MaxFrame` and `MaxScript` leave room for three items, for one longer
  than one digit can say, and for a push of one, two or four length bytes that
  ends inside the script, at its end, or runs off it. The lowest byte of a length
  comes first, so one of four whose last byte is not zero is longer than any
  script. Bytes stay below 128: TLC computes in 32 bits.
- *Graders.* `Budget` is how many requests HTTP loses, repeats or limits in one
  grade: with two, a rate limit is waited out twice, the retries of `get` and
  `call`. Twenty merged notes are three (`Capped`). `Disturbed` names the mints
  beside which HTTP makes trouble: the conforming ones, since what a
  misbehaving mint is accused of over a bad network is no claim of the grader.

### Fairness

`mint` and `winding_down` ask only that a timer that is set eventually fires,
which is what node's event loop does with `setTimeout`; no request is ever
assumed to be made. `MeltsResolve` needs no more, and holds because nothing but
the timer moves a pending note. `note_grade` asks that a grade goes on
while it can: every `fetch` has an `AbortSignal` of 15 s, a wait for a rate limit
is at most 30 s and happens at most twice. Nothing is assumed of what HTTP
delivers; `Budget` bounds troubles, not checks. `vectors` asks that a
single-threaded loop keeps turning.

### Findings

The runs that expect a violation each check a sentence of the repository that
the code does not keep:

- `sunset_merge`: a merge under `--sunset` refunds base fees, so the mint owes
  more than before. `README.md:108` says sunset refuses anything that grows its
  liabilities.
- `address_deleted`: an address given up between quote and payment takes the
  payment and credits nothing; the comment at `mock:643` says an address
  payment credits a note.
- `note_lost`: an answer lost after the mint applied the request leaves the grader
  on a burned note with nothing kept of the new one; the comment at
  `runner:1432-1433` says that whatever happens it ends holding all the value.
- `note_limited`: `get` parses the body before it looks at the status, so a 429
  whose body is not JSON fails the check under way; the comment at
  `runner:168-170` says a 429 is waited out and no verdict on the mint.

Smaller disagreements met on the way, stated here and not checked by a run:

- `mock:684-687` says `applyFee` is non-decreasing. Not with `roundFeeToSat`: at
  1000 ppm a `minSendable` of 1000 is advertised and nets nothing.
  `MinimumBuysANote` leaves rounding mints out for this reason.
- `mock:662` says the preimage fallback is reachable only under a legacy flag. A
  melt of a `verify` mint files its invoice in the same table (`mock:1478`), and
  the `settle` hook can settle it, which mints on its preimage.
- `settleMelt` and `failMelt` write a note's state whatever it is, and so does the
  timer: under `meltAlwaysFails` a note burned by hand is revived by the timer,
  and one failed by hand is burned by it under a melt that settles. `settleMelt`
  also leaves the melt's `verify` invoice unsettled.
- `vectors/lifecycle.json:86` says a SERVICE refuses any payment hash it has ever
  issued. Address invoices do not reserve theirs, so a rotate may name it. No
  payment is lost: nothing mints on that hash.
- `runner:1920` offers a split that leaves too little change. A mint that accepts
  it moves the value onto outputs nobody kept.
- Three JSON 429s in a row make `rotate` a warning and leave `spent` to fail a
  conforming mint (`runner:1763`), since the spent note was never spent.
- A grader that was not told the fee asks for halves of a note that has no room for
  them and the fee, and reports the mint's refusal as a fault (`runner:1937`,
  `runner:2046`), where the comment at `runner:1437-1439` promises checks that are
  bounded when the fee is unknown.
- A lost answer to the grader's POST leaves the throwaway username registered
  (`runner:1305`), which is why `CleansUp` assumes that answers arrive. So do six
  429s, three to the DELETE of `unregisters` and three to the one meant to leave
  nothing behind.
- `if (accepted(back)) onFile = first` (`runner:1249`) stands after the assertion
  that `back` was refused, and is never reached with an accepted one.
- The comment at `runner:1435-1436` keeps `null` for a known fee-free mint;
  `cli.mjs:118` passes `null` for a fee token that did not parse as well. The
  vector `fees.json:181` has the first *valid* advertisement win, where
  `readFeeAdvertisement` stops at the first token.
- Two rows of the retried-mutation table, a rotate retried with an amount and a
  split retried without `h2`, are refused by the mock as malformed before the
  double spend is seen. `DoubleSpendsRefused` allows for it.
- `tools/generate.mjs:1577` calls 21M BTC 2.1e15 msat; it is 2.1e18.

## The proofs

The proofs take the constants as they come, from the named assumptions of the
modules that declare them, which every run evaluates. They use no bound except
that a note's value stays within `Amount`, which the actions' guards state.

**The mint** (`MockMintProofs`, first half).

- `TypeCorrect`, `TimersFindTheirNotes`: `TypeOK` is not inductive alone. A
  timer that fires must find a real note; a pending note must be an output nobody
  exchanges; what a settlement mints must be an `Amount`. The induction carries
  `Typed == TypeOK /\ InvoicesWorth /\ TimersOwnPending`.
- `NotesOnlyAge`: `BurnedStaysBurned`, from `Typed`. Notes are created only where
  `outputInUse` found none, and the timer only touches a pending note.
- `NotesAreSpentOnce`, `CertificatesStayTrue`: an exchange's inputs are live, hence
  in no recorded swap's inputs (those are burned); its outputs are absent, hence
  in no recorded swap's outputs (those exist).
- `SharesAreExclusive`: a registered key is among `usedKeys` and a new one is not.
  A fee invoice has a fresh hash, so none on file is for another registration, and
  its settlement finds the registration it was issued for or changes nothing.
- `InvariantHolds`, and from it `QuotesStayReserved`, `PreimagesOpenNothing`,
  `CreditsAreDistinct`, *while no payment is reported for a melt's invoice*
  (`"melt" \notin Payable`): `QuoteReserved` is not inductive. That a quote's
  output is free must survive *another* quote's settlement, so no two quotes may
  share a target, nor one be bound to the other's fallback. `QuoteClaims` says so
  of all quotes, settled or not, and is kept because an output in use stays in
  use; `UsesKept` and `CreditedNotesExist` tie settlements to the notes they
  made. The assumption is needed, as the second of the smaller disagreements
  shows. A node reports no incoming payment for an outgoing one's hash, so it is
  the honest case, and the runs make the same choice.

**The books** (`MockMintProofs`, second half), for mints that may issue any finite number of
outputs and hashes (`KeysAreFinite`: both have a fixed number of bytes).

- `BooksHold`: `BooksInv == IInv /\ InvoicesCover /\ MeltsFiled` is inductive.
  `InvoicesCover` says that an invoice asks for no less than the note it will
  mint and the fee of melting it, and `MeltsFiled` that under `verify` every melt
  in flight has an invoice of its own, for its note's amount, which no other
  report has settled. TLC
  checked `BooksInv` on the instances of `mint`, `sunset_merge`, `winding_down` and
  `address_deleted` before it was proved; it is no property of a run, since
  those check what follows from it.
- `MintKeepsALedger`: the refinement. Each action is one step of `NoteLedger` or a
  stutter of it: a settlement is a `Deposit` of what the invoice was issued for, an
  exchange a `Swap` (the split fee paid out of the change and the merge refund paid
  into the note keep the sum of amount plus base fee), a melt a `Hold`, its
  timer a `Redeem` or a `Restore`. Each of the three sums in the mapping changes by
  what one note is worth, or not at all.
- `ReserveCovers` (`Backed`): no step of the ledger makes the notes in circulation
  worth more than the reserve. `MeltsAreReported` (`MeltsAccounted`): only the timer
  melts, and it reports as much as it melts.
- `WindingDownOwesLess` (`SunsetStopsGrowth`) needs `Fees.base = 0`. With a base fee
  it is false, which is what the run `sunset_merge` shows.

All of them suppose `"melt" \notin Payable`, as above: a payment reported for a
melt's invoice mints a note that nobody paid for.

**A grade** (`NoteGraderProofs`), for every option, every note and base fee, and
any number of requests that HTTP repeats, loses or limits. `GradeTyped` (`GraderTypeOK`) and
`GradeConserves` (`ValueConserved`: an honest mint is worth after each request what
it was before). Conservation is no property of the mint alone. `GradedMint` burns
what it is asked to burn, and a request for no notes, or for an output it already
has, would unbalance it; so the invariant follows the value through the
grader. `GradeInv` says that each answer on record carries an amount (`LogRead`),
that the request in flight is one the grader writes (`Waiting`: a callback spends
at least one note, and a split one only), that what the grader remembers from
earlier checks is an amount again (`Remembered`), that it asks for the long form
of a spend only while it holds the short one (`HasLongForm`), and that the ledger
holds face value plus one base fee for each note after the first (`Solvent`). The
first four are there because the amount of one check's request is computed
from another check's answer. There is a lemma for each of `gradeNote`'s checks:
it asks such a request or leaves with a verdict. TLC checked `GradeInv` on the
instance of `note_grade`.

**A grade of an honest mint** (`HonestMintProofs`, `HonestGradeProofs`), for every
note and fee, while HTTP does nothing worse than repeat requests and make at most
`Retries` of them wait (`Patient`; what a lost answer does is the finding
`note_lost`). `GradeHoldsEverything` (`HoldsEverything`) has no other hypothesis. It
says what conservation does not: not only is the value still there, the grader is
the one who can spend it, by the spend it has in hand. `GradeHonestPasses`
(`HonestPasses`) does have one: whoever calls the grader tells it the
mint's fee, or the note has room for two notes and that fee, or it is too small to
be halved (`FairlyAsked`). It is needed: a grader that was not told the fee asks
for two halves whatever the note, and where the mint must refuse them `split` and
`retry` call the refusal a fault (`runner:1937`, `runner:2046`).

Neither property is inductive, or close to it: what a check concludes depends on
what each earlier request did to the mint. The invariant is therefore the whole
history, written down.

- *The course.* `Course(k, given)` lists what check `k` asks and what an honest mint
  answers, request by request. Two thirds of the grade are requests that must
  be refused; `Matches` leaves the reason of those open, except where the
  grader reads it. Where the note is too small to be split, the course is shorter
  (`Roomy`).
- *The books on the way.* The value moves eight times, so there are eight eras.
  `Book(notes, swaps, k, i)` says, after `i` answers of check `k`, which outputs may
  exist, which of them are live and with what amounts, that every other one is
  burned, and which exchange is on file for the retries to come.
- *The mint answers as the course says.* There is one lemma for each check, in
  `HonestMintProofs`: in the books before request `i` the handler gives answer `i`
  and leaves the books after it (`Served`, by `Quiet` or `Exchanges`). A request that HTTP
  sends twice is served twice, so the lemma for an exchange covers the replay as well.
- *The grader reads them as it should.* `OnCourse(k)` ties the log to the course
  (`Heard`), the request in flight to the next of it (`Sent`), the mint to the books
  (`Booked`) and what the grader carries from check to check, its spend among it, to
  the era (`Memory`). One lemma for each check says that whatever it does with the
  answers keeps it on this course or begins the next, and that it accuses nobody
  (`Proceeds`).
- *Patience.* `Follows` adds that the retries left and the waits suffered make up at
  least `Retries`, so no wait is ever the last, and that a grade which finds no room
  where it asked for halves was not told the fee (`Short`).

TLC checked `Follows` on the instance of `note_grade`, and on notes of 5, 1 and 4 with
fees of 3, 1 and 1, where there is no room or only just, before it was proved. A
mint that is asked for halves the note cannot hold is on none of the runs.

**Cleaning up** (`PayGraderProofs`). `GradesCleanUp` proves `CleansUp` for any amounts,
any conforming mint, with or without an address fee, and any requests that HTTP
repeats or limits, as long as `Budget < 2 * (Retries + 1)`. The grader takes down
what it *believes* is registered, by the key it *believes* is on file, so
`CleanInv` ties those beliefs (`g.registered`, `g.onFile`) to the mint's registry at
every step of its twenty-three checks. They agree (`Known`), except between an
answer of OK to a POST, PUT or DELETE and the check's reading of it
(`Granted`). In each of the four checks that change what is on file the first
request is one known request (`Changing`); every other request either only reads
or is refused by a mint that keeps LUD-26 (`Futile`): a bad proof, a taken or
reserved name, a used key, a key that is not on file. A request that is sent
again by HTTP is a GET, and writes nothing. The hypothesis is needed for one
reason: a DELETE in `unregisters` whose retries all meet a rate limit leaves the
username to `leaveNothing`, and if the DELETE there meets as many the grade is
over with it registered; `Waited` counts what that costs. The bound is exact:
with a budget of six rate limits TLC finds such a grade, with five it finds none.
The grades that register nothing only read; for them the proof goes through the
script of the naming check request by request (`ScriptReads`). TLC checked
`CleanInv` on the instance of `pay_grade`, and under five rate limits, before it was
proved.

**A clean grade of the registrations** (`PayGraderProofs`, second part). `GradePassesClean`
proves `PassesClean` for any amounts and fees: no check of `gradeRegistration` fails
or warns of a mint that keeps LUD-26, and none is skipped unless the mint charges
for addresses, while HTTP repeats what it likes and makes at most `Retries` requests
wait. `CleansUp` follows what the grader believes of the registry; this property
needs the answer to every request, most of which must be refused for one named
reason. `CourseInv` is again the history written down.

- *The course.* `Course(k)` lists the requests of check `k` and what such a mint
  says to each. Of a mint that charges for addresses the grader skips the checks that
  need the registration paid (`Comes`).
- *Four phases of the registry.* Nothing on file; the username under the first key;
  under the second; removed, with both keys used. `Phase(k, i)` says which it is after
  `i` answers of check `k`, `Stands` what is then on file and which keys count as used.
  Only three requests of the whole grade move it on.
- *The mint obeys* (`CourseObeyed`). In the phase before a request the handler gives
  the answer of the course and leaves the phase after it. `Refusing`,
  `RegisterRefuses`, `UpdateRefuses` and `UnregisterRefuses` go through the
  handlers' early returns in their order: the reason the grader reads depends on
  which of several faults is found first. A request that HTTP sends again is a GET
  or OPTIONS, and changes nothing (`QuietTurns`).
- *The grader reads* (`GraderAdvances`, one lemma for each check). Whatever a check
  does with answers like those of the course, it asks the next request of it, or
  passes and begins the next check; `Recalls` is what it remembers at that point:
  the key on file, the document it was last shown, whether CORS held.
- *Patience.* As in the grade of a note, the retries left and the waits suffered
  make up at least `Retries`.

The theorem has one hypothesis, `Usual <= MaxSendable`. The grader asks for
`Math.max(pay.minSendable, 1000)` millisatoshis (`runner:388`, `runner:918`), whatever
`maxSendable` is; a mint whose largest payment is smaller must refuse that, and
fails `a Lightning Address takes a payment that names no note` for it. TLC finds
that grade as soon as `Usual` exceeds `MaxSendable`. It checked `CourseInv` on the
instance of `pay_grade`, and under four troubles instead of two, before it was proved.

**The judge** (`SpendJudgeProofs`). `ClockRunsOn`; `OpensForGood` for any set of
skipped rules; `HashlocksOpenWhenDue` for a judge that skips none; and
`ProbesShowOneRule` for clocks past `FirstTime` (1985), before which the probe of
a past locktime would read as a block height.

**The vectors** (`VectorsProofs`), for every fee below a whole.

- `SplitIsTheFormula`: the two halves add up to the formula's one division.
  `NetGrows`: without rounding a payment nets no less than a smaller one, and at
  most a msat more per msat. With the search invariant that `lo - 1` nets too
  little and `hi` enough it gives `GrossUpIsExact` and `NothingLessDoes`.
  `SellsAsWanted`: the mint then quotes that amount and credits the wanted value,
  or refuses an amount outside its bounds.
- `MinimumsBuyNotes`: the doubling and the halving of `minSendableMsat` are
  recursive functions. That they exist is proved by counting down what is left
  of their range (`SmallestMember`), and the search ends on the least payment
  that nets anything. `SearchIsWide` says that the model's bound cuts no
  search short; the code has no bound to cut one.
- `GradesFairly`: a note under the formula, rounded or not, is inside the grader's
  band, and a msat beyond is not.
- `RetriesAreReplayed`: what the vectors call a replay has the identity of an
  earlier request (`RetryInv`), whose answer is on record for good.
  `DoubleSpendsAreRefused`: what they call a double spend is refused and moves
  nothing. Both are of an honest mint (`Misbehaviour = {"none"}`, the setting of the
  run). The second supposes `OneSpelling` as well: an output respelt from `cp1`
  to its hex is the same mutation to the mint, which looks at keys, and
  another to the vectors' table, and so is a second output in a request that
  does not split.

**Numbers** (`NumberTheorems`). The sums of the books are `SumFunctionOnSet`, a fold
over a recursive function, so nothing about them follows without an induction.
The library's induction rules take an operator as a parameter; `SmallestMember`
and `Counting` state them for sets instead, and `SumsExist` derives the recursion
equation of the fold from them. The laws follow: a sum without one element,
over two disjoint sets, of a function that changed in one place, under a
renaming, and with each term shifted.

Left to TLC:

- `OneWireForm`, `SuccessIsCode` and `TreeOpens` of `SpendWire`: each compares a walk
  over bytes with a second reading of them, for every input.
- `FaultsCaught`, `MintFaultsCaught`, `RegistrationFaultsCaught`, `BroughtHome` and
  `RepeatsAccuse` are statements about every option by name, settled by
  enumeration.
- `MeltsResolve`, `GradeEnds` and `SearchEnds` are liveness under fairness.

## What is not modelled, and why

- Cryptography and encodings (taproot, bech32m, BIP-32, BOLT11, signatures):
  deterministic functions with vectors of their own. The store sees only which
  output a spend opens, and a grader which key signed what.
- The test hooks in mid-run (`credit`, `settleMelt`, `failMelt`): fixtures that the
  self checks call at quiet moments; the race they could cause is described
  above.
- Receipts and discovery on both sides, the LUD-16 relay and the printing of the
  command line: they read and format.
- How an amount is spelled: a retry with the same amount in other digits is the same
  request here. And there is one host; the mock certifies a note for the host it
  was last asked by (`mock:466`), which differs only for a note a hook credits.
- Fees of a whole or more (`feePpm` of a million): no payment nets anything, and
  `minSendableMsat` looks for one past the integers a double holds exactly, where
  it advertises infinity or loops. The models take fees below a whole.
- Fractional amounts: the code takes any finite number, the models integers.
- Of the generator, the derivations and the tables for consumers that are not in
  this repository: payment requests, note URLs, settle-for-value, mint to hash.
  There is no code here to hold them against. The threat suite is a scorecard.
- `vectors/`, `docs/`, packaging and continuous integration: data and prose. Where
  the code decides what they claim, the claim is a property or a finding.

What would come next is a run of the hooks against the melt timer, the receipts of
the pay side, and for the grade of a mint's pay side the statement that
`PassesClean` makes of its registrations.
