# A verification development of hiero-enterprise-js

`packages/core` wraps the Hiero SDK in validating services; `packages/mirror`
is a client of the mirror node's REST interface. This directory holds TLA+
modules that model the parts of the two packages where a mistake would be hard
to find with a unit test, the TLC configurations that check them, and proofs,
checked by TLAPS, of what matters most for instances of any size.

    tlasany M.tla                          parse
    tlc -workers 2 -config X.cfg MCM.tla   check a run
    tlapm MProofs.tla                      check a proof module

Paths below are relative to the repository root; `core` is
`packages/core/src`, `mirror` is `packages/mirror/src`.

## 1. Inventory

Everything runs on the one thread of a JavaScript engine. Code interleaves only
at an `await` and at callbacks of timers, so an action of a module is what the
code does from one `await` to the next, and a hazard is state that is read
before an `await` and used after it, or counted in two places.

| component | state | operations | hard because |
|---|---|---|---|
| Request gate (`mirror/client/RequestGate.ts`) | `active`, `waiters`, `nextStartAt` | `acquire`, `release`, `run` | hand-off of a slot to a continuation that runs later, newcomers in between; rate spacing across sleeping callers |
| Mirror transport (`mirror/client/MirrorNodeClient.ts`, `request`, `fetchWithRetry`) | per request: attempt, last status, abort timer, delay | one logical request over several HTTP attempts | timeout against late answer, two kinds of retry with one budget, body reads, telemetry of "the last attempt" |
| Transaction and query lifecycle (`core/services/transaction`) | per call: transaction, ID, status | validate, before-event, sign, execute, receipt, after-event, map | each stage fails on its own after the ledger may have changed |
| Listeners (`core/context/HieroContext.ts`) | `listeners` | add, remove, two emissions | the array changes under an emission that awaits its handlers |
| File service (`core/services/file`) | none of its own, the file on the ledger | create, append, update, schedule an update, delete | large contents take two transactions, neither undone when the other fails |
| Keyset paginator (`mirror/utils/KeysetPaginator.ts`) | window, flags, head key | `first`, `next`, `previous` | flags must describe a listing that changes between queries |
| Forward pagination (`mirror/utils/Pagination.ts`) | rows collected so far | `collectAll`, `paginate`, `getPage` | rows come and go between pages, caps tested between pages |
| Lossless JSON, units, timestamps (`mirror/utils`) | the scan's position | pure functions | 2^53, exponents, strings that look like numbers |
| Converters, validators, endpoints, repositories (`mirror/utils`, `mirror/client`, `mirror/repositories`) | none | one function per schema and endpoint | the same field absent, null, a number or quoted; falsy filters |
| Account and token services (`core/services/account`, `token`) | none of their own, holdings, allowances and marks on the ledger | transfer, airdrop, mint, burn, wipe, reject, associate, freeze, approve, ... at once or scheduled | options that exclude or need one another; a schedule that executes late; a flow of two transactions; four calls that delete what three others approved |
| The other calls of these, and contract, topic, schedule, network services | none of their own, the entity on the ledger | an operation = validator + transaction + mapper, run by the lifecycle | some two hundred options set one by one; null that clears; results looked up after the transaction landed; errors thrown outside the lifecycle |
| Configuration (`HieroConfig.ts`, `MirrorConfig.ts`) | none | read the environment | set, unset, empty, malformed |
| Errors (`HieroError.ts`, `MirrorError.ts`) | none | normalise | which code, which transaction ID |

**Who calls whom.** A service call of core validates its input, wraps it in a
`BaseOperation` or `BaseQuery`, and hands it to `TransactionExecutor` or
`QueryExecutor`, which awaits `HieroContext`'s listeners, the SDK, the receipt
and the listeners again, and normalises errors. `FileService` runs two such
calls after one another. On the mirror side a repository or a query method
calls `MirrorNodeClient.request`, which runs `fetchWithRetry` inside
`RequestGate.run`; `withRetryOn404()` makes a second client that shares the
gate and the observer. `Pagination` and `KeysetPaginator` call the query
methods through a callback.

**What makes each correct.** Gate: the cap, the spacing, first come first
served, no lost slot. Transport: no slot kept or returned twice, retries only
for transient failures and within the budget, the caller's outcome and the
observer's event those of the last attempt, an end to every request. Lifecycle:
what the caller and the listeners are told agrees with what became of the
transaction. Files: a resolved call leaves the whole contents, never a mixture;
a rejected one names what it left behind. Account and token services: what lands
does what the options said and nothing else, what is read back is what was
asked, and the caller is told what happened. Mirror reads: the application gets
what the node said, every filter is sent, a walk over pages returns each row
once. Amounts: no digit is lost. Paginator: pages adjoin and the flags
tell the truth. `PROJECT.json` lists the places where each could go wrong
(`hazards`) with the properties that would notice.

## 2. Modules

| module | models | composes |
|---|---|---|
| `SlotPool` | abstract specification: clients of a pool of `Capacity` slots | |
| `RequestGate` | `RequestGate.ts` | implements `SlotPool` |
| `MirrorTransport` | `request`, `fetchWithRetry`, the 404-retrying view | `RequestGate` |
| `LedgerCall` | abstract specification: a transaction's fate, an honest answer | |
| `CallLifecycle` | executors, contract-flow executor, listeners, error normalisation | implements `LedgerCall` |
| `FileService` | the five writing calls of `FileService` and their operations | two `LedgerCall`s per call |
| `KeysetPaginator` | `KeysetPaginator.ts` over a changing listing | |
| `TokenNetwork` | external: what the network keeps of hbar and tokens, what each transaction does to it | |
| `HoldingsOptions` | the declared options of those calls | `TokenNetwork` |
| `Holdings` | validators, builders and calls of the account and token services that move, admit or approve | `HoldingsOptions` |
| `CallOptions` | option objects, the checks validators share, the options all transactions, schedules and queries share | |
| `AccountCalls`, `TokenCalls`, `TopicCalls` (with files and schedules), `ContractCalls` (with the network service) | per operation: its options, validator, `build()` and result | `CallOptions` |
| `EntityCalls` | the calls of the seven services on one entity, at once or by way of a schedule | the five above |
| `MirrorWireTypes`, `MirrorPublicTypes` | `types/mirror-node.ts` and the public types: which field may hold what | |
| `MirrorConverters` | converters and validators | the two above |
| `MirrorEndpoints`, `MirrorRepositories` | query methods of `MirrorNodeClient`, repositories | `MirrorConverters` |
| `MirrorReads` | a read from the repository's method to the answer, `Pagination.ts`, `orNull` | `MirrorRepositories` |
| `Units` | `Units.ts` | |
| `LosslessJson` | the scan of `LosslessJson.ts`, a step per token | `Units` |
| `Amounts` | an amount's way from a body through display and back | `LosslessJson` |
| `MC*` | the values of the constants for TLC | |
| `RequestGateProofs`, `CallLifecycleProofs`, `MirrorTransportProofs`, `FileServiceProofs`, `KeysetPaginatorProofs`, `MirrorReadsProofs`, `HoldingsProofs`, `EntityProofs` | theorems | each the module it is about (`EntityProofs` that of `EntityCalls`); the transport's also the gate's |

**RequestGate.** `active`, `waiters` and `nextStartAt` are the fields; `now` is
the clock and `phase[r]` where the call of request `r` stands. `AcquireFree` and
`AcquireQueue` are the two ways through `acquire`; `release` with a waiter is a
hand-off that leaves `active` alone and moves the waiter to "handed", which
`Resume` continues later, so that every other action may come in between. A
sleeper is "sleeping" until `due`; its timer may be late (`Begin` needs
`due <= now`, not equality).

**MirrorTransport.** The gate's variables plus one record `req[r]`: the stage
within `fetchWithRetry`, the attempts, the last status seen, the abort timer.
One action per way a stage may end: headers that are final or retried, a header
timeout, a network error, the cancelled body, the backoff, the body read,
dropped or timed out, the same for an error's body, and `End`, which releases
the slot and reports to the observer. The node is external: it may give any
answer of `Responses`, or none.

**CallLifecycle.** `call[c]` is a call's continuation: its stage, its position in
the emission it is making, the answer it will settle with. The variable `chain`
is the external network's: a transaction that was sent may land, fail, or land
after the SDK gave up on it. `Kinds` are the shapes of calls in core: a plain
transaction, a contract flow, an operation (or a schedule) whose mapper can fail,
and three kinds of query. A query class ("query", "nft") has a `try` of its own
around its setters, `QueryExecutor` and its mapping, so that what a setter throws
is normalised to `SDK_ERROR` before any event (`Refusals`), and what the mapping
throws comes after an event of success (`MappingFailures`); `TokenNftInfoQuery`
("nft") then also answers `NOT_FOUND` when there is no NFT in the answer.
`NetworkService` uses the executor without either ("lookup"). Listeners are added and removed at any moment, which
covers handlers that do it and other calls' handlers alike. Which field made a
validator refuse is abstracted to whether one did (`Refuse`, with an answer of `Refusals`).

**FileService.** A call asks with an option record (operation, size, keys,
payer, transaction ID). Bytes are written in terms of `MaxBytes` per
transaction; a file's contents are runs of bytes, each run of one call, so that
the properties can say whose bytes stand where. Its transactions are
`LedgerCall`s, which `CallLifecycle` is shown to implement. The second one,
`append`, lands chunk by chunk as the SDK sends it.

**KeysetPaginator.** The listing is a set of keys on the node; a query is
answered from the listing as it is then. `pending` is the awaited load. What a
query returns (`Load`) is stated by what is true of it: at most a page of the
keys within its bound, in its order, none of them left out before the last.

**TokenNetwork, Holdings.** A service call is an option record; its validator is a
predicate that says when `validate` throws, its `build` an operator from options
to a transaction record, both named after the class. `run` and `scheduleRun` are
`BaseOperation`'s: refuse, send, or leave what was built in `scheduled`, from
where `ExecuteScheduled` takes it at any later time or never. What is sent and
can succeed lands or fails, at the network's choice. `rejectTokensFlow` leaves
`flow` set after its first transaction; `DissociateRejected` is the second, and
any other call may come in between. The network (external: known from the
transactions the code builds and what its docs and tests say they do) keeps bags
of holdings, pending airdrops and allowances, and marks (associated, KYC, frozen,
paused). It is
written without reference to options, so that "what the caller asked" (`AskedFor`,
from the options alone) and "what the transaction did" are two accounts of one
step. `HoldingsOptions` types the options as the interfaces declare them, except
that anything may be left out, since the declarations bind nobody at run time. `undefined`, `null` and blank are one value, `Absent`; amounts are small
whole numbers, and an approval of hbar says whether its amount is a number or an
instance of `Hbar`, because the validator looks at the sign of the former only; what the call answers is `CallLifecycle`'s subject, and how the
new total supply is read from the receipt is left out.

**CallOptions to EntityCalls.** An options object is a function from the names it
has to values; a value is the name of one of the few things the code tells apart
(`Types`: an ID, an empty one, one of white space, one the SDK cannot read; -1, 0, 1, a fraction, a
negative `Hbar`; ...), and `Admits` says what an interface lets a caller write. A
call takes usual options or any admitted ones of the set `Tried` (a constant
operator: TLC tries usual options with one changed, the proofs hold for whatever
is tried). Each operation has four definitions: its interface
(`...Options`), its validator, what `build()` sets (`Keep` is
`if (options.x != null) tx.setX(options.x)` for many x), and its result. A call is
one step from options to answer; what happens between its stages is
`CallLifecycle`'s subject. The network keeps the entity as the transactions that
landed made it (`ledger`), and one schedule. Beside it stands `asked`, what the
callers asked for in the words of the options' documentation (`Told`, `Promised`),
written without `build()`, so that an option forgotten, renamed or misread on its
way shows as a difference. `step` is the last call with what was sent and
answered; a caller hears it before the next.

**MirrorWireTypes to MirrorReads.** A body is a function from field paths to
literals (a small or large number, a quoted one, a fraction, text, null, absent,
...). A wire type says which literals a field may hold, the public type what
the application is promised, and a converter, per public field, which wire field
it is made of and by which normaliser. An endpoint is a record: path, parameters,
wire type, assertions, converter; a repository a record of endpoints. `MirrorReads`
asks any of them with any filter, lets the node answer with any admitted body, or
in asserted and amount fields any body at all, and walks the pages while rows come
and go at the node.

**Units, LosslessJson, Amounts.** Texts are digit sequences. The scan of a body
keeps `i`, `chunks` and `copied` as the code does. The bounds of the code (100
digits, exponents to 1000, 9 digits of nanoseconds, 16 digits quoted, 2^53 - 1)
are constants, so that each side of every one is reached with short texts; a
double is a multiple of 1/16 here, which makes rounding happen at small numbers.
A fraction or exponent is rounded by `JSON.parse`, before the normalisers see it.

Definitions whose comment says *Faulty* are not the code: they are what a
plausible slip would have made of the definition after them. No specification
uses them; putting one in the place of the right definition makes the run named
in `PROJECT.json` (`mutants`) fail, which shows that its property can.

## 3. Runs

| run | instance | states | what it shows |
|---|---|---|---|
| `MCRequestGate` | 4 requests, 2 slots, interval 2 ticks, clock to 3 | 15,556 | the gate's safety, its fairness to waiters, `SlotPool` |
| `MCMirrorTransport` | 2 requests (one of the view), 1 slot, 2 retries, 7 answers | 82,833 | slots, retries, outcomes, events and termination of requests |
| `MCCallLifecycle` | 1 call of every kind, 3 listeners, up to 3 registrations | 462,410 | answers and events agree with the ledger, `LedgerCall` |
| `MCKeysetPaginator` | 5 keys, pages of 1 and 2, 2 changes, both orders | 23,076 | pages and flags |
| `MCFileService` | 2 calls on one file, 13 option records | 147,380 | two-transaction writes |
| `MCHoldings` | any 2 calls out of 26 kinds, 3 accounts, a token, a collection, 2 starts | 13,051 | transfers, supply, admission and allowances do what was asked |
| `MCMirrorReads` | every repository method, every option, one odd field, 4 rows on pages of 2, caps 0 to 3 | 78,568 | reads, filters and walks |
| `MCEntityCalls` | any 3 transactions on an entity, one with an unusual option, every query | 1,819,820 | creates, updates, deletes, schedules, queries |
| `MCAmounts` | bodies of two values, 3-digit amounts, exponents to 4 | 35,469 | digits through parsing, display and back |
| `ListenerSkipped` | 1 call, 2 registrations | violated | an emission skips a listener when an earlier one is removed |
| `TransactionIdLost` | as lifecycle | violated | a landed transaction whose error does not name it |
| `RoundedAmount` | bodies of one fraction | violated | a rounded fraction is handed on as an exact amount |

The properties, besides a type invariant in each module:

* **Gate.** `SlotDiscipline`: `active` counts the holders exactly, within the
  cap, and no slot is free while somebody waits. `ReservationSpacing`: reserved
  starts are an interval apart. `SustainedRate`: late timers may bunch starts,
  yet by any instant no more requests have started than the rate allows.
  `FirstComeFirstServed`: a newcomer overtakes nobody. `EveryRequestSettles`.
  `ImplementsPool`: the whole is the slot pool a caller may imagine.
* **Transport.** `OneSlotPerRequest`: of a client and its view, whatever ends an
  attempt. `OutcomeIsFinalAttempts` and `EndEventTellsOutcome`: no mixture of
  attempts. `EveryRequestEnds`, with a node that never answers.
* **Lifecycle.** `AnswerMatchesChain`: success and `RESULT_MAPPING_FAILED` only
  for a transaction that landed, "rejected before anything is sent" only for one
  never sent. `EventMatchesAnswer`: after an event of success only the mapping of
  what landed, or was answered, may still make the promise reject, and of each kind
  of call with its own errors; after an error it rejects; without an event nothing
  was sent. `OverlooksOnlyByRemoval`: an emission misses
  at most as many listeners as were removed from the part it had walked.
  `EveryCallSettles`. `ImplementsLedger`.
* **Paginator.** `FlagsHonest`: while the listing stays as `first()` found it
  the flags are right. `PagesAligned`: stepping
  back and forth stays on page boundaries. `PagesAdjoin`: with any changes, the
  next page holds the rows directly after the window, none skipped or repeated.
* **Files.** `WholeWhenResolved`: a resolved call left the whole contents unless
  another call wrote after it. `TailFollowsHead`: no tail without its head.
  `ErrorsTellTruly`: an error names the file it leaves partial, and a refusal of
  the input means that nothing was sent.
* **Holdings.** `NothingMalformedSent`: no options get past a validator into a
  transaction no network takes, but for an approval whose only fault is a negative
  instance of `Hbar`, which the code does send (`NegativeHbar`; section 4).
  `EffectAsAsked`: a transaction that lands, now,
  late from a schedule, or as the second of a flow, changes holdings, pending
  airdrops and marks by exactly what its options say. `SpendersWereApproved`:
  no spender can do more than what was approved last and not deleted since,
  whichever of the calls did either.
* **Entities.** `CarriedOut`: whatever series of calls, at once or scheduled, made
  the entity what it is, it has all that their options asked for and nothing
  else, and every key given has signed. `ReadsBack`: the info queries give it
  back, a cleared field as nothing, and a schedule is exactly one of pending,
  executed and deleted. `ToldTruly`: an error about a transaction that reached
  consensus says which one, a failed batch names what was in it.
* **Reads.** `AnswersFaithful`: whatever body the wire types admit, each field
  arrives under its public name and type with the node's digits, or the read is
  refused as a schema mismatch only where a number could not hold it; `null` means
  only that there is nothing. `FiltersSent`: each option under a parameter of its
  own, falsy ones too. `WalkExact`: no row twice or out of order, none that stayed
  missed, the caps exact.
* **Amounts.** `DigitsKept`: exactly the long plain integers of a body are quoted,
  and an amount arrives exactly, to the last digit, or is refused; a plain integer
  always arrives as a string, and as a number if it is safe. Of a fraction or an
  exponent "exactly" means the double that `JSON.parse` made of it (`Parsed`): that
  this one may be rounded already is what the run `RoundedAmount` shows. `UnitsExact`: scaling,
  formatting and timestamps are exact and invert each other, rounding half away
  from zero and carrying over a full second.

**The bounds, and why they are enough.** Four requests and two slots are the
least that let two waiters be behind two holders and be handed over together.
Two requests and one slot let a request queue behind another's retries; two
retries are a first, a middle and a last attempt, `BackoffCap = 1` caps from the
second on. One call suffices for the lifecycle, because calls share only the
listener array, which here changes in every way another call could change it;
three registrations give an emission something behind, at and ahead of its
position. Five keys and pages of two are three pages, the last one short, or with
pages of one five full ones; two changes may hit the head key and the window.
A file transaction holds two bytes and an append two chunks of one byte: sizes 2 to
5 lie on each side of the split and of the append's limit. Two calls are
the least for a schedule or a flow with another call in between, or for an
approval and its deletion; that longer histories are met as well is what the
starting states are for: holdings, pending airdrops, allowances of each kind, or
a frozen account and a paused token. The options of a call run over a
value that is fine, one on each side of each comparison in its validator, absent,
repeated in a list, and combinations that conflict. In `MCEntityCalls` three transactions are
the least that make an entity, schedule a change and sign it, or set a field and
clear it; every option of every call is given once in each way its type knows, one
at a time (`MaxOdd`, `OneOdd` in the place of `Tried`), since validators and builders combine two options at most
and those combinations are among the usual ones. `MCMirrorReads` has a full
page, a second full page and the empty one after it; one thing at most is out of
the ordinary in a read, because the code treats fields and options one by one.
`MaxTime` is a
cap on the idle clock only: it always advances for a sleeper.

**Fairness.** Weak fairness, and only for what the runtime gives: a resolved
promise's continuation runs, a timer that is due fires, the clock advances, a
task that runs in the gate ends (for the gate alone; in the transport this is
proved of the abort timer instead), a cancelled body stream settles. There is
none for the node's answers, so `EveryRequestEnds` rests on the abort timer. The
lifecycle assumes that the SDK's promises settle (the SDK has its own request
timeout and attempt limit) and that handlers settle: nothing in `HieroContext`
enforces the latter, a handler that hangs does stall the call, and the hazards
say so. No fairness is assumed of callers or of the ledger.

`CHECK_DEADLOCK FALSE` stands in each configuration where all calls may have
ended; the paginator can always be asked again, so there deadlock is checked.

## 4. Where code and documentation differ

The three runs marked *violated* each check one sentence of the repository's
documentation or comments against the model of the code; `PROJECT.json`
(`findings`) quotes them. None stops the program from working: they are limits a
caller of the library should know.

* `ListenerSkipped`, `TransactionIdLost`: who hears of a transaction, and which
  errors name it.
* `RoundedAmount`: `Units.ts:254` recognises an exact number by its being a safe
  integer, which a rounded fraction may be as well, against the comment at
  243-246 ("must never pass along a value whose exactness cannot be proven"). A
  mirror node writes amounts as plain integers, which the quoting scan protects.

Five more follow from the models, which contain the behaviour; no run shows them
violated:

* An abort that fires while the body of an *error* answer is read surfaces as
  the status' error with an empty detail, not as `TimedOut`
  (`MirrorNodeClient.ts:201` against the comment at 627-630).
* Retries are not spaced by `maxRequestsPerSecond`, only the first attempt of a
  request is (`MirrorNodeClient.ts:624` against 292-296).
* A `createFile` of more than 4096 bytes with `keys: []` leaves a file that can
  be neither completed nor deleted (`FileService.ts:187` against 134-137).
* A negative `Hbar` in an approval is sent: `ApproveAllowanceValidator.ts:53` tests
  the sign of numbers only, against its message at 56 ("cannot be negative").
  `NothingMalformedSent` excepts exactly this (`NegativeHbar`).
* An ID that the validators let pass and the SDK cannot read makes an operation
  reject with the SDK's own error, since `build()` and `applyBaseOptions()` run
  before the executor's `try` (`BaseOperation.ts:40`, against core's README.md:117,
  "Every error is a `HieroError` with a `code`"). `CallLifecycle` and `EntityCalls`
  have such answers ("raw"), and no transaction behind them.

## 5. Proofs

Each theorem holds for every value of the constants its module's assumption
admits. In all of them the argument is the same: an inductive invariant, one
lemma per action (or per kind of action that disturbs the same things), the
theorem. What follows is the invariants, and why the property alone was not
inductive.

`RequestGateProofs`, for any finite set of requests, any positive cap, any
interval:

* `GateInvariant`: the inductive invariant `IInv` is `TypeOK`, `SlotDiscipline`
  and `ReservationSpacing` plus what the latter needs: `nextStartAt` is an
  interval past every reserved start. `SlotDiscipline` needs that
  `waiters` has no duplicates and holds exactly the requests in phase "queued",
  otherwise a hand-off might serve somebody who holds a slot. `HolderAdded`,
  `HolderRemoved` and `HolderReplaced` say what the actions do to the number of
  holders.
* `GateTypeCorrect`, `GateSlotDiscipline`, `GateReservationSpacing`,
  `GateFirstComeFirstServed` follow from it.
* `GateImplementsPool`: every step maps to a step of `SlotPool` or a stutter;
  the pool's `Leave` (nobody waits) and `Pass` (somebody does) are the two
  outcomes of `release`, and the cap of the pool is `SlotDiscipline`.
* `GateSustainedRate`: with an invariant of its own, that counts starts
  reserved up to an instant by the spacing.

`MirrorTransportProofs`, for any requests, any view, any number of retries and
any answers, by composition: a step of the transport is a step of its gate or
leaves it alone (`GateStep`), so the gate's invariant carries over unproved
again (`TransportKeepsGate`).

* `TransportInvariant`: `Sound` says for each request what its stage implies: of
  its phase in the gate (`StageFitsPhase`), of attempts against retries
  (`CountersFit`), of what it remembers of the answer (`AnswerFits`), of what it
  told (`OutcomeFits`). `OutcomeIsFinalAttempts` speaks of settled requests only;
  that the loop throws away nothing final has to be known while it runs.
  `OneMoves` says that no other request's step touches one's phase except the
  hand-off, which only a queued one sees.
* `TransportTypeCorrect` (with it the bound on attempts),
  `TransportOneSlotPerRequest`, `TransportOutcomeIsFinalAttempts`,
  `TransportEndEventTellsOutcome`.

`CallLifecycleProofs`, for any sets of calls and listeners:

* `LifecycleInvariant`: the inductive invariant `LInv` gives for each stage what
  the ledger's state may be and what answer is prepared, since
  `AnswerMatchesChain` speaks only of settled calls and is not inductive. It also
  says that no query ever has a transaction, without which an empty answer could
  not be told from a lost one.
* `LifecycleTypeCorrect`, `LifecycleAnswers`, `LifecycleEvents` (the last for
  every kind of query too: refused before any event, failed with one, unmapped or
  empty after one).
* `LifecycleImplementsLedger`: the call implements `LedgerCall`, which is what
  `FileService` builds on.
* `LifecycleOverlooksOnlyByRemoval`, for any number of emissions at once. The set of listeners a walk misses (`Miss`)
  grows in one kind of step only, a removal at or before its position, and then by
  the one listener that slides back over it; so the bound is inductive on `LInv`.

`FileServiceProofs`, for any callers, options, sizes of a transaction and a chunk:

* `FileInvariant`: per call, `Fits` ties its stage and answer to the fate of
  its two transactions and what was answered for each, and `Holds` the bytes of
  the file to the head and the chunks that landed: while nobody else wrote, they
  are a beginning of the contents, of exactly the length both account for.
* `FileTypeCorrect`, `FileTailFollowsHead`, `FileWholeWhenResolved`,
  `FileErrorsTellTruly`.

`KeysetPaginatorProofs`, for any finite set of keys, page size and changes:

* `PaginatorInvariant`: `Asked`, the load under way was asked for where the
  cursor still is; `Stands`, while the listing is stable: the window is a run
  of it, no row between two of its rows, and the number of rows before it is a
  multiple of the page size. `NextPage` and `PreviousPage` say that this holds
  again a full page later or earlier, `PageMore` and `PagePart` the arithmetic.
* `PaginatorTypeCorrect`, `PaginatorFlagsHonest`, `PaginatorPagesAligned`, and
  `PaginatorPagesAdjoin`, an action property, with a listing that changes.

`MirrorReadsProofs`, for any listing, page size and caps:

* `ReadsWalkInvariant`: between two requests the cursor is the last row that
  came, no row that stayed was passed by, and the end of the links means none
  is left (`Linked`, `NonePassed`); a request is only made when neither the
  links nor a cap ended the walk (`Requested`).
* `ReadsWalkExact`, which alone says nothing about where the next page begins.
* `ReadsFiltersSent`, from `ReadsWalkInvariant`: only a request under way turns
  into another, and only its cursor changes then. What the first one carries rests
  on a fact about each endpoint (`Heard`): every option of its query type, but
  for the four that the type excepts, has a parameter, and `OptionOf` leads from
  a parameter back to its option, so no two options share one. From there
  `OptionTold` counts the parts of the query: those under an option's parameter
  are the values or bounds given for it, no fewer and nobody else's.
* `ReadsTypeOK` and `ReadsAnswersFaithful`, from `ReadsAnswerInvariant`: what the
  application holds is the body that came last, as converted, or it was refused
  as a mismatch (`AnswerInv`). The rest is a fact about each of the 52
  endpoints (`Kept`): what is asserted holds of every body that conforms, and the
  wire type, the converter and the public type fit together (`Fits`), field
  by field: a public field is made of one that the wire has, by a converter that
  suits it (`Suits`: every literal the wire admits becomes a value of a promised
  type with the same digits, or is refused as too large for a number), and what
  holds the field is a list or an object, or allows the field to be absent
  (`Held`). `SoundRight` concludes from `Fits` what any body becomes. A converter
  and a sort of literals are treated once (`SuitsString`, `SuitsNumber`, `SuitsKey`,
  `SuitsFilled`), a table without objects entry by entry (`FitsFlat`), any other
  from its top and the tables beneath its names (`FitsNested`).

The last of these found the *model* wrong: a custom fee of a token kept the raw
`amount` object beside the numerator and denominator that `convertTokenInfo` makes
of it, which the code drops, and so did its public type; since both were wrong in
the same way, no run could tell. `Outside` now leaves them out of both. And a body's
usual literal was the first of a list, which the provers cannot evaluate; now
it is any fixed one that is usual.

`HoldingsProofs`, for any accounts, tokens, collections and options:

* `HoldingsNothingMalformedSent`, from `HoldingsInvariant`: what waits in
  `scheduled` is well formed too, and a `flow` under way has options its
  validator passed, since its second transaction is built from them later. For
  each kind of transaction a lemma says that options which pass the validator
  build a well-formed one, or, for an approval of hbar, one that is malformed by
  a negative instance of `Hbar` alone: with those amounts set to zero it would be
  well formed (`NegativeHbar`, `ZeroedWellFormed`). The airdrops need that a list of
  transfers in pairs, one leaving and one entering, balances for every length
  (`PairsBalance`, by a bijection between the two halves), the approvals of
  several entries that a set closed under concatenation is closed under
  flattening (`FlattenClosed`, by the least index that fails).
* `HoldingsSpendersWereApproved`, from `AllowancesInvariant`: both accounts of the
  allowances are bags, and nothing in `scheduled` approves or revokes (no
  operation on allowances has a `schedule` method; were there one, what lands
  late would not be what the caller asked last). The network applies a list of
  grants one after the other, each replacing what it names: an allowance is in
  the end from before, named by no grant, or as the last grant that names it says
  (`GrantedLast`). The callers' account takes the last entry that names it
  (`RenewedOf`). Per kind of call, entries and grants name the same: one by one
  for hbar and units (`OneByOne`), serial by serial for NFTs (`NftsAllowed`,
  `SerialsRevoked`). Any other transaction leaves fewer allowances, each as it
  was (`OthersRevoke`).

The same module, for any number of calls, and any start whose books are well kept
(`WellKept`: holdings and pending airdrops are of accounts and tokens
that exist, each serial at most once, in one place, and minted before):

* `EffectsInvariant`: the books stay well kept, and what waits in `scheduled` is
  what was built of its caller's options, which the validator had passed
  (`Built`). `EffectAsAsked` is about one step, but for a schedule or the
  second half of a flow that step comes long after the call; and `TypeOK` alone
  is not inductive, since nothing in it says what a waiting transaction is.
* `HoldingsTypeOK` and `HoldingsEffectAsAsked`. Bags are compared by their copies
  of each thing (`SameBag`). For lists of any length, `TotalSums` says what the
  bags of a list add up to, by running sums. On it rest the airdrops
  (`AirdropFungibleEffect`: entries in pairs against one flow each), the claim,
  and the rejection. Where a flow moves a serial, the books stay kept because the
  network has only one copy to take: of several flows of one serial, at most one
  can take it (`SerialFlows`). `BuiltLands` puts the 26 kinds together: what was
  built of options and succeeds does what they say, whatever the state it
  meets; it is the same lemma that the call, the schedule and the flow use.

`EntityProofs`, for any number of calls on an entity of any kind, any options that
the interfaces admit (`Tried` is any operator, so all the options of a call
may be unusual at once, where the run changes one), a schedule signed or
cancelled at any time:

* `EntityInvariant`: `EntityInv` is the four properties of the run and `WorldOK`:
  `asked` is what the ledger has, the ledger has no fields but those its kind
  knows (`Known`), and what a pending schedule holds, taken to the ledger, is what
  its creator was promised (`Stands`). Without the latter `CarriedOut` breaks
  with the signature that completes the schedule, without the former `ReadsBack`
  with the query that has no name for a field.
* For each call that makes or changes something a lemma says that what `build()`
  makes of admitted options, when no validator refuses them and the SDK can read
  them, is what their documentation promises (`...Promised`, `Fit`; `FungiblePromised`
  to `CreateAccountPromised`: two accounts of the same options, one field at a
  time). `ExecuteKeeps`, `ScheduleKeeps` and `AskKeeps` carry that over to a call
  that lands, one that is scheduled, and a query; each call is then an
  instance of one of the three (`NextKeeps`).
* `EntityTypeOK`, `EntityCarriedOut`, `EntityReadsBack`, `EntityToldTruly`.

Three attempts at proofs about `Holdings` found the *model of the network* too lenient, and
it now says what the network does:

* It refuses an approval of units of a collection, or of serials of a fungible
  token. The options let one token be named as either, and the two accounts of
  the allowances would otherwise differ.
* It refuses a rejection or a claim that names one thing twice. The validators
  do not look for that: the options would ask to move a balance twice that the
  network moves once. The options `MCHoldings` enumerates now repeat
  references.
* It refuses a rejection of "serial 0", which in the model would have been units.

Recursive functions (`FlattenSeq`, `Total`, the grants one after the other) are
unfolded by the least index at which they would differ from what the lemma says
(`FlattenUnfolds`, `Recursion`, `GreatestNatural`, `Onwards`), as no induction
theorem that takes a predicate can be used here.

**Assumptions.** `GateAssumption`, `TransportAssumption`, `LifecycleAssumption`,
`FileAssumption`, `PaginatorAssumption`, `RowsAssumption`, `AbsentAssumption`,
`HoldingsAssumption` and `EntityCallsAssumption`: the ranges that constructors enforce and types declare, and
that a value left out is none of the others. `HoldingsAssumption` also asks that
the books of every start are well kept. TLC evaluates them on each run.

**Only model-checked.** All liveness, since temporal proofs under fairness and
`ENABLED` are outside what the prover does: `EveryRequestSettles`,
`EveryRequestEnds` and `EveryCallSettles`. What `Units` and `LosslessJson` compute
digit by digit, with folds and recursive functions (`DigitsKept`, `UnitsExact`): that would take
induction over the digits, and the library's induction theorems, which take a predicate, cannot be
instantiated by the provers. Every other property of a passing run is a theorem.

## 6. Not modelled, and the plan

Not modelled by intent: wording of messages and contexts of errors, logging,
the SDK's own retries and gRPC, the reassembly of a topic's messages,
`HieroContext`'s construction of an SDK client, samples, tests and workflows, the
mirror node's OpenAPI file. `HieroConfig` and `MirrorConfig` read the environment
once, before anything else: a model would restate their table of variables, and
no later step could disagree with it. `tinybarToHbar` and `formatUnits` are one
division of doubles, approximate by their own doc. Of the converters, fields that
are derived from others (paused, successful, decoded memos) are left out. What the
SDK adds of its own is not in the repository and left out as well: among it the
default that `TransactionOptions.ts:78-80` mentions, the payer as auto-renew
account of a topic created without one, so `CarriedOut` compares what the code
builds, not what the SDK completes.

Next:

1. Fractions as amounts in `Holdings`, which `TokenAirdropValidator` lets pass and
   the SDK refuses in `build()`; such an error is raw, as section 4 says.
