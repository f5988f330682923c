# LineProof: TLA+ models, checks and proofs

LineProof runs fair queues on Soroban (Stellar's smart-contract platform): a
queue contract hands out positions and advances them first in, first out;
companion contracts keep enrolments, escrow deposits, identity bindings and a
registry of queues; a TypeScript SDK submits transactions and reads events; a
backend and a frontend show the result.  The repository carries its own patched
copy of the contract host (`contracts/.patched/soroban-env-host`), which decides
what an authorization, a failed call or a ledger entry means to the contracts.
This directory models the system in TLA+, checks the models with TLC, and proves
what most depends on them with TLAPS, for every value of the constants.

Every definition is a translation of the code it names in `PROJECT.json`
("map").  Where the code and a document or a comment disagree, the model follows
the code and a run shows the disagreement ("findings").

## 1. Inventory

| component | state | operations | what makes it correct |
|---|---|---|---|
| queue contract (`contracts/lineproof-queue`) | configuration with lifecycle status, pending admin, `next_id`, `active_count`, cursor `idx`, positions, version | initialize, propose/accept_admin, open/close_enrollment, enroll_position, cancel_position, advance, expire_position(s), close, upgrade, migrate | FIFO order; capacity; a settled position stays settled; participants locked once served; events tell the whole history; nobody waits for ever |
| escrow contract (`contracts/lineproof-escrow`) | a record per queue and identity, configuration and total per queue, ledger time | set_config, deposit, release, refund, expire | each deposit settles once; the total is the sum of the active deposits; hold period honoured; no deposit locked for ever |
| enrollment contract (`contracts/lineproof-enrollment`) | a record per queue and identity, count and waitlist per queue, duplicate behaviour | enroll, cancel, set_duplicate_behavior, finalize_enrollment, promote_from_waitlist | the count against the records; waitlist without duplicates, in order; finalized means final |
| identity contract (`contracts/lineproof-identity`) | admin, a record of bound queues per address, transfer switch, reported attempts | initialize, bind, unbind, revoke, set_transfer_allowed, record_transfer_attempt | revocation is final |
| queue factory (`contracts/lineproof-queue-factory`) | configuration, registry by slug, slug index, approved hashes | initialize, deploy, register, (de/re)activate, destroy, upgrade_queue, set_config, register_approved_hash | index and registry agree; a slug names one contract; only approved code |
| host: authorization (`auth.rs`, `builtin_contracts/account_contract.rs`) | call stack, trackers of authorization entries and of invoker contracts, nonces, signers | push/pop frame, require_auth, authorize_as_curr_contract, __check_auth, rollback, recording | each node of an entry used at most once; a caught failure gives back just what it used; what was recorded suffices |
| host: frames, storage, lifecycle (`host/frame.rs`, `storage.rs`, `host/data_helper.rs`, `host/lifecycle.rs`, `e2e_invoke.rs`) | storage map, footprint, instance storage kept in frames, events | get, put, delete, has, extend TTL, create, update, upload, call, return, fail, catch | nested transactions; the recorded footprint is the one that is needed |
| host: fees (`fees.rs`) | size and lifetime of an entry | rent of a change, write fee | rent covers the use |
| host: asset contract (`builtin_contracts/stellar_asset_contract`) | trust lines, contract balances, allowances, administrator, flags | approve, transfer(_from), burn(_from), mint, clawback, set_authorized, set_admin | supply conserved; allowance kept; deauthorized balance frozen |
| host: VM, budget, objects (`vm.rs`, `vm/*`, `budget*`, `host_object.rs`) | budget, shadow budget, fuel of nested VMs, object tables | execute, dispatch, call, return, trap, shadow sections | work charged once; no handle reaches another frame's object |
| host: random numbers (`host/prng.rs`) | base generator, generator per frame | draw, reseed, push and pop frame | no frame sees another's stream |
| host: collections and values (`host/metered_map.rs`, `metered_vector.rs`, `comparison.rs`, `mem_helper.rs`) | maps, vectors, byte strings, linear memory | put, delete, slice, append, search, copy, unpack | order by meaning; every key found; failure exactly at the edges |
| SDK transaction client (`sdk/src/client.ts`, `utils.ts`) | sequence cache, registered request, attempts, retry loop | reserve a number, prepare, send, time out, retry, poll for confirmation | a repeat only of what was lost; no number twice from one reading; every call ends |
| SDK events, backend event indexer | cursors, stored events, the `running` guard | fetch a page, deliver, persist, advance the cursor | nothing missed before the cursor; a stream lives |
| backend services | queues, enrolments and their index, escrow records, webhooks, gauge | REST operations, restart | the namespaces agree; statistics can be published |
| rate limiter, webhooks | windows and counters on two clocks; deliveries in flight | request; dispatch, retry, give up | bursts bounded, nobody locked out; every delivery ends |
| frontend `useQueues` | list, cursor, cache, requests in flight | select a filter, first page, next page | no queue twice; no spinner stays |

How they interact.  The contracts do not call each other: they meet in the
addresses and slugs their callers pass and in the event stream the SDK and the
indexer read.  All of them run in frames of the host, whose promise to them
(a transaction is atomic, a failure rolls back, an address is unique, an
authorization is used once) is an assumption of the contract models and a
property of the host models (`NestedTransactions`, `AuthorizedOnce`).  The
frontend asks the backend; the backend's services emit events that the webhook
dispatcher handles inside the emit.

What is hard: participants, operators and the ledger clock interleave on one
contract; calls whose answer was lost are retried; counters are kept beside the
data they count; a failed call that was caught must leave no trace in four
stores at once (storage, events, authorization, budget) and must leave one in
the footprint; two clocks govern one window; an answer arrives for a question
that is no longer asked.  The list, line by line, is "hazards" in `PROJECT.json`.

## 2. Modules

### The contracts

Each contract entry point is one action.  A Soroban transaction is atomic and a
panic undoes it, so the guard of an action is the conjunction of the checks the
entry point passes, and the interleaving of actions is the order in which the
ledger applies transactions.  An address that signs is a parameter of the action.
Every argument ranges over a small set given as a CONSTANT.  The release profile
has `overflow-checks = true` (`contracts/Cargo.toml`), so an addition beyond the
width of the type is a guard; the widths are the constants `U32Max`, `U64Max` and
`I128Max`.

* `WaitingLine`: the promise of a queue, without cursor, counters or scan.
  People join while the line is open and has room, leave when they like, are
  served strictly in ticket order, or lapse.
* `Queue`: the queue contract.  `pos` is the table of `("pos", id)` entries;
  `config`, `pending_admin`, `next_id`, `active_count`, `idx` and `version` are the
  entries of the same names; `emitted` holds the events of the last transaction;
  `inits` counts the successful `initialize` calls.  The loop of `advance` is the
  predicate `ScanEndsAt(last, batch_size)`: where the cursor stops.  Both expiry
  entry points share `ExpireAll`: a batch that succeeds is a set of pending ids.
* `QueueAudit`: `Queue` and an auditor who folds the events of each transaction
  into a copy of the queue, as `docs/event-model.md` promises one can.
* `Vec`: the vectors that a loop rebuilds without some of their elements.
* `Escrow`, `Enrollment`, `Identity`, `Factory`: the other contracts.  `Escrow`,
  `Enrollment` and `Identity` include the ledger clock.  `Enrollment` models one
  queue id: the entries of different queues share only the duplicate behaviour,
  which any caller may set at any time.  `Factory` includes the host's refusal to
  deploy to an address that is taken (`HostDeploy`): the salt is the wasm hash, so
  the hash stands for the address.

Left out of all contracts: TTL extensions, hashes of proofs, names, and
timestamps that only get stored.  `release`, `refund`, `set_config` of the escrow
and the admin calls of the enrollment contract ask the passed admin address to
sign and compare it with nothing; in the model they have no caller and are always
possible.

### The host

* `HostAuth`: the authorization manager as operators on its state `am`: call
  stack, trackers (`acct` of the transaction's entries, `inv` of contracts that
  authorize as themselves), matching of an invocation against the trees, frames,
  snapshots and roll back, and the recording of trees.  An authorization tree is a
  function from paths to functions.
* `HostTx`: one transaction in enforcing mode.  Contracts do anything they can:
  call, create, require and give authorization, catch a failure, fail.  Signature
  weights, nonces and their storage, expired entries, custom accounts whose
  `__check_auth` runs in a frame of its own while their tracker is borrowed, and
  re-entrance.  A contract may add several trackers at a time and as often as it
  likes (`AuthorizeAsCurrContract`).  The host function that starts the transaction
  calls or creates.  A creation (`CreateContract`) has a frame of the authorization
  manager and no rollback point of the host: it asks its deployer, which may be any
  address, with a `require_auth` like any other, a `__check_auth` included, then
  stores the instance and calls the constructor (`Instantiate`); when it fails, what
  it did stays until the contract that asked for it is rolled back
  (`CreationFails`).  `grants` is history: which node authorized which invocation
  that has not been rolled back.
* `HostRecording`: the same manager in recording mode and then, on what it
  recorded, in enforcing mode: the simulated transaction is played again.
* `HostLedger`: footprints, storage, instance storage cached in frames, events,
  lifecycle calls, TTLs, and the reported changes.  One transaction runs on a
  recording and an enforcing host in lock step, beside `ideal`, the abstract
  store with nested transactions.
* `HostRent`: rent, write fee and resource fee over the life of one entry, and the
  invocation meter's estimate of them when an invocation closes.
* `AssetContract`: the Stellar Asset Contract over accounts, trust lines and
  contract balances.  An operation is the set of the books it may leave, empty
  when it fails.  `issued` and `grant` are history.
* `HostVm`: budget, fuel, shadow mode and relative object handles of nested VMs;
  a VM may pass any number as a handle.  `work`, `plain` and, of a frame, `born` (how
  many objects there were when it began) and `log` (the objects it got at) are history.
* `HostPrng`: the generators of frames.
* `HostFrames`: both, for what a frame has to itself.
* `HostCollections`: maps, vectors, byte strings, linear memory, wide integers
  and the two implementations of the order of values, each operation beside its
  reference (`AsFunction`, `Rank`).

### Off the chain

* `SdkSubmit`: submissions of one client on one event loop.  Every `await` is a
  point where others run.  `getAccount` fails in each of the ways the retry loop tells
  apart (`FetchErrors`: an HTTP status that ends the call at once, the connection, or an
  unknown error), a poll finds success, failure, nothing yet or throws
  (`PollOutcomes`), and the application may call `refreshAccountSequence()`, also in the
  turn that starts a submission (`RefreshDuringStart`).  The network behind it (`NetSeq`,
  what it has taken) is external: it takes the next sequence number only; answers are
  lost or late.
* `EventFeed`: `getEvents`/`streamEvents` of the SDK and the backend's indexer
  with overlapping timer ticks.  `fetchRawEvents` is a seam the repository leaves
  to subclasses; its answer is any prefix of the events from the cursor on.
* `BackendQueues`, `BackendHooks`: the services over the in-process storage,
  which a restart empties; the listener that throws inside `emit`; deliveries.
* `RateLimiter`: window and counter, each with its expiry, read at two instants.
* `QueuePages`: the paged list of the backend and the hook `useQueues`.

### Proofs

`DataLemmas` holds the facts about vectors and sums.  `QueueProofs`, `EnrollmentProofs`,
`RegistryProofs` (escrow, identity and factory), `OffchainProofs` (rate limiter,
services, indexer, queue list), `SdkProofs`, `HostProofs` (asset contract, VMs, random
numbers, transactions) and `LedgerProofs` (footprint and storage) extend the modules
they are about; section 4 describes them.

### Instances

`MCQueue`, `MCQueueAudit`, `MCEnrollment`, `MCFactory`, `MCSdkSubmit`, `MCGauge`
and `MCAsset` instantiate one component.  `MCRegistry` (escrow, identity,
factory), `MCOffchain` (five parts) and `MCHost` (eight parts) put components
that share no state into one run: a variable `part` says which of them moves in a
behaviour, and the others stay in one initial state, so that the states add up
and do not multiply.

Definitions whose names end in `Mutant` are wrong on purpose.  Each is a plausible
bug of the definition after it, and is there to show that a property can fail:
with the mutant in its place TLC refutes the property ("mutants").

## 3. Runs

| run | result | states | question |
|---|---|---|---|
| `queue` | pass | 190 361 | the guarantees of a queue initialised once, for all orders of calls; the refinement of `WaitingLine`; can the events alone rebuild the state? |
| `enrollment` | pass | 85 038 | count, waitlist, promotion |
| `registry` | pass | 644 951 | escrow, identity and factory |
| `sdk` | pass | 843 031 | retries, timeouts, lost answers, the shared sequence cache |
| `offchain` | pass | 185 924 | backend, indexer, event stream, queue list |
| `host` | pass | 894 524 | the eight parts of the host |
| `queue_duplicate` | violated | | `docs/queue-lifecycle.md:92`: one active position per identity |
| `queue_reinit` | violated | | `docs/queue-lifecycle.md:110`: Closed is terminal |
| `enrollment_finalized` | violated | | `docs/api-reference/contracts/enrollment.md:101`: finalized permanently |
| `factory_redeploy` | violated | | `docs/api-reference/contracts/factory.md:38`: deploy from an approved hash |
| `backend_gauge` | violated | | `metrics/registry.ts:48`: the gauge is the number of active escrows |
| `asset_allowance` | violated | | `storage.rs:526`: a temporary entry lives until the exact ledger |

What the properties say:

* Queue.  `SlotAccounting`: the stored counter is the number of positions not
  cancelled, and within capacity.  `FifoOrder`: nobody is advanced while an
  earlier position is pending.  `SettledForever`: no step rewrites a settled
  position.  `EventuallySettled`: an operator who keeps calling `advance` reaches
  everybody.  `ImplementsLine`: the refinement.  `HistoryRebuildable`: the events
  suffice for everything but expired positions under the cursor, which `advance`
  passes in silence.  The run starts queues in Draft: the Initialized event does
  not carry the status, so for another initial status the auditor has to read the
  configuration.
* Enrollment.  `CountDrift`: `enrollment_count` is the number of enrolled
  identities plus the promotions of identities that were enrolled already (the
  history variable `doubled`); the drift is exact and never heals.
  `PromotedInOrder`, `EventuallyPromoted`.
* Registry.  `TotalIsSumOfActive`, `SettledOnce`, `HoldHonoured`,
  `EventuallySettled` of the escrow; the last needs nothing of the operator.
  `HoldHonoured` compares with the history variable `agreed`, the hold period in force
  when a deposit was made: an `expire` that recomputed the date from the configuration
  of its own time would settle too early after a `set_config`, or strand the deposit.
  `RevokedForever` (identity); `IndexExact`, `SlugStable` (factory).
* SDK.  `RepeatsOnlyWhatItLost`: an operation is sent again although the network
  has it only when its answer was lost or too late, so it can happen twice, but in
  no other way.  `SequencesDistinct`: two transactions never share a number from
  one reading of the account.  `SoleCallerHealed`: alone, and with all answers, a
  stale cache costs one retry.  `EveryCallEnds`.
* Off the chain.  `StatsPublishable`, `BurstBounded` (at most two windows' worth
  in any window, and no lockout), `NothingMissedBeforeCursor`, `PagesDisjoint`
  (unless a page of another filter was mixed in, which the code permits),
  `EveryRequestEnds`.
* Host.  `AuthorizedOnce`, `NonceOncePerEntry`, `AuthRollbackExact`: authorization
  through nested, failing, re-entrant calls and creations; a rollback gives back the
  trackers of the entries exactly, and of those added at run time exactly the ones
  whose scope goes on.  `RecordedCovers`: recorded entries
  suffice, and hold nothing that is not used.  `NestedTransactions`,
  `FootprintExact`: the storage of both modes against the abstract store, and a
  footprint that remembers failed calls.  `RentCoversUse`.  `SupplyConserved`,
  `AllowanceKept`, `DeauthorizedFrozen`.  `WorkMetered`: each unit of work is
  charged once, and diagnostics are not observed.  `FramesIsolated`: a
  frame gets at what can be reached from its argument and at what was made since it
  began, and sees no random number another frame has seen.  `CollectionsExact`: containers against their references.
* `ClassifyPrecedence` and `BackoffBounded` (assumptions of `MCSdkSubmit`): the
  pure functions of `utils.ts` over all shapes of an error.

Bounds.  Queue: two callers, three positions (`U32Max = 4`), so that ids exceed
the capacity after a cancellation, a batch can end in the middle, at the end or
beyond it, and the counter reaches its limit.  One `initialize` in the passing
run: a second one voids the guarantees, as `queue_reinit` shows.  Escrow: three
deposits in two queues, two limits of their amount that `set_config` may swap
(`Bounds`), hold periods of one and two days, which it may swap too (`HoldPeriods`;
zero is tried and refused), a clock of two days of one second (`U64Max`), so that a
deposit made under either period can expire after the other was configured, and a
total that can hit its limit.  Enrollment: two identities, two instants, expiry in the past or none, a
count that can hit its limit.  Identity: three queues, of which one identity may
hold two.  Factory: two slugs, hashes and versions, one foreign contract.
SDK: two submissions with one retry each, which is what an overtaken attempt and
a forced refetch against a reservation need; the application refreshes while fewer
than three requests were made (`MaxRequests`): at any time when one submission runs
alone, and before anything else when two run (`scenario` of `MCSdkSubmit`; the
theorems of section 4 have no such limit).  Off the chain: four delivery
attempts as in the code, windows of two ticks over seven, three events on pages of
one, two overlapping polls, three queues on pages of one.  Transactions: four
frames, those of creations included (`MaxFrames`), four `require_auth` calls
(`MaxAuths`) and a depth of four, of which the host function has one (`MaxDepth`), over
entry sets with a shared nonce, a custom account, a creation, the source account, an
expired entry and a doubled signature; a contract adds one or two trackers and at most
two are there at a time (`InvokerAuths`, `MaxInvokers`).  Recording: nine steps, two
objects of one address.
Ledger: four host calls in three frames over six footprints, one of which allows
all.  Asset: five calls, four ledgers, limits that amounts can exceed.  VM: three
frames, four objects, a budget that runs out.  Collections: three elements, words
in both forms.  Every bound is a named constant of its module.

Fairness.  `Queue!FairSpec`: an operator who goes on calling `advance` with some
batch size; the contract has no timer of its own, so its progress goal
(`docs/fair-invariants.md:30`) can only mean this.  Escrow: the ledger's clock
runs, and somebody calls `expire`, which needs no signature, for a record whose
date has passed.  Enrollment: an operator who goes on promoting.
`EventuallyPromoted` names the case where the counter is at its limit.
`SdkSubmit!FairSpec`: timers fire (the timeout of an attempt, the pause before a
retry, the pause between polls), and a forced refetch, which the code awaits
without a timer, is answered or fails, as the HTTP client promises; nothing is
assumed of the answers to a submission.  `MCOffchain`: a delivery's HTTP call and
the answers of `fetch` and of the RPC server arrive or fail, and timers fire.
The host models state safety only: a frame is never obliged to go on.

Deadlock.  `queue`, `enrollment`, `registry` and `sdk` check it.  `offchain`,
`host`, `backend_gauge` and `asset_allowance` do not: a transaction ends, and
clocks and histories stop at their bounds.

### Observations

Behaviour of the code the models bring out, which no run is needed for:

* `refreshAccountSequence()` called in the turn that starts a submission removes the
  number that `reserveSourceAccount` (`sdk/src/client.ts:235`) reads after its await:
  `BigInt(undefined)` throws, which costs the attempt and one retry.
* A creation that fails in a contract is not rolled back by itself: the contract traps,
  and the rollback of its frame undoes it.
* A contract that calls `authorize_as_curr_contract` and then fails before any
  call makes the rollback return an internal error (`auth.rs:1225`); one that
  authorizes its own invocation meets "invalid match_stack".  Both end the
  transaction (`outcome = "internal"`).
* Re-entering a contract that both frames write the instance storage of: the
  frame that ends last wins.  `NestedTransactions` leaves such contracts out.
* `approve` with `live_until` equal to the largest ledger passes its check, and
  then `extend_ttl` refuses.
* `docs/contract-storage-ttl.md:21-22` has no extension at the threshold, the host
  extends there (`<=`).
* Simulation charges less than enforcing for parsing modules when a nested frame
  failed (`module_cache.rs:35`).
* A change report of a removed entry has a new live-until of zero, below the old
  one.  The invocation meter subtracts the initial live-until from the new one without
  a sign, so an entry that is removed and created again with a shorter life makes the
  subtraction overflow.
* No page of events ever has a next cursor, so a stream delivers the same page
  again (`sdk/src/pagination.ts:71` against `docs/sdk-architecture.md:147-151`).
* `remaining` of the statistics can be negative once more identities enrolled than
  the stored figure, and the schema (`schemas/publicQueue.ts:23`) then refuses it.
* `sdk/src/utils.ts:21` says an unknown error is retried once; `withRetry` retries
  it as often as any other.

## 4. Proofs

Every theorem holds for all values of the constants that satisfy the named
assumption of its module.  The assumptions give types (a width is a natural number,
amounts are integers), finiteness where the code counts or adds up, and that model
values which stand for absence are no real values; those that say more are noted.

The theorems that the runs check on small instances, by property:

| property | theorem | assumption |
|---|---|---|
| `TypeOK`, `SlotAccounting`, `FifoOrder`, `SettledForever` | `TypeCorrect`, `SlotsAccounted`, `FirstInFirstOut`, `SettledStaysSettled` | `QueueAssumption` |
| `ImplementsLine` | `QueueImplementsLine` | and `MaxInits = 1` |
| `HistoryRebuildable` | `AuditRebuildsHistory` | and `MaxInits = 1`, queues start in Draft |
| `TotalIsSumOfActive`, `SettledOnce`, `HoldHonoured` | `EscrowTotalIsSumOfActive`, `EscrowSettledOnce`, `EscrowHoldHonoured` | `EscrowAssumption` |
| `TypeOK`, `CountDrift`, `PromotedInOrder` | `EnrollmentTypesOK`, `EnrollmentCountDrift`, `EnrollmentPromotedInOrder` | `EnrollmentAssumption` |
| `RevokedForever` | `IdentityRevokedForever` | `IdentityAssumption` |
| `IndexExact`, `SlugStable` | `FactoryIndexExact`, `FactorySlugStable` | `FactoryAssumption` |
| `BurstBounded` | `LimiterBurstBounded` | `LimiterAssumption` |
| `StatsPublishable` | `BackendStatsPublishable` | `QueuesAssumption`: the fixtures have not advanced more than enrolled |
| `NothingMissedBeforeCursor` | `FeedNothingMissed` | none |
| `PagesDisjoint` | `PagesNeverRepeat` | `PagesAssumption`: a slug names one queue |
| `SequencesDistinct`, `RepeatsOnlyWhatItLost`, `SoleCallerHealed` | `SdkSequencesDistinct`, `SdkRepeatsOnlyWhatItLost`, `SdkSoleCallerHealed` | `SdkAssumption`: a cached number is not ahead of the account |
| `SupplyConserved`, `AllowanceKept`, `DeauthorizedFrozen` | `AssetSupplyConserved`, `AssetAllowanceKept`, `AssetDeauthorizedFrozen` | `AssetAssumption` |
| `WorkMetered` | `VmWorkMetered` | `VmAssumption`: the first charge is within the limit |
| `FramesIsolated` | `FramesHaveTheirOwn` | `VmAssumption`, `PrngAssumption` |
| `NonceOncePerEntry` | `NonceOnceForEveryTransaction` | `TxAssumption`: what XDR gives, and no account is a contract |
| `AuthRollbackExact` | `AuthRollsBackExactly` | `TxAssumption`: and the children of an invocation are numbered from 1 |
| `AuthorizedOnce` | `AuthorizedOnceForEveryTransaction` | `TxAssumption` |
| `FootprintExact` | `FootprintIsExact` | `LedgerAssumption`: no entry given to the transaction is past its life, instances name code of the ledger, footprints name keys of the ledger |
| `NestedTransactions` | `NestingIsTransactional` | `LedgerAssumption` |

`CursorCorrect`, `ParticipantsLocked` (queue), `EscrowTypesOK`, `IdentityTypesOK` and
`FactoryTypesOK` are proved without a run of their own.

The arguments, and the inductive invariants they need:

* Queue.  Neither FIFO order nor the capacity is inductive.  `IInv` is the
  conjunction of `TypeOK`; `NothingStored` (before the first `initialize` the table is
  empty and the counters are zero); `ScanAfterEnrollment` (the cursor has moved, or
  something has expired, only in a status from which enrolment cannot open again);
  `CursorSeparates` (the cursor divides settled from waiting ids, and ids have no gap);
  and `SlotAccounting`.  FIFO order follows from the cursor: an advanced id is at or
  below it and a pending id above it.  Capacity follows because the counter equals the
  cardinality of the occupied slots, so the saturating subtraction never saturates and
  the capacity test is a test of the table.  The refinement has one lemma per kind of
  step: the scanned pending ids are the front of the line by `CursorSeparates`, and the
  counter gives the room of the line by `SlotAccounting`.
* The auditor.  `AuditInv`: the copy equals the stored entries, and between the
  auditor's cursor and the real one every position has expired.  `Follows` says of each
  entry point that the events it emits lead the copy to the new state; `advance` is the
  hard case, where the largest id among the Advanced and Skipped events is the new
  cursor, and `CursorSeparates` shows that whatever else was scanned had expired.
* Escrow.  `HoldInv` adds to `HoldHonoured` that a deposit is never dated after the
  ledger's time.  `SumInv`: the active deposits of a queue are finitely many and the
  total is their sum; one deposit more or less changes the sum by its amount
  (`SumRemove`).
* Enrollment.  The waitlist without duplicates (`TypeOK`) is what makes a batch of
  promotions remove a prefix; the count is followed through the set of those promoted.
* Identity and factory.  `IndexInv` adds that an unconfigured factory has nothing
  registered; the loop that rebuilds the slug index is `Kept` of `Vec`, and the lemmas
  about it give that it keeps order and elements.  `ClosedInv`: approvals are never
  withdrawn.
* Rate limiter.  A bucket's history is two vectors: what the counter before the present
  one let through, which ended a window before the present one expires, and what the
  present one did.  Each is at most one limit long (`LimiterInv`).
* Services.  `RecordsInv`: the index holds the identities with a live record, and
  nobody has two for a queue.  `QueuesInv`: advanced is at most enrolled.
* Indexer.  `FeedInv`: one poll at a time (the `running` guard), from the cursor; the
  part of the answer a poll has still to store is in the order of the ledgers and has
  no gap; so a cursor moved to the last ledger stored misses nothing.
* Queue list.  `PagesInv`: unless a page of another filter was mixed in, the list shown
  and every cached one are in the order of creation and have nothing behind their cursor;
  a page starts behind the cursor it was asked for, whatever was closed or created since.
* SDK.  `SdkInv`: types; a number from the present reading is at most the cached one
  (`SeqBound`), which the next reservation exceeds; numbers of one reading are distinct; an attempt the
  network took was answered PENDING; an attempt that was given up without a loss was
  not taken; and who waits for an open `getAccount` request has no number yet, and
  waits for one request only (`WaitInv`: without it one answer could number an attempt
  twice).  The steps are first brought into six forms (`StepCases`).  `HealInv`, of a
  submission that is alone and hears its answers: until an attempt is taken the account
  and every open reading of it are as at first, so a call that sleeps after a tx_bad_seq
  has the account's number in the cache, or none, and the next attempt has the number
  after it; a refresh forgets the number or asks for it once more and changes neither.
* Asset contract.  Every operation adds one number to one holder's balance (`Added`),
  and a step is one such addition that the supply follows, or two that cancel
  (`Sound`).  `AssetInv` adds that balances stay within their bounds and that what is
  left of an allowance, with what was spent of it, is at most the approval.
* VMs.  `VmInv`: all work is charged or is fuel the VM on top has used, and that fuel
  is what the budget had left, so the sum is within the limit (`Metered`); in shadow mode
  only (`ShadowOK`) is a charge not observed.  For objects: every entry of a frame's table
  is `Mine`, reached from its argument or made since it began, and the frames are nested
  (`Nested`): an inner frame's argument is its caller's own, so what is returned to the
  caller, found by the inner frame or made by it, is the caller's own as well.  Objects
  hold older ones, so making one changes nothing about what is reached from the others.
* Random numbers.  `PrngInv`: a generator seeded from the base generator has a seed no other
  has and is past the words that were seen of it; the base generator is past all the
  seeds drawn from it.  (A frame may reseed its own generator with any value.)
* Nonces.  `TxInv`: the entries that count as verified and the nonces in storage fit
  together (`Consistent`) now and at the rollback point of every frame on the stack, so
  that a failure may go back to any of them.  A rollback skips the trackers that are
  borrowed by an authentication under way, so verified and stored could drift apart there:
  `WaitingOK` adds that such a tracker is unverified now and at every rollback point of
  the frames further in, and that no two frames wait for one.  The signatures are in
  strictly increasing order of their keys, so the sum over signatures is a sum over
  different signers (`SumReindex`).
* Rollback of authorization.  A snapshot is taken before a frame is pushed and put back
  before it is popped; it holds what was used and the flags of the root, but not the match
  stack.  So it is only right when the frame it is put back in is the one that was pushed on
  it.  `AuthInv` says so at every level of the stack: the manager on top of a rollback point
  is exactly one frame above it (`OneAbove`), that is, a tracker has one more entry on its
  match stack and a root that was found before is the same (`Above`), the trackers
  borrowed by an authentication have not moved, and those that contracts added since stand
  behind the others.  For that each tracker is well formed (`Good`):
  it has no root frame before its root is used, and the root's frame is on the match stack
  until it is processed, so that popping a rolled back frame gives the flags of the snapshot.
  A frame that returns, and a creation that fails, which is popped without a rollback, leave
  the manager in the frame of the rollback point (`SameFrame`), where the level below it is
  still one frame down.  A rollback that succeeds has as many run-time trackers as its
  snapshot, so those left are the snapshot's (`InScope`).
* What is authorized.  `AuthorizedOnce` compares the trackers with the history of grants,
  and a failure goes back in both.  `LogInv` therefore says of every context that, with the
  history it was pushed with, each tracker that does not wait for a `__check_auth` has used
  exactly its nodes in the history, and that the node its match stack leads to was granted to
  a frame still under way (`Exact`, `Supported`), so that a sub-invocation extends a grant
  that is there.  A waiting tracker has marked one node more, which is granted only when
  `__check_auth` returns (`Pending`); until then nothing is added for it, at any level
  (`LogLevels`), so the node is still new and its parent's frame is still under way.  A
  returning frame keeps what was used and pops the match stack: what is left was supported at
  its rollback point, by `OneAbove` (`SupportedBelow`).  When the deployer of a creation has
  authorized it, nothing but the stage of its context changes (`AlikeAll`).  Marks of an authorization that failed
  stay until the frame is rolled back; no history is compared with them, since that frame can
  do nothing but fail (`Doomed`).
* Ledger.  The enforcing host is a function of the recording one and of the declared
  footprint: `Replay` gives it an entry for every declared key, which is the recording
  host's or, where that has not read the key, the ledger's.  `FpInv`: it is this replay
  until it refuses an access, and it has refused one exactly when the declared
  footprint does not cover the recorded one (the recorded one only grows, also when a
  frame fails).  `Sim` says of one host function that both hosts do the same or the
  enforcing one refuses; it holds of reading and of writing an entry, and `Chain` carries it
  along `?` to every host function, to entering and leaving a frame and to `try_call`.
  `RecOK` adds that a contract with an open frame has its instance, now and at the
  rollback point of every frame further in, so that `persist_instance_storage` never
  meets a missing instance.  The rent changes agree (`SameRent`) because a declared key
  that was never read is reported unchanged.
* Nested transactions.  `NestInv` compares the recording host with the ideal store at
  every level of the stack (`Nest`): what a frame that fails returns to (its map, and the
  length of the event log it remembers) is what the store's own rollback point has, and so
  is what there is now.  A level (`Level`) is a comparison of every key (`Cell`).  The store
  has what is stored under the key (`Stored`: the cached entry, or that of the ledger),
  unless an open frame of the contract has changed its instance: then it has the data of
  that frame's cache (`Answers`), with the code and the life of the stored entry
  (`Alike`), for these are written through while the data wait for the end of the frame.  A
  rollback point is compared with the frames below it only, so that a failing frame takes
  what it kept in memory with it, and a frame that ends writes what the store had all the
  time (`LevelEnd`).  Only a contract that re-entered itself has two frames
  (`FramesApart`); for its instance no more than `Alike` is claimed, which a re-entrant
  contract still needs, since extending the life of its code reads the stored instance.
  Events are marked and never removed, in the store they are cut off: the events that are
  left of the log up to a frame's mark are the store's events up to its own
  (`Mark`), and the marks grow along the stack.  Each host function is described once by
  what it does to what is stored (`SetsTo`, `Extends`, `Enters`, ...) and then answered on
  both sides (`Answered`).  The enforcing host follows because its replay has the same
  frames, events and, for declared keys, the same stored entries (`Mirrors`).

`DataLemmas` does induction over data by hand: the least counterexample of a set, from
the well-foundedness of `<` and of strict inclusion.  In this way it shows that a
sum over a finite set does not depend on the order it is taken in and follows a change
of one element, and what `Kept` returns.

Only model-checked: liveness, which needs fairness, and `ENABLED`
(`FreshSlugDeployable`), which the prover does not handle; what the recursive operators
of `HostCollections` compute (`CollectionsExact`); `RentCoversUse`, a statement about fees
below saturation: a sum of fees saturates before it is compared, and a write fee that falls
when the bucket list passes its target is no lower bound, so that a theorem would need more
of the constants than the code asks of them; and `RecordedCovers`, whose
invocation trees grow while they are matched.

## 5. Not modelled, and the plan

The proof that comes next is `RecordedCovers`: the trees a recording host builds have to be
compared with those an enforcing host matches against, at every level of the stack, while
they grow.

Left out, and why:

* cryptography of the host (BLS12-381, secp256k1, hashes): stateless wrappers
  around the arithmetic of libraries;
* the host's cost table, the parsing and linking of modules, XDR: conversions
  without state, too large for TLC in any form that says something;
* the host's test utilities, and frames that exist for tests only;
* in `HostTx`, the creation of an asset contract: it has no deployer, so it asks for no
  authorization and pushes no frame of the manager; its `init_asset` is a call of built-in
  code that asks for none either;
* SDK wrappers of the contracts, HTTP routing and validation, rendering, the
  postgres adapter (a skeleton) and the Soroban adapters (pure I/O): they keep no
  state of their own.
