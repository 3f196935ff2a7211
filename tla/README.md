# Verification of Mandate

Mandate is an authorization and execution control plane for AI agents: a
principal signs a policy and root grants; holders delegate narrower grants;
an agent's action is decided, *reserved* against every limit of its lineage,
*admitted* as one attempt, signed, journaled, submitted to a venue or to the
execution gate contract, and finally *settled*. The promise the whole
repository is built around is that **nothing executes that was not authorized,
nothing authorized executes twice, and no authority is spent twice or lost,
whatever interleaves, fails or restarts**. This directory models the code that
carries the promise, checks the models with TLC and proves the core of them
with TLAPS.

Paths below are relative to `src/`.

## Inventory

| Component | State it keeps | Operations | Interactions | What is hard | What makes it correct |
|---|---|---|---|---|---|
| Authority ledger, `packages/ledger` | policy in force, grants and revocations, balance per (owner, dimension), reservations with demands and legs, open generation per action, attempts with the artifact and slot indexes | eight event kinds of `applyEvent`: register policy, register grant, revoke, reserve, consume, close, restore, admit attempt | a pure reducer, called by the ledger engine through a store | long sequences of legal events; balances maintained incrementally; amounts of different precision; epochs that turn under open reservations; policies replaced over a history | delegation never amplifies; balances agree with reservations; a generation is open once; a slot is bound once; a revoked subtree gets no new authority; a reservation can always be closed |
| Ledger engine and stores, `packages/ledger/src/engine.ts`, `packages/ledger-sqlite/src/store.ts` | committed batches, head digest, a folded cache per process | `read`, `#commit` (plan, compare-and-append, retry) | SQLite file shared by processes | snapshot read before an await and used after it; two-statement reads; rollback after the cache moved; death between COMMIT and the answer | the store implements one log; an answer is exact; bounded retries |
| Control engine, `packages/control` | none of its own (a decision is a function of the snapshot and the evidence) | `authorizeAndReserve`, `admitAttempt`, `closeNeverIssued`, `settle…`, registrations | ledger engine, registry, venue evidence | decisions re-run after a lost race; revalidation at a later time | an attempt only for a live, valid, unclosed reservation; NEVER_ISSUED only without an attempt |
| Gate signer, `packages/evm-robinhood` | issuance journal row per attempt (`ledger-sqlite/src/journal.ts`), keys in custody | `issueAuthorizedBuy` (resolve, evidence, slot, admit, sign, journal, preflight, submit, receipt), `recover` | control engine, custody, chain | nine awaits between reading and binding; crash at any of them; ambiguous network answers; several processes | at most one broadcast; nothing leaves unrecorded; recovery accounts for every attempt |
| Execution gate, `contracts/src/MandateExecutionGate.sol`, `packages/execution-gate` | replay record per mandate digest, balances observed around a call | `execute`; `reconcile` in TypeScript | anyone may submit; venue contract | late mining, resubmission by strangers | once per mandate, inside its lifetime; minimum received |
| Lighter signer and custody, `packages/perp-lighter` | issuance journal, one nonce lane per key, custody's slot journal on disk and in memory | `issueAuthorizedPerpOrder`, `issueAuthorizedCancel`, custody's hash and sign requests (Go process), `recover` | control engine, custody over a pipe, venue sequencer | nonce, keys and ledger read at different awaits; a lost reply holds the lane; custody may exit alone; milliseconds against seconds | one outstanding attempt per key; one transaction per nonce; nothing outlives its authorization |
| Live settlement, `packages/live-settlement` | write-ahead settlement journal (attempt row, artifacts), portfolio reservation, jobs per session in memory | dry run, send, reconcile | gate signer, portfolio ledger, chain, browser requests | two durable stores written one after the other; ambiguous broadcasts; artifacts anyone may submit; requests that overlap at an await | one broadcast; release only when nothing can execute; consume only what settled; every opened send is resolved |
| Portfolio, `packages/portfolio` | allocation book (allocations, commitments, lots, log), Room state (sequences, digests seen), reservations of children | `runPortfolio`: availability, Room rounds (act, release, screen, decide), verifier, reserve children; close, consume | live settlement, live agents, ledger | a Room result verified by a second implementation of the rules; replays and copies with bad signatures; availability read before the Room and used after it; a declared demand that need not be what the domain module charges | the book conserves every limit; the verifier agrees with the Room; a verified child that charges what it declared is refused only because the ledger moved |
| Kernel, `packages/kernel` | replay registry | verify | gate, control | order of checks | one verdict per input, digest used once |
| Live agents, `packages/live-agents` | mandate versions and their flags, planning records, executions, the Live Room's generation, `session.db` | prepare, three ways to authorize, pause, plan and apply, run (discover, Room, reserve, refresh), policy stress, restore | model providers, ledger, session store, HTTP server | model replies at any time; authorizations, pauses and runs interleaved at every await; two stores written one after the other; restore after a crash between any two writes | reservations only under the version in force; no amendment over a marked execution (the exception is among the notes under Findings); the ledger wins on restore; a Room ends and takes no more than it must |
| Registry, router, `packages/registry`, `packages/router` | observed domain states; none | evaluate; route | control | staleness | deterministic choice among admissible routes |
| Core, jev, adapter, judge demo, web app | none, or presentation | encoders, validators, measurement, UI | – | – | – |

## Modules

| Module | Models | Role |
|---|---|---|
| `Sums` | finite sums used by charging | shared by the ledger and its proofs |
| `AuthorityLedger` | `packages/ledger`: reducer, graph, subset, meet, charging, attempts | one action per event kind |
| `SqliteStore` | `ledger/src/engine.ts` `#commit` over `ledger-sqlite/src/store.ts` | interleaved statements, locks, crashes |
| `LedgerLog` | the contract of `ledger/src/store.ts` and of the in-memory store | abstract specification `SqliteStore` implements |
| `Issuance` | `control/src/engine.ts` attempt boundary, `evm-robinhood` issuance, custody and recovery, `ledger-sqlite/src/journal.ts`, `execute` of the gate | composition of control, signer, journal, ledger and chain |
| `LiveSettlement` | `packages/live-settlement`: requests, journal, run, broadcast, reconciliation, portfolio writes | one reservation, overlapping jobs, crashes |
| `LighterIssuance` | `packages/perp-lighter`: issuance, evidence, recovery; `custody/*.go`: ledger check, slot journal, signing | control, signer, custody, journal and venue together |
| `LiveRoom` | `live-agents/src/room`: generations of concurrent model calls | component of `LiveSession` |
| `LiveSession` | `live-agents/src`: `session.ts`, `mandate-versioning.ts`, planning records, `persistence/` | composes `LiveRoom` with versions, reservation, the two stores and restore |
| `Portfolio` | `packages/portfolio`: Room, allocation book, verifier, availability, reservation of children | concurrent calls over one ledger |
| `SumsProofs`, `AuthorityLedgerProofs`, `SqliteStoreProofs`, `IssuanceProofs`, `LighterProofs`, `LiveSettlementProofs`, `LiveSessionProofs`, `PortfolioProofs` | – | theorems |
| `MCAuthorityLedger`, `MCSqliteStore`, `MCIssuance`, `MCLighter`, `MCLiveSettlement`, `MCLiveSession`, `MCPortfolio` | – | instances for TLC |

Definitions keep the names of the functions they translate; the `Faulty…`
operators are plausible mistakes in that code, each one refuted by the property
it endangers.

### AuthorityLedger

`LedgerState` (`state.ts`) is the variables: `targets` is the balance table,
`reservations` and `attempts` the append-only records in commit order,
`actions` the generation table, `nodes` and `revoked` the graph. An action is
enabled exactly when `applyEvent` accepts the event, so a refusal is a stutter.
Batches are sequences of events that commit as a whole; they live in
`SqliteStore`.

Abstractions. Digests are identities. The terms a delegation restates
(invariants, bounds, state policies, semantic proofs) are one number,
`strict`; limits, modules, windows and depth are modelled as they are.
Quantities are counted in the finest unit of any dimension, and a dimension
with fewer decimals has `unit` greater than one, which keeps `rescaleExact`'s
refusals. Lineages are computed by distance with a recursive function so that
the module can be proved about; `EffectiveDepth` is the closed form of the
recurrence in `graph.ts`.

### SqliteStore and LedgerLog

Each statement of `#refresh`, the transaction and the answer is a step. The
calls of one process share its thread (`HasThread`, `Hold`, `Yield`), so they
interleave only at awaits; different processes interleave at every statement
and are kept apart only by `BEGIN IMMEDIATE`. A head digest commits to the
whole history and is modelled by it. The reducer is reduced to the two
refusals that concurrent requests provoke. `Crash` drops the cache, the lock
and the locals, and the callers that heard nothing call again. `LedgerLog` is
the promise: one log, extended by one accepted batch at a time.

### Issuance

`ledger` is what issuance reads of the authority ledger (closed and revoked
records, attempts with slot and deadline, last evaluation time);
compare-and-append is one step here because `SqliteStore` shows it is one.
`journal` is the `issuance_journal` table, with the closed transition table
`NextStates`. A call walks through the awaits of `issue`; between an await and
the next it holds its process's thread, as in `opening` and `unsigned`.
`Execute` may happen any time after a broadcast, by anyone, more than once if
the gate allowed it. `SetAdapter` flips the lifecycle row both ways because
the code upserts it. `Crash` kills the calls of a process; `Restart` begins a
recovery pass over the attempts the ledger lists.

What revalidation evaluates beyond lifetime and lineage (state admission,
credentials) is one Boolean chosen freely at each evaluation. The artifact is
its slot and deadline. `Recover` reads a row and opens or moves it in one step,
where `signer.ts:47-51` has two journal calls; in the one-process recovery run
nothing could come between them. `Execute` requires a broadcast, although the
preflight `eth_call` (`issuance.ts:271`) already carries the calldata out of the
process; `LiveSettlement` models that leak (`left`).

### LiveSettlement

One reservation of a session. `row` and `artifacts` are the two tables of the
journal, with the closed table `NextStates`; `status` is the reservation in the
portfolio ledger, whose own commit is one step because `SqliteStore` shows it
is. A job is one request: it enters (`Request`, `Enter`), reconciles first
(`Load` to `Consumed`, the awaits of `gatherEvidence` and of `reconcileOne`),
and, for a dry run or a send, runs (`Check` to `AwaitReceipt`). What a job
read before an await stays in `local`, so that it can be stale. `Stop` is any
of the checks and reads between two writes that makes `run` return: preflight,
an unreadable block, a refused leg, a gate signature that does not come, a call
that is not the authorized one. The signer inside the leg is `Issuance`; here
it is reduced to the signature, the artifact's deadline (`termsFor`) and the
custody guard's last look at eligibility.

On the chain side `left` holds the artifacts an `eth_call` or a broadcast
carried out of the process; whoever saw one may submit it (`ExecuteOutside`)
until its deadline. A broadcast is taken by the node, lost, or on its way
unknown to the node (`wild`), and the answer the process gets need not say
which. A success whose balance changes are mixed with others is `ANOMALY`.
Chain reads see the present block, except that commitments are read at the
block whose time decides whether artifacts are dead, as in the code. Chain
reorganisations, and RPC nodes that lag behind each other, are not modelled.

### LighterIssuance

A call goes through the stages the header of `issuance.ts` numbers: `Resolve`,
`ReadVenue` and `Construct` (the evidence), `HashTx`, `AdmitRead` and
`AdmitAttempt`, custody's `CustodyVerify`, `RecordSlot` and `Sign`, the journal
(`OpenIssued`, `RecordUnsigned`, `RecordSent`) and `SendTx`. A transaction is
the tuple its hash covers. `slotFile` is custody's journal on disk; each custody
process knows the lines it loaded and its own (`slotMem`), so two processes on
one key can disagree. `CustodyExit` ends custody under a living signer,
`Crash` ends both, `Restart` is `loadJournal` followed by `recover`. The venue
(external) takes one key's transactions strictly by nonce and accepts, refuses
or loses a submission whatever it answers; `VenueForeign` is another holder of
the key. Milliseconds and seconds are kept apart and every conversion rounds
as the code's. `SendTx` is the network send with the journal write of its answer
(`issuance.ts:215-232`): a transaction the venue took while its row still says
SUBMISSION_SENT is not a state of the model. None of the three properties reads
the row.

### LiveRoom and LiveSession

In `LiveRoom` a generation's model calls are all in flight; `Reply`, `BadReply`
and `TimeOut` are the callbacks, in any order, also after the generation they
belong to closed. A reply is any the parser accepts. Sizes are atoms; what the
ledger has left is a constant of the Room. `FittingSizes` states what the
binary search of the candidate finds.

`LiveSession` adds the session around it. `mandates` are the compiled drafts
(each prepare compiles a new one), `roots` and `reservations` the ledger, `db`
is `session.db`, and the rest is memory that a crash loses. An authorization
(`AuthorizeWithKey`, `SignChallenge`, then `CommitRevoke`, `CommitRegister`,
`CommitRefused`, `CommitRecord`), a pause (`Pause`, `PauseRevoke`,
`PauseRecord`) and a run (`StartRun` or `StartPolicyStress`, `Discover`,
`Replan`, the Room, `Reserve`, `RecordReserved` or `RecordThrows`,
`EndReservation` or `MarkThrows`, `Again`) are at most once and interleave at every await. `TornWrites` are the
states of `session.db` a crash inside a synchronous run of writes can leave.
`unmarked` is a history variable: the executions of passes that threw before
their version was marked as having reserved.
`Restore` is `restoreState`: it refuses a session whose records disagree
(`Restorable`) and otherwise lets the ledger win.

Simplifications. Planning is atomic at its end, where it writes its record; the
discussion before it changes nothing durable. A wallet mandate of the spine
always carries a plan, because nothing produces one without. A restored session
authorizes nothing more in the model (it could only repeat what a running one
does). The idle sweep closes a session the way a restart does. A store that
throws is modelled where the code goes on after it: `ApprovalThrows`,
`ReserveThrows`, and, in the records and the mark of a pass, `RecordThrows` and
`MarkThrows`. In a commit, a pause and planning a failed write is only modelled
as the crash that leaves the same file (`TornWrites`). `CommitRecord` aborts the
run in the step that records the version; the code hops through a few
microtasks in between (`session.ts:445`, `568`, `613`, `677`), which no property
observes.

### Portfolio

`book`, `accepted`, `seen`, `lastProposal`, `lastRelease` are the Room's own
state; `byDigest` and `byRelease` the maps the verifier builds from the
submissions; `held`, `charges` and `revoked` are the ledger: the reservations,
what each one charges, and whether the mandate's root is revoked. `Start` reads availability, `Act` asks every
agent, `HandleRelease` and `Screen` take the messages in the code's order,
`DecideOversize`, `DecideEligible` and `DecideLater` the proposals in theirs,
`EndRound` goes on or ends, and `Verify` re-derives everything (`Replay` of the
log, proposals, releases, claims, commitments, availability). The Room and the
verifier are synchronous, so one call at a time is inside them; `TakeChild`,
`DecideChild`, `Attempt` and `CompareAndAppend` interleave between calls, as do
`Close`, `Consume` and `Revoke`.

A proposal declares its demand; what its action charges is computed by the
domain module from the account's state. `TakeChild` builds the request
(`requestFor`) and with it the charge, any member of `MayCharge`; `NoCharge` is
an action that does not compile or that the module does not decide.
`DecideChild` refuses a charge that is not exactly the demand
(RESERVATION_DEMAND_MISMATCH, `reservation.ts:203`), so a verified child may be
refused on a ledger that did not move. `HonestRefusedOnlyWhenStale` is about the
children whose charge is their demand.

Simplifications. One message has one authentication flag (mandate, sender and
signature together), and one flag, `admissible`, stands for the checks of a
proposal that are not about quantity. A release leaves one lot over all its
resources. The mandate is current and the adapters are usable throughout (an
adapter retired between the decision and an attempt, `control/src/engine.ts:242`,
is not modelled). Revocation is of the root. The charge depends on the states
inside the request only, so it is chosen once and not again at each attempt. A
call may take its children in any order. A child that lost every attempt to conflicts is dropped, not
counted as refused. The transcript is verified again before each child in the
code; it is immutable, so the answer is the one it had.

## Runs

| Run | Instance | Shows |
|---|---|---|
| `ledger` | 4 grants in a chain of three with one that tries to widen, budget and epoch dimensions, 2 actions and 2 artifacts (symmetric), one slot, 2 reservations, times 0..2 | `WithinAuthority`, `OneOpenGeneration`, `BoundOnce`, `LineageNarrows`, `NoAuthorityAfterRevocation`, `TypeOK` |
| `ledger_policy` | 1 grant, 3 policies (the second drops a ceiling, the third brings it back), dimensions of units 1 and 2, 3 reservations | `Conservation`, `ReleaseNeverRefused`, `PolicyHistoryComplete` |
| `sqlite_store` | 2 processes, 3 calls (2 share a thread), 2 attempts each, 2 crashes, room for 2 batches | `CacheIsCommitted`, `OutcomeIsExact`, `NoStaleCommit`, refinement `ImplementsLog`, liveness `EveryCallReturns` |
| `sqlite_read_race` | the same without crashes | the counterexample to `NoSpuriousCorruption` (see Findings) |
| `issuance` | 2 processes issuing one record, a closer, one crash, chain time 0..2, lifetime 2 | `NeverIssuedMeansNever`, `SentAtMostOnce`, `BroadcastIsJournaled`, `ExecutedInLifetime` |
| `issuance_recovery` | 1 process issuing two records, one crash | `SlotsDistinct`, `SendIsRecorded`, liveness `RecoveryAccounts` |
| `lighter` | 2 processes on one key, a resting and a non-resting order, 2 attempts, one crash or custody exit, one foreign transaction, 0..3 ms with seconds of 2 ms | `OneOutstanding`, `OneHashPerSlot`, `ArtifactDiesWithAttempt` |
| `settlement` | 1 job at a time, a dry run and a send or two of either, one crash, one failed read, chain time 0..3, authority lifetime 2 | `ReleasedNeverExecutes`, liveness `HeldIsResolved` |
| `settlement_overlap` | 2 overlapping jobs (symmetric), 2 runs, one crash, chain time 0..2 | `BroadcastOnce`, `ConsumedWasSettled`, `JournalFollowsLedger`, `WriteAhead` |
| `session` | 2 agents on one resource of 3, sizes 0, 2, 3, 2 mandates, all three ways to authorize, 2 generations, 2 epochs, 1 run, 1 plan, 1 crash, writes that fail | `RoomCanClose`, `NoNeedlessReduction`, `ReservedUnderActive`, `MarkedExecutionsPinVersion`, `LedgerRestores`, `RestoredFromLedger` |
| `session_restart` | the same | the counterexample to `RestartReturns` (see Findings) |
| `portfolio` | 2 agents, cash 5 and risk 3, HYBRID with 1 of each preferred and a maximum of 3 cash for one agent, 5 proposals of which one may not compile and one may charge more than it declared, 1 release, 2 rounds, 2 calls (symmetric), 2 attempts, a revocation | `BookConserved`, `RoomVerifies`, `ReductionTargetIsMost`, `HonestRefusedOnlyWhenStale` |

The type invariants of `SqliteStore`, `Issuance`, `LighterIssuance`,
`LiveSettlement` and `LiveSession` document the variables. They are proved, as
the first conjunct of an inductive invariant; of `LiveSession` the part the other
proofs need (`SessionTyped`: not, for example, the planning records, or
the bounds on epochs and generations).

Why the bounds are enough to be interesting. A chain of three grants is the
shortest in which a grandparent is not the parent, and the middle grant drops
the budget dimension so that only the code that charges *every* node keeps the
root's limit. Times 0..2 with an epoch anchored at 1 contain a moment before
the first epoch and two epochs. Two reservations are the fewest that compete
for a limit and the fewest that make a second generation; three are needed for
reserve, replace policy, reserve, replace, reserve. Two artifacts and one slot
are the fewest that reach a second attempt and leave each of the three guards
(artifact, slot, reservation) something to refuse. Two processes and two calls
on one thread give both kinds of interleaving; two attempts give a retry that
succeeds and one that gives up; with room for two batches the third caller is
refused. A lifetime of 2 with deadline 1 has artifacts built before, admitted
at and mined after the boundary. A settlement needs two runs for a dry run
before a send and for two competing sends; with time 0..3 an artifact of either
can be executed at its deadline and found dead one tick later, with a crash and
a failed read anywhere. `ReleasedNeverExecutes` is checked with one job: two
overlapping ones can break it only if the reads of one reconciliation take
longer than the 960 seconds until the send leg is dead. Two milliseconds to a
second and a lifetime of two seconds put a transaction's expiry inside, at the
end of and across a second; with one foreign transaction a nonce can be taken
between its reading and its use. Sizes 2 and 3 over a limit of 3 make every
pair compete, and 3 is over one agent's own limit, so a run passes through the
local excess, the shared one and neither; two mandates are an authorization and
an amendment. The five proposals contain one that is too large only by its
agent's maximum, two with one sequence, one that is inadmissible, and pairs
that need a release or a claim to fit; two rounds let a refused agent come
back; two calls are the fewest that make a reading stale; the charge of 3 for a
declared 1, if it were reserved, would crowd out a child the same Room
accepted. `CHECK_DEADLOCK FALSE`
is used because each system may come to rest: events run out of the bounds,
calls return.

Fairness. `SqliteStore` assumes weak fairness of each call's step: the event
loop runs ready callbacks, and SQLite answers a statement or times it out
(`busy_timeout`). `Issuance` assumes it of the steps of a call, of a closer and
of a recovery pass: each is program code whose awaits all return or throw.
Nothing makes a process start again, a transaction be mined or the adapter be
enabled. `RecoveryAccounts` is therefore about a pass that started.
`LiveSettlement` assumes that jobs go on (every RPC call has a timeout), that
chain time passes, that a transaction the node holds is mined or dropped in the
end, and that reconciliation is asked for again and again: every dry run, every
send and the reconcile route begin with it. Failed reads are finitely many
(`MaxUnreadable`); with reads that fail forever nothing could be resolved.
`LighterIssuance` assumes weak fairness of a call's steps for the same reason;
no property of it is about liveness. `LiveSession` and `Portfolio` state
none: that a Room can always go on is the invariant `RoomCanClose` (a pending
agent has a timer).

## Proofs

TLAPS proves for every value of the constants (any grants, policies, plans,
times, numbers of reservations, processes, calls and crashes), from the
`ASSUME`s named in the modules, which say only that constants have their types
(a root grant is issued by the principal; a portfolio mandate passed
`checkPortfolioMandate`; `validateChargePlan` rejects an
empty plan, so lists are non-empty; a limit is a natural number; a ledger holds
finitely many records and an attempt is distinct from the absence of one).

| Theorem | States | Inductive invariant |
|---|---|---|
| `TypeCorrect` | `TypeOK` | `TypeInv`: `TypeOK` with `DemandsBounded`: restored ≤ consumed ≤ reserved for every demand. Without it the release computed by a close need not be a natural number. |
| `AttemptsBindOnce` | `BoundOnce` | `AttemptInv`: with `ReservedInThePast`, because an attempt is compared with `lastAt`, not with the reservation |
| `GenerationsInOrder` | `OneOpenGeneration` | `GenerationInv`: a per-reservation form (generation ≤ last; an open reservation is the last generation; every generation has a reservation) that does not mention sets |
| `BalancesConserved` | `Conservation` | `ConservationInv`: `TypeInv` and `Conservation` itself, which is inductive once sums can be rewritten |
| `LineagesNarrow` | `LineageNarrows` | `GraphInv`: `TypeInv`, and for every registered grant a lineage that reaches the root within the bound, depths that descend along it, and terms contained in those of *every* ancestor. The code compares a grant with its parent only; containment is carried up the path. |
| `RevocationIsFinal` | `NoAuthorityAfterRevocation` | `GraphInv`: a lineage once registered does not change, so what was under a revoked grant stays under it |
| `CeilingsSeeHistory` | `PolicyHistoryComplete` | `ChargedInv`: `ConservationInv`, and every demand of every reservation has a leg at exactly the matching dimensions of its lineage, and one at each matching dimension of the policy in force. A replaced policy may only drop ceilings once something was reserved. |
| `ReleaseAlwaysPossible` | `ReleaseNeverRefused` | `ChargedInv`, which also says that what a demand reserved and consumed are whole units on each of its legs |
| `AuthorityIsNeverExceeded` | `WithinAuthority` | `AuthorityInv`: `ChargedInv`, and every target of a grant is `Bounded`: a budget or a capacity by its balance, an epoch budget by what each single epoch took |
| `CachesAreCommitted`, `AnswersAreExact`, `CommitsAreCurrent`, `StoreImplementsLog` | `CacheIsCommitted`, `OutcomeIsExact`, `NoStaleCommit`, `ImplementsLog` | `StoreInv`: who has a process's thread and the file's lock; a call that inserted under the lock planned on the whole log; a call about to publish has the batch after its cache |
| `SettlementBroadcastsOnce`, `JournalWritesAhead`, `LedgerWritesFirst`, `OnlySettledIsConsumed` | `BroadcastOnce`, `WriteAhead`, `JournalFollowsLedger`, `ConsumedWasSettled` | `SettlementInv`: what row, transactions and portfolio status say of each other, at most one job past `bindDomain` (`OneSender`), and per job what its copies of the row are still worth (`JobInv`) |
| `ReleasedIsSafe` | `ReleasedNeverExecutes`, for behaviours in which jobs run one at a time (`Serial`) | `SettlementInv` with `EvidenceHolds`: what a reconciliation read stays decisive, because it found every artifact dead |
| `LaneIsSerialized`, `NonceSignedOnce`, `ArtifactIsBounded`, `SlotJournalLoads` | `OneOutstanding`, `OneHashPerSlot`, `ArtifactDiesWithAttempt`, `CustodyCanStart` | `LighterInv`: attempts have distinct slots, none above the venue's next nonce, and cover their artifacts (`AttemptsInv`); what a call read holds good (`CallInv`); every line of the slot journal is the transaction of an admitted attempt (`SlotsInv`) |
| `MarkedPinTheVersion`, `TornRecordsAgree`, `LedgerWinsRestore`, `ReservesUnderTheActive` | `MarkedExecutionsPinVersion`, `LedgerRestores`, `RestoredFromLedger`, `ReservedUnderActive` | `CoreInv`: what session.db holds (`Durable`) and the versions in memory, each known to the ledger and only the last possibly ACTIVE (`Known`); what a commit, a pause and a run in flight may rely on (`CommitInv`, `PauseInv`, `RunInv`) |
| `RoomNeverHangs`, `RoomTakesNoMore` | `RoomCanClose`, `NoNeedlessReduction` | `RoomInv`: while a generation is open, someone is pending, nobody pending has answered, and the answers so far do not fit |
| `SumToEquation` | the recursion equation of `SumTo` | shown without the library's induction theorems: a least counterexample, tables of partial sums and their agreement |
| `IssuanceTypeCorrect`, `ClosedNeverIssues`, `BroadcastOnce`, `JournalCoversBroadcasts`, `SlotsStayDistinct`, `LifetimeRespected` | `TypeOK`, `NeverIssuedMeansNever`, `SentAtMostOnce`, `BroadcastIsJournaled` and `AcknowledgedWasExecuted`, `SlotsDistinct`, `ExecutedInLifetime` | `IssuanceInv`, in three groups over `TypeInv`. `LedgerSafe`: a closed record is not admitted, deadlines lie inside the lifetime, slots differ. `CustodySafe`: signatures, broadcasts and executions follow an admission, and an attempt that was not sent is held by at most one call. `JournalSafe`: a call about to submit has a row that may have been sent. |
| `BookIsConserved` | `BookConserved` of `Portfolio` | `RoomInv`: `RoomTyped` (the inbox holds messages, the waiting proposals are proposals) and `BookOK`, the book's type with `BookInvariant`. The type is needed because a claim indexes a lot by number and moves a natural number of atoms. |
| `RefusalsAreStale`, `TargetsAreTheMost`, `RoomAlwaysVerifies` | `HonestRefusedOnlyWhenStale`, `ReductionTargetIsMost`, `RoomVerifies` of `Portfolio` | `PortfolioInv`: `RoomInv`; who is inside the Room (`HostOK`); the ledger within the mandate, every reservation charging exactly its proposal's demand (`LedgerOK`); what each call may still rely on of what it read (`CallsOK`); what screening let through (`ScreenOK`); what was accepted fits what was read (`FitOK`); a target is computed from the Room as it is (`TargetOK`); the book's log is distinct, replays to the book, and commits and releases what the Room remembers (`RecordOK`) |
| `SendsAreRecorded` | `SendIsRecorded` of `Issuance`, for one signer process (`OneSigner`) | `IssuanceInv` with `SignerInv`: a process that is down or inside `recover()` has no call that can still broadcast, a call about to submit has its row in the state it wrote, and one that awaits an answer has sent |

The issuance proof is organised by effect rather than by property: a step that
leaves the ledger (or the chain, or the journal) alone preserves that group by
one lemma, and only the steps that write it are argued about. The slot chosen
by a process is one above a maximum of a set; that the maximum exists is proved
from the finiteness of `Records` (`NextSlotNat`).

The sums are the substance of the second part of `AuthorityLedgerProofs`: each
accounting event changes one reservation, so the new total is the old one plus the change of one
summand (`SumToUpdate`), and the change at a target is the amount the event
moved there (`AmountAtAdd`). `PortfolioProofs` rests on the same lemmas: the book
has two sums, over agents and over lots, and `CommittedOK`, `ReleasedOK` and
`ClaimedOK` show that each operation moves an amount between them. It
holds for any number of agents, resources, lots, messages and rounds.

*Authority.* `WithinAuthority` is about the reservations under a grant, while
the code compares one amount with one balance. Four facts connect them. A
reservation holds at a grant's target exactly what it occupies of the dimension
if the grant is in its lineage, and nothing otherwise (`SubtreeHolds`, from
`Charged`). The balance is the sum of what is held (`Conservation`). A RESERVE
takes at most what is available and an accounting event never takes more
(`ReserveTotal`, `AccountingTotal`). For an epoch budget the balance remembers
one epoch only, so the invariant is about each epoch's reservations separately:
the remembered epoch is the latest in which anything was consumed, no later
reservation consumed anything, and reserved amounts count against the present
epoch whichever epoch they were made in, which is why what an epoch took is at
most the reserved balance and what that epoch spent (`TakenAtMost`). Time does
not run backwards (`lastAt`), hence neither do epochs (`EpochMonotone`).

*Lineages.* Two paths to the root that meet go on together (`PathsMeet`), and a
path that reaches the root stays there; so a full lineage repeats no grant, its
length is its cardinality and the bound on the length is a bound on the set
(`FullLineage`), and a child's lineage is its parent's with the child added
(`ChildLineage`). What a registration compares with the parent then reaches
every ancestor.

*Store.* Inside `BEGIN IMMEDIATE` the holder of the lock has refreshed, so its
cache is the whole log and the batch it inserted was planned on it; outside,
a cache is a prefix and stays one as the log grows. A commit by one process
does not touch what another one knows. For the refinement every step of the
store is a step of `LedgerLog` or leaves its log alone; `LedgerLog` states no
fairness, so this is all of `ImplementsLog`.

*Settlement.* `bindDomain` accepts a row whose `deadAfter` is still 0, and sets
it: of any number of overlapping sends one goes on. A portfolio status that is
CONSUMED or RELEASED never changes, and of a row only fields that were unset are
set, so a job that continues after an await with an old copy either writes what
is already there or is refused. `ReleasedIsSafe` assumes `Serial`: between a
reconciliation that finds the artifacts dead and its release, no second job
opens a new leg. The code nearly keeps it (see *Two settlement jobs* below); with
overlapping jobs the release is safe only because reads are quicker than a
leg's lifetime, which no step of the model says.

*Lighter.* An attempt is admitted at a nonce that was read earlier; nonces only
grow, so no attempt's slot is above the venue's. Control refuses a second
attempt at a slot, so slots are distinct, and an attempt that can still execute
has the venue's nonce exactly. Custody signs what the ledger admitted and
nothing else: two transactions signed at one slot are of one attempt, whose
fields the hash covers. Rounding an expiry in milliseconds up to seconds covers
it (`AttemptEndCovers`), for any length of a second.

*Session.* A commit revokes its predecessor's root before it registers its own,
and a pause before it records anything; so a root that is live belongs to the
last version, which is ACTIVE (`LiveIsLast`), and a child the ledger accepts is
one of the version in force whatever version its run captured. A commit starts
only when nothing is held or closed, so nothing is recorded as executed while
one is in flight, and a pass begins only while none is: a version that has an
execution stays the last, unless the pass threw before it marked the version
(`unmarked`). Each write of a record section is made over a root
that is already revoked or registered. Therefore every prefix of the section
agrees with the ledger (`TornDurable`), and that is what restore reads.

*Room.* The answer that closes a generation found it open, and an open
generation does not fit: putting that agent's request back gives the demand
from before it, so the answer was needed. Late replies reach a generation that
is closed or over and change nothing.

*Portfolio.* A call reads the ledger once and uses the answer until its last
child is reserved. What it read, plus what of the reservations it knew of is
still charged, stays within every limit (`AvailOK`): those are only ever settled,
and a settlement charges no more. All the children of a call, reserved, in hand
or waiting, fit what it read, together (`Fit`). So, if every reservation in the
ledger is one the call knew of or made itself, the next child fits the ledger too
(`AllowedUnlessStale`), and a refusal means another one landed. An append at the
version read is of a child the decision allowed, because every commit moves the
version (`VersionMoves`): that is what keeps the ledger itself within the mandate.

The Room counts in declared demands and the ledger in charges. `DecideChild`
lets only an exact charge through, and no later step changes a charge, so what
the ledger has left is what the demands of its reservations leave
(`ChargesAreDemands`) and the two countings can be compared at all.

A target is the least of three numbers (`LeastOfThree`). One is what the agent
could obtain, and `ObtainablePlans` shows that this is exactly what `plan` can
claim and commit, resource by resource; the other two are the two comparisons of
`fitsLedger`. `MostIsMost` joins them, so one atom more is refused by one of the
three. A proposal refused for its quantity is beyond the ledger as well, because
what was read is at most the mandate (`OversizeRefused`).

The verifier replays the whole log. `Replay` is a recursive function over the
log; like `SumTo`, it is shown to satisfy its equation by constructing its table
(`ReplayExists`, `ReplaysAgree`), so one more operation is one more step
(`ReplayAppend`) and the log of a Room always replays to the Room's own book
(`LogGrows`). An operation is applied once per kind and identity, which makes
every commitment unique (`CommittedOnce`); releases of an agent are in sequence
because the Room takes only a newer one (`ReleasesOK`); and screening takes no
sequence twice (`ScreenedOK`).

*One signer.* A crash takes every call of its process with it, and `recover()`
runs before the process issues again. With one process no call is therefore
between its two journal writes while a row is declared unknown. With two it may
be, which is the last finding below.

Left to TLC: liveness (`EveryCallReturns`, `RecoveryAccounts`,
`HeldIsResolved`), which together with `ENABLED` and what a `RECURSIVE` operator
computes is outside the prover's reach.

## Findings

`sqlite_read_race`: `read()` runs `#refresh` outside a transaction. When another
process commits between the head row (`store.ts:218`) and the batches
(`store.ts:222`), the fold passes the head that was read and
`LedgerStoreCorruption` is thrown for a sound file, which the header of
`store.ts` says only happens for a corrupt history. The file is unharmed and
the next read succeeds: `OutcomeIsExact` and `ImplementsLog` hold all the same.

`session_restart`: `spineChallenge` saves an ACCEPTED planning record for the
version about to be signed (`session.ts:493`). Until the signature arrives that
version does not exist, and `restoreState` throws `SessionStoreCorruption`
(`persistence/restore.ts:153`), so a restart in that window, or after a
challenge that was abandoned, does not return to the session, although
`docs/demo/live-ai-lab.md:97` says that a server restart does. The same refusal
is reached by other routes: a crash between recording the version and the
SIGNED record (`restore.ts:170`), two challenges of which the first is signed,
and applying a plan after the signature. `LedgerRestores` shows that what the
refusal is about is only the planning record: versions and the ledger agree
wherever the crash falls.

Notes, where the models met a comment that the code does not keep and no run of
its own is spent on it:

- *Two settlement jobs.* `#settle` looks for a running job (`ui-settle.ts:251`),
  awaits `openSession` (254) and only then enters its own (336, or 358). Two
  requests that arrive meanwhile both run, although `ui-settle.ts:198` says "One
  settlement job per session". `settlement_overlap` shows that this costs no
  safety: `bindDomain` lets one send pass, and every other write is refused or
  repeats what is there.
- *Unreadable postconditions.* `checkPostconditions` counts a commitment or a
  balance it could not read as a failed one (`settlement.ts:587-595`), and the
  attempt is quarantined for good; the table in `reconcile.ts:8-18` says of
  anything unreadable that nothing changes. It fails on the safe side: held,
  never released.
- *Copies of a message.* The verifier's maps keep the last copy of a digest
  (`verifier.ts:129`, `158`), the Room the first. A copy of an accepted proposal
  under a bad signature is ignored by the Room and makes the verifier refuse the
  Room's whole result. It is the one exception `RoomVerifies` states; nothing
  is reserved that should not be.
- *Amendment over an unmarked execution.* `#reverify` pushes an execution
  (`session.ts:1041`), writes it to `session.db` (1042, an INSERT that may throw),
  and notes that something was reserved only after every record (1049). When the
  write throws, the `finally` (1066) calls `endReservation(false)`: the hold is
  released and the version is not marked, although the ledger holds the
  reservation. An amendment then goes through and revokes the root of a live
  reservation, which `mandate-versioning.ts:27-30` ("Amendments stop once anything
  was reserved in the session") and `docs/demo/live-ai-lab.md:219-221` rule out.
  This is the one exception `MarkedExecutionsPinVersion` states (`unmarked`);
  checked without it, on the `session` instance, TLC answers with this behaviour.
  What the code does keep is the rest: every other execution pins its version,
  whatever interleaves and whatever else fails.
- *Wallet approvals.* An approval is a plain INSERT per version
  (`session-store.ts:239`). When the commit after it is refused, authorizing the
  same version by wallet throws, although the refusal says "try again"
  (`mandate-versioning.ts:298`).

One more, on two signer processes: `submit` ignores the result of the transition
to SUBMISSION_SENT (`issuance.ts:277`). If another process's `recover()` marked
the row OUTCOME_UNKNOWN first, the artifact is still broadcast. The row is
terminal, the attempt still counts as possibly executed, and it is broadcast
once, so the safety properties hold; only `SendIsRecorded` needs one process.

## Not modelled

Canonical encodings, digests and signatures (identities in every model: a
collision or a forgery is out of scope); validators and parsers; the UI, the
judge demo, jev measurement and the Robinhood adapter (no protocol state);
SQLite and the event loop beyond what the code relies on (marked external).
What language models answer is any reply the parser accepts; prompts, market
data, the HTTP layer and the events shown to a browser are left out. Of the
portfolio, resolution of identities and scopes, registration of its mandate and
execution of its children. Of control, the decision pipeline:
its read-decide-append loop is in `Issuance`, `LighterIssuance` and
`Portfolio`, its rules are one Boolean. The kernel, the registry and the router
are pure functions of their input.

The models cover the code that keeps protocol state, which is a small part of
the repository by lines: most of it is the web application and its demo scenes,
canonical encodings, schema validators and parsers, adapters and fixtures,
scripts, and the prose of prompts and refusals. Those have nothing that
interleaves, fails half-way or has to be remembered.

## Plan

1. *Done*: `AuthorityLedger`, `SqliteStore`/`LedgerLog`, `Issuance`, and the
   theorems above.
2. *Done*: `LiveSettlement`. Left of the package: delivery of session events
   exactly once (dedupe keys) and the state a browser is shown
   (`settlement-state.ts`).
3. *Done*: `LighterIssuance`; `LiveRoom` and `LiveSession`; `Portfolio`.
4. `ControlEngine`: `authorizeAndReserve` with its retry and the pending set of
   projections; registrations; a decision equals the decision on the committed
   state.
5. `ExecutionGate`: balances around `execute`, reconciliation as a function of
   what was observed, checked against the reference model.
6. `Replay`: the kernel's registry and order of checks; registry and router as
   functions.
7. *Done*: `WithinAuthority`, `LineageNarrows`, `NoAuthorityAfterRevocation`,
   `PolicyHistoryComplete`, `ReleaseNeverRefused`; the safety properties of
   `SqliteStore` with the refinement of `LedgerLog`; those of `LiveSettlement`
   and of `LighterIssuance`; those of `LiveSession` and `LiveRoom`; those of
   `Portfolio`; `SendIsRecorded` of `Issuance`.
