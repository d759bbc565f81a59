# The archaeologist service in TLA+

This directory holds a specification of the Sarcophagus v2 archaeologist
service: TLA+ modules translated from `src/`, TLC configurations that check
them on small instances, and TLAPS proofs of what can be shown for every
instance. Paths such as `src/utils/scheduler.ts` are relative to the
repository's root.

An archaeologist promises embalmers to publish a private key once a
sarcophagus reaches its resurrection time, and before the contract's grace
period is over; it loses its bond otherwise, and it also loses it if the key
becomes known too early. The service is one Node.js process that nobody
watches, that keeps every schedule in memory, learns of changes by contract
events on a websocket, and has to rebuild everything from the chain when it
restarts. What can go wrong is therefore a matter of order: of events against
answers, of answers against timers, of connections and restarts against both.

## 1. The system

### 1.1 Components

| Component | Source | State it keeps | Operations | Model |
|---|---|---|---|---|
| Scheduler of publications | `src/utils/scheduler.ts` | `scheduledPublishPrivateKey`: one node-schedule job per sarcophagus | schedule (replacing the old job), cancel, fire | `Scheduler`, proofs in `SchedulerProofs` |
| In-memory store and startup sync | `src/utils/onchain-data.ts`, `src/utils/blockchain/refresh-data.ts` | per chain: profile, `sarcophagi`, `deadSarcophagusIds`, `sarcoIdsInProcessOfHavingPrivateKeyPublished` | fetch the profile, query the subgraph, look at each sarcophagus, schedule or write off | `ArchaeologistService`, proofs in `ServiceProofs`, `ServiceSafetyProofs`, `ServiceCalmProofs` |
| Contract event listeners and reconnection | `src/utils/contract-event-listeners.ts` | the listeners and the provider of each network context | handlers for create, rewrap, clean, bury, accuse; replacement of a context whose provider fails or closes | `ArchaeologistService` |
| Publication of a private key | `src/utils/blockchain/publish-private-key.ts`, `helpers.ts`, `src/utils/rpc-helpers.ts`, `src/scripts/web3-interface/archaeologist-facet-x.ts`, `src/utils/rpc-error-handler.ts` | the in-process list; one call in flight per fired job | look up the key's index, dry run, gas price, send with retries, wait, update the store, ask for the balance | `Publication`, which implements `PublishRun`; proofs in `PublicationProofs`; in outline in `ArchaeologistService` |
| Service start, exit, restart | `src/start_service.ts`, `src/cli/commands/start.ts`, `src/docker-compose.yml` | intervals, the environment read at the start | check each network, start the node, then the sync and the listeners; die on an uncaught error; be restarted | `ServiceStart` within `Deployment`; the sync's part in `ArchaeologistService` |
| Subgraph queries | `src/utils/graphql.ts` | none | the page of sarcophagi; the paged count of keys used | `ArchaeologistService`, `Negotiation`; the views' queries are left out |
| Contract and subgraph | not in the repository | sarcophagi, their resurrection times and statuses; what is indexed | create, rewrap, bury, accuse, clean, publish; index | `SarcophagusContract` (external) |
| Negotiation, key finder | `src/models/archaeologist.ts`, `src/models/key-finder.ts`, `src/utils/signature.ts` | the cached profile; one handler per stream | check an offer against the profile, choose the next key, sign | `Negotiation`, proofs in `NegotiationProofs` |
| libp2p node | `src/models/archaeologist.ts`, `src/utils/create-and-start-node.ts` | the node | start, restart when idle, stop | `ServiceStart`, in part |
| Network contexts, environment | `src/network-config.ts`, `src/scripts/web3-interface.ts`, `src/utils/validateEnv.ts` | the set of contexts of the process | refuse bad settings, build contexts, find one | `Environment` |
| Health check | `src/utils/health-check.ts` | none | exit without a profile or on a failed call | `ServiceStart` |
| Profile and command line | `src/scripts/profile-setup.ts`, `src/scripts/approve_utils.ts`, `src/utils/blockchain/approve.ts`, `src/cli/` | the account: profile, free bond, allowance, wallet, rewards | approve, register (guided or not), update, deposit, withdraw, claim | `CommandLine` with the external `Account`, within `Deployment`; proofs in `DeploymentProofs`, `DeploymentBooksProofs` |
| Notifications, logs, error texts, `view`, `help`, test runners | `src/utils/notification.ts`, `src/logger/`, `src/cli/commands/view.ts`, `src/scripts/run_local/`, `src/test/` | none | output | left out: nothing reads it |

### 1.2 How they interact

`startService` starts, for each network, the sync
(`fetchProfileAndSchedulePublish`, not awaited) and then the event listeners, so
both run from the beginning and share the store. The sync reads the grace
period, the profile and one block timestamp, asks the subgraph for the
sarcophagi, empties the store's list, and then looks at every sarcophagus in a
callback of its own; all of these callbacks run concurrently and each waits
twice for the contract. Event handlers decide by the store whether a
sarcophagus is theirs, wait for the contract, and schedule. A job that fires
publishes the key over the network context it was scheduled with, and takes the
sarcophagus off the store. When a provider closes or reports an error, a new
context is made and given listeners of its own; whatever the old one was asked
and has not answered is never answered. When the process dies, docker starts
another one with an empty store and no jobs.

Embalmers reach the service over libp2p streams, whose handlers read the profile
the sync has put in the store, the chain's time and the subgraph, and sign. The
owner's command line runs in processes of its own: it shares with the service
only the account on chain, which it changes and the service reads once at the
start (or at each refetch), and the environment file, which each process reads
when it starts.

### 1.3 What is hard, and what has to be right

PROJECT.json lists the hazards line by line. In short:

* **Scheduler.** A schedule may arrive while the same sarcophagus is being
  published, or its old job is due. Dates combine two clocks, an old reading
  and two margins. To be right: one publisher per sarcophagus, an in-process
  list without stale entries, no job that fires before its resurrection time,
  no date that is already past.
* **Sync and store.** Old answers are used after several awaits, arrays are
  replaced while callbacks still push to the old one, and one failing call
  skips a sarcophagus. To be right: a sarcophagus is written off only if its
  key is no longer owed, and after the sync each owed key has a job.
* **Listeners.** Events meet a store that does not have their sarcophagus yet,
  or that is not there at all; a reconnection loses events and leaves jobs and
  intervals with a dead provider; an error doubles listeners. To be right:
  the jobs follow the chain's resurrection times; a compromised, buried or
  cleaned sarcophagus has no job.
* **Publication.** A failed run is logged and not repeated, a hung run blocks
  its sarcophagus, a retry may repeat what was done, and an error handler that
  nobody awaits may end the process. To be right: a sarcophagus is written off
  only with its key on chain; every run ends; every owed key is published in
  time.
* **Negotiation and keys.** The profile in memory is that of the start; the
  key's index comes from a count that lags, takes several queries, or fails; the
  time comes from the chain or a clock. To be right: what is signed conforms
  with a profile that was on chain while the process ran, no counted key is
  offered twice, and keys stay near enough to be found again.
* **Commands.** One command sends up to two transactions, each repeated when an
  answer is lost; profile terms that are not given are sent back as they were
  read. To be right: SUCCESS means it is settled, nothing is approved without
  consent, the terms not given stay.
* **Start.** Networks fail together and are edited apart. To be right: nothing
  is served without a profile and keys of its own, and in the end all is.

## 2. The modules

| Module | What it is |
|---|---|
| `Scheduler` | The scheduler with an arbitrary user: the abstract specification of everything about jobs, clocks and the in-process list |
| `MCScheduler` | Small instances of it |
| `SchedulerProofs` | Its type correctness, `SinglePublisher`, `InProcessIsRunning` and `NeverBeforeResurrection`, proved |
| `SarcophagusContract` | What the service assumes of contract and subgraph |
| `ArchaeologistService` | The service process, composed with `SarcophagusContract` (EXTENDS) and `Scheduler` (INSTANCE) |
| `MCService` | Small instances of it |
| `ServiceProofs` | The proof that `ArchaeologistService` implements `Scheduler` |
| `ServiceSafetyProofs` | The service's `TypeOK`, the scheduler's invariants in it and `DeadIsFinal`, proved |
| `ServiceCalmProofs` | `ScheduleTracksChain`, `CompromisedIsCancelled`, `PublicationsSettle` and `NoKeyOverdue` in a calm deployment, proved |
| `PublishRun` | What a publication promises the service, in six actions |
| `Publication`, `MCPublication` | The publication call by call, which implements `PublishRun` (INSTANCE), and small instances |
| `PublicationProofs` | Its types, `WrittenOffIsPublished`, `TransactionsBounded`, `RunsWindDown` and the refinement, proved |
| `Negotiation`, `MCNegotiation` | The negotiation with the key finder, and small instances |
| `NegotiationProofs` | Its types and its four safety invariants, proved |
| `Environment` | What validation accepts and which contexts can be built |
| `Account` | External: the account on each network and its transactions (EXTENDS `Environment`) |
| `CommandLine` | The commands (EXTENDS `Account`) |
| `ServiceStart` | The service's process, its checks and its node (EXTENDS `Account`) |
| `Deployment`, `MCDeployment` | `CommandLine` and `ServiceStart` beside the owner's edits and another program, and small instances |
| `DeploymentProofs` | The types of all four, `CommandsWindDown`, `ConsentedApproval`, `UpdateKeepsTheRest`, `ServedWithProfile`, proved |
| `DeploymentBooksProofs` | `SuccessSettled` and `RoundsBounded`, proved |

### 2.1 Scheduler

| TLA+ | Code |
|---|---|
| `timers` | node-schedule jobs that have not fired |
| `slot` | the map `scheduledPublishPrivateKey`, which keeps a job after it fired |
| `inProcess` | `sarcoIdsInProcessOfHavingPrivateKeyPublished` |
| `runs` | calls of `publishPrivateKey` that have not reached the end of `finally` |
| `SchedulePublish` | `schedulePublishPrivateKeyWithBuffer` and `schedulePublishPrivateKey`: the early return on the in-process list, the cancellation of the old job, the new one |
| `ScheduledTime` | the date: 5 s from now if the resurrection time is past, else the resurrection time moved to the system clock plus 15 s |
| `CancelScheduledPublish`, `StartPublish`, `EndPublish` | `cancelSheduledPublish`, the firing of a job, the `finally` block |
| `Readings` | what `getBlockTimestamp` may have returned when it was read: any block timestamp so far, or the system clock if the call failed |

Two clocks are kept apart: `now` is real time, of which `blockTime` trails by up
to `BlockLag`, and `SystemClock == now + Skew` is `Date.now()`.

### 2.2 ArchaeologistService

JavaScript runs a stretch of code between two awaits without interruption, so
each stretch is one action, and what waits is data: `tasks` holds the event
handlers and sync callbacks that wait for an answer, with what they remember,
`fetch` the sync up to the subgraph's answer, `runs` (with `publishing` and
`mined`) the publications.

| TLA+ | Code |
|---|---|
| `tracked`, `dead`, `storeSet` | the store's `sarcophagi`, `deadSarcophagusIds`, and whether the map has an entry |
| `socket`, `inbox` | each context's websocket, and the events on their way to its listeners |
| `DeliverEvent` with `CreateSarcoHandler`, `RewrapHandler`, `RemoveHandler`, `AccuseHandler`, `IgnoredEvent` | the five handlers up to their first await, and the `isCursed` test |
| `CreateTime`, `CreateArch`, `RewrapTime`, `AccuseRead` | the handlers after each await |
| `FetchProfile`, `QuerySubgraph`, `FetchSarcophagi`, `SyncSarco`, `SyncArch`, `SyncFails` | the sync: the profile, the page of the subgraph (an HTTP query, which a closed websocket does not keep from being answered), the calls after it, and each sarcophagus |
| `Unlinked` | `sarcophagi = sarcophagi.filter(...)` makes a new array: callbacks of an earlier sync go on pushing to the old one |
| `StoreUnset` | `inMemoryStore.get(chainId)!.` on a missing entry throws, and the process exits |
| `ConnectionClosed`, `ProviderError`, `Connected` | the provider's `close` and `error` handlers, `resetNetworkContext` |
| `Crash`, `Restart` | an error nothing catches or a kill; `restart: on-failure` |
| `JobFires`, `RunDerivesKey`, `RunPublishes`, `RunSucceeds`, `RunFails` | `publishPrivateKey`: its first segment, the lookup, the transaction, the receipt, and giving up |

A context's number stands for everything a closure captures with it. A call on
a closed connection has no answer and no timeout, except the lookup at the
start of a publication, which gives up after 5 attempts of 5 s: so a handler or
a sync waiting on a connection that closes is dropped, and a run waiting for
the transaction or its receipt stays where it is. The gas price of a
transaction is asked of the context registered at that moment; this module only
requires the job's own connection, and `Publication` has the detail.

### 2.3 Publication

`pc` says what each publication awaits; its actions are the segments between.

| TLA+ | Code |
|---|---|
| `JobFires` | `publishPrivateKey` up to the lookup: the sarcophagus joins the in-process list |
| `LookupAnswered`, `LookupAttemptFails` | `rpcCallWithTimeout`: an answer, or a rejection or the timer, five times |
| `KeyNotFound` | `derivePrivateKeyFromPublicKey` on a key of another mnemonic, which recurses until the stack overflows |
| `RunBegins`, `DryRunEnds`, `GasPriceEnds`, `SendTaken`, `SendFails` | `_run`: the registered context, the dry run on the job's, the gas price on the registered one, the transaction on the job's |
| `AttemptFails`, `RetryTimer` | `retryFn`, whose depth lets through four attempts |
| `ReceiptArrives`, `ReceiptFails`, `NotifyEnds`, `Finally` | `tx.wait`, the catch block and the finally block |
| `loose`, `ErrorHandled`, `BalanceRejected` | a `handleRpcError` nobody awaits, and the balance it or the finally block asks for: a rejection ends the process |
| `members`, `Registered` | the `networkContexts` of the web3 interface, which reconnections change |

A transaction whose answer is lost is in `txs` all the same; transactions of an
account are mined in order, and the contract takes a key once, in its window.

### 2.4 Negotiation

`stream` holds each embalmer's stream and what its handler awaits, `cached` the
version of the profile in the store, `profiles` all versions on chain.

| TLA+ | Code |
|---|---|
| `Receive` with `Verdict` | a message up to the first await: parsing, the four comparisons in their order, and which of them throws |
| `ParseEther`, `SignedWei`, `Encodes` | the two uses made of a fee's text: `parseEther` when compared, uint256 when signed |
| `TimestampRead`, `TooLateAnswered` | the drift check with `getBlockTimestamp` and its fallback, and the second reading in the error's text |
| `PageArrives`, `CountFails`, `NextKey` | `getSarcophagiIds` page by page, its empty result on an error, and `getNextPublicKey` |
| `Sign` | `signPacked` and the answer |
| `ProfileRead`, `FetchEnds`, `RefetchInterval` | the profile's part of `fetchProfileAndSchedulePublish`: the first call works on an object of its own until it ends |

A key is its index. An embalmer may leave between messages; one that leaves
while its message is handled makes the handler's answer go nowhere, which
changes nothing modelled here.

### 2.5 Deployment

| TLA+ | Code |
|---|---|
| `ValidEnvVars`, `ContextsBuilt`, `HasContext` | `validateEnvVars`, `getNetworkContextsByChainIds`, `getNetworkContext` |
| `Invoke`, `Malformed`, `WarnedOnly` | `cli.ts`'s `run` and each command's `validateArgs`, before anything is awaited |
| `ProfileRead`, `AllowanceRead`, `ApprovalAnswered`, `UnlimitedRead`, `Approve` | registration check, `hasAllowance`, `requestApproval`, `runApprove` |
| `TimeRead`, `Answered`, `FundsRead`, `Confirmed` | `registerPrompt`; a review that is not confirmed starts the questions again |
| `TermsSent`, `PerSecond` | `updateArchaeologist`'s defaults and `profileSetup`'s fee per second |
| `Send`, `Attempt`, `AttemptFails`, `Receipt`, `Report` | the command's own transaction, under `retryFn` unless it is a profile, its receipt, and the profile read back |
| `cmd.live`, `ConnectionCloses`, `LosesLine` | the command's websocket, which nothing watches: once it has closed, only the questions to the owner go on, and the end of the process |
| `Boot`, `Bootable`, `NodeStarts`, `NodeStops`, `NodeStartsAgain` | `start`'s `run`, `startService`, `initLibp2pNode`, `restartNode` |
| `ProfileFetched`, `BondRead`, `CheckFails`, `CheckHangs`, `NobodyCatches` | `healthCheck` on each network, concurrently, which never ends if the connection closes before there are listeners, and what is awaited by nobody |
| `Exit`, `DockerRestarts` | the process's end with its code, and `restart: on-failure` |

The command line reads the environment file (`env`) at each start; a container
keeps the environment it was created with (`service.conf`), restarts included,
until the owner takes it down and up again. Commands run one at a time;
`OtherUpdate` stands for whatever else the owner may use to store a profile.

## 3. What is checked

| Run | Instance | Question and result |
|---|---|---|
| `scheduler` | 2 sarcophagi, 2 resurrection times, clock ahead by 1 with margins of 2, blocks late by up to 1, fallback on; 19 655 states | `SinglePublisher`, `InProcessIsRunning`, `NeverBeforeResurrection` hold whatever order schedules, cancellations, firings, ends and crashes come in |
| `scheduler_clock` | the clock ahead by 4 | `NeverBeforeResurrection` fails: if the block timestamp cannot be read, the "difference" between the clocks is measured as zero |
| `service_calm` | 2 sarcophagi, 2 times, one crash, refetching on, FairSpec; the world waits until the service has digested the last change | `ScheduleTracksChain`, `CompromisedIsCancelled`, `NoKeyOverdue`, the action property `PublicationsSettle` and the liveness property `EveryKeyPublished` hold |
| `service_faults` | 1 sarcophagus, 2 times, everything at once: failing calls, a lagging subgraph, one reconnection, events overlapping each other and the sync; 0.6 million states | `DeadIsFinal` holds, and `RefinesScheduler`: the service implements `Scheduler`. A kill at any moment is left to `service_calm`, but an early event ends the process, so that the loss of all jobs is among the steps |
| `service_reconnect` | one reconnection, at rest, with refetching | `EveryKeyPublished` fails: jobs and the refetch interval keep the dead context |
| `service_busy` | nothing fails, but a rewrap arrives while the sync or the create handler waits | `ScheduleTracksChain` fails: the rewrap is not for a sarcophagus in the store, and is dropped |
| `service_page` | a page of 1, 2 sarcophagi, one restart | `ScheduleTracksChain` fails: the query returns the latest resurrection times first, so those due first are left out |
| `service_buried` | a burial | `InactiveUnscheduled` fails: the bury handler does not cancel the job |
| `publication` | 1 sarcophagus, 2 publications of it, 2 lookups, 4 attempts each, 1 reconnection, all faults; 289 000 states, FairSpec | `WrittenOffIsPublished`, `TransactionsBounded`, `RunsWindDown`, the liveness property `EveryRunEnds` and the refinement `RefinesPublishRun` hold: a publication ends unless it waits, without a timeout, on a connection that has closed |
| `negotiation` | 2 embalmers, 2 profiles, 5 proposals and garbage, pages of 1, 2 sarcophagi, all faults; 517 000 states, FairSpec | `SignedSinceStart`, `FreshAgainstIndex`, `KeyWithinReach`, `NotSignedAhead` and the liveness property `EveryMessageAnswered` hold |
| `negotiation_fees` | one message, no faults | `SignedFeesSuffice` fails: the fee is compared as ether and signed as wei |
| `deployment` | 2 networks, 3 environments, 10 commands, failing and lost calls, connections that close, 1 edit, 1 fault of the service; 364 000 states, FairSpec | `ConsentedApproval`, `SuccessSettled`, `RoundsBounded`, `UpdateKeepsTheRest`, `ServedWithProfile`, `CommandsWindDown` and the liveness properties `EveryCommandEnds`, `AllServed` hold |

The six runs that fail are recorded as findings, with the comment of the code
each contradicts.

`TypeOK` of the service also says that runs, `publishing` and `mined` nest, and
that every job's resurrection time is one an embalmer chose.

### 3.1 Bounds, and why they are enough

* Time: `MaxTime` stops the clock. The scheduler's runs reach beyond the last
  resurrection time plus all margins; the service's reach beyond the last grace
  period's end, so that too-late cases occur. The margins of 15 s and 5 s and
  the grace period are scaled to 1 or 2 ticks; what matters is their order
  relative to the clock's offset, which each configuration sets, and
  `NeverEarly` is proved for all values.
* Two sarcophagi suffice where they interact: the page of the query, the
  filtered arrays and the refetch. Jobs of different sarcophagi share nothing
  else; `service_faults` has one, so that its interleavings stay within reach.
* `MaxResets` and `MaxCrashes` are 1: after one reconnection there are two
  contexts, two sets of listeners after an error, and jobs of both. `MaxPending`
  bounds the events and handlers pending per context to 2, enough for any two
  handlers, or a handler and a sync callback, to overlap.
* `PageSize` stands for the query's 100.
* `publication`: the reasons for an attempt to fail do not depend on how many
  there were, so two lookups stand for five; the attempts of `retryFn` are the
  code's. Two publications of one sarcophagus are what it takes for a late
  transaction of the first to meet the second. Publications of different
  sarcophagi meet only in the process's end and the contexts; two at once are
  beyond TLC's reach here, and the proofs hold for any number.
* `negotiation`: an ether of 2 wei and a second of 2 ms keep apart what the code
  confuses or converts; two streams, two versions of the profile and pages of one
  are the least at which two counts, two comparisons and two pages overlap. Two
  messages of either embalmer suffice for a second after a first.
* `deployment`: one command (`MaxRuns`) beside a service on two networks, with
  accounts a command that ended early may have left. `MaxEdits` bounds edits of
  the environment and updates by another program together, `MaxFaults` the
  service's failing and unanswered calls and the owner's stops. `MaxRetries` is 0, which leaves
  two attempts; what happens at each does not depend on its number, and
  `CommandsAreBounded` is proved for all. A month is two days.

### 3.2 Assumptions about what is not in `src/`

* The contract accepts a key from the resurrection time until the grace period
  is over, and rewraps, burials and accusals before the resurrection time only.
  The sarcophagi of other archaeologists are left out: they add events the
  handlers filter away.
* A call is answered from the chain's state when the answer is delivered.
* ethers: a provider whose websocket closed never answers and is not told of
  events; one that is connecting queues calls. This is so in the service, during
  its health check, and in the commands, which have no timeout and no listeners. Node exits on an unhandled
  rejection (the Node versions the images use), and docker restarts it.
* The clean and accuse listeners are registered on the embalmer's facet with
  filters of the third party's facet. Whether ethers decodes such an event
  depends on that facet's ABI, which is a dependency's: the constant
  `ThirdPartyDecoded` stands for it, TRUE in the runs; with FALSE the handlers
  get an event object in place of an id, and match no sarcophagus.
* One network in all but `Deployment`. Networks share no state but the process
  and the store, whose entries are by chain.
* Docker keeps a container's environment across its restarts. The networks of
  `Environment` are those the service supports.
* libp2p gives an embalmer's stream one handler; what it answers after the first
  message reaches the embalmer only as far as the stream's sink is still open,
  which is a library's and does not change what was signed.
* Subgraph queries are complete up to what is indexed: a hosted index's own
  limit on `skip` is not modelled.
* ethers: `wait()` of a transaction resolves when it is mined and rejects when it
  reverted; an attempt to send first estimates gas on the latest block.
* In `service_faults` the system clock is not ahead of the chain: where the
  block timestamp falls back on it, a clock ahead by more than the grace period
  would write off what is still owed, for the reason `scheduler_clock` shows.

### 3.3 Fairness

`FairSpec` has weak fairness of everything the process does once it can (the
event loop runs what is ready; an open connection answers; docker restarts) and
strong fairness of the clock. The clock is the one thing that is never
permanently disabled by the service, but in calm runs it waits for the service
to be at rest, and refetching makes the service busy again and again, so weak
fairness would let a refetch be chosen for ever instead of a tick. Nothing is
assumed of the environment: events, closures, crashes and refetches may never
happen.

`Calm` makes chain events, reconnections and ticks wait until nothing is
pending. It is a hypothesis about speed, that answers arrive within a second
and changes are further apart than that, and `service_busy` shows what happens
without it. Crashes, failures of the process and subgraph indexing are not
restrained by it.

The later modules assume less. `Publication`: a run's step that stays enabled is
taken, which says that calls on an open connection are answered or fail and that
timers go off, and transactions in the pool are mined. `Negotiation`: each
awaited answer on an open connection comes; a count ends though the subgraph may
go on indexing, as sarcophagi are bounded. `Deployment`: transactions are mined,
a command's calls on an open connection are answered or fail, docker restarts, the
process boots, and a network's check goes on while its connection is open. Nothing is
assumed of the connections: a command whose websocket closes waits for ever
(`Hung`), whether or not its transaction is mined, and a network whose websocket
closes during `healthCheck` (`start_service.ts:44`, before the listeners of `:56`)
is never served, in a process that is up and that docker does not restart.
`EveryCommandEnds` and `AllServed` name both as exceptions; the second says that
such a network keeps none of the others back. The owner need not answer, start or
stop anything, so that `EveryCommandEnds` also excludes the questions put to him and
`AllServed` a service that is down. Calls of the service fail finitely often
(`MaxFaults`), without which it may well be restarted for ever.

Deadlock is not checked where the system really may stop: at the end of time
with a run waiting on a dead connection.

## 4. What is proved

tlapm checks all proofs; nothing is assumed but the named assumptions about the
constants (`SchedulerAssumption`, `ContractAssumption`, `ServiceAssumption`,
`PublicationAssumption`, `NegotiationAssumption`, `EnvironmentAssumption`,
`AccountAssumption`, `CommandLineAssumption`, `ServiceStartAssumption`).

* `SchedulerProofs!TypeCorrect`: `Spec => []TypeOK`.
* `OnePublisher` and `InProcessExact`: `[]SinglePublisher` and
  `[]InProcessIsRunning`. `SinglePublisher` is not inductive: that a new job
  never joins a live one rests on the slot naming the only job of its
  sarcophagus that may be live (`SlotIsOnlyTimer`), although slots are never
  cleared; that a job does not fire beside a run rests on no live job's
  sarcophagus being in process (`NoTimerInProcess`), which holds because
  a schedule is refused while in process and a firing job was the only one.
* `NeverEarly`: under `ClockTrusted`, `[]NeverBeforeResurrection`. The invariant
  says of each live job that either the chain has reached its resurrection time,
  or it will have by the job's date, however late the latest block is. The
  hypothesis is what the code relies on: blocks late by no more than the 15 s,
  and, if the block timestamp can fall back on the system clock, that clock ahead
  by no more than the 5 s less the lag. `scheduler_clock` shows it is needed.
* `ScheduledTimeIsFuture`: node-schedule never gets a date that is past.
* `ServiceProofs!ServiceRefinesScheduler`: `Spec => RefinesScheduler`, for any
  number of sarcophagi, contexts, crashes and handlers. The invariant is that
  whatever is remembered across an await is still something the scheduler may be
  given: events and handlers carry resurrection times, every existing
  sarcophagus has one, the sync only looks at existing ones, and a remembered
  block timestamp is a reading of the chain or the clock. `Scheduler`'s own
  assumption holds of the instance (`SchedulerAssumptionHolds`).
* `ServiceSafetyProofs!ServiceTypeCorrect`: the service's `TypeOK`, with the
  scheduler's. The steps of the jobs are taken from the refinement.
* `ServiceOnePublisher` and `ServiceNeverEarly`: what is proved of `Scheduler`
  with an arbitrary user, proved again of the service itself, since tlapm 1.4.5
  does not cite theorems through an instance: `[]SinglePublisher`,
  `[]InProcessIsRunning` and, under `ClockSafe`, `[]NeverBeforeResurrection`,
  across syncs, duplicate listeners, reconnections and restarts. Only the steps
  of the refinement are needed, not the service's actions.
* `WrittenOffIsFinal`: under `ClockNotAhead`, `[]DeadIsFinal`. What writes a
  sarcophagus off acts on what was learned earlier: an event in the queue, an
  answer of the sync, a block timestamp read before two more awaits, a receipt.
  The invariant `DeadInv` says that each of these is still true when it is used:
  a queued bury or clean event is about a buried or cleaned sarcophagus
  (`EventsHappened`), a mined run's key is on chain (`MinedPublished`), remembered
  timestamps are not ahead of the chain (`ReadingsPassed`); `ChainIsFinal` shows
  that the chain takes none of it back, a rewrap included.

* `ServiceCalmProofs` is about a calm deployment (`CalmDeployment`): the world
  waits for the service, no call fails but the block timestamp's, the index does
  not lag, the connection lasts, the system clock is not ahead of the chain where
  it stands in for it, and there are no more sarcophagi than fit a page. There
  may be any number of crashes, refetches, rewraps, burials and accusals. Each
  hypothesis about speed, page and connection has a run that fails without it:
  `service_busy`, `service_page`, `service_reconnect`; `service_calm` meets them
  all.
  * `KeysStayScheduled`: `[]ScheduleTracksChain`, and `CompromisedIsUnscheduled`:
    `[]CompromisedIsCancelled`, the latter if accuse events are decoded. Both
    speak of the service at rest, but what has to be carried through is what it is
    doing in between. `CalmInv` says that it does one thing at a time
    (`OneAtATime`), that whatever is pending, an event, a handler or a callback of
    the sync, carries what is still on chain (`PendingRight`), that a job with an
    old resurrection time has the new one on its way to it (`JobsRight`), that a
    job of a compromised sarcophagus has its accusal on the way
    (`CompromisedRight`), and that somebody sees to every owed key: a job, the
    sync, a handler or a publication (`OwedCovered`). At rest only the jobs are
    left.
  * `PublicationsAreNotRepeated`: `PublicationsSettle`, that a publication which
    ends while the process lives leaves no key owed. It matters because nothing
    repeats one: the invariant has each publication in flight begun when the
    contract takes its key.
  * `NoKeyIsLate`: `[]NoKeyOverdue`, under `Punctual`: the buffer, what the clock is
    behind where it stands in for the block timestamp, and 5 s for every crash fit
    into the grace period, and refetches are further apart than the 5 s.
    `TimeInv` bounds the chain's time and every job's date by the resurrection
    time plus a margin, which each crash widens by the 5 s that the job, made anew
    after its time, waits once more. A restart takes no time here, as nothing in a
    calm deployment does while the service is at work.
* `PublicationProofs`: `[]TypeOK`, `[]WrittenOffIsPublished`,
  `[]TransactionsBounded` and `Spec => RefinesPublishRun`. The invariant says
  what a publication may wait for: the transaction it waits for is one it sent
  and not older than any other, its depth counts the transactions of this
  publication (`BudgetBound`), and a sarcophagus in process is exactly one whose
  stage is in flight. The receipt that writes a sarcophagus off is then that of a
  mined transaction, and each step is a step or a stutter of `PublishRun`.
  `PublicationsEnd` is the safety half of `EveryRunEnds`: `StepsLeft`, which is
  bounded by the lookups and the attempts left, gets less with every step of a
  publication and changes with nobody else's (`RunsWindDown`). That there is
  always a next step unless a closed connection is waited for is left to TLC.
* `NegotiationProofs`: `[]TypeOK`, `[]SignedSinceStart`, `[]FreshAgainstIndex`,
  `[]KeyWithinReach`, `[]NotSignedAhead`. The invariant follows a proposal over
  the awaits: what was compared conforms with some version since the start
  (`CacheFresh`, `StreamOK`), and versions are never taken back. For the keys, a
  count's offset never exceeds what is indexed, and by induction along the chain
  every created key is within its position, so that a complete count is greater
  than any of the counted.
* `DeploymentProofs`: `[]TypeOK` of environment, account, command and service; for
  the account it includes that no mined transaction takes more than there is.
  `CommandsEnd` is the safety half of `EveryCommandEnds`: `CommandStepsLeft` gets
  less with every change of a command's stage, phase or attempts but an owner's not
  confirming the review (`CommandsWindDown`), whatever becomes of its connection; what remains after the first approval, the second look at
  the allowance or the guided registration's questions, is less than what the
  first took off. `[]ConsentedApproval`, `[]UpdateKeepsTheRest`,
  `[]ServedWithProfile`: the consent is carried from the question to the approval:
  a command that awaits an allowance of MaxUint256 has it. An update's fee survives
  the way over the month because the division undoes the product, for any month.
  Profiles are never deleted, and a service that is up has booted with a valid
  environment.
* `DeploymentBooksProofs`: `[]SuccessSettled` and `[]RoundsBounded`. The books relate
  `txs` to the command: what was sent belongs to commands begun (`SentInv`), a
  network's transactions are mined in order (`Ordered`), an approval that was
  mined is granted for good (`Granted`), and a command's approvals and own
  transactions number no more than its tries allow, as long as its connection is open
  (`ApprovalsInv`, `OwnInv`); on a closed one it sends nothing more.
  That the transaction waited for is the command's last, and mined after its
  others, makes SUCCESS mean that nothing is left pending.

Every invariant and action property of a run that passes is proved for all values
of the constants, or for those that meet the hypotheses named above. Model-checked
only are the liveness properties `EveryKeyPublished`, `EveryRunEnds`,
`EveryMessageAnswered`, `EveryCommandEnds` and `AllServed`, as liveness under
fairness is beyond the prover, as is ENABLED. No module that is proved about has a
recursive operator; `getSarcophagiIds`'s loop and `retryFn`'s recursion are steps,
and the search of `deriveHdWalletFromPublicKey` is bounded by `KeyWithinReach` rather than computed.

## 5. What the modelling showed besides the findings

These are consequences of the code that no comment or test contradicts; the
modules have them as behaviours, except where noted.

* The guided registration puts its default rewrap interval in months, and
  `parseRewrapIntervalAnswer` takes any months but 12 for days: 6 months become 6
  days (`src/cli/prompts/register-prompt.ts:237-247`, `:318-322`).
* A deposit, withdrawal or claim whose answer is lost is sent again and may take
  effect twice; `RoundsBounded` bounds how often.
* A registration without `--max-res-time` passes `validateArgs`, asks for the
  approval, and cannot be sent. A bond of zero or an amount of zero ends with
  success and no effect.
* `getNetworkContext` without a name indexes a Set, so a command without
  `--network` fails even with a single network.
* One network without a profile, or whose calls fail, ends the process for all
  networks, and docker restarts it for as long as that is so.
* Each refetch schedules every job anew, and a job that is due for 5 s from then.
  With a `REFETCH_INTERVAL` below the 5 s, or one that is no number (which
  `setInterval` takes for 1 ms), a key whose time has come is put off until its
  grace period is over (`src/start_service.ts:13`, `src/utils/scheduler.ts:78-82`).
  `NoKeyIsLate` needs its hypothesis about refetches for this; the runs have 5 s as
  one tick.
* `handleRpcError` is not awaited in `publishPrivateKey` and `_run`: when the
  balance it asks for cannot be read, the process ends with every other
  publication in flight, which the restart's sync schedules anew.
* After a failed subgraph query the next key is the first one, whatever sarcophagi
  there are; `FreshAgainstIndex` is about counts that succeeded.
* Until the first sync has ended every negotiation is answered UNKNOWN_ERROR; if the
  connection closes during it and nothing refetches, it stays so.
* `BOOTSTRAP_LIST`, when set, makes `NodeConfig` push to an undefined list, and the
  service never starts. `loadPeerIdJsonFromFileOrExit` does not await its read, so
  a missing file ends a command with 1 and not with FILE_READ_EXCEPTION.
* A command whose websocket closes hangs, except that Node ends a process that has
  nothing left to wait for, and then with code 0, though the command has not
  reported SUCCESS: the timer ethers keeps for a websocket does not hold the process,
  while the dots `runApprove` prints during an approval do
  (`src/utils/blockchain/approve.ts:25`). The model has such an end among `Dies`;
  `SuccessSettled` speaks of the command's own exit with SUCCESS only.
* `validateEnv.ts:139` compares mnemonics as they were put, and so does
  `ServedWithProfile`; two spellings of one mnemonic, which ethers takes for the
  same, pass.
* The local network's url and mnemonic are not validated or compared (`Local`).

## 6. Not modelled

* `view` and `help` read and print; so do the queries behind them
  (`getSarcophagus`, `getActiveSarcophagi`, `getPastSarcophagi`, `getArchStats`).
* `start --random-profile`, the local runners and the tests: developers' tools.
* libp2p's transports, addresses and connections, `restartNode`'s test for open
  connections (any restart may be put off), and a shutdown while a restart is
  under way: nothing of the service's state depends on them.
* Key derivation, signatures and encodings are functions of libraries; a key is
  its index and an agreement what was signed.
* Texts of logs, errors, warnings and questions, and the parsing of options.
* Two commands of one account at the same time, but for `OtherUpdate`.
