# AFAL: a verification project

This directory holds TLA+ models of the Agent Financial Action Layer, the TLC
configurations that check them, and TLAPS proofs about them. AFAL lets an agent
ask for a payment or for metered resource usage. It reserves budget for the
action, has a person approve it on a trusted surface, executes it on a payment
rail or at a resource provider, charges the reservation, and notifies the
receiver.

Paths below are relative to the repository's root, which `PROJECT.json` calls `src/`; a file
name that occurs once stands by itself. Line numbers follow a colon.

## 1. The system

### Components

| component | state | operations | what makes it correct |
|---|---|---|---|
| **ATS ledger** `backend/ats/service.ts` | monetary and resource budgets, quotas, reservations, accounts | reserve, settle, release (monetary and resource), `freezeAccount` | no line beyond its limit; a settlement never eats the hold of another reservation; a line is charged once per settlement; stored figures agree |
| **AMN** `backend/amn/service.ts` | decisions, challenges, approval contexts, results, sessions | `evaluateAuthorization`, `createApprovalRequest`, `applyApprovalResult`, `resumeAuthorizationSession`, `finalizeAuthorization` | a final decision stays what it is; only an approval leads to an approved decision |
| **AFAL runtime** `backend/afal/service/runtime.ts`, `backend/afal/state/` | intents, pending executions; local variables of each handler across `await`s | `requestPaymentApproval`, `requestResourceApproval`, `applyApprovalResult`, `resumeApprovalSession`, `resumeApprovedAction`, status queries, notification administration | what is executed was approved and is charged; what is closed is released; a settled action has its receipt and its receiver is told |
| **direct flows** `backend/afal/mock/orchestrator.ts` | as the runtime | `executePaymentFlow`, `executeResourceSettlementFlow` | as the runtime, in one call |
| **notification outbox** `backend/afal/notifications.ts` | delivery records, retry timers, worker status | `notify*`, worker `start`/`stop`/tick, `redeliverNotification`, `redeliverFailedNotifications` | an entry says what really happened; attempts are bounded; no entry stays failed |
| **payment rail** `app/payment-rail/` | wallet confirmations by action, transaction hashes, their file, a planned outage | `confirmWalletPayment`, `executePayment`, agent wallet command, restart | a settlement is backed by its transfer; one transfer confirms one action; one action is transferred once; a confirmation is not lost |
| **HTTP adapters** `backend/afal/settlement/` | settlements | retries of rail and provider calls | a retry repeats only what did not happen, and outlasts a short outage |
| **clients** `backend/afal/clients/` | clients, signing keys, used request ids, callback addresses | provisioning, `authenticateRequest`, callback registration | a signed request is served once; no registration undoes a provisioning; notifications follow the registrations |
| **AIP** `backend/aip/` | identities, credentials | resolve, verify, revoke, freeze | what was withdrawn verifies nothing |
| **outputs** `backend/afal/outputs/` | receipts, capability responses | create, list | a settled action is answered from its receipt |
| **admin audit** `backend/afal/admin-audit.ts` | audit entries | one entry per administrative call | the log follows the worker |
| **stores** `*/store.ts`, `*/file-store.ts`, `*/sqlite-store.ts` | the records of the above, in memory, as a JSON snapshot, or in SQLite | get, put, list | no put is lost, no file damaged |
| **HTTP layer** `backend/afal/http/`, `backend/afal/api/` | requests in progress, the server's phase | routing, authentication, error envelopes, start and close | a closed server is quiet |
| **provider** `app/provider-service/`, **trusted surface** `app/trusted-surface/` | planned failures | confirm and settle usage; approve and resume | stand-ins of external parties |
| **tools and agents** `packages/payment-mcp/`, `samples/`, `agents/`, **SDK** `sdk/` | none but the progress of a run | payment tools of agents, pilots, harnesses, demonstrations | a service is delivered on its payment; a pilot recovers |

### How they interact

The components of AFAL live in one Node.js process. The rail, the provider and the
trusted surface are reached over HTTP, and so is AFAL by its clients. A request
handler is an async function that calls the services one after the other. The event
loop may run another handler at each `await` that really waits: always at a call to
the rail or the provider, and at each access to a JSON store; an SQLite store answers
at once. There are no transactions across records and no locks, so what a handler read
before an `await` may be stale after it, and a process that dies leaves the writes made
so far. The provisioning script and command line tools are other processes on the same
database or files.

### What is hard here

* **Overlap of handlers.** `resumeApprovedPaymentAction` decides on an intent it
  read before it awaits the rail; a stop of the worker answers with what it finds
  after it has waited; a callback registration writes back a record it read before.
* **Repeated calls.** A request, an approval result or a resume may come again,
  and identifiers are derived from the action, so records are overwritten.
* **Partial failure.** Every handler writes four to eight records in sequence;
  a thrown error or a crash leaves the prefix.
* **Results out of order.** A result may reach a session that is already final.
* **Lost answers.** The rail may execute a payment and the answer be lost; the wallet
  command may broadcast a transfer and time out.
* **Checks apart from their use.** The replay check of a transfer precedes its
  verification on chain, and its registration follows it.
* **Delivery.** Notifications are retried by timers, by the worker and by hand.
* **Whole-file stores.** A put of a JSON store rewrites the file from what it read.

`PROJECT.json` lists these hazards one by one at the line where they bite, with
the properties that would catch each of them.

## 2. Modules

| module | models | kind |
|---|---|---|
| `SpendingPromise` | what the ledger promises about each line | abstract specification |
| `AtsLedger` | `backend/ats/service.ts` | component |
| `ApprovalFlow` | `backend/afal/service/runtime.ts` with AMN, the AFAL state, the receipts and, by `INSTANCE`, the ledger | composition |
| `DirectFlow` | `backend/afal/mock/orchestrator.ts`, on the state of `ApprovalFlow` | component |
| `NotificationOutbox` | `backend/afal/notifications.ts` and its operator's routes in `runtime.ts` | component |
| `OperatorConsole` | `backend/afal/http/sqlite-server.ts`, the operators' routes, `admin-audit.ts`, the receivers and the pilots of `agents/test-harness`, on `NotificationOutbox` | composition |
| `WalletRail` | `app/payment-rail/` and the retries of `settlement/http-adapters.ts` | component |
| `ClientGateway` | `backend/afal/clients/`, the signed routes of `http/router.ts`, the addresses in `notifications.ts` | component |
| `IdentityStore` | `backend/aip/service.ts` on `backend/aip/file-store.ts` | component |
| `PaymentTool` | the agents' payment tools over AFAL, the outputs file and the rail | composition |
| `*Proofs` | theorems about the module of that name; `ApprovalFlowProofs` covers `DirectFlow` too, `OperatorConsoleProofs` the outbox under the console | proofs |
| `MC*` | values of the constants for the `.cfg` files | model checking |

Definitions headed *Wrong:* are deliberate mistakes. Nothing uses them; substituted for
the definition that follows them, each makes one property fail, which shows that the
property depends on that piece of code.

### AtsLedger

A *line* is a budget or a quota; `consumed`, `reserved`, `available` and
`lineStatus` are its stored figures, and `reservation` maps each identifier to
its record. The monetary operations work on a holding of one budget and the
resource operations on a budget with its quota. The code is the same for both,
and so are the actions: `Reserve`, `Settle`, `Release`. In `PROJECT.json`, `Reserve`
points to `reserveResourceCapacity` and `NextReserve` to `reserveMonetaryBudget`,
and likewise for the other two. The direct consumption of a line is left out: the
ledger's own API offers it and no flow of AFAL calls it (see section 3).

Three details of the code are kept because properties depend on them. `Reserve`
does not look for an earlier record, so a repeated request replaces it and its
hold is never returned. `Release` sets a line to `"active"` whatever it was. The
figures are floored at zero when they are written.

Every operation writes the reservation, then the budget, then the quota. The
parameter `W` is the set of lines written before the process dies. `Spec` always
takes all of them; `CrashSpec` takes any prefix and then the next operation.
Within one call the ledger reads its records first and is not interleaved with
another call. This is what the in-memory and SQLite stores guarantee (no real wait
between the reads and the writes). `IdentityStore` shows what the JSON stores do
instead. Amounts are whole cents or units; binary floating point is not modelled.

### ApprovalFlow and DirectFlow

Each handler in progress is a record `[pc, action, decision]`: where it stands,
the action it works for, and the final decision it holds in a local variable.
One step is one call of the handler to a service or to the rail, with everything
that call changes; `pc` names the next one.

| code | actions |
|---|---|
| `requestPaymentApproval`, `requestResourceApproval` | `CreateIntent`, `ReserveCapacity`, `EvaluateAuthorization`, `CreateApprovalRequest`, `CreatePendingExecution`, `MarkChallenge` |
| `applyApprovalResult` | `ApplyApprovalResult`, then `CloseSession`, `ReleaseReservation`, `MarkClosed`, `MarkReleased` unless approved |
| `resumeApprovalSession` | `ResumeApprovalSession` |
| `resumeApprovedAction` | `StartResume`, `ReadIntent`, then one of: `ReadBack`; the closing steps above; `Execute`, `ReleaseFailed`, `MarkFailed`; `Execute`, `CreateActionReceipt`, `MarkSettled`, `ChargeReservation`, `MarkResumed`, `Notify` |
| `executePaymentFlow`, `executeResourceSettlementFlow` | `CreateDirectIntent`, then `DirectReserve` to `DirectCharge` |
| the process dies | `Crash` |

Every request for an action brings terms of its own (`Offers`): the amount and the
budget to reserve. A repeated request replaces the intent and the one reservation of the
action with them, and `asked` keeps all terms that were reserved for. What the stored
intent's terms are to the rail is left to `PaymentTool`.

A session keeps its result and, once final, where its decision is found: in a
record of its own (`"granted"`) or in the record of the prior decision, which a
finalization without approval overwrites (`"prior"`) and a repeated request
overwrites again. `executed` counts the executions at the rail or provider and is
never read by the code, like `approvals` and `notified`.

The direct flows have the same identifiers as the approval flow. Started on an action
that awaits its approval, a direct call replaces the intent and reopens the session;
it asks the trusted surface of the process itself, and charges as its last write. It
releases what it holds on any error.

Steps of two handlers interleave freely between calls. With the JSON stores they
really do; with SQLite a handler only waits at the rail, and the model allows more
than the program. A property that holds here holds there, and the counterexample of
`flow_double_payment` needs interleaving only at the rail.

The rail is outside `backend/`; it executes and answers (`"ok"`), refuses, or
executes while the answer is lost. A rail in wallet confirmation mode answers a
repeated execution from its confirmation; `WalletRail` has that. The seeded rail, the
agent wallet while its first transfer is still running, and the provider do not.
Challenges and contexts are left out: the flow writes them and decides nothing on them.

### NotificationOutbox

A call of `postNotification` is a *cycle*: up to `MaxAttempts` posts, then an entry.
`call[c]` holds what its local variables hold, namely the counts of the entry as they
were when the call began. Nothing locks an entry, so two cycles of one notification
write over each other, and the later write brings its old counts back.

| code | actions |
|---|---|
| `notifyPaymentSettlement`, `notifyResourceSettlement` | `Notify`: begins a cycle from zero, or writes a skipped entry |
| `redeliverNotification` | `Redeliver`: begins a cycle from the entry's counts, whatever its status |
| the loop and the end of `postNotification` | `Answer`: `Accept`, `Retry` or `GiveUp` |
| timer, `tick`, `redeliverFailedNotifications` | `Tick` reads a batch or joins the one in flight, `TakeNext` posts its next entry |
| `runNotificationWorker`, `start`, `stop` | `RunWorker`, `StartWorker`, `StopWorker` |
| `nextAttemptAt` | `BackoffPasses` makes an entry eligible |
| the process dies, a new server starts | `Crash` (or `Throw`, see below), `Restart` |

Between an answer and the write of the entry nothing else runs, since the SQLite store
does not wait; the two are one step. The order of a batch is left open. `Throw`
models what a failed cycle does to its caller. The service swallows the error and the
operator is told. In the worker it ends the batch, and `tick` rethrows it; if the
timer waits for that batch (`watched`), the rejection has no handler. Node.js, in every
version that has `node:sqlite`, ends the process on an unhandled rejection, and
nothing in the repository installs a handler for it. `posts` counts the answered posts
and `accepted` the notifications that had a 2xx answer; the code reads neither.

### OperatorConsole

It extends `NotificationOutbox` with who sends the commands and what they are told. A
command is a request over HTTP: the router's checks, the handler, the runtime and the
audit. It is one step unless it waits: a redelivery for its post, a run or a stop for
the batch in flight. `doing[p]` is what the request of a person waits for. Entries of
the audit are stored under the request's reference, so a reference used again
replaces one: the worker's newest entry, too, when the command is about something else
(`newest` is then no entry). A post is taken by its receiver in one step (`Receive`) or lost (`Lose`),
and its caller hears of it in a later one (`Hear`).

The *pilot* is a script of `agents/test-harness`: which steps it takes, which external
calls the approved action makes, whether the worker runs. `Scripts` has the two recovery
pilots, the administration demo, the two pilots whose external services fail a few times
or whose approval is refused, and the four harnesses. `CallService` is the adapter's
loop over planned failures. `Close` begins when the script is over: the worker is
stopped, requests are taken until its batch has ended (`"stopping"`), then the requests in
progress are answered (`"draining"`). Pilot, server and receivers are one process which
nothing restarts.

### WalletRail

`config` is how the service was started: with or without a verifier, wallet
confirmation required, an agent wallet, a confirmations file, and a planned outage.
Every start is an initial state. `confirmations` and `txHashes` are its two maps, `file`
the persisted confirmations, `handler` the requests it works on, and `call` the
`executePayment` calls of the adapter with their attempts.

| code | actions |
|---|---|
| `confirmWalletPayment` | `Confirm` (the replay check), then `ConfirmVerified` or `ConfirmRejected` after the chain was asked; without a verifier `Confirm` registers at once |
| `executePayment` at the rail | `Unavailable`, `SettleConfirmed`, `SettleSeeded`, `NotConfirmed` answer at once; `StartCommand` runs the agent wallet |
| the wallet command | `SignerPays`, `CommandReturns`, `ExecutionVerified`, `ExecutionFails` |
| `executeWithRetry` | `Call`, `AfterFailure`, `ConnectionLost` |
| restart | `Restart`: hashes are rebuilt from the confirmations read back; a running command survives its rail as an orphan |
| wallet and chain (external) | `PersonPays`, `Mine` |

A transfer on the chain *moved* an amount of a token to an address. A *claim* names an
asset and says what a transfer moved. `Verifies` compares the claim with the chain,
`Matches` with the intent: the asset by name, the amount, and the address if the intent
has one (`IntentOf`); nothing ties the token to the name. `token` stands for the
contract, its chain id and the sender, which are only compared with the chain.
`mishap` records the actions for which an execution began while another
was running, or ended with a transfer that nobody registered.

### ClientGateway

The stored records of the external clients, the memory of served requests, the request
the server works on, and the outbox entries' addresses. The server takes one signed
request at a time through its SQLite calls, but the provisioning script is another
process, so `ProvisionClient` may fall between any two of them; so may `Restart`.
`Authenticate` reads the client and checks the age and the signature, `RecordReplay` looks for
the replay record and writes it, and the handler of the route serves the request (`ActFor`
for the routes that name a subject). `TargetOf` is the address a notification is posted to: the
one the server is configured with for the receiver (`Static`), else that of `Resolve`: of
the clients that registered one for it, the last in the order of the listing. An entry
keeps the address it was first posted to, until the action is settled again
(`NotifySettlement`), perhaps for another receiver.
A signature is valid for the client, reference and time it was made for, and for the
key that made it.

### IdentityStore

The JSON store of identities and credentials, access by access. A get reads the whole
file, a put reads it and writes all of it back, and the first access of a store without
a file writes the seed. `open` truncates the file and `write` fills it; a write on what
another call wrote since may leave a tail (`"garbled"`). A verification is two gets, a
withdrawal (freeze or revoke) a get and a put. `alone`, `kept`, `disturbed` and `clashed`
are histories for the properties: which withdrawals no other write overlapped.

### PaymentTool

The tools an agent is given are sequences of requests to AFAL: ask for an approval, wait
for a browser wallet, approve and resume, read the status, deliver or not. They build
every intent with the same identifier, so all runs are about one action, and the MCP
server handles calls concurrently. `run[r]` is where a call of a tool stands and what
it has read. Intents and sessions are in SQLite, which answers at once; identities,
settlements and outputs are JSON files, awaited, and the file of outputs is read and
later written as a whole (`ReadSnapshot`, `WriteSnapshot`). The rail answers from a confirmation, which a rail
without a verifier believes without a transfer (`Confirm`), has the agent wallet pay, or settles
from its seed (`RailSettlesFromSeed`). A gate compares what it is told to (`expects`):
`pay_and_gate` has everything compared, a caller of the gate itself any part.
Two exceptions in the properties are
histories: `torn`, the stored intent is not of the request that opened the session, and
`mixed`, a request replaced the intent or the file another was using.

## 3. Runs

All runs use the smallest instance in which the interesting cases occur.

| run | question | answer |
|---|---|---|
| `ledger` | Do limits, holds, stored figures and the promise survive every order of reservations, settlements, releases and repeated requests? | yes: `NoOverspend`, `HoldsCovered`, `FiguresAgree`, and `KeepsPromise`, which is `SpendingPromise!Spec` under a refinement mapping |
| `ledger_crash` | And when the process dies between two writes? | figures stay natural and nothing is charged twice: `TypeOK`, `ChargedAtMostOnce` |
| `flow_calm` | Without faults, does the ledger end up agreeing with what AFAL reports? | yes: `ResumedIsCharged`, `ClosedIsReleased` (and `TypeOK`) |
| `flow_faults` | With repeated requests of other amounts, a direct call beside them, contradicting results, a failing rail and a crash, is anything paid that was not approved, charged without an execution or beyond what was reserved, or shown as settled without a receipt? | no: `ExecutedWasApproved`, `ChargedWasExecuted`, `FinalRejectionHolds`, `SettledHasReceipt` |
| `flow_notified` | Is the receiver of a settled payment always notified? | yes: `SettledIsNotified` |
| `flow_double_payment` | Can overlapping resumes pay twice? | **yes**, `SettlesAtMostOnce` fails |
| `outbox` | With stale counts, crashes and restarts, do entries tell the truth, are dead letters earned and posts bounded, and is every failed entry resolved? | yes: `DeliveredWasAccepted`, `DeadLetterIsEarned`, `PostsAreBounded`, `FailedIsResolved` (and `TypeOK`) |
| `wallet_rail` | Whoever pays, whatever is retried, lost or restarted, are settlements backed by what the claims said, transfers used once, actions paid once, short outages survived and confirmations kept? | yes, with the exceptions each property names: `SettlementIsBacked`, `OneActionPerTransfer`, `RetryPaysNothingAgain`, `ShortOutageIsSurvived`, `ConfirmedStays` (and `TypeOK`) |
| `gateway` | Is a signed request served once, a record never undone, a notification sent to an address of its receiver, also when the action is settled again for another? | yes: `ServedOnce`, `RecordIsCurrent`, `NotifiedAsRegistered` (and `TypeOK`) |
| `identities` | Is a withdrawal kept and seen, and is the file damaged only for a reason? | yes where no two writes overlap: `WithdrawalIsKept`, `VerdictIsSound`, `DamageHasCause` (and `TypeOK`) |
| `payment_tool` | Is the service delivered on its payment as far as the gate is told what to compare, and does the rail pay what was shown? | yes, with the exceptions `torn` and `mixed`, and the seed where no wallet is asked for and no chain compared: `DeliveredWasPaid`, `PaidAsShown` (and `TypeOK`) |
| `operator_console` | Does the worker's newest entry of the audit tell what it does, unless another command has replaced it, does a recovery succeed beside other operators, and is a closed server quiet? | yes: `WorkerAuditIsCurrent`, `PilotRecovers`, `ClosedIsQuiet` (and `ConsoleTypeOK`) |

### Bounds

*Ledger*: a monetary budget and a resource budget with its quota, limit 3, amounts
1 and 2, three reservations. Two reservations can then fill a line exactly, overfill
it by one, and a third can replace or compete; a line can become exhausted
and active again. The state space is finite without further bounds and explored
completely. Deadlock checking is off since a ledger whose lines are fully spent
has nothing left to do.

*Flow*: `Calls[op]` bounds how often each operation is called for an action,
`MaxCrashes` the crashes. Two handlers are enough for two calls to overlap. `flow_calm`
has a payment and a resource action, one request and one result each, and two
resumes. `flow_faults` has one payment with two of everything and a direct call: a
second request, of the same amount or the other, while the calls of the first are still
running, a second and different result (`approved` and `expired`; `rejected` and `cancelled`
take the same steps), a retried resume, and one crash at any point. `resumeApprovalSession` is left to
`flow_notified`. Elsewhere an action has one amount; that a repeated request may go to
another budget is covered by the theorems only. `flow_notified` allows three
resumes so that a failure, a success and an overlap fit in one behaviour. Deadlock
checking is off since a bounded client ends. Handlers are interchangeable and reduced
by symmetry except in the liveness run.

*Outbox*: two notifications, two callers beside the worker, two attempts in each of
two cycles, one settlement notified each, two commands of the operator and one crash. A
batch then has a later entry that the failure of the first one drops, a cycle can fail
half-way, the first and the last cycle differ, and a redelivery by hand can overlap
with the worker or with another. Deadlock checking is off since in the end all is
delivered or given up.

*Rail*: two actions for the same amount of one asset, of which one has a settlement
address, and two transfers, so that a transfer can be claimed for the wrong action and an
action be paid twice. A transfer moves the token meant to that address, or another token to
another address, and can be claimed as either; a wrong amount is covered by the theorem only. Two
requests at the rail, one caller with two calls of two attempts each, two registrations, an
outage of at most one answer, and one fault (a lost connection, a failed command or a crash).
All 32 ways to start the service are initial states. Deadlock checking is off since the
bounds end a behaviour; likewise in the runs below.

*Gateway*: two clients that may receive payments for one identity, one of which also receives the
resource settlements of a second, for which the server is configured with an address; two records
the script may provision (another key, another set of addresses), the times 0 and 1 with requests
accepted for one unit, two signed requests, two provisionings, one crash, two redelivery
cycles, and one notification, sent as often as one likes for either receiver and direction. A request can
then be replayed before and after a crash, expire, and overlap a key rotation; another
client's address, a stale one and a configured one beside a registered one are within reach.

*Identities*: one agent with two credentials, three calls in progress, four calls in
all, one crash: two withdrawals can overlap while a verification reads between them, and the
file may be missing, seeded twice, empty or garbled.

*Payment tool*: two runs, two terms that differ in payee and price, of which the seed has
one, one transfer, two calls of the tools, and three ways to start the rail: with a
verifier alone (it settles from its seed), with a verifier and the agent wallet, and
without a verifier where a confirmation is required. Two calls are enough for every pair of tools to
follow one another or to overlap.

*Console*: two operators beside the pilot and one other client, two notifications, one
attempt per cycle, three cycles, two commands, a receiver that refuses its first post, a
service that fails at most three times against three tries, and one lost answer while the
script lasts. Afterwards its receiver is closed and any answer may be lost.

### Fairness

`flow_notified` assumes weak fairness of the steps of each handler: the event loop
runs every continuation that is ready, and calls to the rail end, with an answer or
an error. Nothing is assumed of clients, results or the rail's outcome, and a crash
is excluded there, since after one the notification is not recovered.

`outbox` assumes weak fairness of the timer, of the worker's loop, of the answers
(`fetch` gives up on a receiver that does not answer), of time passing, and of the
restart. `Supervised` says whether there is such a restart; the repository has none, so
it is a condition on the deployment. `FailedIsResolved` assumes that the operator does
not leave the worker stopped. Nothing is assumed of the receivers' answers.

The other specifications state safety only and assume no fairness.

### Disagreements and known behaviour

One disagreement with the documentation is kept as a run.

* `flow_double_payment`: two overlapping resumes both read the intent before
  either marks it settled (`runtime.ts:895`). The contract
  (`docs/specs/trusted-surface-callback-contract.md:435`) says that replays surface "rather than
  silently settling twice". A resource action has no such check at all
  (`runtime.ts:1155`), so a second resume settles at the provider again.

Others were met while modelling. They are consequences of the code that the properties
allow for, and that a reader of the runs should know.

* `consumeMonetaryBudget` compares the amount with limit − consumed and ignores what
  is reserved (`backend/ats/service.ts:166`). Beside reservations the later settlement
  would exceed the limit. The ledger's API offers it; no flow of AFAL calls it.
* `applyApprovalResult` accepts a rejection for a session that is final and approved
  (`backend/amn/service.ts:318`): reservation and intent are closed, and the next resume pays.
  `FinalRejectionHolds` is about the opposite order.
* A failed attempt releases the reservation (`runtime.ts:991`). A retry pays, finds it
  inactive, and goes on without charging the budget (`runtime.ts:1061`), as
  `runtime.test.ts` intends. `ResumedIsCharged` is therefore checked without faults.
* Each request for an action stores its own amount and budget, in the intent and in the one
  reservation of the action (`runtime.ts:321`, `:329`). A resume at the rail pays the intent
  it read (`:893`) and then charges the reservation it finds (`:1052`), which may be another
  request's: a line may be charged more, or less, than that execution paid.
  `ChargedWasExecuted` bounds it by the executions and by what was reserved for the action.
* A request that fails after its reservation leaves the capacity held, with no session
  to close it (`runtime.ts:352`). `HoldsCovered` shows that this leaks capacity and never
  overspends it.
* The first redelivery of the worker that fails ends the process
  (`notifications.ts:277`); `FailedIsResolved` needs a supervisor that restarts it.
  The tests call `redeliverFailedNotifications` themselves or let the worker succeed at once.
* `PostsAreBounded` is weaker than one would expect: a command of the operator is not
  worth one cycle but up to `MaxCycles`, because a stale write may revive an entry that
  was delivered or given up meanwhile.
* A notification skipped for want of an address is never sent, also when its receiver
  registers one later (`notifications.ts:436`). The operator's playbook
  (`docs/product/notification-operator-playbook.md:167`) has it inspected by hand.
* With a verifier, two requests may pass the replay check for one transfer before
  either registers it (`app/payment-rail/server.ts:776`); `server.test.ts:477` tests the
  check one request after the other. `OneActionPerTransfer` holds without a verifier.
* The rail compares the asset of a claim by name and keeps no list of tokens, as its README
  says (`app/payment-rail/README.md:166`): a transfer of another token, claimed as the asset, settles
  (`app/payment-rail/server.ts:317`), and one to anybody where the intent has no
  settlement address (`:342`). Without a verifier a claim needs no transfer at all (`:786`).
* The rail as it is started by default settles from its seed, with no transfer
  (`app/payment-rail/server.ts:880`). A gate that is not told the chain accepts that: every
  comparison of the gate is optional (`packages/payment-mcp/src/server.mjs:344`).
* The worker's newest entry of the audit disappears when a command about a notification uses
  the same reference again (`admin-audit.ts:158`, `runtime.ts:853`). The newest one that is left
  then tells an older state; `WorkerAuditIsCurrent` speaks only while there was no such replacement.
* All payments of the tools have one action, and the rail takes any confirmation of it:
  a second purchase of the same terms is settled by the first transfer, as
  `docs/product/current-project-status.md:155` knows.
* Money is kept as binary floating point (`backend/ats/service.ts:28`): a reservation that
  fits exactly may be refused.

## 4. Theorems

The theorems hold for every value of the constants that satisfies the named `ASSUME`s of
the component's module: any number of actions, handlers, clients, processes, transfers,
any limits and bounds. TLC evaluates the assumptions in the runs, which also check
on a small instance most of the properties the theorems state.

**The ledger** (`AtsLedgerProofs`). `NoOverspend` is not inductive: a settlement moves its
amount out of `reserved`, and if `reserved` were too small the floor at zero would hide
it. `IInv` adds `HoldsCovered`, the fact that the active reservations of a line together
hold no more than its reserved amount; repeated requests make this an inequality.
`CloseUnits` shows that closing a reservation takes exactly its amount off, so that the
floor never acts (`SettleFigures`, `ReleaseFigures`). For `ChargesOnce` the units that
settled reservations have on a line are counted as a set of pairs, to which a settlement
adds exactly its amount (`SettledUnits`); it holds of `CrashSpec`. `FiguresCorrect` joins
`AvailableCorrect`, `ExhaustedCorrect` and `QuotaInStep`. For `ImplementsPromise` each operation maps
to `Hold`, `Spend` or `GiveBack` of `SpendingPromise`; the last two need `HoldsCovered`.

**The flows** (`ApprovalFlowProofs`, about `DirectSpec`). A handler decides in one step and acts
in a later one, so `IInv` says what a handler under way has already seen: the one that
executes holds an approved decision of an approved action, the one that marks settled has
written the receipt. For `FinalRejectionHolds` it also says that before its only session
is opened nothing else touches an action (`FirstOpens`), and that afterwards only what the
session granted is executed (`OnceGranted`). The steps that change nothing that decides
are treated together (`QuietKeeps`). `FlowsImplementLedger` shows that every step of the
flows is a step of the ledger or leaves it alone. The theorems about the ledger then carry
over, and `FlowsNeverOverspend` is one of them.

For `ChargesWereExecuted` what a line was charged and what was executed on it are counted as
sets of units, since a sum over the actions could only be handled by induction. Each execution of
an action counts for the units of the largest reservation made for it on the line
(`AskedUnits`). The invariant (`ChargeInv`) adds the units that are owed, by a handler that has
executed an action and has not yet charged it, and says of every reservation that it was asked for:
then whichever reservation the handler finds and charges, the units owed cover it. It is stated of
all sets of units that cover `AskedUnits`, which a later request may enlarge.
`ClosedHoldsNothing` assumes one request for each action, by either flow: a second one makes
a new reservation beside the records of the first, and the property fails. Its invariant says
that whoever marks an action closed has released the reservation itself. `ResumedWasCharged`
is about a calm run of the approval flow (`Calm`: one request, one result, nothing fails), which
are the conditions of the run `flow_calm`: a crash between the settled mark and the charge would
break it. A handler on an action holds then what the session decided for good, and what is shown
as settled has been charged or is about to be.

`PaymentsInTurnSettleOnce` is the positive side of the finding of `flow_double_payment`. A
payment is made once as long as the calls on one action do not overlap (`CallsTakeTurns`, a
condition on the behaviour), each action is requested once, no answer of the rail is lost and the
process does not die (`InTurn`), whatever is refused, resumed and applied. What keeps a later
resume from paying is the settled mark, and what keeps that mark is that an inactive
reservation cannot be released (`Shut`). TLC finds a second payment when any one of these four
conditions is dropped, and a resource action executes twice even under all of them.

**The outbox** (`NotificationOutboxProofs`). `DeadLetterIsEarned` is not inductive, because a
dead letter is written from counts that were read earlier. `IInv` says of every place
that keeps a cycle count, the entries, the batch and the calls, that the posts it
stands for were answered, plus, for a call, those of the cycle in progress. Posts only
grow, so stale counts stay covered (`PostsKeep`); a cycle is given up with its last
attempt, which completes the posts of one more cycle (`GiveUpKeeps`).

`ReceiverIsSpared` is about stale counts as well: several calls may post the same
notification, each counting its own cycle. The invariant (`PInv`) says of every
notification that the posts answered, those that calls in progress may still cause
(`Promised`) and those that the entry, the worker or its batch has cycles left for (`Worth`) are
paid for by the notifications, commands and crashes so far (`Paid`). It needs that the worker
has a notification in one place at most (`WorkerOnce`).

**The rail** (`WalletRailProofs`). `IInv` has what a handler holds where it stands
(`HandlerShape`), that it answers a call that waits and that nobody else answers
(`CallerWaits`), that the file is the map (`FileIsCurrent`), that what is confirmed is mined and moved
what its claim says or, without a verifier, was registered; a settlement adds that the claim agreed
with the intent where the rail looks. For `RetryPaysNothingAgain` it follows an action
without a mishap: one execution at most is under way (`OneAtWork`), the one that has not
yet paid is the first (`SignerIsFirst`), and a transfer made is confirmed or in the
hands of a handler that will see it mined (`PaidIsKnown`). `AttemptsHadCause` counts the failures that outage and
faults can have answered; a restart renews the outage, which is why the bound multiplies
them. `ConfirmationIsNotLost` is an action property; a restart keeps every confirmation since the file
is current.

**The clients** (`ClientGatewayProofs`). `ServedOnce` needs that what was served left a replay
record and that what the server works on left one and was not served
(`AuthenticatedIsUnserved`); a crash between the two leaves a record that is never served. `RecordIsCurrent`
needs that a registration in progress holds the current record but for the addresses,
unless the script wrote meanwhile. `LastOfIsIn` shows that the choice of the last
client is defined, by well-founded induction on the ranks. `NotificationsFollow` needs that every
stored address is among those ever `offered`, and that an entry's address was its receiver's when it
was first posted.

**The identities** (`IdentityStoreProofs`). A withdrawal that is alone is the only call that writes;
every copy about to be written has what must be kept (`CopyHasKept`); the seed is only
written when that is nothing (`SeedIsFirst`). A verification that must fail still has
ahead what it must fail on (`BarredIsAhead`). Without a disturbance the one writer holds
the file as it is (`WriterIsCurrent`), and what was found withdrawn remains so (`BadRemains`).

**The payment tools** (`PaymentToolProofs`). `IInv` says of every call what it holds by
itself (`Shape`: it has terms where it asks, has read terms where it pays, paid
what it read and was shown what it read unless `torn`), and how that
stands to the shared records (`Place`: what it knows of payments was made on the chain if the rail
verifies, and is the seed only where the rail asks for no wallet; the stored intent is
its own and the receipt is the intent's, unless `mixed`). The chain only grows, so what a
call has seen of it stays true (`ChainGrows`, `PlacesGrow`).

**The console** (`OperatorConsoleProofs`, on the proofs of the outbox). `CIInv` says who waits
under which reference (`ReferencesAreOwn`, from which the audit has one entry per reference
when a batch answers several), that an operator's post is a redelivery it waits for, and what
each phase of the close has brought to rest (`AtRest`). For `WorkerAuditIsCurrent` a
batch's end needs that every stop that waits is recorded with what the worker does then.
Every step of the console keeps the outbox's own invariant as well, so that its
theorems hold under it (`ConsoleKeepsOutbox`), although the pilot's settlement and requests are
outside the outbox's bounds.

`PilotReachesItsEnd` follows the pilot's notification through its stages (`Course`): not yet
posted, in its first cycle, failed and recoverable, recovered. In each of them whoever posts,
the service, the worker or an operator, has more attempts left than the receiver will still
refuse, so that no cycle after the first can fail, and the script's position agrees with the
stage. It assumes `SecondCycleDelivers`, that the receiver refuses fewer posts than two cycles make and
that there is a second cycle: with as many refusals as two cycles have posts the pilot reads a failed
entry, which TLC shows.

Every invariant of the passing runs is stated by a theorem, some under the conditions named above.
Only model-checked are the two liveness properties, `FailedIsResolved` and
`SettledIsNotified`, since TLAPS does not treat liveness under fairness here, and the violation of
`SettlesAtMostOnce`.

## 5. Not modelled

`PROJECT.json` gives the reason per component. In short:

* texts, formats, error envelopes and the parsing of bodies, which decide nothing the
  properties speak of;
* status queries of the runtime, challenges, approval contexts, account records and
  `freezeAccount`, which no operation reads when an action is resumed, and the direct
  consumption of a ledger line;
* registration of identities and issuing of credentials, which add records that nobody
  has read;
* the JSON stores of the ledger, the flow and the outbox: their services are modelled on
  the SQLite store, and `IdentityStore` and `PaymentTool` show the granularity and the
  losses of a JSON store;
* IEEE arithmetic, network addresses and headers, service tokens and their signatures between AFAL and
  the external services;
* the language model's choice beyond its outcome, the remaining demonstrations and the
  command lines;
* liveness of the rail, the tools and the console: their clients give up and no part
  of the code promises an answer.

## 6. Plan

1. *done* Ledger, its promise and its proofs.
2. *done* Approval flow over the ledger with concurrent handlers, faults and crashes, the
   direct flows beside it, and their proofs.
3. *done* Notification outbox and its proofs; the operators, the audit, the server's
   close and the pilots over it.
4. *done* The rail with the adapter's retries, the clients with their signed requests and
   addresses, the identities on the JSON store, each with its proofs; the agents'
   payment tools.
5. *done* Theorems about the payment tools and the console.
6. *done* A theorem for every invariant that a run checks, and the conditions under which
   a payment is made once.
7. Left: the ledger and the outbox on the JSON stores, and the rail's confirmations composed
   with `ApprovalFlow`.
