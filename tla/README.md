# Verification of durableroutine-go

TLA+ specifications of the durable-routine library: what handlers build, the two
backends that run them (in memory, and as Temporal workflows), the registry that
finds them by key, the nine programs of `docs/howto` written with it, the TLC
configurations that check them on small instances, and TLAPS proofs about both
backends and the registry for every program, and about the auction and the
provider for any number of them.

## 1. The system

A *routine* is a chain of handlers. A handler gets a checkpointed input (and, if
a send or a call started it, a message), buffers side effects in its `Context`
and returns a `Continuation`: either `Done(result)` or a list of cases (`After`
a duration, `ReceiveSend`, `ReceiveCall`, `Continue`/`Default`), of which the
first to fire decides the next handler. Clients start routines (`Go`) and reach
them by `Send` (asynchronous), `Call` (request and response), `Query` (read a
stored result) and `Get` (wait for the end).

### 1.1 Components, state and operations

| component | state | operations | modelled in |
|---|---|---|---|
| `durable/continuation.go`, `context.go` | what one invocation returns and has buffered | `Done`, `After`, `ReceiveSend`, `ReceiveCall`, `Continue`, `Default`, `Select`; `BufferStart`, `BufferSend`, `SetQueryResult` | `Continuation` |
| `durable/routine.go` (runners) | the table of handlers | run a handler, build its output | `Continuation` (`RunOutput`, `Return`, `Fail`), `Durable` (`Runner`) |
| `backend/inmemory/runtime.go` | the table of instances; per instance a goroutine, `sendCh`, `callChan`, `doneChan`, `buffered`, `queryResults`, `result`/`err` | `start`, `runInstance`, `runHandler`, `applyContextEffects`, `waitForCase`, `tryReceive*`, `blockForCase`, `match*` | `InMemoryRuntime` |
| `backend/inmemory/client.go` | response channels | `Go`, `Send`, `Call`, `Query`, `Get` | `InMemoryRuntime` (`Client*`) |
| `backend/temporal/workflow.go` | workflow locals (position, pending calls, query results), channels of a run | the workflow loop, its Selector, update handlers, drain, continue-as-new | `TemporalWorkflow` |
| `backend/temporal/activities.go`, `client.go` | none of their own | `RunHandler`; `Go`, `Send`, `Call`, `Query`, `Get` | `TemporalWorkflow` |
| Temporal server and SDK (not in the repository) | signals, updates, timers, child starts, runs | deliver, retry, close | the external part of `TemporalWorkflow` |
| `docs/howto/auction` | highest bid, deadline | open, bid, failed bid, close | `Auction` |
| `docs/howto/provider` | reservations, bookings; a timer routine per reservation | reserve, confirm, expire, go offline | `Provider` |
| `docs/howto/booking` | status of one booking | pay, ship, cancel, expire | `Booking` |
| `docs/howto/pipeline` | items received | produce, receive item, receive done | `Pipeline` |
| `docs/howto/fanout` | children left, results | start, process, collect | `Fanout` |
| `docs/howto/order` | status of one order | place, cancel, ship, expire | `Order` |
| `docs/howto/saga` | how far a trip is booked; what is booked outside | book flight, hotel, car; compensate | `Saga` |
| `docs/howto/batch` | offset, items processed | process a chunk, cancel | `Batch` |
| `docs/howto/reminder` | which email is next | send, sleep | `Reminder` |
| `internal/durablecore/keys.go`, `durable/worker.go`, registration in `routine.go`, `backend/temporal/worker.go` | the map of handlers of a Worker, the copy of a backend | `Register*`, `WithRecoveryHandler`, `NewRuntime`/`NewWorker`, look-up | `Registry` |
| polling of the Temporal worker, `testenv`, demo commands | none of their own | set-up, printing | not modelled |

### 1.2 How they interact

* *Handler and backend*: a handler never touches another routine. The backend
  reads what it returned and applies it: in memory, query results when the
  attempt has succeeded, then starts, then sends, then the answer to the caller;
  on Temporal, the answer first if the handler served a call, then query
  results, child starts (not waited for) and signals (each waited for).
* *Routine and routine*: starts and sends only; a child reports to its parent by
  a send.
* *Client and routine, in memory*: shared channels. `sendCh` is bounded,
  `callChan` is unbuffered, `doneChan` is closed once, each call has a response
  channel of capacity one, query results are read under the instance's lock.
* *Client and routine, on Temporal*: signals, updates, queries and results
  through the server. Signal channels and update handlers belong to a run, and
  continue-as-new replaces the run.

### 1.3 What is hard, and what makes each part correct

* **In-memory loop.** It takes messages in three stages (buffered, polled,
  selected) and sets aside those that no case wants; it answers calls in five
  places. Correct when every accepted send is handled at most once, in order and
  never forgotten, no wanted send waits unseen, and every call received has one
  answer, given before the routine waits or ends.
* **Effects.** Correct when a failed attempt leaves nothing behind, a send
  reaches the child that was started with it, and a full channel delays the
  sender but drops nothing.
* **Temporal loop.** Signals arrive in channels or at a blocked Selector, calls
  in a queue whose notification can be lost, and a run may close or continue as
  new between any two steps. Correct when signals of one name reach handlers
  once and in order, an accepted call is answered once on every path, a closed
  run owes nobody, and query results survive.
* **Programs.** Correct when what a client was told stays true: an accepted bid
  is visible and beaten only by a higher one; a confirmed booking survives stale
  expiries; a confirmed cancellation is final; every item arrives, in order;
  every child's result is collected once; a cancellation is heeded, also one that
  comes before anything listens to it; a trip is booked as a whole or not at all;
  and each of them ends.
* **Registry.** A key is all a backend has to find a handler by. Correct when
  what is asked for runs a handler of exactly the types asked for, recovers by
  one of these types, and a registration, once made, is not undone by a later
  one.

`PROJECT.json` lists the hazards line by line, with the properties that cover
each one.

## 2. The modules

    Continuation --> Durable --> ClientOperations --+--> InMemoryRuntime --> InMemoryProperties
     |                                              |       |                 |   \-> RoutineContract
     |                                              |       |                 +--> InMemoryProofs --> InMemoryContractProofs
     |                                              |       |                 +--> MCMailbox, MCPrograms
     |                                              |       +-- Auction --> AuctionProperties --> MCAuction
     |                                              |       +-- Provider --> ProviderProperties --> MCProvider
     |                                              +--> TemporalWorkflow --> TemporalProperties
     |                                                                         |   \-> RoutineContract
     |                                                                         +--> TemporalProofs --> TemporalCallProofs
     |                                                                         |        --> TemporalContractProofs
     |                                                                         +--> MCTemporal, MCTemporalPrograms
     +--> Auction, Provider, Booking, Pipeline, Fanout, Order, Saga, Batch, Reminder
          (programs, combined with a backend in the MC modules)

    AuctionProofs   extends AuctionProperties and InMemoryProofs
    ProviderProofs  extends ProviderProperties and InMemoryProofs
    Registry --> RegistryProofs, MCRegistry

* `Continuation` holds what handlers build: records for continuations, cases and
  the buffered context, under the names of the Go functions.
* `Durable` is the interface of a program and a backend. A program is the
  operator `Runner(id, key, input, msg, time)`: the set of attempts the handler
  under that key may make. Its assumption is only that attempts are well typed,
  so what is proved about a backend holds for *every* program. Two Go values of
  one type are the same handler input; an input or message of another type
  "does not deserialize", which is a failed attempt.
* `ClientOperations` names the operations of clients and the values they get.
  `Script` says which operations a client may call as its n-th.
* `RoutineContract` is the abstract specification: per routine a first-come
  first-served queue for each key, per client at most one call that is served
  and answered once, and no completion that leaves a served caller behind. A
  routine whose backend is `Renewable` may begin anew at any time it serves no
  caller, after it has ended or by continue-as-new, and then forgets the sends that
  wait for it: of the Temporal backend the contract does not promise that they
  survive, and 5.1 shows that they do not. Both backends are shown to implement it, Temporal as a
  renewable one.
* `AuctionProperties` and `ProviderProperties` say what these two programs
  guarantee in memory, for one of any number of auctions or providers (`auction`,
  `provider`), any clients, and for the provider any slots. What is assumed of
  the clients is `AuctionAssumption` and `ProviderAssumption`; `MCAuction` and
  `MCProvider` only choose values. `TimerId[i][l]` is the id provider `i` derives
  for the timer of slot `l`.
* `Registry` stands beside the other modules: `Durable` takes for granted that a
  key names one handler (`Runner`, `Recovery`), and `Registry` is about when it
  does. Kinds and keys are sequences there, since the question is whether two keys
  that are joined from different kinds read alike; elsewhere a key is a name.
* The operators commented "a faulty variant" are definitions of plausible bugs
  next to the code they distort. No specification uses them; they document which
  mistake each property detects (`mutants` in `PROJECT.json`).

### 2.1 The in-memory backend: correspondence

`pc[i]` is where the goroutine of instance `i` stands. Each label is a point at
which another goroutine may run; what lies between two labels touches at most one
channel or one locked table, besides data of this goroutine alone.

| code (`backend/inmemory/runtime.go`) | model |
|---|---|
| `start` | `StartInstance`, guarded by `Exists` at both callers |
| `runHandler`, recovery, publishing query results | `RunHandler`, `Outcomes`, `Recover` |
| `applyContextEffects` | `StartChild`, `DeliverSend`, one effect per step, `eff` counts them |
| answer to the caller | `ReplyToCaller` |
| `Done`, error | `Finish` |
| sole `Continue` | `ContinueAtOnce` |
| `waitForCase`: deadlines | `EnterWait` sets `since` |
| stage 2 (buffered) and 3 (timers) | `TakeBuffered`, `TakeExpired`, `PollNothing` (label `poll`) |
| stage 4, `tryReceiveCall`, `tryReceiveSend` | `PollCall`, `PollSend` (labels `pollCall`, `pollSend`) |
| stage 5 | `TakeDefault` (label `default`) |
| `blockForCase` | `Block`, then `SelectSend`, `SelectCall`, `SelectTimer` (label `block`) |

`client.go`: `ClientGo`, `ClientNotFound`, `ClientBlock` (the client is now at a
channel operation), `ClientSend`, `ClientCallReturn`, `ClientQuery`,
`ClientGetReturn`. A client in state `calling` is parked on the unbuffered
`callChan`: the rendezvous is the step of the instance that receives it.

`accepted` and `handled` are history variables; an accepted send carries its
number, so that the order can be stated. The program never reads them.

Abstracted: generated ids, JSON, logging, the cancellation of a context (no
code path of the in-memory backend watches it), `RetryPolicy` (which this
backend ignores).

### 2.2 The Temporal backend: correspondence

| code (`backend/temporal/workflow.go`) | model |
|---|---|
| activity, recovery activity | `RunActivity`, `ActivityFails`; `Ends` is the set of ends of one activity with its retries |
| query results, child starts | `Process` |
| signals to other routines | `DeliverSend` |
| return of the workflow | `Complete`, `FailWithoutCases`, `CloseRun` |
| sole `Continue` | `ContinueAtOnce` |
| `SetUpdateHandler` | `Register`, in `EnterSelect` |
| the Selector, cases that are ready | `TakeReadyCase` |
| the Selector, blocked | `TimerFires`, `Signal`, `AcceptUpdate` |
| update handler | `AcceptUpdate`, `RejectUpdate` |
| callback of the call case | `RunCall` |
| `shouldCAN` | `Proceed`, `SuggestContinueAsNew` |
| drain, new run | `DrainCall`, `ContinueAsNew` |

`client.go`: `ClientGo`, `ClientSend`, `ClientCall`, `ClientCallReturn`,
`ClientQuery`, `ClientGet`.

The SDK and the server are modelled as the loop relies on them:

* a signal is kept in the channel of its name in the current run; a signal to an
  id that is not running is an error for a client, and a warning in a log for a
  routine;
* an update whose handler is registered is accepted and its handler runs up to
  its first wait; any other is rejected. Updates that are not complete fail when
  the run closes;
* `SendAsync` on the unbuffered `callNotifyCh` reaches only a Selector that is
  blocked on it, and is gone otherwise;
* a Selector looks at its cases in the order in which they were added. A timer
  counts as ready on entry only if its duration is zero;
* a child start is carried out later, in any order, and may be given up once the
  run that asked for it has closed;
* an activity is retried until an attempt succeeds, unless the options of its
  handler limit attempts or time (`GivesUp`). An attempt may fail because of its
  worker, whatever the handler does;
* a worker that stops is replaced by another one that replays the history: a
  crash shows as a delay or a failed attempt, never as a changed local.

For the saga the world outside is modelled too (`booked` in `MCPrograms` and
`MCTemporalPrograms`): a booking that returns an error has booked nothing. On
Temporal, an attempt may have done its work without its worker getting to say so,
and the worker of a recovery activity may stop between two cancellations.

The length of the history is not modelled: after every fired case the loop may
continue as new, or not. Timers that an earlier Selector started and that fire
without effect are left out.

## 3. What is checked

"States" are distinct states of the complete state space; no run is cut short.

| run | question | properties | states |
|---|---|---|---|
| `mailbox` | does the loop handle every backlog under every shape of Select? | `TypeOK`, `SendsInOnePlace`, `SendsInOrder`, `NothingSetAsideIsWanted`, `CallOwnership`, `NoAnswerOwedWhileWaiting`, `FailedAttemptLeavesNoTrace`, `ImplementsContract` | 468,605 |
| `auction` | do racing bids and the closing timer agree with what bidders are told? | `AcceptedBidIsPublished`, `HighestAcceptedBidWins`, `StatusFollowsBids`, `AuctionCloses`, `ReceivedBidIsAnswered` | 138,038 |
| `provider` | do reservations, confirmations and late expiries agree? | `ConfirmedStaysBooked`, `ReservedOrBooked`, `ReservationIsHeld`, `ExpiryIsHandled` | 143,574 |
| `programs` | what happens to the other programs in memory, when messages, failures, full channels and timers race? | `CancelledForGood`, `OutcomeFitsStatus`, `AllItemsInOrder`, `BatchHeedsCancel`, `TripAllOrNothing`, `EarlyCancelWins`, `StartedChildIsReached`, `RoutinesEnd`, `ResultArrives` | 23,101 |
| `temporal` | the Temporal loop under every shape of Select, with continue-as-new and a second start | `TypeOK`, `SignalsInOrder`, `NoSignalWaitsInSelect`, `CallOwnership`, `ClosedRunOwesNothing`, `QueryResultsSurvive`, `ImplementsContract` | 823,893 |
| `temporal_programs` | what of the programs on Temporal, within one run of each routine? | `EveryItemOnce`, `BatchHeedsCancel`, `AllItemsInOrder`, `RoutinesEnd`, `ReceivedBidReturns` | 18,471 |
| `registry` | does a key find the handlers it should? | `DispatchMatchesTypes`, `RegisteredIsServed` | 230,770 |

Five more runs show disagreements of the code with its documents; see 5.

`MCPrograms` and `MCTemporalPrograms` hold several programs. The first operation
of a client chooses one, and `OneProgram` keeps the clients to it: routines of
different programs share nothing, so that running them side by side would
multiply states and show nothing more. What both runs say of the pipeline and the
batch is stated for each backend in its own terms.

Deadlock is not checked in these runs because the system may stop: a routine may
wait for ever for a message nobody sends, and clients stop when their scripts
end.

### 3.1 Bounds, and why they are enough

* `MaxOps = 3`: a client calls three operations; `Script` lets it choose among
  those that race something. Two clients suffice for every race of two callers
  for one instance and for a send that overtakes another.
* `Fuel` (3 in memory, 2 on Temporal): invocations that may still follow, in the
  two menu programs. Two continuations after a backlog has built up are what it
  takes to set a send aside, pass it by, and want it. Their menus hold every
  kind of case alone, in pairs and in threes.
* `SendCap` 1 or 2 in place of 1024, and two items and a done message in the
  pipeline: the channel fills, and the producer waits, with a send left.
* `MaxNow` 0 to 3: the clock only orders deadlines. `MaxNow` stands for any time
  that is late enough, so that a timer always expires although the clock is
  bounded (`Expired`, `Due`). `Late` is the duration of the timers of `mailbox`.
* `MaxRuns` 1 or 2: without and with one continue-as-new; a third run starts from
  the same kind of input as the second. `temporal_programs` has one run of each
  routine, because with a second one the auction need not close, and signals are
  lost (5.1).
* `Again`: whether a client starts the routine a second time; a failed routine
  starts afresh, with empty channels. `temporal` has it, `temporal_signals` not,
  so that what is lost there is lost by continue-as-new.
* `Items` 2, two children in the fan-out, or none: the least that can be reordered,
  and the empty list.
* `ChunkSize` 2 in place of 100, and batches of 0, 4 and 5 items (`Sizes`): an
  empty batch, one that is a multiple of the chunk, and one with a shorter last
  chunk. Five items take three chunks, so a cancellation finds one it can stop.
* `Programs`: which programs clients may choose; all of them in
  `temporal_programs`, one in each of the two violations.
* `CallKeys`: the keys clients of `mailbox` call by, one in `mailbox` itself, two
  with one kind of request in `call_routing`.
* Kinds of `registry`: two plain ones and two with a colon in them, of which
  `a`, `b:b` and `a:b`, `b` make one handler key; six handlers, two of them of one
  type, and three recovery handlers, two of them for one handler. Everything is
  asked for that can be written with these kinds and without colons.
* Amounts 0..3, one slot, one booking, one auction: what their properties
  compare.

No symmetry is used: clients have different scripts.

### 3.2 Fairness, and why the code justifies it

In memory: `WF(Instance(i))`, as the Go scheduler runs every runnable goroutine;
`SF(Resume(c))`, as Go's channels queue waiting goroutines first-in first-out, so
that a sender parked on a full channel gets its turn although the channel keeps
filling; `WF(Tick)`, as time passes. Nothing is assumed of clients: no fairness
obliges one to call an operation (`Invoke`). Between ready channels the select
of Go chooses at random, and no fairness is assumed of that choice.

On Temporal: `WF(Workflow(i))`, as workers poll for tasks; `WF(Children(i))` and
`WF(Resume(c))`, as the server delivers what it has recorded; `WF(Tick)`. An
activity that can succeed is not unlucky for ever; one whose every attempt fails
and that has no limit is retried for ever, and no fairness gets past it.

Where liveness is claimed the specification is `FairSpec`, or `MCSpec`, which adds
history variables to it; otherwise it is `Spec`.

## 4. What is proved

The theorems about `Spec` of `InMemoryRuntime` hold for *every* program, any sets
of routines, keys, clients and messages, any capacity, and clocks and scripts of
any length; those of `AuctionProofs` and `ProviderProofs` for these programs, with
any number of auctions or of providers and timers, any clients, amounts, deadlines,
slots and users; those about `Spec` of `TemporalWorkflow` also for any number of runs
and any limits on retries; those about `Spec` of `Registry` for any set of kinds,
any handlers and any order of registration. Together
they are 8,949 obligations, none of which is left out or assumed.

| theorem | module | statement | checked by run |
|---|---|---|---|
| `TypeCorrect` | `InMemoryProofs` | `Spec => []TypeInv` | |
| `TypesHold` | `InMemoryProofs` | `Spec => []TypeOK` | `mailbox` |
| `NoAnswerOwed` | `InMemoryProofs` | `Spec => []NoAnswerOwedWhileWaiting` | `mailbox` |
| `CallsAnsweredOnce` | `InMemoryProofs` | `Spec => []CallOwnership` | `mailbox` |
| `NoWantedSendSetAside` | `InMemoryContractProofs` | `Spec => []NothingSetAsideIsWanted` | `mailbox` |
| `SendsKept` | `InMemoryContractProofs` | `Spec => []SendsInOnePlace` | `mailbox` |
| `SendsOrdered` | `InMemoryContractProofs` | `Spec => []SendsInOrder` | `mailbox` |
| `ChildIsReached` | `InMemoryProofs` | `Spec => StartedChildIsReached` | `programs` |
| `InMemoryImplementsContract` | `InMemoryContractProofs` | `Spec => ImplementsContract` | `mailbox` |
| `AcceptedBidsArePublished` | `AuctionProofs` | `Spec => []AcceptedBidIsPublished` | `auction` |
| `HighestBidsWin` | `AuctionProofs` | `Spec => []HighestAcceptedBidWins` | `auction` |
| `StatusFollowsOneBid` | `AuctionProofs` | `Spec => StatusFollowsBids` | `auction` |
| `BookingsStay` | `ProviderProofs` | `Spec => []ConfirmedStaysBooked` | `provider` |
| `SlotsAreSound` | `ProviderProofs` | `Spec => []ReservedOrBooked` | `provider` |
| `ReservationsHold` | `ProviderProofs` | `Spec => []ReservationIsHeld` | `provider` |
| `TemporalTypes` | `TemporalProofs` | `Spec => []TypeOK` | `temporal` |
| `ClosedRunsOweNothing` | `TemporalCallProofs` | `Spec => []ClosedRunOwesNothing` | `temporal` |
| `TemporalCallsAnsweredOnce` | `TemporalCallProofs` | `Spec => []CallOwnership` | `temporal` |
| `QueryResultsKept` | `TemporalCallProofs` | `Spec => QueryResultsSurvive` | `temporal` |
| `TemporalSignalsInOrder` | `TemporalContractProofs` | `Spec => []SignalsInOrder` | `temporal` |
| `NoSignalLeftWaiting` | `TemporalContractProofs` | `Spec => []NoSignalWaitsInSelect` | `temporal` |
| `TemporalImplementsContract` | `TemporalContractProofs` | `Spec => ImplementsContract` | `temporal` |
| `DispatchMatches` | `RegistryProofs` | `Spec => []DispatchMatchesTypes` | `registry` |
| `RegistrationKept` | `RegistryProofs` | `Spec => []RegisteredIsServed` | `registry` |

Assumptions, each named in the module that declares the constants and evaluated
by the passing runs of that part: `DurableAssumption` (nil is no value and no
id; runners return attempts of the declared shape; recovery names a key or
nothing), `ClientAssumption` (operations carry arguments of their type),
`RuntimeAssumption` (nil is no client; channels have room for at least one
send), `TemporalAssumption` (keys that give up are registered; a routine may
have a run; nil is no pending call) and `RegistryAssumption` (kinds are written
with letters, a colon is one of them; every function has a type over the kinds;
nil is no recovery handler), and two about programs:

* `AuctionAssumption`: all routines are auctions; clients open them with the
  input of an auction and call only `PlaceBid`, which is what the interface
  `Auction` offers them (`auction.go:79-84`). Each bids under its own name, so
  that a leader can be told from a bidder; the code has no such check.
* `ProviderAssumption`: all routines are providers or their timers; clients
  start `provider` by `Init`, the handler a provider begins with
  (`cmd/main.go`), not in mid-life or as a timer; they call and send any message
  of `provider.go`, in anybody's name. A timer's id is `reservation-` with the ids
  of provider and slot (`provider.go:159`) and not the provider's own. Nil stands
  for a slot that is missing in a map, so it is no user.

That nil is neither an id nor a pending call says
only that the model's mark for "none" is not mistaken for something: in Go one
is a string or a struct, the other a nil pointer.

### 4.1 The arguments

* **Types.** `TypeOK` is not inductive: `RunHandler` needs to know that `cur[i]`
  is an invocation and not nil. `TypeInv` adds `WellFormed`: an instance that
  exists has an invocation, one that has run has an attempt, a busy client has an
  operation. There is one lemma per action. `FirstIsLeast` (the least element of
  a non-empty set of naturals exists) says that `First` picks a case, and
  `NearestCase` that the nearest timer is one.
* **Calls.** `CallInv == TypeInv /\ NoAnswerOwedWhileWaiting /\ CallOwnership`.
  A received call overwrites `replyTo[i]`, so that ownership is kept only because
  an instance that can receive owes nobody; that instance waits, so the first
  part says so. In turn the first part is kept because an instance that owes an
  answer leaves `effects` only by answering.
* **Sends.** `SendInv == TypeInv /\ NothingSetAsideIsWanted /\ SendsInOnePlace /\
  SendsInOrder`. Order is where the parts meet: a send that is taken straight
  from the channel must not overtake an older one of its key that was set aside,
  and it does not *because* nothing that is set aside is wanted once the channel
  is looked at. A new send gets a number above all others because the numbers in
  use are `1..accepted[i]`, a part of `SendsInOnePlace`; that each place has numbers of
  its own is kept because a number leaves one sequence as it enters the next
  (`DistinctAppend`, `DistinctTail`), and that a send is under its own key is why
  taking it cannot overtake one of another key. For each operation on the
  sequences there is a lemma about plain sequences (`EnqueueSound`,
  `TakeBufferedSound`, `AcceptSendSound`, `SetAsideSound`) and one that lifts it
  to the instance.
* **Effects.** `EffectInv == TypeInv /\ ChildrenExist`: the children whose start
  has been applied are in the table, as instances are never removed. With starts
  applied before sends, a send to a child of the same invocation finds it.

* **Contract, in memory.** The queue of a key is what is set aside for it followed
  by what the channel holds under it (`Line`), what was taken is what was
  handled, and the server of a client is the instance that owes it an answer. A
  send set aside moves within its queue only: the channel's head is of its key,
  and joins the end of what was set aside before it (`LineSetAside`). Taking a
  send straight from the channel takes the front of the queue, *because* nothing
  set aside is wanted then, so that the part before it is empty
  (`LineAcceptSend`). The library has no facts about filters of a sequence;
  `OfKeyAppend` and `OfKeyTail` are proved by a least position at which two
  sequences would differ, in place of an induction. A call is served by the
  instance the client has found (`AddressKnown`), and no client has two servers,
  by `CallOwnership`.
* **Answers, in memory.** What the proofs about programs share. `Answered(i, c,
  r)` holds from the moment the handler has returned `r` for the call of `c`,
  while the response waits in the channel of `c`, until `c` calls again.
  `AnswerInv == CallInv /\ Addressed` gives, for every step and every program,
  that an answer which is no refusal was there before, or is what one run of the
  handler has just returned to the client it owes (`AnswersKept`,
  `AnswersGiven`). `StepsOf` says the rest: an instance's data changes only by its
  own steps and by being started, and when `HandledElsewhere`, by nothing.
* **Auction.** `AuctionInv == AnswerInv /\ Silent /\ BidsAreOwn /\ Progress /\
  Truthful`. None of the three properties is inductive. `Progress` says that the
  input carried to the next handler, through all cases of the Select, is the
  status last published; between the handler's return and the wait that is so
  *because* `runHandler` publishes the query results as soon as an attempt
  succeeds, before anybody is answered. `Truthful` extends "was told" to
  every answer on its way. A published status then only grows (`Leads`,
  `TurnedDown`), so that what stood by a bid stands by it. Auctions are silent, so
  no routine but a client opens one.
* **Provider.** `ProviderInv == AnswerInv /\ Elsewhere /\ Online /\ Confirmed /\
  Promised`. `Online`: the event loop waits for its three calls and the expiry
  with one state in all four cases, the next invocation gets that state, and it is
  `Sound` (no slot is reserved and booked). `Elsewhere`: no routine starts the
  provider, so its state is never replaced. A handler keeps the state, reserves a
  free slot, books a reserved one or frees one that is still reserved for the user
  of the expiry (`Decided`). Bookings stay *because* the state is `Sound`: an
  expiry or a confirmation acts on reserved slots, and no booked slot is one. A
  reservation is lost by being booked, or by an expiry of this slot and user, which
  is in `handled` from then on.

* **Types, Temporal.** `TypeInv` of `TemporalProofs` adds to `TypeOK` what the
  loop's position says of its data: a routine that has a run has a position, one
  that works on an output has an attempt, a call is being served in the callback
  of the Selector and nowhere else, an id without a run has empty channels, and a
  client in an operation has one. The Selector's choice needs that least and
  greatest cases exist (`FirstIsLeast`, `LastIsGreatest`).
* **Calls, Temporal.** `CallInv == TypeInv /\ ClosedRunOwesNothing /\
  CallOwnership`. Neither of the last two is inductive. A call that was accepted
  might be queued behind a run that is over, and a new run of the id would then
  start with somebody else's caller; a run that closes refuses its whole queue,
  and answers each caller once, only because ownership puts no client into two
  places. `Line` says where in one routine a client's call is, position 0 being
  the call in service, and `Places` collects the lines; each operation on a queue
  has a lemma about one line (`LineAppend`, `LineServe`, `LineServed`,
  `LineDrain`), and each way to move or answer a call one about all of them
  (`CallAdded`, `CallMovesUp`, `CallAnswered`, `CallRefused`).
* **Signals, Temporal.** `SignalInv == TypeInv /\ SignalsOrdered /\
  NoSignalWaitsInSelect`. A blocked Selector takes a new signal past the
  channels. That overtakes nothing *because* no signal waits for a Selector that
  blocks, so that the channel of this one is empty. `Ordered` also says that no
  number in use exceeds `accepted[i]`, without which a new signal would not be
  the youngest, and that a channel holds signals of its name only.
* **Contract, Temporal.** The refinement mapping takes channels for queues, what
  the loop received for what was taken, and reads the server of a client off
  `serving`. It is well defined because no two routines serve one client
  (`OneTaker`, from `CallOwnership`). Each step maps to a step of the contract
  under `CallInv` and `SignalInv`: a signal to `Post`, or to `Receive` if a
  blocked Selector takes it (its queue is empty, by `SignalInv`); entering a
  Selector to `Take` or to nothing; accepting an update to `Serve` of the oldest
  call, if the Selector listens, whose client is `Idle` by ownership; the callback
  to `Answer`; the drain to `Refuse`; a run that closes to `Complete` with the
  queued clients as those refused; a new run to `Start` or `Renew`, neither of
  which may find a caller in service.
* **Keys.** The registry is correct because a key tells the type it was made of,
  if that type's kinds have no colon. `HandlerKeyInjective`, `SendKeyInjective`
  and `CallKeyInjective` say so even if the *other* type has kinds with colons:
  what is asked for by plain kinds cannot be answered by a handler whose kinds
  read alike. A `Layout` describes where a key has its colons and its kinds. If
  two layouts fit one key and the first has no colon in its kinds, the colons of
  the second are among those of the first; both have the same number of them in
  order, so they are the same, and the kinds between them are equal
  (`SameSpan`). The word in front tells the three forms apart, and a recovery
  handler's key from both (`ErrorKeys`).
* **Registration.** `RegInv` says of the Worker's map, and of the copy a backend
  serves, that they are `Keyed` by the registrations: each has its entry, its
  entry names the recovery handler's key exactly if it was given one, that key
  holds the recovery handler last given, and there are no other entries.
  `RegisteredIsServed` alone is not inductive, as it speaks only of invocations.
  The duplicate check keeps the entries of others (`KeyedAfterRegister`); that
  `registerRecoveryHandler` has no such check is harmless *because* the key it
  writes is nobody's but its handler's (`ErrorKeys`, `KeyedAfterRecovery`).

### 4.2 Only model-checked

* Liveness (`AuctionCloses`, `ReceivedBidIsAnswered`, `ExpiryIsHandled`,
  `RoutinesEnd`, `ResultArrives`, `ReceivedBidReturns`, and `AllItemsInOrder` on
  Temporal): fairness and ENABLED are beyond the proof system.
* `FailedAttemptLeavesNoTrace`, which speaks of the failing handler of one menu
  program.
* The invariants of `programs` and `temporal_programs`. Some are about history kept
  in the MC module (`booked`, `asked`); all speak of the few routines of that
  instance. `AnswerInv`, and proofs like those of the auction and the provider,
  are what the in-memory ones would start from; nothing like it has been proved
  about answers on Temporal.

No module declares a RECURSIVE operator.

## 5. Where the code disagrees with its documents

### 5.1 Shown by a run

Each of these runs checks one property and ends in a counterexample.

* **`temporal_signals`: signals are lost at continue-as-new.** A signal arrives
  while the loop runs a handler; the loop decides to continue as new; the next
  run's `WorkflowInput` (`workflow.go:328`, `types.go:9-14`) has no signals and
  its channels are empty. `TEMPORAL_IMPL.md:446-449` lists the unprocessed
  signals among what is carried over, and `:44` promises no data loss.
* **`temporal_auction_stuck`: an auction never closes.** A bid arrives while
  another fails for good or is decided, and stays queued; the closing timer
  fires, and the loop continues as new. The drain (`workflow.go:303-326`) runs
  `PlaceBid` for the queued bid and takes the first case of its continuation as
  the position of the next run. That case is `ReceiveCall(PlaceBid)`, so the run
  starts with `PlaceBid` and no request, which cannot be deserialized, nor by its
  recovery handler, which has no limit and is retried for ever. `auction.go:3-4`
  says that the auction completes when its timer expires.
* **`temporal_trip`: a failed trip keeps its flight.** The hotel cannot be booked,
  and the recovery activity starts. It has a single attempt (`saga.go:169-175`).
  Its worker stops before it has cancelled the flight, the activity fails, and so
  does the trip, with the flight booked. `saga.go:3-4` says that the recovery
  handler cancels what was booked. In memory, where no worker stops,
  `TripAllOrNothing` holds.
* **`call_routing`: a call reaches another handler.** Two call handlers have
  requests of one kind. The client calls by the one, the routine waits with a case
  for the other: `tryReceiveCall` (`runtime.go:311`) and `matchCall` compare the
  kind of the request only, and the key that `client.go:42` computes is ignored.
  The handler that runs is not the one the call names, and the caller gets its
  response. `durable/client.go:112-113` derives input, request and result kind
  "for correct routing". Such a handler may well be of another state of the same
  routine, as one that was asked for a moment too late.
* **`auction_late_bid`: a late call hangs.** The client has looked the instance
  up, the auction closes, and the client then parks on `callChan`
  (`client.go:45`) from which nobody receives any more. `durable/client.go:109-110`
  says that `Call` waits for the response.

### 5.2 Seen while modelling

The models show these steps as well. No run is kept for them, but each is a
behaviour of the specification.

* *Timers after buffered sends* (`runtime.go:251` looks at buffered sends before
  `:264` looks at timers; `continuation.go:105-108` puts timers first, and
  `TEMPORAL_IMPL.md:52` says that a timer wins over a message of the same moment).
  Set a send aside; return a Select of its case and a zero timer: the send fires.
  No property takes sides: `EarlyCancelWins` leaves exactly this race open (a
  cancellation set aside, and a timer that has expired, when the order looks at
  its cases for the first time) and holds in either order.
* *The fan-out of nothing waits for ever* (`fanout.go:75`). Without items the parent
  starts no child and still waits for a result. `RoutinesEnd` speaks of parents
  with items; that of none is started in `temporal_programs` too.
* *A Select of no cases* (`runtime.go:373`, `workflow.go:144`). In memory the routine
  waits for ever and sets every send aside; on Temporal it fails
  (`FailWithoutCases`). No program of the repository builds one.
* *Default before a wanted send* (`runtime.go:282`; `continuation.go:134-135` says
  that the default fires if no sends are pending). Put an unwanted send and a
  wanted one into the channel, and Select the wanted one with a default: the round
  takes only the first send, sets it aside, and the default fires.
* *Two routines block each other* (`runtime.go:220`; `OVERALL_DESIGN.md:42` says
  that a send never blocks). Each sends the other more than its channel holds in
  one invocation: both wait in `applyContextEffects`, and neither receives.
* *A slot reserved again has no timer* (`provider.go:159`, `runtime.go:76`,
  `:208`). The id of the timer routine names provider and slot; after an expiry
  the id still exists, the second start fails, and the error is ignored: the
  second reservation is held for ever if it is not confirmed.
* *A received message is lost at continue-as-new* (`workflow.go:275`, `:328`;
  `TEMPORAL_IMPL.md:453`). A send case fires, the loop continues as new before the
  activity, and the message is not in the next input: its handler runs without it.
* *A call waits in a Selector that listens for calls* (`workflow.go:171`, `:209`;
  `TEMPORAL_IMPL.md:56`). A call that arrives during an activity is queued and its
  notification dropped. The next Selector does not look at the queue: the call
  waits for another call, or for the end of the run. `ReceivedBidReturns` says
  that it does return at the latest then.
* *A call for an earlier continuation is accepted* (`workflow.go:162`;
  `TEMPORAL_IMPL.md:209` describes a validator that the code does not have). An
  update handler stays registered; a later Selector with any call case serves it.
* *`Done` of a drained call is ignored* (`workflow.go:322`; `continuation.go:27-28`).
  The caller is told that the routine is done, and the routine goes on.
* *A low bid is accepted on a stale input* (`workflow.go:168`; `auction_test.go:47`
  expects a bid below the highest to be rejected). The update handler captures the
  input of its case. A bid that arrives while a higher one is decided is later
  served with the input from before, is accepted, and lowers the highest bid. The
  in-memory backend has no such step (`StatusFollowsBids`).

* *Retries are skipped in memory* (`runtime.go:172`; `routine.go:37-38` says that
  recovery follows the last retry). The recovery handler runs after the first
  failure.

## 6. The plan

Order of construction; all but step 7 is done.

1. Continuations and the interface of programs; the in-memory runtime and client;
   the menu program with types, sends and calls.
2. Auction and provider, with liveness.
3. `RoutineContract`, implemented by the in-memory backend.
4. Proofs of types, calls, sends and effects.
5. The Temporal loop, its properties, the same contract; the booking, pipeline and
   fan-out programs.
6. The order, saga, batch and reminder programs; auction, batch and saga on
   Temporal; registration and the key formats, with proofs; the routing of calls.
7. *Open*: a program that sends to a child it starts, on Temporal, where
   start and signal race (`workflow.go:122`, `:128`).
8. Proofs about Temporal: types, calls, query results, signals, and that the
   backend implements `RoutineContract`.
9. In memory, the proof that the runtime implements `RoutineContract`, and proofs
   about two programs, the auction and the provider, for any number of them.

### 6.1 Not modelled, and why

* The length of the history: that it is never cut while a routine is only called
  (`workflow.go:298`) is visible in the guards, but a property would need a count
  of events.
* Marshalling: a value of another type is an error, of the right type it arrives
  unchanged.
* Retry intervals and timeouts of activities: `Ends` and `GivesUp` say only how an
  activity may end.
* Starting and stopping of the Temporal worker, `testenv` and the demo commands:
  set-up and printing, without state of their own.
