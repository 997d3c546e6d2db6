-------------------------- MODULE TemporalWorkflow --------------------------
(***************************************************************************)
(* The Temporal backend: every routine is one execution of RoutineWorkflow *)
(* under the routine's id.  The loop runs a handler as an activity, applies *)
(* its effects, and waits in a Selector; it may start over in a new run    *)
(* with a fresh history (continue-as-new).                                 *)
(*                                                                         *)
(* The Temporal server and SDK are not part of this repository.  They are  *)
(* modelled as the loop uses them: signals are kept in a channel per name  *)
(* of the current run; updates run their handler when they are delivered;  *)
(* a value sent to an unbuffered channel that nobody receives from is      *)
(* gone; a blocked Selector takes what arrives first.  A worker may stop   *)
(* at any time and another replays the history, so that a crash shows as   *)
(* a delay, or as a failed attempt of the activity it was running.         *)
(***************************************************************************)
EXTENDS ClientOperations, FiniteSets

CONSTANTS
  GivesUp,   \* the keys whose options limit attempts or time; the others are retried for ever
  MaxRuns    \* bound on the runs of a routine that continue-as-new creates

PendingCall == [client : Clients, key : Keys, req : Messages, input : Inputs]

ASSUME TemporalAssumption ==
  /\ GivesUp \subseteq Registered
  /\ MaxRuns \in Nat \ {0}
  /\ Nil \notin PendingCall

VARIABLES
  now,       \* the server's clock
  pc,        \* where the loop of a routine is; "absent" before its first run
  cur,       \* handlerKey, handlerInput and message, and the number of the signal it came in
  out,       \* the output the loop is working on
  eff,       \* how many of its sends have been delivered
  since,     \* when the Selector started its timers
  serving,   \* the pending call that the Selector's callback runs
  pending,   \* pendingCalls
  updates,   \* per key, the input its update handler captured; Nil if none is registered
  signals,   \* per key, the signals in the channel of the current run
  queries,   \* allQueryResults, and the query handlers set from it
  starting,  \* child starts the server has not carried out
  runs,      \* how many runs the id has had
  final,     \* the result or error of the last run that closed
  cpc,       \* where a client is in the operation it called
  cop,       \* that operation
  ops,       \* how many operations it has called
  resp,      \* the outcome of its update, once the update is completed
  got,       \* what its last operation returned
  accepted,  \* history: how many signals were recorded for the routine
  consumed   \* history: the signals the loop received, in that order

instVars   == <<pc, cur, out, eff, since, serving, pending, updates, queries, runs, final>>
clientVars == <<cpc, cop, ops, resp, got>>
signalVars == <<signals, accepted, consumed>>
vars == <<now, instVars, starting, clientVars, signalVars>>

Position    == [key : Keys, input : Inputs, msg : Msg, n : Nat]
ChildStart  == [id : Ids, key : Keys, input : Inputs, run : Nat]

TypeOK ==
  /\ now \in Time
  /\ pc \in [Ids -> {"absent", "activity", "effects", "select", "call", "can", "drain",
                     "done", "failed"}]
  /\ cur \in [Ids -> Position \cup {Nil}]
  /\ out \in [Ids -> Attempt \cup {Nil}]
  /\ eff \in [Ids -> Nat]
  /\ since \in [Ids -> Time]
  /\ serving \in [Ids -> PendingCall \cup {Nil}]
  /\ pending \in [Ids -> Seq(PendingCall)]
  /\ updates \in [Ids -> [Keys -> Inputs \cup {Nil}]]
  /\ signals \in [Ids -> [Keys -> Seq(Envelope)]]
  /\ queries \in [Ids -> [Names -> Value]]
  /\ starting \in [Ids -> Seq(ChildStart)]
  /\ runs \in [Ids -> Nat]
  /\ final \in [Ids -> Response]
  /\ cpc \in [Clients -> {"idle", "calling", "awaiting", "getting"}]
  /\ cop \in [Clients -> Op \cup {Nil}]
  /\ ops \in [Clients -> Nat]
  /\ resp \in [Clients -> Seq(Response)]
  /\ got \in [Clients -> Response]
  /\ accepted \in [Ids -> Nat]
  /\ consumed \in [Ids -> Seq(Envelope)]

NoQueries == [n \in Names |-> Nil]
NoUpdates == [k \in Keys |-> Nil]
NoSignals == [k \in Keys |-> <<>>]

Init ==
  /\ now = 0
  /\ pc = [i \in Ids |-> "absent"]
  /\ cur = [i \in Ids |-> Nil]
  /\ out = [i \in Ids |-> Nil]
  /\ eff = [i \in Ids |-> 0]
  /\ since = [i \in Ids |-> 0]
  /\ serving = [i \in Ids |-> Nil]
  /\ pending = [i \in Ids |-> <<>>]
  /\ updates = [i \in Ids |-> NoUpdates]
  /\ signals = [i \in Ids |-> NoSignals]
  /\ queries = [i \in Ids |-> NoQueries]
  /\ starting = [i \in Ids |-> <<>>]
  /\ runs = [i \in Ids |-> 0]
  /\ final = [i \in Ids |-> Blank]
  /\ cpc = [c \in Clients |-> "idle"]
  /\ cop = [c \in Clients |-> Nil]
  /\ ops = [c \in Clients |-> 0]
  /\ resp = [c \in Clients |-> <<>>]
  /\ got = [c \in Clients |-> Blank]
  /\ accepted = [i \in Ids |-> 0]
  /\ consumed = [i \in Ids |-> <<>>]

-----------------------------------------------------------------------------
(* Runs.                                                                   *)

Closed(i)  == pc[i] \in {"done", "failed"}
Running(i) == pc[i] # "absent" /\ ~Closed(i)

\* A new run starts from its WorkflowInput and nothing else: channels and
\* update handlers belong to the run before it.
BeginRun(i, k, x, q) ==
  /\ pc' = [pc EXCEPT ![i] = "activity"]
  /\ cur' = [cur EXCEPT ![i] = [key |-> k, input |-> x, msg |-> Nil, n |-> 0]]
  /\ queries' = [queries EXCEPT ![i] = q]
  /\ signals' = [signals EXCEPT ![i] = NoSignals]
  /\ updates' = [updates EXCEPT ![i] = NoUpdates]
  /\ runs' = [runs EXCEPT ![i] = @ + 1]

\* Faulty variants: callers of a run that closes are forgotten, or stay queued.
CloseRunSilently(i, ok, v) ==
  LET getting == {c \in Clients : cpc[c] = "getting" /\ cop[c].id = i}
  IN  /\ pc' = [pc EXCEPT ![i] = IF ok THEN "done" ELSE "failed"]
      /\ final' = [final EXCEPT ![i] = [ok |-> ok, value |-> v]]
      /\ pending' = [pending EXCEPT ![i] = <<>>]
      /\ got' = [c \in Clients |-> IF c \in getting THEN [ok |-> ok, value |-> v] ELSE got[c]]
      /\ cpc' = [c \in Clients |-> IF c \in getting THEN "idle" ELSE cpc[c]]
      /\ UNCHANGED resp

CloseRunLater(i, ok, v) ==
  /\ pc' = [pc EXCEPT ![i] = IF ok THEN "done" ELSE "failed"]
  /\ final' = [final EXCEPT ![i] = [ok |-> ok, value |-> v]]
  /\ UNCHANGED <<pending, resp, got, cpc>>

\* The run returns.  Its updates that are not completed fail, and every Get
\* that waits for it returns.
CloseRun(i, ok, v) ==
  LET waiting == {pending[i][p].client : p \in DOMAIN pending[i]}
      getting == {c \in Clients : cpc[c] = "getting" /\ cop[c].id = i}
  IN  /\ pc' = [pc EXCEPT ![i] = IF ok THEN "done" ELSE "failed"]
      /\ final' = [final EXCEPT ![i] = [ok |-> ok, value |-> v]]
      /\ pending' = [pending EXCEPT ![i] = <<>>]
      /\ resp' = [c \in Clients |->
                    IF c \in waiting THEN Append(resp[c], [ok |-> FALSE, value |-> Nil]) ELSE resp[c]]
      /\ got' = [c \in Clients |-> IF c \in getting THEN [ok |-> ok, value |-> v] ELSE got[c]]
      /\ cpc' = [c \in Clients |-> IF c \in getting THEN "idle" ELSE cpc[c]]

Respond(c, ok, v) == resp' = [resp EXCEPT ![c] = Append(@, [ok |-> ok, value |-> v])]

-----------------------------------------------------------------------------
(* The Selector.                                                           *)

Cases(i) == out[i].cases
CasesOf(i, kind) == {n \in DOMAIN Cases(i) : Cases(i)[n].kind = kind}
First(S) == CHOOSE n \in S : \A m \in S : n <= m
Last(S)  == CHOOSE n \in S : \A m \in S : m <= n

SendCases(i, k) == {n \in CasesOf(i, "send") : Cases(i)[n].key = k}
Ready(i) == {n \in CasesOf(i, "send") : signals[i][Cases(i)[n].key] # <<>>}

\* A faulty variant: input and message are swapped.
FireSwapped(i, n, m, tag) ==
  /\ cur' = [cur EXCEPT ![i] = [key |-> Cases(i)[n].key, input |-> m,
                                msg |-> Cases(i)[n].input, n |-> tag]]
  /\ pc' = [pc EXCEPT ![i] = "can"]

\* The callback of the n-th case: it says which handler comes next.  m is the
\* message and tag the number of the signal, if it is a send case.
Fire(i, n, m, tag) ==
  /\ cur' = [cur EXCEPT ![i] = [key |-> Cases(i)[n].key, input |-> Cases(i)[n].input,
                                msg |-> m, n |-> tag]]
  /\ pc' = [pc EXCEPT ![i] = "can"]

\* Faulty variants: a signal nobody waits for is dropped, or put in front.
SignalOrDrop(i, k, m) ==
  LET e == [key |-> k, msg |-> m, n |-> accepted[i] + 1]
  IN  /\ accepted' = [accepted EXCEPT ![i] = @ + 1]
      /\ UNCHANGED signals
      /\ IF pc[i] = "select" /\ SendCases(i, k) # {}
         THEN /\ Fire(i, First(SendCases(i, k)), m, e.n)
              /\ consumed' = [consumed EXCEPT ![i] = Append(@, e)]
         ELSE UNCHANGED <<pc, cur, consumed>>

SignalInFront(i, k, m) ==
  LET e == [key |-> k, msg |-> m, n |-> accepted[i] + 1]
  IN  /\ accepted' = [accepted EXCEPT ![i] = @ + 1]
      /\ signals' = [signals EXCEPT ![i][k] = <<e>> \o @]
      /\ UNCHANGED <<pc, cur, consumed>>

\* A signal for the running routine i: a blocked Selector that has a case for
\* it takes it, otherwise it waits in the channel of its name.
Signal(i, k, m) ==
  LET e == [key |-> k, msg |-> m, n |-> accepted[i] + 1]
  IN  /\ accepted' = [accepted EXCEPT ![i] = @ + 1]
      /\ IF pc[i] = "select" /\ SendCases(i, k) # {}
         THEN /\ Fire(i, First(SendCases(i, k)), m, e.n)
              /\ consumed' = [consumed EXCEPT ![i] = Append(@, e)]
              /\ UNCHANGED signals
         ELSE /\ signals' = [signals EXCEPT ![i][k] = Append(@, e)]
              /\ UNCHANGED <<pc, cur, consumed>>

-----------------------------------------------------------------------------
(* Activities.                                                             *)

\* What an attempt of the activity RunHandler may return, if it succeeds.  An
\* unknown key and a handler's error are failures, which leave no output.
RunHandler(i, k, x, m) ==
  IF k \in Registered THEN {a \in Runner(i, k, x, m, now) : a.ok} ELSE {}

\* How the activity ends.  An attempt that fails is made again, until one
\* succeeds or the options of the handler say to give up; an attempt may fail
\* because of its worker, whatever the handler does.
Ends(i, k, x, m) == RunHandler(i, k, x, m) \cup (IF k \in GivesUp THEN {Failure} ELSE {})

\* lookupRecoveryHandlerKey
RecoveryOf(k) == IF k \in Registered /\ Recovery[k] \in Registered THEN Recovery[k] ELSE Nil

\* The recovery handler runs when the handler has failed for good.
Outcomes(i, k, x, m) ==
  LET ends == Ends(i, k, x, m)
  IN  {a \in ends : a.ok} \cup
      (IF Failure \notin ends THEN {}
       ELSE IF RecoveryOf(k) = Nil THEN {Failure} ELSE Ends(i, RecoveryOf(k), x, m))

ChildStarts(i, a) ==
  [p \in DOMAIN a.starts |->
     [id |-> a.starts[p].id, key |-> a.starts[p].key, input |-> a.starts[p].input, run |-> runs[i]]]

\* The loop goes on with output a: its query results and child starts take
\* effect at once, its sends one at a time.
Process(i, a) ==
  /\ out' = [out EXCEPT ![i] = a]
  /\ queries' = [queries EXCEPT ![i] = Merge(@, a.queries)]
  /\ starting' = [starting EXCEPT ![i] = @ \o ChildStarts(i, a)]
  /\ eff' = [eff EXCEPT ![i] = 0]
  /\ pc' = [pc EXCEPT ![i] = "effects"]

RunActivity(i) ==
  /\ pc[i] = "activity"
  /\ \E a \in Outcomes(i, cur[i].key, cur[i].input, cur[i].msg) : a.ok /\ Process(i, a)
  /\ cur' = [cur EXCEPT ![i].msg = Nil, ![i].n = 0]
  /\ UNCHANGED <<now, since, serving, pending, updates, runs, final, clientVars, signalVars>>

ActivityFails(i) ==
  /\ pc[i] = "activity"
  /\ \E a \in Outcomes(i, cur[i].key, cur[i].input, cur[i].msg) : ~a.ok
  /\ CloseRun(i, FALSE, Nil)
  /\ cur' = [cur EXCEPT ![i].msg = Nil, ![i].n = 0]
  /\ UNCHANGED <<now, out, eff, since, serving, updates, queries, runs, starting, cop, ops,
                 signalVars>>

-----------------------------------------------------------------------------
(* Child starts, which the loop does not wait for.                         *)

Without(s, p) == SubSeq(s, 1, p - 1) \o SubSeq(s, p + 1, Len(s))

\* The server starts the child, unless a routine is running under its id.
StartChild(i) ==
  \E p \in DOMAIN starting[i] :
    LET s == starting[i][p]
    IN  /\ starting' = [starting EXCEPT ![i] = Without(@, p)]
        /\ IF Running(s.id) THEN UNCHANGED <<pc, cur, queries, signals, updates, runs>>
           ELSE BeginRun(s.id, s.key, s.input, NoQueries)
        /\ UNCHANGED <<now, out, eff, since, serving, pending, final, clientVars, accepted, consumed>>

\* A start may be given up when the run that asked for it has closed.
ForgetChild(i) ==
  /\ \E p \in DOMAIN starting[i] :
       /\ Closed(i) \/ starting[i][p].run # runs[i]
       /\ starting' = [starting EXCEPT ![i] = Without(@, p)]
  /\ UNCHANGED <<now, instVars, clientVars, signalVars>>

-----------------------------------------------------------------------------
(* Effects, and what follows them.                                         *)

Sends(i) == out[i].sends
Sent(i)  == eff[i] >= Len(Sends(i))

\* The loop waits until the signal is delivered, or has failed to be.
DeliverSend(i) ==
  /\ pc[i] = "effects" /\ ~Sent(i)
  /\ LET s == Sends(i)[eff[i] + 1]
     IN  IF Running(s.id) THEN Signal(s.id, s.key, s.msg) ELSE UNCHANGED <<pc, cur, signalVars>>
  /\ eff' = [eff EXCEPT ![i] = @ + 1]
  /\ UNCHANGED <<now, out, since, serving, pending, updates, queries, runs, final, starting, clientVars>>

Complete(i) ==
  /\ pc[i] = "effects" /\ Sent(i)
  /\ out[i].done
  /\ CloseRun(i, TRUE, out[i].result)
  /\ UNCHANGED <<now, cur, out, eff, since, serving, updates, queries, runs, starting, cop, ops,
                 signalVars>>

\* A continuation without cases is an error of the routine.
FailWithoutCases(i) ==
  /\ pc[i] = "effects" /\ Sent(i)
  /\ ~out[i].done /\ Cases(i) = <<>>
  /\ CloseRun(i, FALSE, Nil)
  /\ UNCHANGED <<now, cur, out, eff, since, serving, updates, queries, runs, starting, cop, ops,
                 signalVars>>

SoleImmediate(i) == Len(Cases(i)) = 1 /\ Cases(i)[1].kind = "immediate"

ContinueAtOnce(i) ==
  /\ pc[i] = "effects" /\ Sent(i)
  /\ ~out[i].done /\ SoleImmediate(i)
  /\ Fire(i, 1, Nil, 0)
  /\ UNCHANGED <<now, out, eff, since, serving, pending, updates, queries, runs, final, starting,
                 clientVars, signalVars>>

\* Every call case registers an update handler, which captures the input of
\* the case; a handler registered before stays until it is replaced.
Register(i) ==
  [k \in Keys |->
     LET calls == {n \in CasesOf(i, "call") : Cases(i)[n].key = k}
     IN  IF calls = {} THEN updates[i][k] ELSE Cases(i)[Last(calls)].input]

\* Faulty variants: the signals that are there are not looked at, or the last
\* send case comes first.
TakeNoSignal(i) ==
  LET due == {n \in CasesOf(i, "after") : Cases(i)[n].dur = 0}
      defaults == CasesOf(i, "immediate")
  IN  /\ UNCHANGED signalVars
      /\ CASE due # {} -> Fire(i, First(due), Nil, 0)
           [] due = {} /\ defaults # {} -> Fire(i, Last(defaults), Nil, 0)
           [] OTHER -> pc' = [pc EXCEPT ![i] = "select"] /\ UNCHANGED cur

TakeLastReady(i) ==
  IF Ready(i) = {}
  THEN pc' = [pc EXCEPT ![i] = "select"] /\ UNCHANGED <<cur, signalVars>>
  ELSE LET k == Cases(i)[Last(Ready(i))].key
           e == Head(signals[i][k])
       IN  /\ Fire(i, Last(Ready(i)), e.msg, e.n)
           /\ signals' = [signals EXCEPT ![i][k] = Tail(@)]
           /\ consumed' = [consumed EXCEPT ![i] = Append(@, e)]
           /\ UNCHANGED accepted

\* A timer that is due at once comes first, then the signals in the channels,
\* in case order, then the last default; otherwise the Selector blocks.  The
\* calls that are pending are not looked at.
TakeReadyCase(i) ==
  LET due == {n \in CasesOf(i, "after") : Cases(i)[n].dur = 0}
      defaults == CasesOf(i, "immediate")
  IN  CASE due # {} -> Fire(i, First(due), Nil, 0) /\ UNCHANGED signalVars
        [] due = {} /\ Ready(i) # {} ->
             LET k == Cases(i)[First(Ready(i))].key
                 e == Head(signals[i][k])
             IN  /\ Fire(i, First(Ready(i)), e.msg, e.n)
                 /\ signals' = [signals EXCEPT ![i][k] = Tail(@)]
                 /\ consumed' = [consumed EXCEPT ![i] = Append(@, e)]
                 /\ UNCHANGED accepted
        [] due = {} /\ Ready(i) = {} /\ defaults # {} ->
             Fire(i, Last(defaults), Nil, 0) /\ UNCHANGED signalVars
        [] OTHER -> pc' = [pc EXCEPT ![i] = "select"] /\ UNCHANGED <<cur, signalVars>>

EnterSelect(i) ==
  /\ pc[i] = "effects" /\ Sent(i)
  /\ ~out[i].done /\ Cases(i) # <<>> /\ ~SoleImmediate(i)
  /\ updates' = [updates EXCEPT ![i] = Register(i)]
  /\ since' = [since EXCEPT ![i] = now]
  /\ TakeReadyCase(i)
  /\ UNCHANGED <<now, out, eff, serving, pending, queries, runs, final, starting, clientVars>>

\* MaxNow stands for any time late enough: every timer has fired by then.
Due(i, n) == now >= since[i] + Cases(i)[n].dur \/ now = MaxNow

\* Timers that are due fire in any order.
TimerFires(i) ==
  /\ pc[i] = "select"
  /\ \E n \in CasesOf(i, "after") : Due(i, n) /\ Fire(i, n, Nil, 0)
  /\ UNCHANGED <<now, out, eff, since, serving, pending, updates, queries, runs, final, starting,
                 clientVars, signalVars>>

-----------------------------------------------------------------------------
(* Calls.                                                                  *)

Listening(i) == pc[i] = "select" /\ CasesOf(i, "call") # {}

\* The update of client c runs its handler: the call is queued, and a value
\* is sent to callNotifyCh.  A Selector that is blocked on that channel takes
\* it and serves the oldest call; if none is, the value is dropped.
AcceptUpdate(c) ==
  LET i == cop[c].id
      k == cop[c].key
      queue == Append(pending[i], [client |-> c, key |-> k, req |-> cop[c].arg, input |-> updates[i][k]])
  IN  /\ cpc[c] = "calling" /\ Running(i) /\ updates[i][k] # Nil
      /\ cpc' = [cpc EXCEPT ![c] = "awaiting"]
      /\ IF Listening(i)
         THEN /\ serving' = [serving EXCEPT ![i] = Head(queue)]
              /\ pending' = [pending EXCEPT ![i] = Tail(queue)]
              /\ pc' = [pc EXCEPT ![i] = "call"]
         ELSE /\ pending' = [pending EXCEPT ![i] = queue]
              /\ UNCHANGED <<serving, pc>>
      /\ UNCHANGED <<now, cur, out, eff, since, updates, queries, runs, final, starting,
                     cop, ops, resp, got, signalVars>>

GotBack(c, ok, v) == got' = [got EXCEPT ![c] = [ok |-> ok, value |-> v]]

\* No routine is running, or its run has no handler for the update.
RejectUpdate(c) ==
  /\ cpc[c] = "calling"
  /\ Running(cop[c].id) => updates[cop[c].id][cop[c].key] = Nil
  /\ cpc' = [cpc EXCEPT ![c] = "idle"]
  /\ GotBack(c, FALSE, Nil)
  /\ UNCHANGED <<now, instVars, starting, cop, ops, resp, signalVars>>

\* A call that failed leaves the routine in the same continuation.
SameCases(i) == [Failure EXCEPT !.ok = TRUE, !.done = FALSE, !.cases = Cases(i)]

\* A faulty variant: the call stays the one being served.
RunCallAndKeep(i) ==
  LET call == serving[i] IN
  /\ pc[i] = "call"
  /\ \E a \in Outcomes(i, call.key, call.input, call.req) :
       /\ Respond(call.client, a.ok, a.resp)
       /\ Process(i, IF a.ok THEN a ELSE SameCases(i))
  /\ UNCHANGED <<now, cur, since, serving, pending, updates, runs, final, cpc, cop, ops, got, signalVars>>

\* The Selector's callback: run the handler of the call, and its recovery
\* handler, answer the caller, and go on with the output.
RunCall(i) ==
  LET call == serving[i] IN
  /\ pc[i] = "call"
  /\ \E a \in Outcomes(i, call.key, call.input, call.req) :
       /\ Respond(call.client, a.ok, a.resp)
       /\ Process(i, IF a.ok THEN a ELSE SameCases(i))
  /\ serving' = [serving EXCEPT ![i] = Nil]
  /\ UNCHANGED <<now, cur, since, pending, updates, runs, final, cpc, cop, ops, got, signalVars>>

-----------------------------------------------------------------------------
(* Continue-as-new.                                                        *)

\* The history is short enough: the handler that was chosen runs in this run.
Proceed(i) ==
  /\ pc[i] = "can"
  /\ pc' = [pc EXCEPT ![i] = "activity"]
  /\ UNCHANGED <<now, cur, out, eff, since, serving, pending, updates, queries, runs, final, starting,
                 clientVars, signalVars>>

\* The server suggests a new run, or the history is longer than allowed.
SuggestContinueAsNew(i) ==
  /\ pc[i] = "can" /\ runs[i] < MaxRuns
  /\ pc' = [pc EXCEPT ![i] = "drain"]
  /\ UNCHANGED <<now, cur, out, eff, since, serving, pending, updates, queries, runs, final, starting,
                 clientVars, signalVars>>

\* Pending calls are answered first, without recovery; the routine goes on
\* at the first case of the continuation such a call returns, if it has one.
DrainCall(i) ==
  /\ pc[i] = "drain" /\ pending[i] # <<>>
  /\ LET call == Head(pending[i])
     IN  \E a \in Ends(i, call.key, call.input, call.req) :
           /\ Respond(call.client, a.ok, a.resp)
           /\ IF a.ok /\ a.cases # <<>>
              THEN cur' = [cur EXCEPT ![i].key = a.cases[1].key, ![i].input = a.cases[1].input]
              ELSE UNCHANGED cur
  /\ pending' = [pending EXCEPT ![i] = Tail(@)]
  /\ UNCHANGED <<now, pc, out, eff, since, serving, updates, queries, runs, final, starting,
                 cpc, cop, ops, got, signalVars>>

\* A faulty variant: the query results are not handed over.
ContinueAfresh(i) ==
  /\ pc[i] = "drain" /\ pending[i] = <<>>
  /\ BeginRun(i, cur[i].key, cur[i].input, NoQueries)
  /\ UNCHANGED <<now, out, eff, since, serving, pending, final, starting, clientVars,
                 accepted, consumed>>

\* The next run is given the position and the query results.
ContinueAsNew(i) ==
  /\ pc[i] = "drain" /\ pending[i] = <<>>
  /\ BeginRun(i, cur[i].key, cur[i].input, queries[i])
  /\ UNCHANGED <<now, out, eff, since, serving, pending, final, starting, clientVars,
                 accepted, consumed>>

-----------------------------------------------------------------------------
(* Clients.                                                                *)

Choose(c, o) ==
  /\ cpc[c] = "idle"
  /\ ops[c] < MaxOps
  /\ o \in Script(c, ops[c] + 1)
  /\ ops' = [ops EXCEPT ![c] = @ + 1]
  /\ cop' = [cop EXCEPT ![c] = o]

\* Go starts a routine if there was none under the id, or the last one
\* failed; otherwise it does nothing, and that is not an error.
ClientGo(c, o) ==
  /\ o.op = "go"
  /\ Choose(c, o)
  /\ IF pc[o.id] \in {"absent", "failed"}
     THEN BeginRun(o.id, o.key, o.arg, NoQueries)
     ELSE UNCHANGED <<pc, cur, queries, signals, updates, runs>>
  /\ GotBack(c, TRUE, Nil)
  /\ UNCHANGED <<now, out, eff, since, serving, pending, final, starting, cpc, resp, accepted, consumed>>

\* Send returns when the server has recorded the signal.
ClientSend(c, o) ==
  /\ o.op = "send"
  /\ Choose(c, o)
  /\ IF Running(o.id) THEN Signal(o.id, o.key, o.arg) ELSE UNCHANGED <<pc, cur, signalVars>>
  /\ GotBack(c, Running(o.id), Nil)
  /\ UNCHANGED <<now, out, eff, since, serving, pending, updates, queries, runs, final, starting, cpc, resp>>

ClientCall(c, o) ==
  /\ o.op = "call"
  /\ Choose(c, o)
  /\ cpc' = [cpc EXCEPT ![c] = "calling"]
  /\ UNCHANGED <<now, instVars, starting, resp, got, signalVars>>

ClientCallReturn(c) ==
  /\ cpc[c] = "awaiting" /\ resp[c] # <<>>
  /\ GotBack(c, Head(resp[c]).ok, Head(resp[c]).value)
  /\ resp' = [resp EXCEPT ![c] = Tail(@)]
  /\ cpc' = [cpc EXCEPT ![c] = "idle"]
  /\ UNCHANGED <<now, instVars, starting, cop, ops, signalVars>>

\* Query replays the run that is open, or closed last.
ClientQuery(c, o) ==
  /\ o.op = "query"
  /\ Choose(c, o)
  /\ LET v == queries[o.id][o.name] IN GotBack(c, v # Nil, v)
  /\ UNCHANGED <<now, instVars, starting, cpc, resp, signalVars>>

ClientGet(c, o) ==
  /\ o.op = "get"
  /\ Choose(c, o)
  /\ IF Running(o.id)
     THEN cpc' = [cpc EXCEPT ![c] = "getting"] /\ UNCHANGED got
     ELSE /\ GotBack(c, pc[o.id] = "done", final[o.id].value)
          /\ UNCHANGED cpc
  /\ UNCHANGED <<now, instVars, starting, resp, signalVars>>

-----------------------------------------------------------------------------
Tick ==
  /\ now < MaxNow
  /\ now' = now + 1
  /\ UNCHANGED <<instVars, starting, clientVars, signalVars>>

Workflow(i) ==
  \/ RunActivity(i) \/ ActivityFails(i)    \/ DeliverSend(i)    \/ Complete(i)
  \/ EnterSelect(i) \/ FailWithoutCases(i) \/ ContinueAtOnce(i) \/ TimerFires(i)
  \/ RunCall(i)     \/ DrainCall(i)        \/ ContinueAsNew(i)
  \/ Proceed(i)     \/ SuggestContinueAsNew(i)

Children(i) == StartChild(i) \/ ForgetChild(i)

Resume(c) == AcceptUpdate(c) \/ RejectUpdate(c) \/ ClientCallReturn(c)

Invoke(c) ==
  \E n \in 1..MaxOps : \E o \in Script(c, n) :
    ClientGo(c, o) \/ ClientSend(c, o) \/ ClientCall(c, o) \/ ClientQuery(c, o) \/ ClientGet(c, o)

Next ==
  \/ Tick
  \/ \E i \in Ids : Workflow(i) \/ Children(i)
  \/ \E c \in Clients : Resume(c) \/ Invoke(c)

Spec == Init /\ [][Next]_vars

\* Workers poll, and the server delivers what it has recorded.  An attempt
\* that can succeed is not unlucky for ever, and nothing obliges a client to
\* call another operation.
Fairness ==
  /\ WF_vars(Tick)
  /\ \A i \in Ids : WF_vars(Workflow(i)) /\ WF_vars(Children(i))
  /\ \A c \in Clients : WF_vars(Resume(c))

FairSpec == Spec /\ Fairness

=============================================================================
