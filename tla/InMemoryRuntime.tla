-------------------------- MODULE InMemoryRuntime --------------------------
(***************************************************************************)
(* The in-memory backend: every routine instance is a goroutine that runs  *)
(* a handler, applies the effects the handler buffered, answers the caller *)
(* if the handler served a Call, and waits for the next case to fire.      *)
(* Clients are goroutines of their own that reach an instance through its  *)
(* buffered sendCh, its unbuffered callChan and its doneChan.              *)
(*                                                                         *)
(* Each label of pc is a point where another goroutine may run: the effect *)
(* loop, the stages of the polling loop of waitForCase, and its blocking   *)
(* select.                                                                 *)
(***************************************************************************)
EXTENDS ClientOperations, FiniteSets

CONSTANTS
  NoClient,     \* the nil response channel
  SendCap       \* capacity of sendCh

ASSUME RuntimeAssumption ==
  /\ NoClient \notin Clients
  /\ SendCap \in Nat \ {0}

VARIABLES
  now,          \* the clock timers read
  pc,           \* where the goroutine of an instance is; "absent" before start
  cur,          \* handlerKey, input and msg of the next or current invocation
  out,          \* what the current invocation returned
  eff,          \* how many of its starts and sends have been applied
  since,        \* when waitForCase computed the timer deadlines
  replyTo,      \* respCh: the caller the current invocation must answer
  sendCh,       \* the channel of sends, oldest first
  buffered,     \* sends taken from sendCh that no case was waiting for, per key
  queryResults, \* results set by SetQueryResult
  final,        \* result and err, read after doneChan is closed
  cpc,          \* where a client is in the operation it called
  cop,          \* that operation
  ops,          \* how many operations it has called
  resp,         \* its response channel, holding at most one response
  got,          \* what its last operation returned
  accepted,     \* history: how many sends the sendCh of an instance accepted
  handled       \* history: the sends handed to handlers, in that order

instVars   == <<pc, cur, out, eff, since, replyTo, final>>
chanVars   == <<sendCh, buffered, queryResults>>
clientVars == <<cpc, cop, ops, resp, got>>
history    == <<accepted, handled>>
vars == <<now, instVars, chanVars, clientVars, history>>

TypeOK ==
  /\ now \in Time
  /\ pc \in [Ids -> {"absent", "run", "effects", "poll", "pollCall", "pollSend",
                     "default", "block", "done"}]
  /\ cur \in [Ids -> [key : Keys, input : Inputs, msg : Msg] \cup {Nil}]
  /\ out \in [Ids -> Attempt \cup {Nil}]
  /\ eff \in [Ids -> Nat]
  /\ since \in [Ids -> Time]
  /\ replyTo \in [Ids -> Clients \cup {NoClient}]
  /\ sendCh \in [Ids -> Seq(Envelope)]
  /\ buffered \in [Ids -> [Keys -> Seq(Envelope)]]
  /\ queryResults \in [Ids -> [Names -> Value]]
  /\ final \in [Ids -> Response]
  /\ cpc \in [Clients -> {"idle", "sending", "calling", "awaiting", "getting"}]
  /\ cop \in [Clients -> Op \cup {Nil}]
  /\ ops \in [Clients -> Nat]
  /\ resp \in [Clients -> Seq(Response)]
  /\ got \in [Clients -> Response]
  /\ accepted \in [Ids -> Nat]
  /\ handled \in [Ids -> Seq(Envelope)]

Init ==
  /\ now = 0
  /\ pc = [i \in Ids |-> "absent"]
  /\ cur = [i \in Ids |-> Nil]
  /\ out = [i \in Ids |-> Nil]
  /\ eff = [i \in Ids |-> 0]
  /\ since = [i \in Ids |-> 0]
  /\ replyTo = [i \in Ids |-> NoClient]
  /\ sendCh = [i \in Ids |-> <<>>]
  /\ buffered = [i \in Ids |-> [k \in Keys |-> <<>>]]
  /\ queryResults = [i \in Ids |-> [n \in Names |-> Nil]]
  /\ final = [i \in Ids |-> Blank]
  /\ cpc = [c \in Clients |-> "idle"]
  /\ cop = [c \in Clients |-> Nil]
  /\ ops = [c \in Clients |-> 0]
  /\ resp = [c \in Clients |-> <<>>]
  /\ got = [c \in Clients |-> Blank]
  /\ accepted = [i \in Ids |-> 0]
  /\ handled = [i \in Ids |-> <<>>]

-----------------------------------------------------------------------------
(* Channels and the table of instances.                                    *)

Exists(i) == pc[i] # "absent"

\* Runtime.start: the id must be new; instances are never removed.
StartInstance(i, k, x) ==
  /\ pc' = [pc EXCEPT ![i] = "run"]
  /\ cur' = [cur EXCEPT ![i] = [key |-> k, input |-> x, msg |-> Nil]]

\* target.sendCh <- sendMsg{key, msg}: blocks while the channel is full.
Enqueue(i, k, m) ==
  /\ Len(sendCh[i]) < SendCap
  /\ sendCh' = [sendCh EXCEPT ![i] = Append(@, [key |-> k, msg |-> m, n |-> accepted[i] + 1])]
  /\ accepted' = [accepted EXCEPT ![i] = @ + 1]

\* respCh <- callResp{...}: the channel has room for one response.
Respond(c, ok, v) == resp' = [resp EXCEPT ![c] = Append(@, [ok |-> ok, value |-> v])]

-----------------------------------------------------------------------------
(* runHandler and applyContextEffects.                                     *)

\* A failed attempt is dropped with everything it buffered.  The recovery
\* handler runs after the first failure; its failure fails the routine.
Recover(i, key, input, msg) ==
  LET te == Recovery[key]
  IN  IF te = Nil \/ te \notin Registered
      THEN {Failure}
      ELSE {IF a.ok THEN a ELSE Failure : a \in Runner(i, te, input, msg, now)}

\* A faulty variant: the recovered attempt keeps the context of the failed one.
OutcomesKeepingContext(i, key, input, msg) ==
  IF key \notin Registered
  THEN {Failure}
  ELSE UNION {IF a.ok THEN {a}
              ELSE {[b EXCEPT !.queries = a.queries, !.sends = a.sends] :
                      b \in Recover(i, key, input, msg)} :
                a \in Runner(i, key, input, msg, now)}

Outcomes(i, key, input, msg) ==
  IF key \notin Registered
  THEN {Failure}
  ELSE UNION {IF a.ok THEN {a} ELSE Recover(i, key, input, msg) :
                a \in Runner(i, key, input, msg, now)}

RunHandler(i) ==
  /\ pc[i] = "run"
  /\ \E a \in Outcomes(i, cur[i].key, cur[i].input, cur[i].msg) :
       /\ out' = [out EXCEPT ![i] = a]
       /\ queryResults' = [queryResults EXCEPT ![i] = Merge(@, a.queries)]
  /\ eff' = [eff EXCEPT ![i] = 0]
  /\ pc' = [pc EXCEPT ![i] = "effects"]
  /\ UNCHANGED <<now, cur, since, replyTo, final, sendCh, buffered, clientVars, history>>

Starts(i) == out[i].starts
Sends(i)  == out[i].sends
Applied(i) == eff[i] >= Len(Starts(i)) + Len(Sends(i))

\* A faulty variant: the child is left to start in the background.
StartChildLater(i) ==
  /\ pc[i] = "effects"
  /\ eff[i] < Len(Starts(i))
  /\ eff' = [eff EXCEPT ![i] = @ + 1]
  /\ UNCHANGED <<now, pc, cur, out, since, replyTo, final, chanVars, clientVars, history>>

\* r.start's error is ignored: a child whose id is taken is not started.
StartChild(i) ==
  /\ pc[i] = "effects"
  /\ eff[i] < Len(Starts(i))
  /\ LET s == Starts(i)[eff[i] + 1]
     IN  IF Exists(s.id) THEN UNCHANGED <<pc, cur>> ELSE StartInstance(s.id, s.key, s.input)
  /\ eff' = [eff EXCEPT ![i] = @ + 1]
  /\ UNCHANGED <<now, out, since, replyTo, final, chanVars, clientVars, history>>

\* A faulty variant: a send that finds the channel full is dropped.
DeliverSendOrDrop(i) ==
  /\ pc[i] = "effects"
  /\ eff[i] >= Len(Starts(i)) /\ ~Applied(i)
  /\ LET s == Sends(i)[eff[i] - Len(Starts(i)) + 1]
     IN  IF Exists(s.id) /\ Len(sendCh[s.id]) < SendCap
         THEN Enqueue(s.id, s.key, s.msg) ELSE UNCHANGED <<sendCh, accepted>>
  /\ eff' = [eff EXCEPT ![i] = @ + 1]
  /\ UNCHANGED <<now, pc, cur, out, since, replyTo, final, buffered, queryResults,
                 clientVars, handled>>

\* A send to an id no instance has is skipped.
DeliverSend(i) ==
  /\ pc[i] = "effects"
  /\ eff[i] >= Len(Starts(i)) /\ ~Applied(i)
  /\ LET s == Sends(i)[eff[i] - Len(Starts(i)) + 1]
     IN  IF Exists(s.id) THEN Enqueue(s.id, s.key, s.msg) ELSE UNCHANGED <<sendCh, accepted>>
  /\ eff' = [eff EXCEPT ![i] = @ + 1]
  /\ UNCHANGED <<now, pc, cur, out, since, replyTo, final, buffered, queryResults,
                 clientVars, handled>>

-----------------------------------------------------------------------------
(* runInstance: what follows an invocation.                                *)

\* A faulty variant: respCh is not reset after the response.
ReplyAndKeep(i) ==
  /\ pc[i] = "effects" /\ Applied(i)
  /\ replyTo[i] # NoClient
  /\ out[i].done
  /\ Respond(replyTo[i], out[i].ok, out[i].resp)
  /\ pc' = [pc EXCEPT ![i] = "done"]
  /\ UNCHANGED <<now, cur, out, eff, since, replyTo, final, chanVars, cpc, cop, ops, got, history>>

\* The response, or the error, of the invocation that served a Call.
ReplyToCaller(i) ==
  /\ pc[i] = "effects" /\ Applied(i)
  /\ replyTo[i] # NoClient
  /\ Respond(replyTo[i], out[i].ok, out[i].resp)
  /\ replyTo' = [replyTo EXCEPT ![i] = NoClient]
  /\ UNCHANGED <<now, pc, cur, out, eff, since, final, chanVars, cpc, cop, ops, got, history>>

\* A faulty variant: doneChan is closed before the result is set.
FinishWithoutResult(i) ==
  /\ pc[i] = "effects" /\ Applied(i)
  /\ replyTo[i] = NoClient
  /\ out[i].done
  /\ pc' = [pc EXCEPT ![i] = "done"]
  /\ UNCHANGED <<now, cur, out, eff, since, replyTo, final, chanVars, clientVars, history>>

\* Return: result or err is set and doneChan is closed.
Finish(i) ==
  /\ pc[i] = "effects" /\ Applied(i)
  /\ replyTo[i] = NoClient
  /\ out[i].done
  /\ final' = [final EXCEPT ![i] = [ok |-> out[i].ok, value |-> out[i].result]]
  /\ pc' = [pc EXCEPT ![i] = "done"]
  /\ UNCHANGED <<now, cur, out, eff, since, replyTo, chanVars, clientVars, history>>

Cases(i) == out[i].cases
CasesOf(i, kind) == {n \in DOMAIN Cases(i) : Cases(i)[n].kind = kind}
First(S) == CHOOSE n \in S : \A m \in S : n <= m

\* A faulty variant: input and message are swapped.
FireSwapped(i, n, m, c) ==
  /\ cur' = [cur EXCEPT ![i] = [key |-> Cases(i)[n].key, input |-> m, msg |-> Cases(i)[n].input]]
  /\ replyTo' = [replyTo EXCEPT ![i] = c]
  /\ pc' = [pc EXCEPT ![i] = "run"]
  /\ UNCHANGED <<now, out, eff, since, final, queryResults>>

\* The n-th case fires with message m, on behalf of caller c (or NoClient).
Fire(i, n, m, c) ==
  /\ cur' = [cur EXCEPT ![i] = [key |-> Cases(i)[n].key, input |-> Cases(i)[n].input, msg |-> m]]
  /\ replyTo' = [replyTo EXCEPT ![i] = c]
  /\ pc' = [pc EXCEPT ![i] = "run"]
  /\ UNCHANGED <<now, out, eff, since, final, queryResults>>

\* A sole immediate case (Continue) fires without waiting.
SoleImmediate(i) == Len(Cases(i)) = 1 /\ Cases(i)[1].kind = "immediate"

ContinueAtOnce(i) ==
  /\ pc[i] = "effects" /\ Applied(i)
  /\ replyTo[i] = NoClient
  /\ ~out[i].done
  /\ SoleImmediate(i)
  /\ Fire(i, 1, Nil, NoClient)
  /\ UNCHANGED <<sendCh, buffered, clientVars, history>>

\* A faulty variant: the instance waits before it has answered its caller.
EnterWaitUnanswered(i) ==
  /\ pc[i] = "effects" /\ Applied(i)
  /\ ~out[i].done
  /\ ~SoleImmediate(i)
  /\ since' = [since EXCEPT ![i] = now]
  /\ pc' = [pc EXCEPT ![i] = "poll"]
  /\ UNCHANGED <<now, cur, out, eff, replyTo, final, chanVars, clientVars, history>>

EnterWait(i) ==
  /\ pc[i] = "effects" /\ Applied(i)
  /\ replyTo[i] = NoClient
  /\ ~out[i].done
  /\ ~SoleImmediate(i)
  /\ since' = [since EXCEPT ![i] = now]
  /\ pc' = [pc EXCEPT ![i] = "poll"]
  /\ UNCHANGED <<now, cur, out, eff, replyTo, final, chanVars, clientVars, history>>

-----------------------------------------------------------------------------
(* waitForCase: the polling loop.                                          *)

Deadline(i, n) == since[i] + Cases(i)[n].dur

\* MaxNow stands for any time late enough: every timer has expired by then.
Expired(i) == {n \in CasesOf(i, "after") : now >= Deadline(i, n) \/ now = MaxNow}
Buffered(i) == {n \in CasesOf(i, "send") : buffered[i][Cases(i)[n].key] # <<>>}

Goto(i, l) ==
  /\ pc' = [pc EXCEPT ![i] = l]
  /\ UNCHANGED <<now, cur, out, eff, since, replyTo, final, queryResults>>

\* A faulty variant: the send that is taken stays set aside.
TakeBufferedAgain(i) ==
  /\ pc[i] = "poll"
  /\ Buffered(i) # {}
  /\ LET n == First(Buffered(i))
         e == Head(buffered[i][Cases(i)[n].key])
     IN  /\ Fire(i, n, e.msg, NoClient)
         /\ handled' = [handled EXCEPT ![i] = Append(@, e)]
  /\ UNCHANGED <<sendCh, buffered, clientVars, accepted>>

\* 2. Buffered sends, in case order.
TakeBuffered(i) ==
  /\ pc[i] = "poll"
  /\ Buffered(i) # {}
  /\ LET n == First(Buffered(i))
         k == Cases(i)[n].key
         e == Head(buffered[i][k])
     IN  /\ Fire(i, n, e.msg, NoClient)
         /\ buffered' = [buffered EXCEPT ![i][k] = Tail(@)]
         /\ handled' = [handled EXCEPT ![i] = Append(@, e)]
  /\ UNCHANGED <<sendCh, clientVars, accepted>>

\* 3. Expired timers, in case order.
TakeExpired(i) ==
  /\ pc[i] = "poll"
  /\ Buffered(i) = {}
  /\ Expired(i) # {}
  /\ Fire(i, First(Expired(i)), Nil, NoClient)
  /\ UNCHANGED <<sendCh, buffered, clientVars, history>>

\* A faulty variant: the round goes on without looking at the buffered sends.
PollNothingBlindly(i) ==
  /\ pc[i] = "poll"
  /\ Expired(i) = {}
  /\ Goto(i, "pollCall")
  /\ UNCHANGED <<sendCh, buffered, clientVars, history>>

PollNothing(i) ==
  /\ pc[i] = "poll"
  /\ Buffered(i) = {}
  /\ Expired(i) = {}
  /\ Goto(i, "pollCall")
  /\ UNCHANGED <<sendCh, buffered, clientVars, history>>

\* Clients parked on the callChan of i.
Callers(i) == {c \in Clients : cpc[c] = "calling" /\ cop[c].id = i}

\* Cases match on the name of the call, sends match on the whole key.
CallCases(i, c) == {n \in CasesOf(i, "call") : Cases(i)[n].name = cop[c].name}
SendCases(i, e) == {n \in CasesOf(i, "send") : Cases(i)[n].key = e.key}

\* A faulty variant: the caller is not remembered.
AcceptCallUnanswered(i, c) ==
  /\ CallCases(i, c) # {}
  /\ Fire(i, First(CallCases(i, c)), cop[c].arg, NoClient)
  /\ cpc' = [cpc EXCEPT ![c] = "awaiting"]
  /\ UNCHANGED <<sendCh, buffered, cop, ops, resp, got, history>>

\* A call that some case is waiting for fires that case ...
AcceptCall(i, c) ==
  /\ CallCases(i, c) # {}
  /\ Fire(i, First(CallCases(i, c)), cop[c].arg, c)
  /\ cpc' = [cpc EXCEPT ![c] = "awaiting"]
  /\ UNCHANGED <<sendCh, buffered, cop, ops, resp, got, history>>

\* A faulty variant: an unmatched call is dropped without an answer.
RejectCallSilently(i, c, l) ==
  /\ CallCases(i, c) = {}
  /\ cpc' = [cpc EXCEPT ![c] = "awaiting"]
  /\ Goto(i, l)
  /\ UNCHANGED <<sendCh, buffered, cop, ops, resp, got, history>>

\* ... and any other is answered with an error while i goes on to label l.
RejectCall(i, c, l) ==
  /\ CallCases(i, c) = {}
  /\ Respond(c, FALSE, Nil)
  /\ cpc' = [cpc EXCEPT ![c] = "awaiting"]
  /\ Goto(i, l)
  /\ UNCHANGED <<sendCh, buffered, cop, ops, got, history>>

\* A send that some case is waiting for fires that case ...
AcceptSend(i) ==
  LET e == Head(sendCh[i]) IN
  /\ SendCases(i, e) # {}
  /\ Fire(i, First(SendCases(i, e)), e.msg, NoClient)
  /\ sendCh' = [sendCh EXCEPT ![i] = Tail(@)]
  /\ handled' = [handled EXCEPT ![i] = Append(@, e)]
  /\ UNCHANGED <<buffered, clientVars, accepted>>

\* Faulty variants: an unmatched send is dropped, or set aside in front.
SetAsideNowhere(i, l) ==
  LET e == Head(sendCh[i]) IN
  /\ SendCases(i, e) = {}
  /\ sendCh' = [sendCh EXCEPT ![i] = Tail(@)]
  /\ Goto(i, l)
  /\ UNCHANGED <<buffered, clientVars, history>>

SetAsideInFront(i, l) ==
  LET e == Head(sendCh[i]) IN
  /\ SendCases(i, e) = {}
  /\ sendCh' = [sendCh EXCEPT ![i] = Tail(@)]
  /\ buffered' = [buffered EXCEPT ![i][e.key] = <<e>> \o @]
  /\ Goto(i, l)
  /\ UNCHANGED <<clientVars, history>>

\* ... and any other is set aside while i goes on to label l.
SetAside(i, l) ==
  LET e == Head(sendCh[i]) IN
  /\ SendCases(i, e) = {}
  /\ sendCh' = [sendCh EXCEPT ![i] = Tail(@)]
  /\ buffered' = [buffered EXCEPT ![i][e.key] = Append(@, e)]
  /\ Goto(i, l)
  /\ UNCHANGED <<clientVars, history>>

\* 4. tryReceiveCall: polls callChan only if some case is a call.
PollCall(i) ==
  /\ pc[i] = "pollCall"
  /\ \/ /\ CasesOf(i, "call") = {} \/ Callers(i) = {}
        /\ Goto(i, "pollSend")
        /\ UNCHANGED <<sendCh, buffered, clientVars, history>>
     \/ /\ CasesOf(i, "call") # {}
        /\ \E c \in Callers(i) : AcceptCall(i, c) \/ RejectCall(i, c, "pollSend")

\* 4. tryReceiveSend: at most one send per round.
PollSend(i) ==
  /\ pc[i] = "pollSend"
  /\ \/ /\ sendCh[i] = <<>>
        /\ Goto(i, "default")
        /\ UNCHANGED <<sendCh, buffered, clientVars, history>>
     \/ /\ sendCh[i] # <<>>
        /\ AcceptSend(i) \/ SetAside(i, "default")

\* 5. Default: the first immediate case.
TakeDefault(i) ==
  /\ pc[i] = "default"
  /\ CasesOf(i, "immediate") # {}
  /\ Fire(i, First(CasesOf(i, "immediate")), Nil, NoClient)
  /\ UNCHANGED <<sendCh, buffered, clientVars, history>>

-----------------------------------------------------------------------------
(* blockForCase.                                                           *)

\* The timer with the nearest deadline, the first of them on a tie.
Nearest(i) ==
  First({n \in CasesOf(i, "after") :
           \A m \in CasesOf(i, "after") : Deadline(i, n) <= Deadline(i, m)})

\* A timer that expired on the way here fires; otherwise the select blocks.
Block(i) ==
  /\ pc[i] = "default"
  /\ CasesOf(i, "immediate") = {}
  /\ IF Expired(i) = {} THEN Goto(i, "block") ELSE Fire(i, Nearest(i), Nil, NoClient)
  /\ UNCHANGED <<sendCh, buffered, clientVars, history>>

\* The select takes any ready channel; an unmatched message loops back.
SelectSend(i) ==
  /\ pc[i] = "block"
  /\ sendCh[i] # <<>>
  /\ AcceptSend(i) \/ SetAside(i, "poll")

SelectCall(i) ==
  /\ pc[i] = "block"
  /\ \E c \in Callers(i) : AcceptCall(i, c) \/ RejectCall(i, c, "poll")

SelectTimer(i) ==
  /\ pc[i] = "block"
  /\ Expired(i) # {}
  /\ Fire(i, Nearest(i), Nil, NoClient)
  /\ UNCHANGED <<sendCh, buffered, clientVars, history>>

-----------------------------------------------------------------------------
(* Clients.                                                                *)

Choose(c, o) ==
  /\ cpc[c] = "idle"
  /\ ops[c] < MaxOps
  /\ o \in Script(c, ops[c] + 1)
  /\ ops' = [ops EXCEPT ![c] = @ + 1]
  /\ cop' = [cop EXCEPT ![c] = o]

GotBack(c, ok, v) == got' = [got EXCEPT ![c] = [ok |-> ok, value |-> v]]

ClientGo(c, o) ==
  /\ o.op = "go"
  /\ Choose(c, o)
  /\ IF Exists(o.id) THEN UNCHANGED <<pc, cur>> ELSE StartInstance(o.id, o.key, o.arg)
  /\ GotBack(c, ~Exists(o.id), Nil)
  /\ UNCHANGED <<now, out, eff, since, replyTo, final, chanVars, cpc, resp, history>>

\* Send, Call, Query and Get of an id no instance has return an error.
ClientNotFound(c, o) ==
  /\ o.op # "go"
  /\ ~Exists(o.id)
  /\ Choose(c, o)
  /\ GotBack(c, FALSE, Nil)
  /\ UNCHANGED <<now, instVars, chanVars, cpc, resp, history>>

\* Send, Call and Get block on a channel of the instance they looked up.
ClientBlock(c, o) ==
  /\ o.op \in {"send", "call", "get"}
  /\ Exists(o.id)
  /\ Choose(c, o)
  /\ cpc' = [cpc EXCEPT ![c] = CASE o.op = "send" -> "sending"
                                 [] o.op = "call" -> "calling"
                                 [] o.op = "get"  -> "getting"]
  /\ UNCHANGED <<now, instVars, chanVars, resp, got, history>>

ClientSend(c) ==
  /\ cpc[c] = "sending"
  /\ Enqueue(cop[c].id, cop[c].key, cop[c].arg)
  /\ cpc' = [cpc EXCEPT ![c] = "idle"]
  /\ GotBack(c, TRUE, Nil)
  /\ UNCHANGED <<now, instVars, buffered, queryResults, cop, ops, resp, handled>>

ClientCallReturn(c) ==
  /\ cpc[c] = "awaiting"
  /\ resp[c] # <<>>
  /\ GotBack(c, Head(resp[c]).ok, Head(resp[c]).value)
  /\ resp' = [resp EXCEPT ![c] = Tail(@)]
  /\ cpc' = [cpc EXCEPT ![c] = "idle"]
  /\ UNCHANGED <<now, instVars, chanVars, cop, ops, history>>

\* Query answers from the stored results, whether or not i is running.
ClientQuery(c, o) ==
  /\ o.op = "query"
  /\ Exists(o.id)
  /\ Choose(c, o)
  /\ LET v == queryResults[o.id][o.name] IN GotBack(c, v # Nil, v)
  /\ UNCHANGED <<now, instVars, chanVars, cpc, resp, history>>

ClientGetReturn(c) ==
  /\ cpc[c] = "getting"
  /\ pc[cop[c].id] = "done"
  /\ got' = [got EXCEPT ![c] = final[cop[c].id]]
  /\ cpc' = [cpc EXCEPT ![c] = "idle"]
  /\ UNCHANGED <<now, instVars, chanVars, cop, ops, resp, history>>

-----------------------------------------------------------------------------
Tick ==
  /\ now < MaxNow
  /\ now' = now + 1
  /\ UNCHANGED <<instVars, chanVars, clientVars, history>>

Instance(i) ==
  \/ RunHandler(i)    \/ StartChild(i)     \/ DeliverSend(i)
  \/ ReplyToCaller(i) \/ Finish(i)         \/ ContinueAtOnce(i) \/ EnterWait(i)
  \/ TakeBuffered(i)  \/ TakeExpired(i)    \/ PollNothing(i)
  \/ PollCall(i)      \/ PollSend(i)       \/ TakeDefault(i)
  \/ Block(i)         \/ SelectSend(i)     \/ SelectCall(i)     \/ SelectTimer(i)

\* A client that has called an operation.
Resume(c) == ClientSend(c) \/ ClientCallReturn(c) \/ ClientGetReturn(c)

Invoke(c) ==
  \E n \in 1..MaxOps : \E o \in Script(c, n) :
    ClientGo(c, o) \/ ClientNotFound(c, o) \/ ClientBlock(c, o) \/ ClientQuery(c, o)

Next ==
  \/ Tick
  \/ \E i \in Ids : Instance(i)
  \/ \E c \in Clients : Resume(c) \/ Invoke(c)

Spec == Init /\ [][Next]_vars

\* The Go scheduler runs every runnable goroutine, a goroutine blocked on a
\* channel gets its turn (Go's channel queues are FIFO), and time passes.
\* Nothing obliges a client to call another operation.
Fairness ==
  /\ WF_vars(Tick)
  /\ \A i \in Ids : WF_vars(Instance(i))
  /\ \A c \in Clients : SF_vars(Resume(c))

FairSpec == Spec /\ Fairness

=============================================================================
