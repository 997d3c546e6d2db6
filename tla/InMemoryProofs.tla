--------------------------- MODULE InMemoryProofs ---------------------------
(***************************************************************************)
(* Proofs about the in-memory backend, for every program, every number of  *)
(* routines and clients and every capacity of the channels.                *)
(***************************************************************************)
EXTENDS InMemoryProperties, SequenceTheorems, WellFoundedInduction, TLAPS

Invocation == [key : Keys, input : Inputs, msg : Msg]

\* What the control state of instances and clients implies about their data.
WellFormed ==
  /\ \A i \in Ids : pc[i] # "absent" => cur[i] \in Invocation
  /\ \A i \in Ids : pc[i] \notin {"absent", "run"} => out[i] \in Attempt
  /\ \A c \in Clients : cpc[c] # "idle" => cop[c] \in Op
  /\ \A c \in Clients : cpc[c] \in {"sending", "calling"} => cop[c].arg \in Messages

TypeInv == TypeOK /\ WellFormed

-----------------------------------------------------------------------------
(* What a program hands to the runtime.                                    *)

LEMMA FailureType == Failure \in Attempt
<1>1. [n \in {} |-> Nil] \in UNION {[Q -> Results] : Q \in SUBSET Names}
  <2>1. [n \in {} |-> Nil] \in [{} -> Results]
    OBVIOUS
  <2>2. {} \in SUBSET Names
    OBVIOUS
  <2> QED
    BY <2>1, <2>2
<1>2. Failure = [ok |-> FALSE, queries |-> [n \in {} |-> Nil], starts |-> <<>>, sends |-> <<>>,
                 done |-> TRUE, result |-> Nil, cases |-> <<>>, resp |-> Nil]
  BY DEF Failure, Fail, RunOutput, NewContext, Done
<1> QED
  BY <1>1, <1>2 DEF Attempt, Value

\* Whatever runHandler's outcome, it is an attempt of the right type.
LEMMA OutcomesType ==
  ASSUME now \in Time, NEW i \in Ids, NEW k \in Keys, NEW x \in Inputs, NEW m \in Msg
  PROVE  Outcomes(i, k, x, m) \subseteq Attempt
<1>1. k \in Registered => Runner(i, k, x, m, now) \subseteq Attempt
  BY DurableAssumption
<1>2. Recover(i, k, x, m) \subseteq Attempt
  <2>1. CASE Recovery[k] \in Registered
    <3>1. Runner(i, Recovery[k], x, m, now) \subseteq Attempt
      BY <2>1, DurableAssumption
    <3> QED
      BY <2>1, <3>1, FailureType DEF Recover
  <2>2. CASE Recovery[k] \notin Registered
    BY <2>2, FailureType DEF Recover
  <2> QED
    BY <2>1, <2>2
<1> QED
  BY <1>1, <1>2, FailureType DEF Outcomes

LEMMA MergeType ==
  ASSUME NEW s \in [Names -> Value], NEW q \in UNION {[Q -> Results] : Q \in SUBSET Names}
  PROVE  Merge(s, q) \in [Names -> Value]
<1>1. PICK Q \in SUBSET Names : q \in [Q -> Results]
  OBVIOUS
<1> QED
  BY <1>1 DEF Merge, Value

Less == {p \in Nat \X Nat : p[1] < p[2]}

\* First picks the least element of a set of case indices.
LEMMA FirstIsLeast ==
  ASSUME NEW S \in SUBSET Nat, S # {}
  PROVE  First(S) \in S /\ \A m \in S : First(S) <= m
<1>1. IsWellFoundedOn(Less, Nat)
  BY NatLessThanWellFounded DEF Less, OpToRel
<1>2. \E n \in S : \A m \in S : <<m, n>> \notin Less
  BY <1>1, WFMin
<1>3. PICK n \in S : \A m \in S : <<m, n>> \notin Less
  BY <1>2
<1>4. ASSUME NEW m \in S
      PROVE  n <= m
  <2>1. m \in Nat /\ n \in Nat /\ <<m, n>> \in Nat \X Nat
    BY <1>3
  <2>2. ~ (m < n)
    BY <1>3, <2>1 DEF Less
  <2> QED
    BY <2>1, <2>2
<1> QED
  BY <1>3, <1>4 DEF First

-----------------------------------------------------------------------------
(* Type correctness.                                                       *)

\* Where a firing case leaves the control state.
LEMMA FireType ==
  ASSUME TypeInv, NEW i \in Ids, pc[i] \notin {"absent", "run"},
         NEW n \in DOMAIN Cases(i), NEW m \in Msg, NEW c \in Clients \cup {NoClient},
         Fire(i, n, m, c)
  PROVE  /\ now' \in Time
         /\ pc' = [pc EXCEPT ![i] = "run"]
         /\ cur' \in [Ids -> Invocation \cup {Nil}] /\ cur'[i] \in Invocation
         /\ \A j \in Ids : j # i => cur'[j] = cur[j]
         /\ replyTo' \in [Ids -> Clients \cup {NoClient}]
         /\ UNCHANGED <<now, out, eff, since, final, queryResults>>
<1>1. out[i] \in Attempt
  BY DEF TypeInv, WellFormed
<1>2. Cases(i)[n] \in Case
  BY <1>1 DEF Cases, Attempt
<1>3. [key |-> Cases(i)[n].key, input |-> Cases(i)[n].input, msg |-> m] \in Invocation
  BY <1>2 DEF Case, Invocation
<1> QED
  BY <1>3 DEF TypeInv, TypeOK, Fire, Invocation

\* A send that a channel holds or held is an envelope.
LEMMA EnvelopeTypes ==
  ASSUME TypeInv, NEW i \in Ids
  PROVE  /\ sendCh[i] # <<>> => /\ Head(sendCh[i]) \in Envelope
                              /\ Tail(sendCh[i]) \in Seq(Envelope)
         /\ \A k \in Keys : buffered[i][k] # <<>> =>
               /\ Head(buffered[i][k]) \in Envelope
               /\ Tail(buffered[i][k]) \in Seq(Envelope)
BY DEF TypeInv, TypeOK

LEMMA CaseKeys ==
  ASSUME TypeInv, NEW i \in Ids, pc[i] \notin {"absent", "run"}
  PROVE  /\ DOMAIN Cases(i) \in SUBSET Nat
         /\ \A n \in DOMAIN Cases(i) : Cases(i)[n] \in Case
<1>1. out[i] \in Attempt
  BY DEF TypeInv, WellFormed
<1> QED
  BY <1>1 DEF Cases, Attempt

LEMMA TypeInvInit == Init => TypeInv
<1> SUFFICES ASSUME Init PROVE TypeInv
  OBVIOUS
<1>1. now \in Time
  BY DurableAssumption DEF Init, Time
<1>2. final \in [Ids -> Response] /\ got \in [Clients -> Response]
  BY DEF Init, Blank, Response, Value
<1>3. TypeOK
  BY <1>1, <1>2 DEF Init, TypeOK, Value
<1>4. WellFormed
  BY DEF Init, WellFormed
<1> QED
  BY <1>3, <1>4 DEF TypeInv

LEMMA TypeInvRunHandler ==
  ASSUME TypeInv, NEW i \in Ids, RunHandler(i)
  PROVE  TypeInv'
<1>1. cur[i] \in Invocation
  BY DEF TypeInv, WellFormed, RunHandler
<1>2. PICK a \in Outcomes(i, cur[i].key, cur[i].input, cur[i].msg) :
        /\ out' = [out EXCEPT ![i] = a]
        /\ queryResults' = [queryResults EXCEPT ![i] = Merge(@, a.queries)]
  BY DEF RunHandler
<1>3. a \in Attempt
  BY <1>1, <1>2, OutcomesType DEF TypeInv, TypeOK, Invocation
<1>4. Merge(queryResults[i], a.queries) \in [Names -> Value]
  BY <1>3, MergeType DEF TypeInv, TypeOK, Attempt
<1>5. TypeOK'
  BY <1>2, <1>3, <1>4 DEF TypeInv, TypeOK, RunHandler, clientVars, history
<1>6. WellFormed'
  BY <1>2, <1>3 DEF TypeInv, TypeOK, WellFormed, RunHandler, clientVars
<1> QED
  BY <1>5, <1>6 DEF TypeInv

LEMMA TypeInvStartChild ==
  ASSUME TypeInv, NEW i \in Ids, StartChild(i)
  PROVE  TypeInv'
<1>1. out[i] \in Attempt
  BY DEF TypeInv, WellFormed, StartChild
<1> DEFINE s == Starts(i)[eff[i] + 1]
<1>2. s \in StartRequest
  BY <1>1 DEF Attempt, Starts, StartChild, TypeInv, TypeOK
<1>3. [key |-> s.key, input |-> s.input, msg |-> Nil] \in Invocation
  BY <1>2 DEF StartRequest, Invocation, Msg
<1> HIDE DEF s
<1>4. \/ pc' = pc /\ cur' = cur
      \/ /\ pc' = [pc EXCEPT ![s.id] = "run"]
         /\ cur' = [cur EXCEPT ![s.id] = [key |-> s.key, input |-> s.input, msg |-> Nil]]
  BY DEF StartChild, StartInstance, s
<1>5. TypeOK'
  <2>1. cur' \in [Ids -> Invocation \cup {Nil}]
    BY <1>3, <1>4 DEF TypeInv, TypeOK, Invocation
  <2>2. pc' \in [Ids -> {"absent", "run", "effects", "poll", "pollCall", "pollSend",
                        "default", "block", "done"}]
    BY <1>4 DEF TypeInv, TypeOK
  <2>3. eff' \in [Ids -> Nat]
    BY DEF TypeInv, TypeOK, StartChild
  <2> QED
    BY <2>1, <2>2, <2>3
    DEF TypeInv, TypeOK, StartChild, Invocation, clientVars, chanVars, history
<1>6. WellFormed'
  BY <1>3, <1>4 DEF TypeInv, TypeOK, WellFormed, StartChild, clientVars
<1> QED
  BY <1>5, <1>6 DEF TypeInv

LEMMA EnqueueType ==
  ASSUME TypeInv, NEW i \in Ids, NEW k \in Keys, NEW m \in Messages, Enqueue(i, k, m)
  PROVE  /\ sendCh' \in [Ids -> Seq(Envelope)]
         /\ accepted' \in [Ids -> Nat]
<1>1. [key |-> k, msg |-> m, n |-> accepted[i] + 1] \in Envelope
  BY DEF Envelope, TypeInv, TypeOK
<1> QED
  BY <1>1 DEF Enqueue, TypeInv, TypeOK

LEMMA TypeInvDeliverSend ==
  ASSUME TypeInv, NEW i \in Ids, DeliverSend(i)
  PROVE  TypeInv'
<1>1. out[i] \in Attempt
  BY DEF TypeInv, WellFormed, DeliverSend
<1> DEFINE s == Sends(i)[eff[i] - Len(Starts(i)) + 1]
<1>2. s \in SendRequest
  <2>1. Starts(i) \in Seq(StartRequest) /\ Sends(i) \in Seq(SendRequest)
    BY <1>1 DEF Attempt, Starts, Sends
  <2>2. eff[i] - Len(Starts(i)) + 1 \in 1..Len(Sends(i))
    BY <2>1 DEF DeliverSend, Applied, TypeInv, TypeOK
  <2> QED
    BY <2>1, <2>2
<1> HIDE DEF s
<1>3. sendCh' \in [Ids -> Seq(Envelope)] /\ accepted' \in [Ids -> Nat]
  <2>1. CASE Exists(s.id)
    BY <2>1, <1>2, EnqueueType DEF DeliverSend, SendRequest, s
  <2>2. CASE ~ Exists(s.id)
    BY <2>2 DEF DeliverSend, TypeInv, TypeOK, s
  <2> QED
    BY <2>1, <2>2
<1>4. TypeOK'
  <2>1. eff' \in [Ids -> Nat]
    BY DEF TypeInv, TypeOK, DeliverSend
  <2> QED
    BY <1>3, <2>1 DEF TypeInv, TypeOK, DeliverSend, clientVars
<1>5. WellFormed'
  BY DEF TypeInv, WellFormed, DeliverSend, clientVars
<1> QED
  BY <1>4, <1>5 DEF TypeInv

LEMMA TypeInvReplyToCaller ==
  ASSUME TypeInv, NEW i \in Ids, ReplyToCaller(i)
  PROVE  TypeInv'
<1>1. out[i] \in Attempt
  BY DEF TypeInv, WellFormed, ReplyToCaller
<1>2. [ok |-> out[i].ok, value |-> out[i].resp] \in Response
  BY <1>1 DEF Attempt, Response
<1>3. TypeOK'
  BY <1>2 DEF TypeInv, TypeOK, ReplyToCaller, Respond, chanVars, history
<1>4. WellFormed'
  BY DEF TypeInv, WellFormed, ReplyToCaller
<1> QED
  BY <1>3, <1>4 DEF TypeInv

LEMMA TypeInvFinish ==
  ASSUME TypeInv, NEW i \in Ids, Finish(i)
  PROVE  TypeInv'
<1>1. out[i] \in Attempt
  BY DEF TypeInv, WellFormed, Finish
<1>2. [ok |-> out[i].ok, value |-> out[i].result] \in Response
  BY <1>1 DEF Attempt, Response
<1>3. TypeOK'
  BY <1>2 DEF TypeInv, TypeOK, Finish, chanVars, clientVars, history
<1>4. WellFormed'
  BY DEF TypeInv, TypeOK, WellFormed, Finish, clientVars
<1> QED
  BY <1>3, <1>4 DEF TypeInv

LEMMA TypeInvEnterWait ==
  ASSUME TypeInv, NEW i \in Ids, EnterWait(i)
  PROVE  TypeInv'
<1>1. TypeOK'
  BY DEF TypeInv, TypeOK, EnterWait, chanVars, clientVars, history
<1>2. WellFormed'
  BY DEF TypeInv, TypeOK, WellFormed, EnterWait, clientVars
<1> QED
  BY <1>1, <1>2 DEF TypeInv

\* What Goto changes.
LEMMA GotoType ==
  ASSUME TypeInv, NEW i \in Ids, pc[i] \notin {"absent", "run"},
         NEW l \in {"poll", "pollCall", "pollSend", "default", "block"}, Goto(i, l)
  PROVE  /\ pc' \in [Ids -> {"absent", "run", "effects", "poll", "pollCall", "pollSend",
                             "default", "block", "done"}]
         /\ \A j \in Ids : pc'[j] # "absent" => cur'[j] \in Invocation
         /\ \A j \in Ids : pc'[j] \notin {"absent", "run"} => out'[j] \in Attempt
BY DEF Goto, TypeInv, TypeOK, WellFormed

\* The same for Fire, with the conjuncts of TypeOK it leaves alone.
LEMMA FireInv ==
  ASSUME TypeInv, NEW i \in Ids, pc[i] \notin {"absent", "run"},
         NEW n \in DOMAIN Cases(i), NEW m \in Msg, NEW c \in Clients \cup {NoClient},
         Fire(i, n, m, c)
  PROVE  /\ pc' \in [Ids -> {"absent", "run", "effects", "poll", "pollCall", "pollSend",
                             "default", "block", "done"}]
         /\ cur' \in [Ids -> [key : Keys, input : Inputs, msg : Msg] \cup {Nil}]
         /\ replyTo' \in [Ids -> Clients \cup {NoClient}]
         /\ \A j \in Ids : pc'[j] # "absent" => cur'[j] \in Invocation
         /\ \A j \in Ids : pc'[j] \notin {"absent", "run"} => out'[j] \in Attempt
         /\ UNCHANGED <<now, out, eff, since, final, queryResults>>
BY FireType DEF TypeInv, TypeOK, WellFormed, Invocation

LEMMA FirstCase ==
  ASSUME TypeInv, NEW i \in Ids, pc[i] \notin {"absent", "run"},
         NEW S \in SUBSET DOMAIN Cases(i), S # {}
  PROVE  First(S) \in S
BY CaseKeys, FirstIsLeast

LEMMA TypeInvContinueAtOnce ==
  ASSUME TypeInv, NEW i \in Ids, ContinueAtOnce(i)
  PROVE  TypeInv'
<1>1. 1 \in DOMAIN Cases(i)
  <2>1. out[i] \in Attempt
    BY DEF TypeInv, WellFormed, ContinueAtOnce
  <2> QED
    BY <2>1 DEF ContinueAtOnce, SoleImmediate, Cases, Attempt
<1>2. Nil \in Msg /\ NoClient \in Clients \cup {NoClient} /\ pc[i] \notin {"absent", "run"}
  BY DEF Msg, ContinueAtOnce
<1> QED
  BY <1>1, <1>2, FireInv
  DEF ContinueAtOnce, TypeInv, TypeOK, WellFormed, clientVars, history

LEMMA TypeInvTakeBuffered ==
  ASSUME TypeInv, NEW i \in Ids, TakeBuffered(i)
  PROVE  TypeInv'
<1> DEFINE n == First(Buffered(i))
           k == Cases(i)[n].key
           e == Head(buffered[i][k])
<1>1. n \in Buffered(i) /\ n \in DOMAIN Cases(i)
  BY FirstCase DEF TakeBuffered, Buffered, CasesOf
<1>2. k \in Keys
  BY <1>1, CaseKeys DEF Case, TakeBuffered
<1>3. buffered[i][k] # <<>>
  BY <1>1 DEF Buffered
<1>4. e \in Envelope /\ Tail(buffered[i][k]) \in Seq(Envelope)
  BY <1>2, <1>3, EnvelopeTypes
<1>5. e.msg \in Msg
  BY <1>4 DEF Envelope, Msg
<1>6. /\ Fire(i, n, e.msg, NoClient)
      /\ buffered' = [buffered EXCEPT ![i][k] = Tail(@)]
      /\ handled' = [handled EXCEPT ![i] = Append(@, e)]
      /\ pc[i] \notin {"absent", "run"}
      /\ UNCHANGED <<sendCh, clientVars, accepted>>
  BY DEF TakeBuffered
<1> HIDE DEF n, k, e
<1>7. buffered' \in [Ids -> [Keys -> Seq(Envelope)]] /\ handled' \in [Ids -> Seq(Envelope)]
  BY <1>2, <1>4, <1>6 DEF TypeInv, TypeOK
<1> QED
  BY <1>1, <1>5, <1>6, <1>7, FireInv DEF TypeInv, TypeOK, WellFormed, clientVars

LEMMA TypeInvPollTimers ==
  ASSUME TypeInv, NEW i \in Ids, TakeExpired(i) \/ PollNothing(i)
  PROVE  TypeInv'
<1>1. CASE TakeExpired(i)
  <2>1. First(Expired(i)) \in DOMAIN Cases(i)
    BY <1>1, FirstCase DEF TakeExpired, Expired, CasesOf
  <2>2. Nil \in Msg /\ pc[i] \notin {"absent", "run"}
    BY <1>1 DEF Msg, TakeExpired
  <2> QED
    BY <1>1, <2>1, <2>2, FireInv
    DEF TakeExpired, TypeInv, TypeOK, WellFormed, clientVars, history
<1>2. CASE PollNothing(i)
  BY <1>2, GotoType DEF PollNothing, Goto, TypeInv, TypeOK, WellFormed, clientVars, history
<1> QED
  BY <1>1, <1>2

LEMMA TypeInvAcceptCall ==
  ASSUME TypeInv, NEW i \in Ids, NEW c \in Clients, pc[i] \notin {"absent", "run"},
         c \in Callers(i), AcceptCall(i, c)
  PROVE  TypeInv'
<1>1. First(CallCases(i, c)) \in DOMAIN Cases(i)
  BY FirstCase DEF AcceptCall, CallCases, CasesOf
<1>2. cop[c].arg \in Msg
  BY DEF Callers, TypeInv, WellFormed, Msg
<1>3. /\ pc' \in [Ids -> {"absent", "run", "effects", "poll", "pollCall", "pollSend",
                          "default", "block", "done"}]
      /\ cur' \in [Ids -> [key : Keys, input : Inputs, msg : Msg] \cup {Nil}]
      /\ replyTo' \in [Ids -> Clients \cup {NoClient}]
      /\ \A j \in Ids : pc'[j] # "absent" => cur'[j] \in Invocation
      /\ \A j \in Ids : pc'[j] \notin {"absent", "run"} => out'[j] \in Attempt
      /\ UNCHANGED <<now, out, eff, since, final, queryResults>>
  BY <1>1, <1>2, FireInv DEF AcceptCall
<1>4. TypeOK'
  BY <1>3 DEF AcceptCall, TypeInv, TypeOK, history
<1>5. WellFormed'
  BY <1>3 DEF AcceptCall, Callers, TypeInv, TypeOK, WellFormed
<1> QED
  BY <1>4, <1>5 DEF TypeInv

LEMMA TypeInvRejectCall ==
  ASSUME TypeInv, NEW i \in Ids, NEW c \in Clients, pc[i] \notin {"absent", "run"},
         c \in Callers(i), NEW l \in {"poll", "pollSend"}, RejectCall(i, c, l)
  PROVE  TypeInv'
<1>1. [ok |-> FALSE, value |-> Nil] \in Response
  BY DEF Response, Value
<1>2. TypeOK'
  <2>1. resp' \in [Clients -> Seq(Response)]
    BY <1>1 DEF RejectCall, Respond, TypeInv, TypeOK
  <2>2. cpc' \in [Clients -> {"idle", "sending", "calling", "awaiting", "getting"}]
    BY DEF RejectCall, TypeInv, TypeOK
  <2>3. pc' \in [Ids -> {"absent", "run", "effects", "poll", "pollCall", "pollSend",
                        "default", "block", "done"}]
    BY GotoType DEF RejectCall
  <2> QED
    BY <2>1, <2>2, <2>3 DEF RejectCall, Goto, TypeInv, TypeOK, history
<1>3. WellFormed'
  BY GotoType DEF RejectCall, Goto, Callers, TypeInv, TypeOK, WellFormed
<1> QED
  BY <1>2, <1>3 DEF TypeInv

LEMMA TypeInvAcceptSend ==
  ASSUME TypeInv, NEW i \in Ids, pc[i] \notin {"absent", "run"},
         sendCh[i] # <<>>, AcceptSend(i)
  PROVE  TypeInv'
<1> DEFINE e == Head(sendCh[i])
<1>1. First(SendCases(i, e)) \in DOMAIN Cases(i)
  BY FirstCase DEF AcceptSend, SendCases, CasesOf
<1>2. e \in Envelope /\ Tail(sendCh[i]) \in Seq(Envelope)
  BY EnvelopeTypes
<1>3. e.msg \in Msg
  BY <1>2 DEF Envelope, Msg
<1>4. sendCh' \in [Ids -> Seq(Envelope)] /\ handled' \in [Ids -> Seq(Envelope)]
  BY <1>2 DEF AcceptSend, TypeInv, TypeOK
<1> QED
  BY <1>1, <1>3, <1>4, FireInv DEF AcceptSend, TypeInv, TypeOK, WellFormed, clientVars

LEMMA TypeInvSetAside ==
  ASSUME TypeInv, NEW i \in Ids, pc[i] \notin {"absent", "run"},
         sendCh[i] # <<>>, NEW l \in {"poll", "default"}, SetAside(i, l)
  PROVE  TypeInv'
<1> DEFINE e == Head(sendCh[i])
<1>1. e \in Envelope /\ Tail(sendCh[i]) \in Seq(Envelope)
  BY EnvelopeTypes
<1>2. e.key \in Keys
  BY <1>1 DEF Envelope
<1>3. /\ sendCh' \in [Ids -> Seq(Envelope)]
      /\ buffered' \in [Ids -> [Keys -> Seq(Envelope)]]
  BY <1>1, <1>2 DEF SetAside, TypeInv, TypeOK
<1> QED
  BY <1>3, GotoType DEF SetAside, Goto, TypeInv, TypeOK, WellFormed, clientVars, history

LEMMA TypeInvPoll ==
  ASSUME TypeInv, NEW i \in Ids,
         PollCall(i) \/ PollSend(i) \/ SelectSend(i) \/ SelectCall(i)
  PROVE  TypeInv'
<1>1. CASE PollCall(i)
  <2>1. CASE /\ Goto(i, "pollSend")
             /\ UNCHANGED <<sendCh, buffered, clientVars, history>>
    BY <1>1, <2>1, GotoType
    DEF PollCall, Goto, TypeInv, TypeOK, WellFormed, clientVars, history
  <2>2. CASE \E c \in Callers(i) : AcceptCall(i, c) \/ RejectCall(i, c, "pollSend")
    BY <1>1, <2>2, TypeInvAcceptCall, TypeInvRejectCall DEF PollCall, Callers
  <2> QED
    BY <1>1, <2>1, <2>2 DEF PollCall
<1>2. CASE PollSend(i)
  <2>1. CASE /\ Goto(i, "default")
             /\ UNCHANGED <<sendCh, buffered, clientVars, history>>
    BY <1>2, <2>1, GotoType
    DEF PollSend, Goto, TypeInv, TypeOK, WellFormed, clientVars, history
  <2>2. CASE sendCh[i] # <<>> /\ (AcceptSend(i) \/ SetAside(i, "default"))
    BY <1>2, <2>2, TypeInvAcceptSend, TypeInvSetAside DEF PollSend
  <2> QED
    BY <1>2, <2>1, <2>2 DEF PollSend
<1>3. CASE SelectSend(i)
  BY <1>3, TypeInvAcceptSend, TypeInvSetAside DEF SelectSend
<1>4. CASE SelectCall(i)
  BY <1>4, TypeInvAcceptCall, TypeInvRejectCall DEF SelectCall, Callers
<1> QED
  BY <1>1, <1>2, <1>3, <1>4

\* The nearest timer is a timer of the instance.
LEMMA NearestCase ==
  ASSUME TypeInv, NEW i \in Ids, pc[i] \notin {"absent", "run"}, CasesOf(i, "after") # {}
  PROVE  Nearest(i) \in DOMAIN Cases(i) /\ Nearest(i) \in CasesOf(i, "after")
<1> DEFINE D == {Deadline(i, n) : n \in CasesOf(i, "after")}
<1>1. \A n \in CasesOf(i, "after") : Deadline(i, n) \in Nat
  <2>1. \A n \in CasesOf(i, "after") : Cases(i)[n].dur \in Nat
    BY CaseKeys DEF CasesOf, Case
  <2>2. since[i] \in Nat
    BY DurableAssumption DEF TypeInv, TypeOK, Time
  <2> QED
    BY <2>1, <2>2 DEF Deadline
<1>2. D \in SUBSET Nat /\ D # {}
  BY <1>1
<1>3. First(D) \in D /\ \A d \in D : First(D) <= d
  BY <1>2, FirstIsLeast
<1>4. PICK n \in CasesOf(i, "after") : Deadline(i, n) = First(D)
  BY <1>3
<1>5. \A m \in CasesOf(i, "after") : Deadline(i, n) <= Deadline(i, m)
  BY <1>3, <1>4
<1> DEFINE S == {k \in CasesOf(i, "after") :
                   \A m \in CasesOf(i, "after") : Deadline(i, k) <= Deadline(i, m)}
<1>6. S # {} /\ S \in SUBSET DOMAIN Cases(i)
  BY <1>4, <1>5 DEF CasesOf
<1>7. First(S) \in S
  BY <1>6, FirstCase
<1> QED
  BY <1>6, <1>7 DEF Nearest

LEMMA TypeInvBlock ==
  ASSUME TypeInv, NEW i \in Ids, TakeDefault(i) \/ Block(i) \/ SelectTimer(i)
  PROVE  TypeInv'
<1> USE DEF clientVars, history
<1>1. Nil \in Msg /\ pc[i] \notin {"absent", "run"}
  BY DEF Msg, TakeDefault, Block, SelectTimer
<1>2. CASE TakeDefault(i)
  <2>1. First(CasesOf(i, "immediate")) \in DOMAIN Cases(i)
    BY <1>1, <1>2, FirstCase DEF TakeDefault, CasesOf
  <2> QED
    BY <1>1, <1>2, <2>1, FireInv DEF TakeDefault, TypeInv, TypeOK, WellFormed
<1>3. CASE Block(i) /\ Expired(i) = {}
  BY <1>1, <1>3, GotoType DEF Block, Goto, TypeInv, TypeOK, WellFormed
<1>4. CASE (Block(i) /\ Expired(i) # {}) \/ SelectTimer(i)
  <2>1. Nearest(i) \in DOMAIN Cases(i)
    BY <1>1, <1>4, NearestCase DEF SelectTimer, Expired
  <2> QED
    BY <1>1, <1>4, <2>1, FireInv DEF Block, SelectTimer, TypeInv, TypeOK, WellFormed
<1> QED
  BY <1>2, <1>3, <1>4

LEMMA TypeInvInstance ==
  ASSUME TypeInv, NEW i \in Ids, Instance(i)
  PROVE  TypeInv'
BY TypeInvRunHandler, TypeInvStartChild, TypeInvDeliverSend, TypeInvReplyToCaller,
   TypeInvFinish, TypeInvContinueAtOnce, TypeInvEnterWait, TypeInvTakeBuffered,
   TypeInvPollTimers, TypeInvPoll, TypeInvBlock
DEF Instance

LEMMA TypeInvResume ==
  ASSUME TypeInv, NEW c \in Clients, Resume(c)
  PROVE  TypeInv'
<1> USE DEF instVars, chanVars, history
<1>1. CASE ClientSend(c)
  <2>1. cop[c] \in Op /\ cop[c].arg \in Messages
    BY <1>1 DEF ClientSend, TypeInv, WellFormed
  <2>2. cop[c].id \in Ids /\ cop[c].key \in Keys
    BY <2>1 DEF Op
  <2>3. sendCh' \in [Ids -> Seq(Envelope)] /\ accepted' \in [Ids -> Nat]
    BY <1>1, <2>1, <2>2, EnqueueType DEF ClientSend
  <2>4. got' \in [Clients -> Response]
    BY <1>1 DEF ClientSend, GotBack, Response, Value, TypeInv, TypeOK
  <2> QED
    BY <1>1, <2>3, <2>4 DEF ClientSend, TypeInv, TypeOK, WellFormed
<1>2. CASE ClientCallReturn(c)
  <2>1. Head(resp[c]) \in Response /\ Tail(resp[c]) \in Seq(Response)
    BY <1>2 DEF ClientCallReturn, TypeInv, TypeOK
  <2>2. got' \in [Clients -> Response]
    BY <1>2, <2>1 DEF ClientCallReturn, GotBack, Response, TypeInv, TypeOK
  <2>3. resp' \in [Clients -> Seq(Response)]
    BY <1>2, <2>1 DEF ClientCallReturn, TypeInv, TypeOK
  <2> QED
    BY <1>2, <2>2, <2>3 DEF ClientCallReturn, TypeInv, TypeOK, WellFormed
<1>3. CASE ClientGetReturn(c)
  <2>1. final[cop[c].id] \in Response
    BY <1>3 DEF ClientGetReturn, TypeInv, TypeOK, WellFormed, Op
  <2>2. got' \in [Clients -> Response]
    BY <1>3, <2>1 DEF ClientGetReturn, TypeInv, TypeOK
  <2> QED
    BY <1>3, <2>2 DEF ClientGetReturn, TypeInv, TypeOK, WellFormed
<1> QED
  BY <1>1, <1>2, <1>3 DEF Resume

LEMMA TypeInvInvoke ==
  ASSUME TypeInv, NEW c \in Clients, Invoke(c)
  PROVE  TypeInv'
<1>0. PICK n \in 1..MaxOps : \E o \in Script(c, n) :
        ClientGo(c, o) \/ ClientNotFound(c, o) \/ ClientBlock(c, o) \/ ClientQuery(c, o)
  BY DEF Invoke
<1>1. PICK o \in Script(c, n) :
        ClientGo(c, o) \/ ClientNotFound(c, o) \/ ClientBlock(c, o) \/ ClientQuery(c, o)
  BY <1>0
<1>2. /\ o \in Op
      /\ o.op = "go" => o.arg \in Inputs
      /\ o.op \in {"send", "call"} => o.arg \in Messages
      /\ o.op = "query" => o.name \in Names
  BY ClientAssumption
<1>3. o.id \in Ids /\ o.key \in Keys /\ o.name \in Names \cup {Nil}
  BY <1>2 DEF Op
<1>4. Choose(c, o) => /\ ops' \in [Clients -> Nat]
                      /\ cop' \in [Clients -> Op \cup {Nil}]
                      /\ cop' = [cop EXCEPT ![c] = o]
  BY <1>2 DEF Choose, TypeInv, TypeOK
<1> USE DEF instVars, chanVars, history
<1>5. CASE ClientGo(c, o)
  <2>1. [key |-> o.key, input |-> o.arg, msg |-> Nil] \in Invocation
    BY <1>2, <1>3, <1>5 DEF ClientGo, Invocation, Msg
  <2>2. /\ pc' \in [Ids -> {"absent", "run", "effects", "poll", "pollCall", "pollSend",
                            "default", "block", "done"}]
        /\ cur' \in [Ids -> [key : Keys, input : Inputs, msg : Msg] \cup {Nil}]
        /\ \A j \in Ids : pc'[j] # "absent" => cur'[j] \in Invocation
        /\ \A j \in Ids : pc'[j] \notin {"absent", "run"} => out[j] \in Attempt
    <3>1. CASE UNCHANGED <<pc, cur>>
      BY <3>1 DEF TypeInv, TypeOK, WellFormed
    <3>2. CASE StartInstance(o.id, o.key, o.arg)
      <4>1. cur' \in [Ids -> [key : Keys, input : Inputs, msg : Msg] \cup {Nil}]
        BY <2>1, <3>2 DEF StartInstance, Invocation, TypeInv, TypeOK
      <4> QED
        BY <1>3, <2>1, <3>2, <4>1 DEF StartInstance, TypeInv, TypeOK, WellFormed
    <3> QED
      BY <1>5, <3>1, <3>2 DEF ClientGo
  <2>3. got' \in [Clients -> Response]
    BY <1>5 DEF ClientGo, GotBack, Response, Value, TypeInv, TypeOK
  <2> QED
    BY <1>2, <1>4, <1>5, <2>2, <2>3 DEF ClientGo, Choose, TypeInv, TypeOK, WellFormed
<1>6. CASE ClientNotFound(c, o)
  <2>1. got' \in [Clients -> Response]
    BY <1>6 DEF ClientNotFound, GotBack, Response, Value, TypeInv, TypeOK
  <2> QED
    BY <1>2, <1>4, <1>6, <2>1 DEF ClientNotFound, Choose, TypeInv, TypeOK, WellFormed
<1>7. CASE ClientBlock(c, o)
  <2>1. /\ cpc' \in [Clients -> {"idle", "sending", "calling", "awaiting", "getting"}]
        /\ cpc'[c] \in {"sending", "calling"} => o.op \in {"send", "call"}
        /\ \A d \in Clients : d # c => cpc'[d] = cpc[d]
    BY <1>7 DEF ClientBlock, TypeInv, TypeOK
  <2> QED
    BY <1>2, <1>4, <1>7, <2>1 DEF ClientBlock, Choose, TypeInv, TypeOK, WellFormed
<1>8. CASE ClientQuery(c, o)
  <2>1. queryResults[o.id][o.name] \in Value
    BY <1>2, <1>3, <1>8 DEF ClientQuery, TypeInv, TypeOK
  <2> QED
    BY <1>2, <1>4, <1>8, <2>1 DEF ClientQuery, GotBack, Choose, Response, TypeInv, TypeOK, WellFormed
<1> QED
  BY <1>1, <1>5, <1>6, <1>7, <1>8

LEMMA TypeInvNext == TypeInv /\ [Next]_vars => TypeInv'
<1> SUFFICES ASSUME TypeInv, [Next]_vars PROVE TypeInv'
  OBVIOUS
<1>1. CASE Tick
  <2>1. now' \in Time
    BY <1>1, DurableAssumption DEF Tick, Time, TypeInv, TypeOK
  <2> QED
    BY <1>1, <2>1
    DEF Tick, TypeInv, TypeOK, WellFormed, instVars, chanVars, clientVars, history
<1>2. CASE \E i \in Ids : Instance(i)
  BY <1>2, TypeInvInstance
<1>3. CASE \E c \in Clients : Resume(c) \/ Invoke(c)
  BY <1>3, TypeInvResume, TypeInvInvoke
<1>4. CASE UNCHANGED vars
  BY <1>4 DEF vars, TypeInv, TypeOK, WellFormed, instVars, chanVars, clientVars, history
<1> QED
  BY <1>1, <1>2, <1>3, <1>4 DEF Next

\* Every variable keeps its type, and the control state of an instance or of a
\* client says what its invocation, its attempt and its operation are: the
\* code never uses a nil invocation, output or operation.
THEOREM TypeCorrect == Spec => []TypeInv
BY TypeInvInit, TypeInvNext, PTL DEF Spec

\* The type invariant that TLC checks.
THEOREM TypesHold == Spec => []TypeOK
<1>1. TypeInv => TypeOK
  BY DEF TypeInv
<1> QED
  BY <1>1, TypeCorrect, PTL

-----------------------------------------------------------------------------
(* Effects: a handler can send to the child it starts, because the child   *)
(* is in the table of instances by the time the send is applied, and       *)
(* instances are never removed.                                            *)

\* The children whose start an instance has applied exist.
ChildrenExist ==
  \A i \in Ids : pc[i] = "effects" =>
    \A p \in DOMAIN Starts(i) : p <= eff[i] => Exists(Starts(i)[p].id)

EffectInv == TypeInv /\ ChildrenExist

\* The steps of an instance besides those of its handler and effects: they
\* take it to another stage or to its next invocation.
Onward(i) ==
  \/ ReplyToCaller(i) \/ Finish(i)         \/ ContinueAtOnce(i) \/ EnterWait(i)
  \/ TakeBuffered(i)  \/ TakeExpired(i)    \/ PollNothing(i)    \/ PollCall(i)
  \/ PollSend(i)      \/ TakeDefault(i)    \/ Block(i)          \/ SelectSend(i)
  \/ SelectCall(i)    \/ SelectTimer(i)

LEMMA OnwardStep ==
  ASSUME TypeInv, NEW i \in Ids, Onward(i)
  PROVE  /\ eff' = eff /\ out' = out
         /\ \A j \in Ids : pc'[j] = "effects" => pc[j] = "effects"
         /\ \A j \in Ids : Exists(j) => pc'[j] # "absent"
<1>1. CASE \E n, m, c : Fire(i, n, m, c)
  BY <1>1 DEF Fire, Exists, TypeInv, TypeOK
<1>2. CASE \E l \in {"poll", "pollCall", "pollSend", "default", "block"} : Goto(i, l)
  BY <1>2 DEF Goto, Exists, TypeInv, TypeOK
<1>3. CASE ReplyToCaller(i) \/ Finish(i) \/ EnterWait(i)
  BY <1>3 DEF ReplyToCaller, Finish, EnterWait, Exists, TypeInv, TypeOK
<1> QED
  BY <1>1, <1>2, <1>3
  DEF Onward, ContinueAtOnce, TakeBuffered, TakeExpired, PollNothing, PollCall, PollSend,
      TakeDefault, Block, SelectSend, SelectCall, SelectTimer,
      AcceptCall, RejectCall, AcceptSend, SetAside

LEMMA ClientStep ==
  ASSUME TypeInv, NEW c \in Clients, Resume(c) \/ Invoke(c)
  PROVE  /\ eff' = eff /\ out' = out
         /\ \A j \in Ids : pc'[j] = "effects" => pc[j] = "effects"
         /\ \A j \in Ids : Exists(j) => pc'[j] # "absent"
<1> USE DEF instVars
<1>1. CASE Resume(c)
  BY <1>1 DEF Resume, ClientSend, ClientCallReturn, ClientGetReturn, Exists
<1>2. CASE Invoke(c)
  <2>1. PICK o : ClientGo(c, o) \/ ClientNotFound(c, o) \/ ClientBlock(c, o) \/ ClientQuery(c, o)
    BY <1>2 DEF Invoke
  <2> QED
    BY <2>1 DEF ClientGo, ClientNotFound, ClientBlock, ClientQuery, StartInstance, Exists,
                TypeInv, TypeOK
<1> QED
  BY <1>1, <1>2

\* Only an instance itself applies its effects.
LEMMA EffectSteps ==
  ASSUME TypeInv, [Next]_vars
  PROVE  \/ \E i \in Ids : RunHandler(i) \/ StartChild(i) \/ DeliverSend(i)
         \/ /\ eff' = eff /\ out' = out
            /\ \A j \in Ids : pc'[j] = "effects" => pc[j] = "effects"
            /\ \A j \in Ids : Exists(j) => pc'[j] # "absent"
<1>1. CASE Tick \/ UNCHANGED vars
  BY <1>1 DEF Tick, vars, instVars, Exists
<1>2. CASE \E i \in Ids : Onward(i)
  BY <1>2, OnwardStep
<1>3. CASE \E c \in Clients : Resume(c) \/ Invoke(c)
  BY <1>3, ClientStep
<1> QED
  BY <1>1, <1>2, <1>3 DEF Next, Instance, Onward

LEMMA StartsType ==
  ASSUME TypeInv, NEW i \in Ids, pc[i] = "effects"
  PROVE  /\ Starts(i) \in Seq(StartRequest)
         /\ DOMAIN Starts(i) = 1..Len(Starts(i)) /\ Len(Starts(i)) \in Nat
         /\ \A p \in DOMAIN Starts(i) : Starts(i)[p].id \in Ids
<1>1. out[i] \in Attempt
  BY DEF TypeInv, WellFormed
<1>2. Starts(i) \in Seq(StartRequest)
  BY <1>1 DEF Starts, Attempt
<1>3. \A p \in DOMAIN Starts(i) : Starts(i)[p] \in StartRequest
  BY <1>2
<1> QED
  BY <1>2, <1>3 DEF StartRequest

\* Instances are never removed.
LEMMA ExistsForever ==
  ASSUME TypeInv, [Next]_vars
  PROVE  \A j \in Ids : Exists(j) => pc'[j] # "absent"
<1>1. DOMAIN pc = Ids
  BY DEF TypeInv, TypeOK
<1>2. CASE \E i \in Ids : RunHandler(i) \/ DeliverSend(i)
  BY <1>1, <1>2 DEF RunHandler, DeliverSend, Exists
<1>3. CASE \E i \in Ids : StartChild(i)
  <2>1. pc' = pc \/ \E j : pc' = [pc EXCEPT ![j] = "run"]
    BY <1>3 DEF StartChild, StartInstance
  <2> QED
    BY <1>1, <2>1 DEF Exists
<1> QED
  BY <1>2, <1>3, EffectSteps

LEMMA EffectInvInit == Init => EffectInv
BY TypeInvInit DEF Init, EffectInv, ChildrenExist

LEMMA EffectInvNext == EffectInv /\ [Next]_vars => EffectInv'
<1> SUFFICES ASSUME EffectInv, [Next]_vars PROVE EffectInv'
  OBVIOUS
<1>1. TypeInv'
  BY TypeInvNext DEF EffectInv
<1>2. \A j \in Ids : pc[j] = "effects" =>
        Starts(j) \in Seq(StartRequest) /\ \A p \in DOMAIN Starts(j) : Starts(j)[p].id \in Ids
  BY StartsType DEF EffectInv
<1>3. CASE \E i \in Ids : RunHandler(i)
  <2>1. PICK i \in Ids : RunHandler(i)
    BY <1>3
  <2>2. \A j \in Ids : j # i => pc'[j] = pc[j] /\ eff'[j] = eff[j] /\ out'[j] = out[j]
    BY <2>1 DEF RunHandler, EffectInv, TypeInv, TypeOK
  <2>3. eff'[i] = 0 /\ \A j \in Ids : Exists(j) => pc'[j] # "absent"
    BY <2>1 DEF RunHandler, Exists, EffectInv, TypeInv, TypeOK
  <2>4. \A p \in DOMAIN Starts(i)' : pc'[i] = "effects" => ~ (p <= eff'[i])
    <3>1. pc'[i] = "effects" => Starts(i)' \in Seq(StartRequest)
      BY <1>1 DEF TypeInv, WellFormed, Attempt, Starts
    <3> QED
      BY <2>3, <3>1
  <2> QED
    BY <1>1, <1>2, <2>2, <2>3, <2>4 DEF EffectInv, ChildrenExist, Exists, Starts
<1>4. CASE \E i \in Ids : StartChild(i)
  <2>1. PICK i \in Ids : StartChild(i)
    BY <1>4
  <2> DEFINE s == Starts(i)[eff[i] + 1]
  <2>2. /\ out' = out /\ eff' = [eff EXCEPT ![i] = @ + 1] /\ eff[i] + 1 \in DOMAIN Starts(i)
        /\ eff[i] \in Nat /\ pc[i] = "effects"
    BY <1>2, <2>1 DEF StartChild, EffectInv, TypeInv, TypeOK
  <2>3. s.id \in Ids
    BY <1>2, <2>2
  <2>4. \A j \in Ids : (Exists(j) \/ j = s.id) => pc'[j] # "absent"
    BY <2>1, <2>3 DEF StartChild, StartInstance, Exists, EffectInv, TypeInv, TypeOK
  <2>5. \A j \in Ids : pc'[j] = "effects" => pc[j] = "effects"
    BY <2>1, <2>3 DEF StartChild, StartInstance, EffectInv, TypeInv, TypeOK
  <2>6. \A p \in DOMAIN Starts(i) : p <= eff'[i] => p <= eff[i] \/ p = eff[i] + 1
    BY <1>2, <2>2 DEF EffectInv, TypeInv, TypeOK
  <2>7. \A j \in Ids : j # i => eff'[j] = eff[j]
    BY <2>2 DEF EffectInv, TypeInv, TypeOK
  <2> QED
    BY <1>1, <1>2, <2>2, <2>4, <2>5, <2>6, <2>7 DEF EffectInv, ChildrenExist, Exists, Starts
<1>5. CASE \E i \in Ids : DeliverSend(i)
  <2>1. PICK i \in Ids : DeliverSend(i)
    BY <1>5
  <2>2. out' = out /\ pc' = pc /\ eff' = [eff EXCEPT ![i] = @ + 1]
    BY <2>1 DEF DeliverSend
  <2>3. pc[i] = "effects" /\ \A p \in DOMAIN Starts(i) : p <= eff[i]
    BY <1>2, <2>1 DEF DeliverSend, EffectInv, TypeInv, TypeOK
  <2>4. \A j \in Ids : j # i => eff'[j] = eff[j]
    BY <2>2 DEF EffectInv, TypeInv, TypeOK
  <2> QED
    BY <1>1, <2>2, <2>3, <2>4 DEF EffectInv, ChildrenExist, Exists, Starts
<1>6. CASE /\ eff' = eff /\ out' = out
           /\ \A j \in Ids : pc'[j] = "effects" => pc[j] = "effects"
           /\ \A j \in Ids : Exists(j) => pc'[j] # "absent"
  BY <1>1, <1>2, <1>6 DEF EffectInv, ChildrenExist, Exists, Starts
<1> QED
  BY <1>3, <1>4, <1>5, <1>6, EffectSteps DEF EffectInv

LEMMA ChildReached ==
  ASSUME EffectInv, [Next]_vars, NEW i \in Ids,
         pc[i] = "effects", eff'[i] = eff[i] + 1, eff'[i] > Len(Starts(i)),
         NEW s, s = Sends(i)[eff'[i] - Len(Starts(i))],
         NEW p \in DOMAIN Starts(i), Starts(i)[p].id = s.id
  PROVE  accepted'[s.id] = accepted[s.id] + 1
<1>1. /\ eff[i] \in Nat /\ Starts(i) \in Seq(StartRequest)
      /\ DOMAIN Starts(i) = 1..Len(Starts(i)) /\ Len(Starts(i)) \in Nat
  BY StartsType DEF EffectInv, TypeInv, TypeOK
<1>2. DeliverSend(i)
  <2>1. eff' # eff
    BY <1>1
  <2>2. PICK j \in Ids : RunHandler(j) \/ StartChild(j) \/ DeliverSend(j)
    BY <2>1, EffectSteps DEF EffectInv
  <2>3. j = i
    BY <1>1, <2>2 DEF RunHandler, StartChild, DeliverSend, EffectInv, TypeInv, TypeOK
  <2>4. ~ RunHandler(i) /\ ~ StartChild(i)
    BY <1>1 DEF RunHandler, StartChild
  <2> QED
    BY <2>2, <2>3, <2>4
<1>3. Exists(s.id)
  <2>1. p <= eff[i]
    BY <1>1
  <2> QED
    BY <2>1 DEF EffectInv, ChildrenExist
<1>4. s.id \in Ids
  BY StartsType DEF EffectInv
<1>5. eff'[i] - Len(Starts(i)) = eff[i] - Len(Starts(i)) + 1
  BY <1>1
<1>6. accepted' = [accepted EXCEPT ![s.id] = @ + 1]
  BY <1>2, <1>3, <1>5 DEF DeliverSend, Enqueue
<1> QED
  BY <1>4, <1>6 DEF EffectInv, TypeInv, TypeOK

LEMMA EffectInvAlways == Spec => []EffectInv
BY EffectInvInit, EffectInvNext, PTL DEF Spec

\* A send to a routine that the same handler started is accepted by that
\* routine, whoever else runs in between.
THEOREM ChildIsReached == Spec => StartedChildIsReached
<1>1. EffectInv /\ [Next]_vars =>
        [\A i \in Ids :
           (pc[i] = "effects" /\ eff'[i] = eff[i] + 1 /\ eff'[i] > Len(Starts(i))) =>
              LET s == Sends(i)[eff'[i] - Len(Starts(i))]
              IN  (\E p \in DOMAIN Starts(i) : Starts(i)[p].id = s.id)
                    => accepted'[s.id] = accepted[s.id] + 1]_vars
  BY ChildReached
<1> QED
  BY <1>1, EffectInvAlways, PTL DEF Spec, StartedChildIsReached

-----------------------------------------------------------------------------
(* Calls: an instance that waits owes no answer, and every caller has      *)
(* exactly one answer coming.                                              *)

\* Neither part of the invariant is inductive alone: that an instance owes an
\* answer to one caller only rests on its owing none while it waits.
CallInv == TypeInv /\ NoAnswerOwedWhileWaiting /\ CallOwnership

\* The answers to calls are left alone.
Quiet == UNCHANGED <<replyTo, resp>> /\ \A c \in Clients : cpc[c] = "awaiting" <=> cpc'[c] = "awaiting"

LEMMA QuietOwnership ==
  ASSUME CallOwnership, Quiet
  PROVE  CallOwnership'
BY DEF CallOwnership, Quiet

LEMMA CallInvInit == Init => NoAnswerOwedWhileWaiting /\ CallOwnership
<1> SUFFICES ASSUME Init PROVE NoAnswerOwedWhileWaiting /\ CallOwnership
  OBVIOUS
<1>1. NoAnswerOwedWhileWaiting
  BY DEF Init, NoAnswerOwedWhileWaiting
<1>2. \A c \in Clients : {i \in Ids : replyTo[i] = c} = {}
  BY RuntimeAssumption DEF Init
<1> QED
  BY <1>1, <1>2 DEF Init, CallOwnership

\* A case that fires without a caller, in an instance that owes no answer.
LEMMA QuietFire ==
  ASSUME TypeInv, NoAnswerOwedWhileWaiting, NEW i \in Ids, replyTo[i] = NoClient,
         NEW n, NEW m, Fire(i, n, m, NoClient)
  PROVE  replyTo' = replyTo /\ NoAnswerOwedWhileWaiting'
<1>1. replyTo' = replyTo
  BY DEF Fire, TypeInv, TypeOK
<1>2. \A j \in Ids : j # i => pc'[j] = pc[j]
  BY DEF Fire, TypeInv, TypeOK
<1> QED
  BY <1>1, <1>2 DEF NoAnswerOwedWhileWaiting

\* An instance moves on within its wait.
LEMMA QuietGoto ==
  ASSUME TypeInv, NoAnswerOwedWhileWaiting, NEW i \in Ids, replyTo[i] = NoClient,
         NEW l, Goto(i, l)
  PROVE  replyTo' = replyTo /\ NoAnswerOwedWhileWaiting'
BY DEF Goto, NoAnswerOwedWhileWaiting, TypeInv, TypeOK

LEMMA QuietRun ==
  ASSUME TypeInv, NoAnswerOwedWhileWaiting, NEW i \in Ids,
         RunHandler(i) \/ StartChild(i) \/ DeliverSend(i) \/ Finish(i) \/ EnterWait(i)
  PROVE  Quiet /\ NoAnswerOwedWhileWaiting'
<1> USE DEF clientVars, Quiet, NoAnswerOwedWhileWaiting
<1>1. CASE RunHandler(i)
  BY <1>1 DEF RunHandler, TypeInv, TypeOK
<1>2. CASE StartChild(i)
  BY <1>2 DEF StartChild, StartInstance, TypeInv, TypeOK
<1>3. CASE DeliverSend(i)
  BY <1>3 DEF DeliverSend
<1>4. CASE Finish(i) \/ EnterWait(i)
  BY <1>4 DEF Finish, EnterWait, TypeInv, TypeOK
<1> QED
  BY <1>1, <1>2, <1>3, <1>4

LEMMA QuietWait ==
  ASSUME TypeInv, NoAnswerOwedWhileWaiting, NEW i \in Ids,
         \/ ContinueAtOnce(i) \/ TakeBuffered(i) \/ TakeExpired(i) \/ PollNothing(i)
         \/ PollSend(i) \/ TakeDefault(i) \/ Block(i) \/ SelectSend(i) \/ SelectTimer(i)
  PROVE  Quiet /\ NoAnswerOwedWhileWaiting'
<1>1. replyTo[i] = NoClient
  BY DEF NoAnswerOwedWhileWaiting, ContinueAtOnce, TakeBuffered, TakeExpired, PollNothing,
         PollSend, TakeDefault, Block, SelectSend, SelectTimer
<1>2. \/ \E n, m : Fire(i, n, m, NoClient)
      \/ \E l : Goto(i, l)
  BY DEF ContinueAtOnce, TakeBuffered, TakeExpired, PollNothing, PollSend, TakeDefault,
         Block, SelectSend, SelectTimer, AcceptSend, SetAside
<1>3. resp' = resp /\ cpc' = cpc
  BY DEF ContinueAtOnce, TakeBuffered, TakeExpired, PollNothing, PollSend, TakeDefault,
         Block, SelectSend, SelectTimer, AcceptSend, SetAside, clientVars
<1> QED
  BY <1>1, <1>2, <1>3, QuietFire, QuietGoto DEF Quiet

-----------------------------------------------------------------------------
(* The four steps that concern a call.                                     *)

LEMMA OwnershipAcceptCall ==
  ASSUME CallInv, NEW i \in Ids, NEW c \in Callers(i), AcceptCall(i, c),
         pc[i] \in {"pollCall", "block"}
  PROVE  NoAnswerOwedWhileWaiting' /\ CallOwnership'
<1>1. replyTo[i] = NoClient /\ c \in Clients /\ cpc[c] = "calling"
  BY DEF CallInv, NoAnswerOwedWhileWaiting, Callers
<1>2. /\ replyTo' = [replyTo EXCEPT ![i] = c]
      /\ pc' = [pc EXCEPT ![i] = "run"]
      /\ cpc' = [cpc EXCEPT ![c] = "awaiting"]
      /\ resp' = resp
  BY DEF AcceptCall, Fire
<1>3. NoAnswerOwedWhileWaiting'
  BY <1>2 DEF CallInv, NoAnswerOwedWhileWaiting, TypeInv, TypeOK
<1>4. resp[c] = <<>> /\ {j \in Ids : replyTo[j] = c} = {}
  BY <1>1 DEF CallInv, CallOwnership
<1>5. {j \in Ids : replyTo'[j] = c} = {i} /\ cpc'[c] = "awaiting"
  BY <1>1, <1>2, <1>4 DEF CallInv, TypeInv, TypeOK
<1>6. \A d \in Clients : d # c =>
        {j \in Ids : replyTo'[j] = d} = {j \in Ids : replyTo[j] = d} /\ cpc'[d] = cpc[d]
  BY <1>1, <1>2, RuntimeAssumption DEF CallInv, TypeInv, TypeOK
<1> QED
  BY <1>2, <1>3, <1>4, <1>5, <1>6 DEF CallInv, CallOwnership

LEMMA OwnershipRejectCall ==
  ASSUME CallInv, NEW i \in Ids, NEW c \in Callers(i), NEW l, RejectCall(i, c, l),
         pc[i] \in {"pollCall", "block"}
  PROVE  NoAnswerOwedWhileWaiting' /\ CallOwnership'
<1>1. replyTo[i] = NoClient /\ c \in Clients /\ cpc[c] = "calling"
  BY DEF CallInv, NoAnswerOwedWhileWaiting, Callers
<1>2. /\ replyTo' = replyTo
      /\ cpc' = [cpc EXCEPT ![c] = "awaiting"]
      /\ resp' = [resp EXCEPT ![c] = Append(@, [ok |-> FALSE, value |-> Nil])]
  BY DEF RejectCall, Respond, Goto
<1>3. NoAnswerOwedWhileWaiting'
  BY <1>1, QuietGoto DEF RejectCall, CallInv
<1>4. resp[c] = <<>> /\ {j \in Ids : replyTo[j] = c} = {}
  BY <1>1 DEF CallInv, CallOwnership
<1>5. Len(resp'[c]) = 1 /\ cpc'[c] = "awaiting"
  BY <1>1, <1>2, <1>4 DEF CallInv, TypeInv, TypeOK
<1>6. \A d \in Clients : d # c => resp'[d] = resp[d] /\ cpc'[d] = cpc[d]
  BY <1>1, <1>2 DEF CallInv, TypeInv, TypeOK
<1> QED
  BY <1>2, <1>3, <1>4, <1>5, <1>6 DEF CallInv, CallOwnership

LEMMA OwnershipReplyToCaller ==
  ASSUME CallInv, NEW i \in Ids, ReplyToCaller(i)
  PROVE  NoAnswerOwedWhileWaiting' /\ CallOwnership'
<1> DEFINE c == replyTo[i]
<1>1. c \in Clients
  BY DEF ReplyToCaller, CallInv, TypeInv, TypeOK
<1>2. /\ replyTo' = [replyTo EXCEPT ![i] = NoClient]
      /\ \E x : resp' = [resp EXCEPT ![c] = Append(@, x)]
      /\ pc' = pc /\ cpc' = cpc
  BY DEF ReplyToCaller, Respond
<1>3. NoAnswerOwedWhileWaiting'
  BY <1>2 DEF CallInv, NoAnswerOwedWhileWaiting, TypeInv, TypeOK
<1>4. cpc[c] = "awaiting" /\ resp[c] = <<>> /\ {j \in Ids : replyTo[j] = c} = {i}
  <2>1. i \in {j \in Ids : replyTo[j] = c}
    OBVIOUS
  <2> QED
    BY <1>1, <2>1 DEF CallInv, CallOwnership
<1>5. Len(resp'[c]) = 1
  BY <1>1, <1>2, <1>4 DEF CallInv, TypeInv, TypeOK
<1>6. {j \in Ids : replyTo'[j] = c} = {}
  BY <1>1, <1>2, <1>4, RuntimeAssumption DEF CallInv, TypeInv, TypeOK
<1>7. \A d \in Clients : d # c =>
        {j \in Ids : replyTo'[j] = d} = {j \in Ids : replyTo[j] = d} /\ resp'[d] = resp[d]
  BY <1>1, <1>2, RuntimeAssumption DEF CallInv, TypeInv, TypeOK
<1> HIDE DEF c
<1> QED
  BY <1>1, <1>2, <1>3, <1>4, <1>5, <1>6, <1>7 DEF CallInv, CallOwnership

LEMMA OwnershipCallReturn ==
  ASSUME CallInv, NEW c \in Clients, ClientCallReturn(c)
  PROVE  NoAnswerOwedWhileWaiting' /\ CallOwnership'
<1>1. /\ replyTo' = replyTo /\ pc' = pc
      /\ resp' = [resp EXCEPT ![c] = Tail(@)]
      /\ cpc' = [cpc EXCEPT ![c] = "idle"]
  BY DEF ClientCallReturn, instVars
<1>2. Len(resp[c]) = 1 /\ {j \in Ids : replyTo[j] = c} = {}
  BY DEF ClientCallReturn, CallInv, CallOwnership
<1>3. resp'[c] = <<>> /\ cpc'[c] = "idle"
  <2>1. resp[c] \in Seq(Response) /\ resp[c] # <<>>
    BY DEF ClientCallReturn, CallInv, TypeInv, TypeOK
  <2>2. Tail(resp[c]) \in Seq(Response) /\ Len(Tail(resp[c])) = 0
    BY <1>2, <2>1, HeadTailProperties
  <2>3. Tail(resp[c]) = <<>>
    BY <2>2, EmptySeq
  <2> QED
    BY <1>1, <2>3 DEF CallInv, TypeInv, TypeOK
<1>4. \A d \in Clients : d # c => resp'[d] = resp[d] /\ cpc'[d] = cpc[d]
  BY <1>1 DEF CallInv, TypeInv, TypeOK
<1> QED
  BY <1>1, <1>2, <1>3, <1>4 DEF CallInv, CallOwnership, NoAnswerOwedWhileWaiting

-----------------------------------------------------------------------------
LEMMA CallInvInstance ==
  ASSUME CallInv, NEW i \in Ids, Instance(i)
  PROVE  NoAnswerOwedWhileWaiting' /\ CallOwnership'
<1>1. CASE \/ RunHandler(i) \/ StartChild(i) \/ DeliverSend(i) \/ Finish(i) \/ EnterWait(i)
  BY <1>1, QuietRun, QuietOwnership DEF CallInv
<1>2. CASE \/ ContinueAtOnce(i) \/ TakeBuffered(i) \/ TakeExpired(i) \/ PollNothing(i)
           \/ PollSend(i) \/ TakeDefault(i) \/ Block(i) \/ SelectSend(i) \/ SelectTimer(i)
  BY <1>2, QuietWait, QuietOwnership DEF CallInv
<1>3. CASE ReplyToCaller(i)
  BY <1>3, OwnershipReplyToCaller
<1>4. CASE PollCall(i)
  <2>1. CASE Goto(i, "pollSend") /\ UNCHANGED clientVars
    <3>1. replyTo[i] = NoClient
      BY <1>4 DEF PollCall, CallInv, NoAnswerOwedWhileWaiting
    <3>2. replyTo' = replyTo /\ NoAnswerOwedWhileWaiting'
      BY <2>1, <3>1, QuietGoto DEF CallInv
    <3>3. Quiet
      BY <2>1, <3>2 DEF Quiet, clientVars
    <3> QED
      BY <3>2, <3>3, QuietOwnership DEF CallInv
  <2>2. CASE \E c \in Callers(i) : AcceptCall(i, c) \/ RejectCall(i, c, "pollSend")
    BY <1>4, <2>2, OwnershipAcceptCall, OwnershipRejectCall DEF PollCall
  <2> QED
    BY <1>4, <2>1, <2>2 DEF PollCall
<1>5. CASE SelectCall(i)
  BY <1>5, OwnershipAcceptCall, OwnershipRejectCall DEF SelectCall
<1> QED
  BY <1>1, <1>2, <1>3, <1>4, <1>5 DEF Instance

LEMMA CallInvClient ==
  ASSUME CallInv, NEW c \in Clients, Resume(c) \/ Invoke(c)
  PROVE  NoAnswerOwedWhileWaiting' /\ CallOwnership'
<1> USE DEF instVars, clientVars
<1>1. CASE ClientSend(c) \/ ClientGetReturn(c)
  <2>1. Quiet /\ pc' = pc
    BY <1>1 DEF ClientSend, ClientGetReturn, Quiet, CallInv, TypeInv, TypeOK
  <2> QED
    BY <2>1, QuietOwnership DEF CallInv, NoAnswerOwedWhileWaiting, Quiet
<1>2. CASE ClientCallReturn(c)
  BY <1>2, OwnershipCallReturn
<1>3. CASE Invoke(c)
  <2>1. PICK o : ClientGo(c, o) \/ ClientNotFound(c, o) \/ ClientBlock(c, o) \/ ClientQuery(c, o)
    BY <1>3 DEF Invoke
  <2>2. Quiet
    BY <2>1 DEF ClientGo, ClientNotFound, ClientBlock, ClientQuery, Choose, Quiet,
                CallInv, TypeInv, TypeOK
  <2>3. \A i \in Ids : pc'[i] = pc[i] \/ pc'[i] = "run"
    BY <2>1 DEF ClientGo, ClientNotFound, ClientBlock, ClientQuery, StartInstance,
                CallInv, TypeInv, TypeOK
  <2> QED
    BY <2>2, <2>3, QuietOwnership DEF CallInv, NoAnswerOwedWhileWaiting, Quiet
<1> QED
  BY <1>1, <1>2, <1>3 DEF Resume

LEMMA CallInvNext == CallInv /\ [Next]_vars => CallInv'
<1> SUFFICES ASSUME CallInv, [Next]_vars PROVE CallInv'
  OBVIOUS
<1>1. TypeInv'
  BY TypeInvNext DEF CallInv
<1>2. CASE Tick \/ UNCHANGED vars
  <2>1. Quiet /\ pc' = pc
    BY <1>2 DEF Tick, vars, instVars, clientVars, Quiet
  <2> QED
    BY <1>1, <2>1, QuietOwnership DEF CallInv, NoAnswerOwedWhileWaiting, Quiet
<1>3. CASE \E i \in Ids : Instance(i)
  BY <1>1, <1>3, CallInvInstance DEF CallInv
<1>4. CASE \E c \in Clients : Resume(c) \/ Invoke(c)
  BY <1>1, <1>4, CallInvClient DEF CallInv
<1> QED
  BY <1>2, <1>3, <1>4 DEF Next

LEMMA CallInvAlways == Spec => []CallInv
<1>1. Init => CallInv
  BY TypeInvInit, CallInvInit DEF CallInv
<1> QED
  BY <1>1, CallInvNext, PTL DEF Spec

\* An instance that waits for a case, or that is done, owes nobody an answer:
\* a call is answered before its routine waits again.
THEOREM NoAnswerOwed == Spec => []NoAnswerOwedWhileWaiting
<1>1. CallInv => NoAnswerOwedWhileWaiting
  BY DEF CallInv
<1> QED
  BY <1>1, CallInvAlways, PTL

\* Every caller whose call was received has exactly one answer coming, from
\* one instance or in its response channel, and nobody else has one, although
\* calls are answered in five places of the loop.
THEOREM CallsAnsweredOnce == Spec => []CallOwnership
<1>1. CallInv => CallOwnership
  BY DEF CallInv
<1> QED
  BY <1>1, CallInvAlways, PTL

-----------------------------------------------------------------------------
(* Answers: what a client is told is what one invocation has returned to   *)
(* it, or a refusal.                                                       *)

\* A client that waits in a call has called, and its instance is the one it named.
Addressed ==
  /\ \A c \in Clients : cpc[c] # "idle" => ops[c] > 0
  /\ \A c \in Clients : cpc[c] # "idle" =>
       (cpc[c] \in {"calling", "awaiting"} <=> cop[c].op = "call")
  /\ \A i \in Ids, c \in Clients : replyTo[i] = c => cop[c].id = i

AnswerInv == CallInv /\ Addressed

\* The last call of c was to i.
Called(i, c) == ops[c] > 0 /\ cop[c].op = "call" /\ cop[c].id = i

\* r is its answer: c has it, or will read it, or i is about to give it.
Has(c, r)      == cpc[c] = "idle" /\ got[c] = r
WillRead(c, r) == resp[c] # <<>> /\ Head(resp[c]) = r
Gives(i)       == [ok |-> out[i].ok, value |-> out[i].resp]
WillGet(i, c, r) == replyTo[i] = c /\ pc[i] = "effects" /\ r = Gives(i)

Answered(i, c, r) == Called(i, c) /\ (Has(c, r) \/ WillRead(c, r) \/ WillGet(i, c, r))

\* Clients stay in the operations they are in; the instance owes an answer to
\* nobody new but to one that is parked on its channel.
Attends(i) ==
  /\ UNCHANGED <<ops, cop, got>>
  /\ \A c \in Clients : cpc'[c] = "idle" <=> cpc[c] = "idle"
  /\ \A c \in Clients : cpc'[c] \in {"calling", "awaiting"} <=> cpc[c] \in {"calling", "awaiting"}
  /\ \A j \in Ids, c \in Clients : replyTo'[j] = c => replyTo[j] = c \/ (j = i /\ c \in Callers(i))

\* Its other data, and that of other instances, stay as they are.
Apart(i) ==
  /\ \A j \in Ids : j # i => /\ pc'[j] = pc[j] /\ cur'[j] = cur[j] /\ out'[j] = out[j]
                             /\ replyTo'[j] = replyTo[j] /\ final'[j] = final[j]
                             /\ queryResults'[j] = queryResults[j]

\* The answers it gives without its handler are refusals.
Refuses == \A c \in Clients : resp'[c] = resp[c] \/ ~ Head(resp'[c]).ok

LEMMA FiresQuietly ==
  ASSUME TypeInv, NEW i \in Ids, NEW n, NEW m, Fire(i, n, m, NoClient), UNCHANGED clientVars
  PROVE  Attends(i) /\ Apart(i) /\ Refuses
<1>1. \A c \in Clients : c # NoClient
  BY RuntimeAssumption
<1> QED
  BY <1>1 DEF Fire, clientVars, Attends, Apart, Refuses, TypeInv, TypeOK

LEMMA GoesQuietly ==
  ASSUME TypeInv, NEW i \in Ids, NEW l, Goto(i, l), UNCHANGED clientVars
  PROVE  Attends(i) /\ Apart(i) /\ Refuses
BY DEF Goto, clientVars, Attends, Apart, Refuses, TypeInv, TypeOK

LEMMA AcceptsCall ==
  ASSUME TypeInv, NEW i \in Ids, NEW c \in Callers(i), AcceptCall(i, c)
  PROVE  Attends(i) /\ Apart(i) /\ Refuses
<1>1. c \in Clients /\ cpc[c] = "calling"
  BY DEF Callers
<1> QED
  BY <1>1 DEF AcceptCall, Fire, Attends, Apart, Refuses, TypeInv, TypeOK

LEMMA RejectsCall ==
  ASSUME CallInv, NEW i \in Ids, NEW c \in Callers(i), NEW l, RejectCall(i, c, l)
  PROVE  Attends(i) /\ Apart(i) /\ Refuses
<1>1. TypeInv /\ c \in Clients /\ cpc[c] = "calling"
  BY DEF Callers, CallInv
<1>2. Attends(i) /\ Apart(i)
  BY <1>1 DEF RejectCall, Goto, Respond, Attends, Apart, TypeInv, TypeOK
<1>3. resp[c] = <<>>
  BY <1>1 DEF CallInv, CallOwnership
<1>4. resp' = [resp EXCEPT ![c] = Append(@, [ok |-> FALSE, value |-> Nil])]
  BY DEF RejectCall, Respond
<1>5. Head(resp'[c]).ok = FALSE
  BY <1>1, <1>3, <1>4 DEF TypeInv, TypeOK
<1>6. \A d \in Clients : d # c => resp'[d] = resp[d]
  BY <1>1, <1>4 DEF TypeInv, TypeOK
<1> QED
  BY <1>2, <1>5, <1>6 DEF Refuses

LEMMA OnwardKeeps ==
  ASSUME CallInv, NEW i \in Ids, Onward(i)
  PROVE  Attends(i) /\ Apart(i) /\ (~ ReplyToCaller(i) => Refuses)
<1>1. TypeInv
  BY DEF CallInv
<1>2. CASE ReplyToCaller(i)
  BY <1>1, <1>2, RuntimeAssumption
  DEF ReplyToCaller, Respond, chanVars, Attends, Apart, TypeInv, TypeOK
<1>3. CASE Finish(i) \/ EnterWait(i)
  BY <1>1, <1>3 DEF Finish, EnterWait, chanVars, clientVars, Attends, Apart, Refuses, TypeInv, TypeOK
<1>4. CASE \E n, m : Fire(i, n, m, NoClient) /\ UNCHANGED clientVars
  BY <1>1, <1>4, FiresQuietly
<1>5. CASE \E l : Goto(i, l) /\ UNCHANGED clientVars
  BY <1>1, <1>5, GoesQuietly
<1>6. CASE \E c \in Callers(i) : AcceptCall(i, c) \/ \E l : RejectCall(i, c, l)
  BY <1>1, <1>6, AcceptsCall, RejectsCall
<1>7. CASE ContinueAtOnce(i) \/ TakeExpired(i) \/ TakeDefault(i) \/ Block(i) \/ SelectTimer(i)
  BY <1>4, <1>5, <1>7 DEF ContinueAtOnce, TakeExpired, TakeDefault, Block, SelectTimer
<1>8. CASE TakeBuffered(i) \/ PollNothing(i) \/ PollSend(i) \/ SelectSend(i)
  BY <1>4, <1>5, <1>8 DEF TakeBuffered, PollNothing, PollSend, SelectSend, AcceptSend, SetAside
<1>9. CASE PollCall(i) \/ SelectCall(i)
  BY <1>5, <1>6, <1>9 DEF PollCall, SelectCall
<1> QED
  BY <1>2, <1>3, <1>7, <1>8, <1>9 DEF Onward

LEMMA RunKeeps ==
  ASSUME TypeInv, NEW i \in Ids, RunHandler(i)
  PROVE  Attends(i) /\ Apart(i) /\ Refuses
BY DEF RunHandler, clientVars, Attends, Apart, Refuses, TypeInv, TypeOK

LEMMA OnwardData ==
  ASSUME NEW i \in Ids, Onward(i)
  PROVE  queryResults' = queryResults /\ out' = out
BY DEF Onward, ReplyToCaller, Finish, ContinueAtOnce, EnterWait, TakeBuffered, TakeExpired,
       PollNothing, PollCall, PollSend, TakeDefault, Block, SelectSend, SelectCall, SelectTimer,
       AcceptCall, RejectCall, AcceptSend, SetAside, Fire, Goto, chanVars

\* The client an instance owes an answer has called it, and waits.
LEMMA OwedCaller ==
  ASSUME AnswerInv, NEW i \in Ids, NEW c \in Clients, replyTo[i] = c
  PROVE  Called(i, c) /\ cpc[c] = "awaiting" /\ resp[c] = <<>>
<1>1. i \in {j \in Ids : replyTo[j] = c}
  OBVIOUS
<1>2. cpc[c] = "awaiting" /\ resp[c] = <<>>
  <2>1. CASE cpc[c] = "awaiting"
    <3>1. resp[c] = <<>> \/ {j \in Ids : replyTo[j] = c} = {}
      BY <2>1 DEF AnswerInv, CallInv, CallOwnership
    <3> QED
      BY <1>1, <2>1, <3>1
  <2>2. CASE cpc[c] # "awaiting"
    BY <1>1, <2>2 DEF AnswerInv, CallInv, CallOwnership
  <2> QED
    BY <2>1, <2>2
<1>3. ops[c] > 0 /\ cop[c].op = "call" /\ cop[c].id = i
  BY <1>2 DEF AnswerInv, Addressed
<1> QED
  BY <1>2, <1>3 DEF Called

\* An instance that starts or sends answers nobody.
LEMMA EffectsKeep ==
  ASSUME TypeInv, NEW i \in Ids, StartChild(i) \/ DeliverSend(i)
  PROVE  Attends(i) /\ Refuses /\ UNCHANGED <<out, replyTo, final, queryResults, handled>>
BY DEF StartChild, DeliverSend, chanVars, clientVars, history, Attends, Refuses, TypeInv, TypeOK

LEMMA InstanceAttends ==
  ASSUME CallInv, NEW i \in Ids, Instance(i)
  PROVE  Attends(i)
BY OnwardKeeps, RunKeeps, EffectsKeep DEF CallInv, Instance, Onward

LEMMA AddressedInstance ==
  ASSUME AnswerInv, NEW i \in Ids, Instance(i)
  PROVE  Addressed'
BY InstanceAttends DEF AnswerInv, Addressed, Attends, Callers

LEMMA InvokeOp ==
  ASSUME NEW c \in Clients, Invoke(c)
  PROVE  \E o \in Op :
           ClientGo(c, o) \/ ClientNotFound(c, o) \/ ClientBlock(c, o) \/ ClientQuery(c, o)
BY ClientAssumption DEF Invoke

\* What a client does that calls operation o.
LEMMA InvokeEffect ==
  ASSUME CallInv, NEW c \in Clients, NEW o \in Op,
         ClientGo(c, o) \/ ClientNotFound(c, o) \/ ClientBlock(c, o) \/ ClientQuery(c, o)
  PROVE  /\ UNCHANGED <<out, replyTo, final, queryResults, resp, handled>>
         /\ cpc[c] = "idle" /\ resp[c] = <<>> /\ \A i \in Ids : replyTo[i] # c
         /\ cop'[c] = o /\ ops'[c] > 0
         /\ \A d \in Clients : d # c => /\ cop'[d] = cop[d] /\ ops'[d] = ops[d]
                                        /\ cpc'[d] = cpc[d] /\ got'[d] = got[d]
         /\ cpc'[c] # "idle" => (cpc'[c] \in {"calling", "awaiting"} <=> o.op = "call")
         /\ cpc'[c] = "idle" /\ o.op = "call" => ~ got'[c].ok
<1> USE DEF instVars, chanVars, history
<1>1. TypeInv
  BY DEF CallInv
<1>2. /\ UNCHANGED <<out, replyTo, final, queryResults, resp, handled>> /\ Choose(c, o)
      /\ \A d \in Clients : d # c => cpc'[d] = cpc[d] /\ got'[d] = got[d]
  BY <1>1 DEF ClientGo, ClientNotFound, ClientBlock, ClientQuery, GotBack, TypeInv, TypeOK
<1>3. /\ cpc[c] = "idle" /\ cop'[c] = o /\ ops'[c] > 0
      /\ \A d \in Clients : d # c => cop'[d] = cop[d] /\ ops'[d] = ops[d]
  BY <1>1, <1>2 DEF Choose, TypeInv, TypeOK
<1>4. resp[c] = <<>> /\ \A i \in Ids : replyTo[i] # c
  BY <1>3 DEF CallInv, CallOwnership
<1>5. /\ cpc'[c] # "idle" => (cpc'[c] \in {"calling", "awaiting"} <=> o.op = "call")
      /\ cpc'[c] = "idle" /\ o.op = "call" => ~ got'[c].ok
  <2>1. CASE ClientGo(c, o) \/ ClientQuery(c, o)
    BY <1>3, <2>1 DEF ClientGo, ClientQuery
  <2>2. CASE ClientNotFound(c, o)
    BY <1>1, <1>3, <2>2 DEF ClientNotFound, GotBack, TypeInv, TypeOK
  <2>3. CASE ClientBlock(c, o)
    BY <1>1, <2>3 DEF ClientBlock, TypeInv, TypeOK
  <2> QED
    BY <2>1, <2>2, <2>3
<1> QED
  BY <1>2, <1>3, <1>4, <1>5

LEMMA AddressedInvoke ==
  ASSUME AnswerInv, NEW c \in Clients, Invoke(c)
  PROVE  Addressed'
<1>1. PICK o \in Op : ClientGo(c, o) \/ ClientNotFound(c, o) \/ ClientBlock(c, o) \/ ClientQuery(c, o)
  BY InvokeOp
<1> QED
  BY <1>1, InvokeEffect DEF AnswerInv, Addressed

LEMMA ResumeEffect ==
  ASSUME TypeInv, NEW c \in Clients, Resume(c)
  PROVE  /\ UNCHANGED <<instVars, queryResults, handled, ops, cop>>
         /\ cpc[c] # "idle" /\ cpc'[c] = "idle"
         /\ \A d \in Clients : d # c => cpc'[d] = cpc[d] /\ got'[d] = got[d] /\ resp'[d] = resp[d]
BY DEF Resume, ClientSend, ClientCallReturn, ClientGetReturn, GotBack, chanVars, history, TypeInv, TypeOK

LEMMA AnswerInvNext == AnswerInv /\ [Next]_vars => AnswerInv'
<1> SUFFICES ASSUME AnswerInv, [Next]_vars PROVE AnswerInv'
  OBVIOUS
<1>1. CallInv'
  BY CallInvNext DEF AnswerInv
<1>2. CASE Tick \/ UNCHANGED vars
  BY <1>1, <1>2 DEF Tick, vars, instVars, clientVars, AnswerInv, Addressed
<1>3. CASE \E i \in Ids : Instance(i)
  BY <1>1, <1>3, AddressedInstance DEF AnswerInv
<1>4. CASE \E c \in Clients : Resume(c)
  BY <1>1, <1>4, ResumeEffect DEF AnswerInv, CallInv, Addressed, instVars
<1>5. CASE \E c \in Clients : Invoke(c)
  BY <1>1, <1>5, AddressedInvoke DEF AnswerInv
<1> QED
  BY <1>2, <1>3, <1>4, <1>5 DEF Next

LEMMA AnswerInvInit == Init => AnswerInv
<1> SUFFICES ASSUME Init PROVE AnswerInv
  OBVIOUS
<1>1. CallInv
  BY TypeInvInit, CallInvInit DEF CallInv
<1>2. Addressed
  BY RuntimeAssumption DEF Init, Addressed
<1> QED
  BY <1>1, <1>2 DEF AnswerInv

\* Only from its handler does a client get an answer that is no refusal.
LEMMA OnwardAnswers ==
  ASSUME AnswerInv, NEW j \in Ids, Onward(j), NEW i \in Ids, NEW c \in Clients,
         NEW r, r.ok, Answered(i, c, r)'
  PROVE  Answered(i, c, r) /\ cop'[c] = cop[c]
<1>1. TypeInv /\ CallInv
  BY DEF AnswerInv, CallInv
<1>2. /\ out' = out /\ Attends(j) /\ (~ ReplyToCaller(j) => Refuses)
      /\ (pc'[i] = "effects" => pc[i] = "effects")
  BY <1>1, OnwardData, OnwardKeeps, OnwardStep
<1>3. Called(i, c) /\ cop'[c] = cop[c] /\ (Has(c, r)' => Has(c, r))
  BY <1>2 DEF Answered, Called, Has, Attends
<1>4. WillGet(i, c, r)' => WillGet(i, c, r)
  <2>1. ASSUME WillGet(i, c, r)' PROVE replyTo[i] = c
    <3>1. replyTo'[i] = c /\ pc[i] = "effects"
      BY <1>2, <2>1 DEF WillGet
    <3>2. CASE c \in Callers(j) /\ i = j
      <4>1. ReplyToCaller(j) \/ Finish(j) \/ ContinueAtOnce(j) \/ EnterWait(j)
        BY <3>1, <3>2 DEF Onward, TakeBuffered, TakeExpired, PollNothing, PollCall, PollSend,
             TakeDefault, Block, SelectSend, SelectCall, SelectTimer
      <4>2. replyTo'[j] = replyTo[j] \/ replyTo'[j] = NoClient
        BY <1>1, <4>1 DEF ReplyToCaller, Finish, ContinueAtOnce, EnterWait, Fire, TypeInv, TypeOK
      <4> QED
        BY <3>1, <3>2, <4>2, RuntimeAssumption
    <3> QED
      BY <1>2, <3>1, <3>2 DEF Attends
  <2> QED
    BY <1>2, <2>1 DEF WillGet, Gives
<1>5. WillRead(c, r)' => WillRead(c, r) \/ WillGet(i, c, r)
  <2>1. CASE ~ ReplyToCaller(j)
    BY <1>2, <2>1 DEF WillRead, Refuses
  <2>2. CASE ReplyToCaller(j)
    <3> DEFINE d == replyTo[j]
    <3>1. /\ d \in Clients /\ pc[j] = "effects"
          /\ resp' = [resp EXCEPT ![d] = Append(@, [ok |-> out[j].ok, value |-> out[j].resp])]
      BY <1>1, <2>2 DEF ReplyToCaller, Respond, TypeInv, TypeOK
    <3>2. CASE d = c
      <4>1. i = j /\ resp[c] = <<>>
        BY <1>3, <3>1, <3>2, OwedCaller DEF Called
      <4>2. Head(resp'[c]) = [ok |-> out[i].ok, value |-> out[i].resp]
        BY <1>1, <3>1, <3>2, <4>1 DEF TypeInv, TypeOK
      <4> QED
        BY <3>1, <3>2, <4>1, <4>2 DEF WillRead, WillGet, Gives
    <3>3. CASE d # c
      <4>1. resp'[c] = resp[c]
        BY <1>1, <3>1, <3>3 DEF TypeInv, TypeOK
      <4> QED
        BY <4>1 DEF WillRead
    <3> QED
      BY <3>2, <3>3
  <2> QED
    BY <2>1, <2>2
<1> QED
  BY <1>3, <1>4, <1>5 DEF Answered

LEMMA EffectAnswers ==
  ASSUME TypeInv, NEW j \in Ids, StartChild(j) \/ DeliverSend(j), NEW i \in Ids, NEW c \in Clients,
         NEW r, r.ok, Answered(i, c, r)'
  PROVE  Answered(i, c, r) /\ cop'[c] = cop[c]
<1>1. UNCHANGED <<out, replyTo, cpc, cop, ops, resp, got>>
  BY DEF StartChild, DeliverSend, clientVars
<1>2. pc'[i] = "effects" => pc[i] = "effects"
  <2>1. CASE StartChild(j)
    BY <2>1 DEF StartChild, StartInstance, TypeInv, TypeOK
  <2>2. CASE DeliverSend(j)
    BY <2>2 DEF DeliverSend
  <2> QED
    BY <2>1, <2>2
<1> QED
  BY <1>1, <1>2 DEF Answered, Called, Has, WillRead, WillGet, Gives

LEMMA OtherHandlerAnswers ==
  ASSUME TypeInv, NEW j \in Ids, RunHandler(j), NEW i \in Ids \ {j}, NEW c \in Clients,
         NEW r, Answered(i, c, r)'
  PROVE  Answered(i, c, r) /\ cop'[c] = cop[c]
<1>1. UNCHANGED <<replyTo, cpc, cop, ops, resp, got>> /\ pc'[i] = pc[i] /\ out'[i] = out[i]
  BY DEF RunHandler, clientVars, TypeInv, TypeOK
<1> QED
  BY <1>1 DEF Answered, Called, Has, WillRead, WillGet, Gives

LEMMA ClientAnswers ==
  ASSUME AnswerInv, CallInv', NEW d \in Clients, Resume(d) \/ Invoke(d),
         NEW i \in Ids, NEW c \in Clients, NEW r, r.ok, Answered(i, c, r)'
  PROVE  Answered(i, c, r) /\ cop'[c] = cop[c]
<1> USE DEF instVars, chanVars, history
<1>1. TypeInv
  BY DEF AnswerInv, CallInv
<1>2. (pc'[i] = "effects" => pc[i] = "effects") /\ out' = out /\ replyTo' = replyTo
  BY <1>1, ClientStep, InvokeOp
  DEF Resume, ClientSend, ClientCallReturn, ClientGetReturn,
      ClientGo, ClientNotFound, ClientBlock, ClientQuery
<1>3. WillGet(i, c, r)' => WillGet(i, c, r)
  BY <1>2 DEF WillGet, Gives
<1>4. CASE Invoke(d)
  <2>1. PICK o \in Op : ClientGo(d, o) \/ ClientNotFound(d, o) \/ ClientBlock(d, o) \/ ClientQuery(d, o)
    BY <1>4, InvokeOp
  <2>2. CASE c = d
    BY <1>2, <2>1, <2>2, InvokeEffect DEF AnswerInv, Answered, Called, Has, WillRead, WillGet
  <2>3. CASE c # d
    BY <1>2, <1>3, <2>1, <2>3, InvokeEffect DEF AnswerInv, Answered, Called, Has, WillRead
  <2> QED
    BY <2>2, <2>3
<1>5. CASE Resume(d)
  <2>1. /\ ops' = ops /\ cop' = cop /\ cpc[d] # "idle" /\ cpc'[d] = "idle"
        /\ \A e \in Clients : e # d => cpc'[e] = cpc[e] /\ got'[e] = got[e] /\ resp'[e] = resp[e]
    BY <1>1, <1>5, ResumeEffect
  <2>2. CASE c # d
    BY <1>2, <1>3, <2>1, <2>2 DEF Answered, Called, Has, WillRead
  <2>3. CASE c = d
    <3>1. Called(i, c)
      BY <2>1 DEF Answered, Called
    <3>2. ClientCallReturn(c)
      BY <1>5, <2>1, <2>3, <3>1
      DEF AnswerInv, Addressed, Called, Resume, ClientSend, ClientGetReturn
    <3>3. resp'[c] = <<>>
      BY <2>1, <2>3 DEF CallInv, CallOwnership
    <3>4. Has(c, r)' => WillRead(c, r)
      <4>1. resp[c] # <<>> /\ got'[c] = [ok |-> Head(resp[c]).ok, value |-> Head(resp[c]).value]
        BY <1>1, <3>2 DEF ClientCallReturn, GotBack, TypeInv, TypeOK
      <4>2. Head(resp[c]) \in Response
        BY <1>1, <4>1 DEF TypeInv, TypeOK
      <4> QED
        BY <4>1, <4>2 DEF Has, WillRead, Response
    <3> QED
      BY <1>3, <2>1, <3>1, <3>3, <3>4 DEF Answered, WillRead
  <2> QED
    BY <2>2, <2>3
<1> QED
  BY <1>4, <1>5

\* While the handler of i does not run, no client gets an answer of i but the
\* one that is on its way to it, or a refusal.
LEMMA AnswersKept ==
  ASSUME AnswerInv, [Next]_vars, NEW i \in Ids, ~ RunHandler(i), NEW c \in Clients,
         NEW r, r.ok, Answered(i, c, r)'
  PROVE  Answered(i, c, r) /\ cop'[c] = cop[c]
<1>1. TypeInv /\ CallInv'
  BY CallInvNext DEF AnswerInv, CallInv
<1>2. CASE Tick \/ UNCHANGED vars
  BY <1>2 DEF Tick, vars, instVars, chanVars, clientVars,
              Answered, Called, Has, WillRead, WillGet, Gives
<1>3. CASE \E j \in Ids : Instance(j)
  <2>1. PICK j \in Ids : RunHandler(j) \/ StartChild(j) \/ DeliverSend(j) \/ Onward(j)
    BY <1>3 DEF Instance, Onward
  <2>2. CASE RunHandler(j)
    BY <1>1, <2>2, OtherHandlerAnswers
  <2> QED
    BY <1>1, <2>1, <2>2, EffectAnswers, OnwardAnswers
<1>4. CASE \E d \in Clients : Resume(d) \/ Invoke(d)
  BY <1>1, <1>4, ClientAnswers
<1> QED
  BY <1>2, <1>3, <1>4 DEF Next

\* When it runs, the client it serves gets the answer it gives.
LEMMA AnswersGiven ==
  ASSUME AnswerInv, NEW i \in Ids, RunHandler(i), NEW c \in Clients, NEW r, Answered(i, c, r)'
  PROVE  /\ cop'[c] = cop[c] /\ Called(i, c)
         /\ IF replyTo[i] = c THEN r = Gives(i)' ELSE Answered(i, c, r)
<1>1. UNCHANGED <<replyTo, cpc, cop, ops, resp, got>> /\ TypeInv
  BY DEF RunHandler, clientVars, AnswerInv, CallInv
<1>2. Called(i, c)
  BY <1>1 DEF Answered, Called
<1>3. CASE replyTo[i] = c
  BY <1>1, <1>2, <1>3, OwedCaller DEF Answered, Has, WillRead, WillGet
<1>4. CASE replyTo[i] # c
  BY <1>1, <1>2, <1>4 DEF Answered, Called, Has, WillRead, WillGet
<1> QED
  BY <1>1, <1>2, <1>3, <1>4

-----------------------------------------------------------------------------
(* What happens to one instance.                                           *)

\* Nothing happens to it, nor to the call it serves.
Same(i) ==
  /\ pc'[i] = pc[i] /\ cur'[i] = cur[i] /\ out'[i] = out[i] /\ final'[i] = final[i]
  /\ queryResults'[i] = queryResults[i] /\ handled'[i] = handled[i] /\ replyTo'[i] = replyTo[i]
  /\ \A c \in Clients : replyTo[i] = c => cop'[c] = cop[c]

\* It begins with handler k.
Begins(i, k, x) ==
  /\ pc[i] = "absent" /\ pc'[i] = "run" /\ cur'[i] = [key |-> k, input |-> x, msg |-> Nil]
  /\ out'[i] = out[i] /\ queryResults'[i] = queryResults[i] /\ handled'[i] = handled[i]
  /\ replyTo'[i] = NoClient /\ replyTo[i] = NoClient

\* A client, or another instance, begins it.
Born(i) ==
  \/ \E c \in Clients, n \in 1..MaxOps : \E o \in Script(c, n) :
       o.op = "go" /\ o.id = i /\ Begins(i, o.key, o.arg)
  \/ \E j \in Ids : /\ pc[j] = "effects"
                    /\ \E n \in DOMAIN Starts(j) :
                         Starts(j)[n].id = i /\ Begins(i, Starts(j)[n].key, Starts(j)[n].input)

LEMMA HandledElsewhere ==
  ASSUME TypeInv, NEW j \in Ids, RunHandler(j) \/ Onward(j), NEW i \in Ids \ {j}
  PROVE  handled'[i] = handled[i]
<1>1. handled' = handled \/ \E e : handled' = [handled EXCEPT ![j] = Append(@, e)]
  BY DEF RunHandler, history, Onward, ReplyToCaller, Finish, ContinueAtOnce, EnterWait,
         TakeBuffered, TakeExpired, PollNothing, PollCall, PollSend, TakeDefault, Block,
         SelectSend, SelectCall, SelectTimer, AcceptCall, RejectCall, AcceptSend, SetAside
<1> QED
  BY <1>1 DEF TypeInv, TypeOK

LEMMA EffectBorn ==
  ASSUME AnswerInv, NEW i \in Ids, NEW j \in Ids, StartChild(j) \/ DeliverSend(j)
  PROVE  Same(i) \/ Born(i)
<1>1. TypeInv
  BY DEF AnswerInv, CallInv
<1>2. /\ UNCHANGED <<out, replyTo, final, queryResults, handled, cop>> /\ pc[j] = "effects"
  BY DEF StartChild, DeliverSend, chanVars, clientVars, history
<1>3. CASE DeliverSend(j)
  BY <1>2, <1>3 DEF DeliverSend, Same
<1>4. CASE StartChild(j)
  <2> DEFINE n == eff[j] + 1
  <2>1. n \in DOMAIN Starts(j)
    BY <1>1, <1>2, <1>4, StartsType DEF StartChild, TypeInv, TypeOK
  <2>2. CASE Exists(Starts(j)[n].id) \/ Starts(j)[n].id # i
    BY <1>1, <1>2, <1>4, <2>2 DEF StartChild, StartInstance, Same, TypeInv, TypeOK
  <2>3. CASE ~ Exists(Starts(j)[n].id) /\ Starts(j)[n].id = i
    <3>1. /\ pc[i] = "absent" /\ pc'[i] = "run"
          /\ cur'[i] = [key |-> Starts(j)[n].key, input |-> Starts(j)[n].input, msg |-> Nil]
      BY <1>1, <1>4, <2>3 DEF StartChild, StartInstance, Exists, TypeInv, TypeOK
    <3>2. replyTo[i] = NoClient
      BY <3>1 DEF AnswerInv, CallInv, NoAnswerOwedWhileWaiting
    <3>3. Begins(i, Starts(j)[n].key, Starts(j)[n].input)
      BY <1>2, <3>1, <3>2 DEF Begins
    <3> QED
      BY <1>2, <2>1, <2>3, <3>3 DEF Born
  <2> QED
    BY <2>2, <2>3
<1> QED
  BY <1>3, <1>4

LEMMA ClientBorn ==
  ASSUME AnswerInv, NEW i \in Ids, NEW c \in Clients, Resume(c) \/ Invoke(c)
  PROVE  Same(i) \/ Born(i)
<1> USE DEF instVars, chanVars, history
<1>1. TypeInv
  BY DEF AnswerInv, CallInv
<1>2. CASE Resume(c)
  BY <1>1, <1>2, ResumeEffect DEF Same
<1>3. CASE Invoke(c)
  <2>1. PICK n \in 1..MaxOps : \E o \in Script(c, n) :
          ClientGo(c, o) \/ ClientNotFound(c, o) \/ ClientBlock(c, o) \/ ClientQuery(c, o)
    BY <1>3 DEF Invoke
  <2>2. PICK o \in Script(c, n) :
          ClientGo(c, o) \/ ClientNotFound(c, o) \/ ClientBlock(c, o) \/ ClientQuery(c, o)
    BY <2>1
  <2>3. o \in Op
    BY <2>2, ClientAssumption
  <2>4. /\ UNCHANGED <<out, replyTo, final, queryResults, handled>>
        /\ replyTo[i] # c /\ \A d \in Clients : d # c => cop'[d] = cop[d]
    BY <2>2, <2>3, InvokeEffect DEF AnswerInv
  <2>5. CASE pc'[i] = pc[i] /\ cur'[i] = cur[i]
    BY <2>4, <2>5 DEF Same
  <2>6. CASE ~ (pc'[i] = pc[i] /\ cur'[i] = cur[i])
    <3>1. /\ o.op = "go" /\ o.id = i /\ pc[i] = "absent" /\ pc'[i] = "run"
          /\ cur'[i] = [key |-> o.key, input |-> o.arg, msg |-> Nil]
      BY <1>1, <2>2, <2>6
      DEF ClientGo, ClientNotFound, ClientBlock, ClientQuery, StartInstance, Exists, TypeInv, TypeOK
    <3>2. replyTo[i] = NoClient
      BY <3>1 DEF AnswerInv, CallInv, NoAnswerOwedWhileWaiting
    <3>3. Begins(i, o.key, o.arg)
      BY <2>4, <3>1, <3>2 DEF Begins
    <3> QED
      BY <2>2, <3>1, <3>3 DEF Born
  <2> QED
    BY <2>5, <2>6
<1> QED
  BY <1>2, <1>3

\* Every step is one of its own, or begins it, or leaves it alone.
LEMMA StepsOf ==
  ASSUME AnswerInv, [Next]_vars, NEW i \in Ids
  PROVE  RunHandler(i) \/ Onward(i) \/ Same(i) \/ Born(i)
<1>1. TypeInv /\ CallInv
  BY DEF AnswerInv, CallInv
<1>2. CASE Tick \/ UNCHANGED vars
  BY <1>2 DEF Tick, vars, instVars, chanVars, clientVars, history, Same
<1>3. CASE \E j \in Ids : Instance(j)
  <2>1. PICK j \in Ids : RunHandler(j) \/ StartChild(j) \/ DeliverSend(j) \/ Onward(j)
    BY <1>3 DEF Instance, Onward
  <2>2. CASE j # i /\ (RunHandler(j) \/ Onward(j))
    BY <1>1, <2>2, RunKeeps, OnwardKeeps, HandledElsewhere DEF Attends, Apart, Same
  <2> QED
    BY <2>1, <2>2, EffectBorn
<1>4. CASE \E c \in Clients : Resume(c) \/ Invoke(c)
  BY <1>4, ClientBorn
<1> QED
  BY <1>2, <1>3, <1>4 DEF Next

=============================================================================
