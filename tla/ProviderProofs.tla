--------------------------- MODULE ProviderProofs ---------------------------
(***************************************************************************)
(* Proofs about the provider on the in-memory backend: reservations,       *)
(* bookings and what users were told of them agree, for any number of      *)
(* providers and slots, any users and any stale expiries.                  *)
(***************************************************************************)
EXTENDS ProviderProperties, InMemoryProofs

-----------------------------------------------------------------------------
(* The invariant.                                                          *)

\* No routine starts the provider.
Elsewhere ==
  \A i \in Ids : pc[i] = "effects" => \A n \in DOMAIN Starts(i) : Starts(i)[n].id # provider

\* A state in which no slot is both reserved and booked.
Sound(s) == s \in ProviderState /\ \A l \in Slots : s.reserved[l] = Nil \/ s.booked[l] = Nil

\* A key the event loop waits for, under the name of its call.
LoopCalls == {"HandleReserve", "HandleConfirmAndPay", "HandleGoOffline"}

\* What the next invocation is for: to come online, to serve the client it owes
\* an answer, or to take an expiry.
Opens == /\ cur[provider].key = "Init" /\ cur[provider].input \in ProviderInput
         /\ replyTo[provider] = NoClient
Serves == /\ cur[provider].key \in LoopCalls /\ Sound(cur[provider].input)
          /\ replyTo[provider] # NoClient /\ cur[provider].msg = cop[replyTo[provider]].arg
Expires == /\ cur[provider].key = "HandleExpire" /\ Sound(cur[provider].input)
           /\ replyTo[provider] = NoClient /\ ExpiryHandled(cur[provider].msg)

\* What the last one returned: the event loop, or its end.
Loops(o) ==
  /\ ~o.done /\ Len(o.cases) = 4
  /\ \A n \in 1..3 : o.cases[n].kind = "call" /\ o.cases[n].key \in LoopCalls
  /\ o.cases[4].kind = "send" /\ o.cases[4].key = "HandleExpire"
  /\ \A n \in 1..4 : o.cases[n].input = o.cases[1].input
  /\ Sound(o.cases[1].input)

Online ==
  /\ pc[provider] = "run" => Opens \/ Serves \/ Expires
  /\ pc[provider] \notin {"absent", "run"} =>
       \/ Loops(out[provider]) /\ pc[provider] # "done"
       \/ out[provider].done /\ pc[provider] \in {"effects", "done"} /\ Sound(cur[provider].input)

\* What a client was told, or will be told, about slot and user m.
Booked(m)   == Known /\ m \in SlotRequest /\ State.booked[m.slot] = m.user
Reserved(m) == Known /\ m \in SlotRequest /\ State.reserved[m.slot] = m.user

Answer(c, a) == Answered(provider, c, [ok |-> TRUE, value |-> a])

Confirmed == \A c \in Clients : Answer(c, "confirmed") => Booked(cop[c].arg)
Promised  == \A c \in Clients : Answer(c, "reserved") =>
               Reserved(cop[c].arg) \/ Booked(cop[c].arg) \/ ExpiryHandled(cop[c].arg)

ProviderInv == AnswerInv /\ Elsewhere /\ Online /\ Confirmed /\ Promised

-----------------------------------------------------------------------------
(* The handlers.                                                           *)

LEMMA FailureNot == ~ Failure.ok /\ Failure.done /\ Failure.starts = <<>>
BY DEF Failure, Fail, RunOutput, NewContext, Done

\* No handler of a provider has a recovery handler.
LEMMA OutcomeIs ==
  ASSUME now \in Time, NEW i \in Ids, NEW k \in Keys, NEW x \in Inputs, NEW m \in Msg,
         NEW a \in Outcomes(i, k, x, m)
  PROVE  a \in ProviderRunner(i, k, x, m) \cup {Failure}
<1>1. Runner(i, k, x, m, now) = ProviderRunner(i, k, x, m)
  BY ProviderAssumption
<1>2. Recover(i, k, x, m) = {Failure}
  BY ProviderAssumption DEF Recover, ProviderRecovery
<1> QED
  BY <1>1, <1>2 DEF Outcomes

\* The event loop carries one state on, whatever it waits for.
LEMMA LoopCases ==
  ASSUME NEW s, NEW o, o.done = SteadyStateSelect(s).done, o.cases = SteadyStateSelect(s).cases,
         Sound(s)
  PROVE  Loops(o) /\ o.cases[1].input = s
<1> DEFINE call(k, n) == [kind |-> "call", key |-> k, name |-> n, input |-> s, dur |-> 0]
           a == call("HandleReserve", "reserve-slot")
           b == call("HandleConfirmAndPay", "confirm-and-pay")
           c == call("HandleGoOffline", "go-offline")
           d == [kind |-> "send", key |-> "HandleExpire", name |-> Nil, input |-> s, dur |-> 0]
           S == {a, b, c, d}
<1>1. o.cases[1] = a /\ o.cases[2] = b /\ o.cases[3] = c /\ o.cases[4] = d /\ Len(o.cases) = 4
  <2>1. o.cases = <<a>> \o (<<b>> \o (<<c>> \o <<d>>))
    BY DEF SteadyStateSelect, Select, ReceiveCall, ReceiveSend, WaitFor
  <2> HIDE DEF a, b, c, d
  <2>2. <<a>> \in Seq(S) /\ <<b>> \in Seq(S) /\ <<c>> \in Seq(S) /\ <<d>> \in Seq(S)
    OBVIOUS
  <2> QED
    BY <2>1, <2>2
<1>2. ~ o.done
  BY DEF SteadyStateSelect, Select
<1> QED
  BY <1>1, <1>2 DEF Loops, LoopCalls

\* A user reserves a free slot, ...
LEMMA SoundReserved ==
  ASSUME NEW s, Sound(s), NEW m \in SlotRequest, s.booked[m.slot] = Nil
  PROVE  Sound([s EXCEPT !.reserved[m.slot] = m.user])
BY DEF Sound, ProviderState, SlotRequest

\* ... makes the reservation a booking, ...
LEMMA SoundBooked ==
  ASSUME NEW s, Sound(s), NEW m \in SlotRequest
  PROVE  Sound([s EXCEPT !.reserved[m.slot] = Nil, !.booked[m.slot] = m.user])
BY DEF Sound, ProviderState, SlotRequest

\* ... or loses it.
LEMMA SoundFreed ==
  ASSUME NEW s, Sound(s), NEW m \in SlotRequest
  PROVE  Sound([s EXCEPT !.reserved[m.slot] = Nil])
BY DEF Sound, ProviderState, SlotRequest

-----------------------------------------------------------------------------
(* A handler of the provider runs.                                         *)

\* What the handler has done to the state, ...
Reserves(s, m) ==
  /\ m \in SlotRequest /\ s.reserved[m.slot] = Nil /\ s.booked[m.slot] = Nil
  /\ State' = [s EXCEPT !.reserved[m.slot] = m.user]
Books(s, m) ==
  /\ m \in SlotRequest /\ s.reserved[m.slot] = m.user
  /\ State' = [s EXCEPT !.reserved[m.slot] = Nil, !.booked[m.slot] = m.user]
Frees(s, m) ==
  /\ m \in SlotRequest /\ s.reserved[m.slot] = m.user /\ ExpiryHandled(m)
  /\ replyTo[provider] = NoClient
  /\ State' = [s EXCEPT !.reserved[m.slot] = Nil]

\* ... and answers.
Says(a) == out'[provider].ok /\ out'[provider].resp = a

Decided(s, m) ==
  \/ /\ State' = s
     /\ replyTo[provider] # NoClient => ~ Says("reserved") /\ ~ Says("confirmed")
  \/ Reserves(s, m) /\ ~ Says("confirmed")
  \/ Books(s, m) /\ ~ Says("reserved")
  \/ Frees(s, m)

LEMMA RunData ==
  ASSUME ProviderInv, RunHandler(provider)
  PROVE  /\ cur[provider] \in Invocation
         /\ out'[provider] \in ProviderRunner(provider, cur[provider].key, cur[provider].input,
                                              cur[provider].msg) \cup {Failure}
         /\ pc'[provider] = "effects"
         /\ UNCHANGED <<cur, replyTo, handled, ops, cop, cpc, resp, got>>
<1>1. TypeInv /\ provider \in Ids
  BY ProviderAssumption DEF ProviderInv, AnswerInv, CallInv
<1>2. PICK a \in Outcomes(provider, cur[provider].key, cur[provider].input, cur[provider].msg) :
        out' = [out EXCEPT ![provider] = a]
  BY DEF RunHandler
<1>3. cur[provider] \in Invocation /\ now \in Time
  BY <1>1 DEF RunHandler, TypeInv, TypeOK, WellFormed
<1>4. out'[provider] = a
  BY <1>1, <1>2 DEF TypeInv, TypeOK
<1>5. a \in ProviderRunner(provider, cur[provider].key, cur[provider].input, cur[provider].msg)
            \cup {Failure}
  BY <1>1, <1>2, <1>3, OutcomeIs DEF Invocation
<1>6. pc'[provider] = "effects" /\ UNCHANGED <<cur, replyTo, handled, ops, cop, cpc, resp, got>>
  BY <1>1 DEF RunHandler, clientVars, history, TypeInv, TypeOK
<1> QED
  BY <1>3, <1>4, <1>5, <1>6

\* The provider goes on with state s.
LEMMA GoesOn ==
  ASSUME pc'[provider] = "effects", NEW s, Sound(s), NEW ctx, NEW r,
         out'[provider] = Return(ctx, SteadyStateSelect(s), r)
  PROVE  /\ Online' /\ State' = s
         /\ out'[provider].ok /\ out'[provider].resp = r
<1> DEFINE a == out'[provider]
<1>1. /\ a.done = SteadyStateSelect(s).done /\ a.cases = SteadyStateSelect(s).cases
      /\ a.ok /\ a.resp = r
  BY DEF Return, RunOutput
<1>2. Loops(a) /\ a.cases[1].input = s
  <2> HIDE DEF a
  <2> QED
    BY <1>1, LoopCases
<1>3. ~ a.done
  BY <1>2 DEF Loops
<1> QED
  BY <1>1, <1>2, <1>3 DEF Online, State, Waiting, Loops

\* It ends, with the state it has had.
LEMMA GoesOff ==
  ASSUME pc'[provider] = "effects", cur' = cur, Sound(cur[provider].input), out'[provider].done
  PROVE  Online' /\ State' = cur[provider].input
BY DEF Online, State, Waiting

LEMMA HandlerDecides ==
  ASSUME ProviderInv, RunHandler(provider), Serves \/ Expires
  PROVE  Online' /\ Decided(cur[provider].input, cur[provider].msg)
<1> DEFINE s == cur[provider].input
           m == cur[provider].msg
           a == out'[provider]
<1>1. /\ pc'[provider] = "effects" /\ cur' = cur /\ handled' = handled /\ Sound(s)
      /\ a \in ProviderRunner(provider, cur[provider].key, s, m) \cup {Failure}
  BY RunData DEF Serves, Expires
<1>2. CASE a = Failure \/ a = Fail(NewContext) \/ a = HandleGoOffline(s)
  <2>1. a.done /\ (a.ok => a.resp = "offline")
    BY <1>2, FailureNot DEF HandleGoOffline, Return, Fail, RunOutput, Done
  <2> QED
    BY <1>1, <2>1, GoesOff DEF Decided, Says
<1>3. CASE m \in SlotRequest /\ a = HandleReserve(provider, s, m)
  <2>1. CASE s.reserved[m.slot] # Nil \/ s.booked[m.slot] # Nil
    <3>1. a = Return(NewContext, SteadyStateSelect(s), "rejected")
      BY <1>3, <2>1 DEF HandleReserve
    <3> QED
      BY <1>1, <3>1, GoesOn DEF Decided, Says
  <2>2. CASE s.reserved[m.slot] = Nil /\ s.booked[m.slot] = Nil
    <3> DEFINE n == [s EXCEPT !.reserved[m.slot] = m.user]
    <3>1. \E ctx : a = Return(ctx, SteadyStateSelect(n), "reserved")
      BY <1>3, <2>2 DEF HandleReserve
    <3>2. Sound(n)
      BY <1>1, <1>3, <2>2, SoundReserved
    <3>3. Online' /\ State' = n /\ a.resp = "reserved"
      <4> HIDE DEF n
      <4> QED
        BY <1>1, <3>1, <3>2, GoesOn
    <3> QED
      BY <1>3, <2>2, <3>3 DEF Decided, Reserves, Says
  <2> QED
    BY <2>1, <2>2
<1>4. CASE m \in SlotRequest /\ a = HandleConfirmAndPay(s, m)
  <2>1. CASE s.reserved[m.slot] # m.user
    <3>1. a = Return(NewContext, SteadyStateSelect(s), "rejected")
      BY <1>4, <2>1 DEF HandleConfirmAndPay
    <3> QED
      BY <1>1, <3>1, GoesOn DEF Decided, Says
  <2>2. CASE s.reserved[m.slot] = m.user
    <3> DEFINE n == [s EXCEPT !.reserved[m.slot] = Nil, !.booked[m.slot] = m.user]
    <3>1. a = Return(NewContext, SteadyStateSelect(n), "confirmed")
      BY <1>4, <2>2 DEF HandleConfirmAndPay
    <3>2. Sound(n)
      BY <1>1, <1>4, SoundBooked
    <3>3. Online' /\ State' = n /\ a.resp = "confirmed"
      <4> HIDE DEF n
      <4> QED
        BY <1>1, <3>1, <3>2, GoesOn
    <3> QED
      BY <1>4, <2>2, <3>3 DEF Decided, Books, Says
  <2> QED
    BY <2>1, <2>2
<1>5. CASE m \in SlotRequest /\ a = HandleExpire(s, m) /\ Expires
  <2>1. CASE s.reserved[m.slot] # m.user
    <3>1. a = Return(NewContext, SteadyStateSelect(s), Nil)
      BY <1>5, <2>1 DEF HandleExpire
    <3> QED
      BY <1>1, <1>5, <3>1, GoesOn DEF Decided, Expires
  <2>2. CASE s.reserved[m.slot] = m.user
    <3> DEFINE n == [s EXCEPT !.reserved[m.slot] = Nil]
    <3>1. a = Return(NewContext, SteadyStateSelect(n), Nil)
      BY <1>5, <2>2 DEF HandleExpire
    <3>2. Sound(n)
      BY <1>1, <1>5, SoundFreed
    <3>3. Online' /\ State' = n
      <4> HIDE DEF n
      <4> QED
        BY <1>1, <3>1, <3>2, GoesOn
    <3> QED
      BY <1>5, <2>2, <3>3 DEF Decided, Frees, Expires
  <2> QED
    BY <2>1, <2>2
<1>6. \/ a = Failure \/ a = Fail(NewContext) \/ a = HandleGoOffline(s)
      \/ m \in SlotRequest /\ (a = HandleReserve(provider, s, m) \/ a = HandleConfirmAndPay(s, m))
      \/ m \in SlotRequest /\ a = HandleExpire(s, m) /\ Expires
  BY <1>1 DEF ProviderRunner, Serves, Expires, LoopCalls
<1> QED
  BY <1>2, <1>3, <1>4, <1>5, <1>6

\* The provider comes online.
LEMMA ProviderOpens ==
  ASSUME ProviderInv, RunHandler(provider), Opens
  PROVE  Online'
<1> DEFINE x == cur[provider].input
           n == [reserved |-> [l \in Slots |-> Nil], booked |-> [l \in Slots |-> Nil]]
<1>1. TypeInv /\ provider \in Ids
  BY ProviderAssumption DEF ProviderInv, AnswerInv, CallInv
<1>2. cur[provider] \in Invocation /\ now \in Time /\ pc'[provider] = "effects"
  BY <1>1, RunData DEF TypeInv, TypeOK
<1>3. "Init" \in Keys /\ "Init" \in Registered
  BY ProviderAssumption DEF ProviderKeys
<1>4. Runner(provider, "Init", x, cur[provider].msg, now) = {GoOnline(x)}
  BY <1>1, <1>2, <1>3, ProviderAssumption DEF Opens, Invocation, ProviderRunner
<1>5. GoOnline(x).ok
  BY DEF GoOnline, Return, RunOutput
<1>6. Outcomes(provider, "Init", x, cur[provider].msg) = {GoOnline(x)}
  BY <1>3, <1>4, <1>5 DEF Outcomes
<1>7. out'[provider] = GoOnline(x)
  BY <1>1, <1>6 DEF RunHandler, Opens, TypeInv, TypeOK
<1>8. out'[provider] = Return(NewContext, SteadyStateSelect(n), Nil)
  BY <1>7 DEF GoOnline
<1>9. Sound(n)
  BY DEF Sound, ProviderState
<1> HIDE DEF n
<1> QED
  BY <1>2, <1>8, <1>9, GoesOn

\* A booking stays, ...
LEMMA StaysBooked ==
  ASSUME ProviderInv, RunHandler(provider), NEW s, Sound(s), State = s, NEW m, Decided(s, m),
         NEW k, Booked(k)
  PROVE  Booked(k)'
<1>1. k \in SlotRequest /\ k.slot \in Slots /\ k.user # Nil /\ s.booked[k.slot] = k.user
  BY ProviderAssumption DEF Booked, SlotRequest
<1>2. Known'
  BY RunData DEF Known
<1>3. s.reserved[k.slot] = Nil
  BY <1>1 DEF Sound
<1>4. State'.booked[k.slot] = k.user
  <2>1. CASE State' = s
    BY <1>1, <2>1
  <2>2. CASE Reserves(s, m) \/ Frees(s, m)
    BY <1>1, <2>2 DEF Reserves, Frees, Sound, ProviderState
  <2>3. CASE Books(s, m)
    <3>1. m.slot # k.slot
      BY <1>3, <2>3, ProviderAssumption DEF Books, SlotRequest
    <3> QED
      BY <1>1, <2>3, <3>1 DEF Books, Sound, ProviderState
  <2> QED
    BY <2>1, <2>2, <2>3 DEF Decided
<1> QED
  BY <1>1, <1>2, <1>4 DEF Booked

\* ... and so does a reservation that is not booked and does not expire.
LEMMA StaysReserved ==
  ASSUME ProviderInv, RunHandler(provider), NEW s, Sound(s), State = s, NEW m, Decided(s, m),
         NEW k, Reserved(k)
  PROVE  Reserved(k)' \/ Booked(k)' \/ ExpiryHandled(k)
<1>1. k \in SlotRequest /\ k.slot \in Slots /\ k.user # Nil /\ s.reserved[k.slot] = k.user
  BY ProviderAssumption DEF Reserved, SlotRequest
<1>2. Known'
  BY RunData DEF Known
<1>3. CASE State' = s
  BY <1>1, <1>2, <1>3 DEF Reserved
<1>4. CASE Reserves(s, m)
  <2>1. m.slot # k.slot
    BY <1>1, <1>4 DEF Reserves
  <2>2. State'.reserved[k.slot] = k.user
    BY <1>1, <1>4, <2>1 DEF Reserves, Sound, ProviderState
  <2> QED
    BY <1>1, <1>2, <2>2 DEF Reserved
<1>5. CASE (Books(s, m) \/ Frees(s, m)) /\ m.slot # k.slot
  <2>1. State'.reserved[k.slot] = k.user
    BY <1>1, <1>5 DEF Books, Frees, Sound, ProviderState
  <2> QED
    BY <1>1, <1>2, <2>1 DEF Reserved
<1>6. CASE Books(s, m) /\ m.slot = k.slot
  <2>1. State'.booked[k.slot] = k.user
    BY <1>1, <1>6 DEF Books, Sound, ProviderState
  <2> QED
    BY <1>1, <1>2, <2>1 DEF Booked
<1>7. CASE Frees(s, m) /\ m.slot = k.slot
  <2>1. m = k
    BY <1>1, <1>7 DEF Frees, SlotRequest
  <2> QED
    BY <1>7, <2>1 DEF Frees
<1> QED
  BY <1>3, <1>4, <1>5, <1>6, <1>7 DEF Decided

\* What it answers is so.
LEMMA SaysTrue ==
  ASSUME ProviderInv, RunHandler(provider), NEW s, Sound(s), NEW m, Decided(s, m),
         replyTo[provider] # NoClient
  PROVE  (Says("confirmed") => Booked(m)') /\ (Says("reserved") => Reserved(m)')
<1>1. Known' /\ ~ Frees(s, m)
  BY RunData DEF Known, Frees
<1>2. ASSUME Says("confirmed") PROVE Booked(m)'
  <2>1. Books(s, m)
    BY <1>1, <1>2 DEF Decided
  <2>2. m \in SlotRequest /\ State'.booked[m.slot] = m.user
    BY <2>1 DEF Books, Sound, ProviderState, SlotRequest
  <2> QED
    BY <1>1, <2>2 DEF Booked
<1>3. ASSUME Says("reserved") PROVE Reserved(m)'
  <2>1. Reserves(s, m)
    BY <1>1, <1>3 DEF Decided
  <2>2. m \in SlotRequest /\ State'.reserved[m.slot] = m.user
    BY <2>1 DEF Reserves, Sound, ProviderState, SlotRequest
  <2> QED
    BY <1>1, <2>2 DEF Reserved
<1> QED
  BY <1>2, <1>3

LEMMA ProviderRuns ==
  ASSUME ProviderInv, RunHandler(provider)
  PROVE  Online' /\ Confirmed' /\ Promised'
<1> DEFINE s == cur[provider].input
           m == cur[provider].msg
<1>1. /\ pc[provider] = "run" /\ (Opens \/ Serves \/ Expires)
      /\ cop' = cop /\ handled' = handled /\ replyTo' = replyTo
  BY RunData DEF ProviderInv, Online, RunHandler
<1>2. /\ AnswerInv /\ provider \in Ids
      /\ \A k : ExpiryHandled(k) => ExpiryHandled(k)'
  BY <1>1, ProviderAssumption DEF ProviderInv, ExpiryHandled
<1>3. CASE Opens
  <2>1. Online' /\ ~ Known /\ \A c \in Clients : replyTo[provider] # c
    BY <1>1, <1>3, ProviderOpens, RuntimeAssumption DEF Opens, Known
  <2>2. \A c \in Clients : \A a : Answer(c, a)' => Answer(c, a) /\ cop'[c] = cop[c]
    BY <1>2, <2>1, AnswersGiven DEF Answer
  <2> QED
    BY <1>1, <1>2, <2>1, <2>2 DEF ProviderInv, Confirmed, Promised, Booked, Reserved
<1>4. CASE Serves \/ Expires
  <2>1. Online' /\ Decided(s, m) /\ Sound(s) /\ State = s
    BY <1>1, <1>4, HandlerDecides DEF Serves, Expires, State, Waiting
  <2>2. ASSUME NEW c \in Clients, NEW a, Answer(c, a)', replyTo[provider] = c
        PROVE  Says(a) /\ replyTo[provider] # NoClient /\ m = cop'[c].arg
    <3>1. [ok |-> TRUE, value |-> a] = Gives(provider)'
      BY <1>2, <2>2, AnswersGiven DEF Answer
    <3>2. c # NoClient
      BY RuntimeAssumption
    <3> QED
      BY <1>1, <1>4, <2>2, <3>1, <3>2 DEF Says, Gives, Serves, Expires
  <2>3. ASSUME NEW c \in Clients, NEW a, Answer(c, a)', replyTo[provider] # c
        PROVE  Answer(c, a) /\ cop'[c] = cop[c]
    BY <1>2, <2>3, AnswersGiven DEF Answer
  <2>4. Confirmed'
    <3> SUFFICES ASSUME NEW c \in Clients, Answer(c, "confirmed")'
                 PROVE  Booked(cop[c].arg)'
      BY DEF Confirmed
    <3> QED
      BY <1>1, <2>1, <2>2, <2>3, SaysTrue, StaysBooked DEF ProviderInv, Confirmed
  <2>5. Promised'
    <3> SUFFICES ASSUME NEW c \in Clients, Answer(c, "reserved")'
                 PROVE  (Reserved(cop[c].arg) \/ Booked(cop[c].arg) \/ ExpiryHandled(cop[c].arg))'
      BY DEF Promised
    <3> QED
      BY <1>1, <1>2, <2>1, <2>2, <2>3, SaysTrue, StaysBooked, StaysReserved
      DEF ProviderInv, Promised
  <2> QED
    BY <2>1, <2>4, <2>5
<1> QED
  BY <1>1, <1>3, <1>4

-----------------------------------------------------------------------------
(* No routine starts the provider.                                         *)

LEMMA RunnerElsewhere ==
  ASSUME NEW i \in Ids, NEW k, NEW x, NEW m, NEW a \in ProviderRunner(i, k, x, m)
  PROVE  \A n \in DOMAIN a.starts : a.starts[n].id # provider
<1> USE DEF Return, Fail, RunOutput, NewContext
<1>1. CASE m \in SlotRequest /\ a = HandleReserve(i, x, m)
  <2> DEFINE r == [id |-> TimerId[i][m.slot], key |-> "ReservationTimer",
                   input |-> [provider |-> i, user |-> m.user, slot |-> m.slot]]
  <2>1. a.starts = <<>> \/ a.starts = Append(<<>>, r)
    BY <1>1 DEF HandleReserve, BufferStart
  <2>2. r.id # provider
    BY <1>1, ProviderAssumption DEF SlotRequest
  <2> HIDE DEF r
  <2>3. DOMAIN Append(<<>>, r) = {1} /\ Append(<<>>, r)[1] = r
    BY <<>> \in Seq({r})
  <2> QED
    BY <2>1, <2>2, <2>3
<1>2. CASE m \in SlotRequest /\ (a = HandleConfirmAndPay(x, m) \/ a = HandleExpire(x, m))
  BY <1>2 DEF HandleConfirmAndPay, HandleExpire
<1>3. CASE a = GoOnline(x) \/ a = HandleGoOffline(x) \/ a = ReservationTimer(x) \/ a = Fail(NewContext)
  BY <1>3 DEF GoOnline, HandleGoOffline, ReservationTimer
<1>4. CASE a = SendExpire(x)
  BY <1>4 DEF SendExpire, BufferSend
<1> QED
  BY <1>1, <1>2, <1>3, <1>4 DEF ProviderRunner

LEMMA ElsewhereNext ==
  ASSUME ProviderInv, [Next]_vars
  PROVE  Elsewhere'
<1>1. TypeInv
  BY DEF ProviderInv, AnswerInv, CallInv
<1>2. CASE \E i \in Ids : RunHandler(i)
  <2>1. PICK i \in Ids : RunHandler(i)
    BY <1>2
  <2>2. PICK a \in Outcomes(i, cur[i].key, cur[i].input, cur[i].msg) : out' = [out EXCEPT ![i] = a]
    BY <2>1 DEF RunHandler
  <2>3. cur[i] \in Invocation /\ now \in Time
    BY <1>1, <2>1 DEF RunHandler, TypeInv, TypeOK, WellFormed
  <2>4. a \in ProviderRunner(i, cur[i].key, cur[i].input, cur[i].msg) \cup {Failure}
    BY <2>2, <2>3, OutcomeIs DEF Invocation
  <2>5. \A n \in DOMAIN a.starts : a.starts[n].id # provider
    BY <2>4, RunnerElsewhere, FailureNot
  <2>6. out'[i] = a /\ \A j \in Ids : j # i => out'[j] = out[j] /\ pc'[j] = pc[j]
    BY <1>1, <2>1, <2>2 DEF RunHandler, TypeInv, TypeOK
  <2> QED
    BY <2>5, <2>6 DEF ProviderInv, Elsewhere, Starts
<1>3. CASE ~ \E i \in Ids : RunHandler(i)
  <2>1. out' = out /\ \A j \in Ids : pc'[j] = "effects" => pc[j] = "effects"
    <3>1. CASE \E i \in Ids : StartChild(i)
      <4>1. PICK i \in Ids : StartChild(i)
        BY <3>1
      <4>2. pc[i] = "effects" /\ out' = out
        BY <4>1 DEF StartChild
      <4>3. \A j \in Ids : pc'[j] \in {pc[j], "run"}
        BY <1>1, <4>1 DEF StartChild, StartInstance, TypeInv, TypeOK
      <4> QED
        BY <4>2, <4>3
    <3>2. CASE \E i \in Ids : DeliverSend(i)
      BY <3>2 DEF DeliverSend
    <3> QED
      BY <1>1, <1>3, <3>1, <3>2, EffectSteps
  <2> QED
    BY <2>1 DEF ProviderInv, Elsewhere, Starts
<1> QED
  BY <1>2, <1>3

-----------------------------------------------------------------------------
(* The provider waits.                                                     *)

LEMMA LoopWaitsFor ==
  ASSUME TypeInv, pc[provider] \notin {"absent", "run"}, Loops(out[provider])
  PROVE  /\ CasesOf(provider, "call") = {1, 2, 3} /\ CasesOf(provider, "send") = {4}
         /\ CasesOf(provider, "after") = {} /\ CasesOf(provider, "immediate") = {}
         /\ ~ SoleImmediate(provider)
         /\ \A n \in 1..4 : Cases(provider)[n].input = Cases(provider)[1].input
         /\ \A n \in 1..3 : Cases(provider)[n].key \in LoopCalls
         /\ Cases(provider)[4].key = "HandleExpire"
         /\ Sound(Cases(provider)[1].input)
<1>1. Cases(provider) \in Seq(Case) /\ Len(Cases(provider)) = 4
  BY ProviderAssumption DEF TypeInv, WellFormed, Attempt, Cases, Loops
<1>2. DOMAIN Cases(provider) = 1..4 /\ 1..4 = {1, 2, 3, 4} /\ 1..3 = {1, 2, 3}
  BY <1>1
<1> QED
  BY <1>1, <1>2 DEF CasesOf, SoleImmediate, Cases, Loops

LEMMA CarriedOn ==
  ASSUME TypeInv, pc[provider] \notin {"absent", "run", "done"}, Loops(out[provider])
  PROVE  State = Cases(provider)[1].input
BY ProviderAssumption DEF State, Waiting, Cases, Loops, TypeInv, TypeOK

\* What has become of the provider when a step of its wait is over: it still
\* waits, or serves a client, or takes an expiry, with the state it carries.
Waited ==
  /\ handled'[provider] = handled[provider] \/
       \E e : handled'[provider] = Append(handled[provider], e)
  /\ State' = State
  /\ \/ pc'[provider] \notin {"absent", "run", "done"}
     \/ pc'[provider] = "run" /\ (Serves' \/ Expires')

LEMMA ExpiryFires ==
  ASSUME ProviderInv, Loops(out[provider]), pc[provider] \notin {"absent", "run", "done"},
         NEW e, handled' = [handled EXCEPT ![provider] = Append(@, e)],
         Fire(provider, 4, e.msg, NoClient)
  PROVE  Waited
<1>1. TypeInv /\ provider \in Ids
  BY ProviderAssumption DEF ProviderInv, AnswerInv, CallInv
<1>2. /\ Cases(provider)[4].key = "HandleExpire" /\ Sound(Cases(provider)[4].input)
      /\ Cases(provider)[4].input = Cases(provider)[1].input
  BY <1>1, LoopWaitsFor
<1>3. /\ pc'[provider] = "run" /\ replyTo'[provider] = NoClient
      /\ cur'[provider] = [key |-> Cases(provider)[4].key, input |-> Cases(provider)[4].input,
                           msg |-> e.msg]
  BY <1>1 DEF Fire, TypeInv, TypeOK
<1>4. handled'[provider] = Append(handled[provider], e) /\ ExpiryHandled(cur[provider].msg)'
  <2>1. handled[provider] \in Seq(Envelope) /\ handled'[provider] = Append(handled[provider], e)
    BY <1>1 DEF TypeInv, TypeOK
  <2>2. handled'[provider][Len(handled[provider]) + 1] = e
        /\ Len(handled[provider]) + 1 \in DOMAIN handled'[provider]
    BY <2>1
  <2> QED
    BY <1>3, <2>1, <2>2 DEF ExpiryHandled
<1>5. State' = State
  BY <1>1, <1>2, <1>3, CarriedOn DEF State, Waiting
<1> QED
  BY <1>2, <1>3, <1>4, <1>5 DEF Waited, Expires

LEMMA CallFires ==
  ASSUME ProviderInv, Loops(out[provider]), pc[provider] \notin {"absent", "run", "done"},
         NEW c \in Callers(provider), AcceptCall(provider, c)
  PROVE  Waited
<1>1. TypeInv /\ provider \in Ids /\ c \in Clients /\ c # NoClient
  BY ProviderAssumption, RuntimeAssumption DEF ProviderInv, AnswerInv, CallInv, Callers
<1> DEFINE n == First(CallCases(provider, c))
<1>2. n \in 1..3
  <2>1. CallCases(provider, c) # {} /\ CallCases(provider, c) \subseteq 1..3
    BY <1>1, LoopWaitsFor DEF AcceptCall, CallCases
  <2> QED
    BY <2>1, FirstIsLeast
<1>3. Cases(provider)[n].key \in LoopCalls /\ Cases(provider)[n].input = Cases(provider)[1].input
      /\ Sound(Cases(provider)[1].input)
  BY <1>1, <1>2, LoopWaitsFor
<1> HIDE DEF n
<1>4. /\ pc'[provider] = "run" /\ replyTo'[provider] = c /\ cop' = cop /\ handled' = handled
      /\ cur'[provider] = [key |-> Cases(provider)[n].key, input |-> Cases(provider)[n].input,
                           msg |-> cop[c].arg]
  BY <1>1 DEF AcceptCall, Fire, history, TypeInv, TypeOK, n
<1>5. State' = State
  BY <1>1, <1>3, <1>4, CarriedOn DEF State, Waiting
<1> QED
  BY <1>1, <1>3, <1>4, <1>5 DEF Waited, Serves

LEMMA GoesTo ==
  ASSUME ProviderInv, Loops(out[provider]), pc[provider] \notin {"absent", "run", "done"},
         NEW l \in {"poll", "pollCall", "pollSend", "default", "block"}, Goto(provider, l),
         handled' = handled
  PROVE  Waited
<1>1. TypeInv /\ provider \in Ids
  BY ProviderAssumption DEF ProviderInv, AnswerInv, CallInv
<1>2. pc'[provider] = l /\ cur' = cur /\ out' = out
  BY <1>1 DEF Goto, TypeInv, TypeOK
<1> QED
  BY <1>1, <1>2 DEF Waited, State, Waiting, Loops, TypeInv, TypeOK

LEMMA WaitsOn ==
  ASSUME ProviderInv, Onward(provider), Loops(out[provider]), pc[provider] # "done"
  PROVE  Waited
<1> USE DEF history
<1>1. TypeInv /\ provider \in Ids
  BY ProviderAssumption DEF ProviderInv, AnswerInv, CallInv
<1>2. pc[provider] \notin {"absent", "run", "done"}
  BY DEF Onward, ReplyToCaller, Finish, ContinueAtOnce, EnterWait, TakeBuffered, TakeExpired,
         PollNothing, PollCall, PollSend, TakeDefault, Block, SelectSend, SelectCall, SelectTimer
<1>3. ~ out[provider].done /\ Expired(provider) = {}
  BY <1>1, <1>2, LoopWaitsFor DEF Loops, Expired
<1>4. /\ ~ ContinueAtOnce(provider) /\ ~ TakeDefault(provider) /\ ~ Finish(provider)
      /\ ~ TakeExpired(provider) /\ ~ SelectTimer(provider)
  BY <1>1, <1>2, <1>3, LoopWaitsFor
  DEF ContinueAtOnce, TakeDefault, Finish, TakeExpired, SelectTimer
<1>5. CASE ReplyToCaller(provider) \/ EnterWait(provider)
  <2>1. /\ pc'[provider] \in {"effects", "poll"} /\ pc[provider] = "effects"
        /\ cur' = cur /\ out' = out /\ handled' = handled
    BY <1>1, <1>5 DEF ReplyToCaller, EnterWait, TypeInv, TypeOK
  <2> QED
    BY <2>1 DEF Waited, State, Waiting
<1>6. CASE TakeBuffered(provider)
  <2>1. First(Buffered(provider)) = 4
    <3>1. Buffered(provider) # {} /\ Buffered(provider) \subseteq {4}
      BY <1>1, <1>2, <1>6, LoopWaitsFor DEF TakeBuffered, Buffered
    <3>2. Buffered(provider) = {4}
      BY <3>1
    <3> QED
      BY <3>2, FirstIsLeast
  <2> QED
    BY <1>2, <1>6, <2>1, ExpiryFires DEF TakeBuffered
<1>7. CASE AcceptSend(provider)
  <2>1. First(SendCases(provider, Head(sendCh[provider]))) = 4
    <3>1. /\ SendCases(provider, Head(sendCh[provider])) # {}
          /\ SendCases(provider, Head(sendCh[provider])) \subseteq {4}
      BY <1>1, <1>2, <1>7, LoopWaitsFor DEF AcceptSend, SendCases
    <3>2. SendCases(provider, Head(sendCh[provider])) = {4}
      BY <3>1
    <3> QED
      BY <3>2, FirstIsLeast
  <2> QED
    BY <1>2, <1>7, <2>1, ExpiryFires DEF AcceptSend
<1>8. CASE \E l \in {"poll", "pollCall", "pollSend", "default", "block"} :
             Goto(provider, l) /\ handled' = handled
  BY <1>2, <1>8, GoesTo
<1>9. CASE PollNothing(provider) \/ PollSend(provider) \/ SelectSend(provider) \/ Block(provider)
  BY <1>3, <1>7, <1>8, <1>9 DEF PollNothing, PollSend, SelectSend, SetAside, Block
<1>10. CASE PollCall(provider) \/ SelectCall(provider)
  <2>1. CASE \E c \in Callers(provider) : AcceptCall(provider, c)
    BY <1>2, <2>1, CallFires
  <2>2. CASE \E c \in Callers(provider) :
               RejectCall(provider, c, "pollSend") \/ RejectCall(provider, c, "poll")
    BY <1>8, <2>2 DEF RejectCall
  <2> QED
    BY <1>8, <1>10, <2>1, <2>2 DEF PollCall, SelectCall
<1> QED
  BY <1>4, <1>5, <1>6, <1>9, <1>10 DEF Onward

-----------------------------------------------------------------------------
(* Every step.                                                             *)

\* The state stays, and nothing that was handled is forgotten.
Carries ==
  /\ State' = State /\ (Known => Known')
  /\ \A k : ExpiryHandled(k) => ExpiryHandled(k)'

LEMMA WaitedCarries ==
  ASSUME ProviderInv, Waited
  PROVE  Carries
<1>1. handled[provider] \in Seq(Envelope)
  BY ProviderAssumption DEF ProviderInv, AnswerInv, CallInv, TypeInv, TypeOK
<1>2. ASSUME NEW e, handled'[provider] = Append(handled[provider], e)
      PROVE  \A n \in DOMAIN handled[provider] :
               n \in DOMAIN handled'[provider] /\ handled'[provider][n] = handled[provider][n]
  BY <1>1, <1>2
<1>3. \A k : ExpiryHandled(k) => ExpiryHandled(k)'
  BY <1>2 DEF Waited, ExpiryHandled
<1> QED
  BY <1>3 DEF Waited, Carries, Known, Serves, Expires, LoopCalls

LEMMA OnwardOnline ==
  ASSUME ProviderInv, Onward(provider)
  PROVE  Online' /\ Carries
<1>1. TypeInv /\ provider \in Ids /\ out' = out
  BY ProviderAssumption, OnwardData DEF ProviderInv, AnswerInv, CallInv
<1>2. pc[provider] \notin {"absent", "run", "done"}
  BY DEF Onward, ReplyToCaller, Finish, ContinueAtOnce, EnterWait, TakeBuffered, TakeExpired,
         PollNothing, PollCall, PollSend, TakeDefault, Block, SelectSend, SelectCall, SelectTimer
<1>3. CASE Loops(out[provider])
  <2>1. Waited
    BY <1>2, <1>3, WaitsOn
  <2>2. Loops(out[provider])'
    BY <1>1, <1>3 DEF Loops, Sound
  <2>3. Online'
    BY <2>1, <2>2 DEF Waited, Online
  <2> QED
    BY <2>1, <2>3, WaitedCarries
<1>4. CASE /\ out[provider].done /\ pc[provider] \in {"effects", "done"} /\ Sound(cur[provider].input)
  <2>1. ReplyToCaller(provider) \/ Finish(provider)
    BY <1>2, <1>4 DEF Onward, ReplyToCaller, Finish, ContinueAtOnce, EnterWait, TakeBuffered,
         TakeExpired, PollNothing, PollCall, PollSend, TakeDefault, Block, SelectSend,
         SelectCall, SelectTimer
  <2>2. pc'[provider] \in {"effects", "done"} /\ cur' = cur /\ handled' = handled
    BY <1>1, <1>2, <1>4, <2>1 DEF ReplyToCaller, Finish, history, TypeInv, TypeOK
  <2> QED
    BY <1>1, <1>2, <1>4, <2>2 DEF Online, Carries, State, Waiting, Known, ExpiryHandled, Sound
<1> QED
  BY <1>2, <1>3, <1>4 DEF ProviderInv, Online

LEMMA SameOnline ==
  ASSUME ProviderInv, Same(provider)
  PROVE  Online' /\ Carries
<1>1. replyTo[provider] \in Clients \cup {NoClient}
  BY ProviderAssumption DEF ProviderInv, AnswerInv, CallInv, TypeInv, TypeOK
<1>2. Carries
  BY DEF Same, Carries, State, Waiting, Known, ExpiryHandled
<1>3. Loops(out[provider]) => Loops(out[provider])'
  BY DEF Same, Loops, Sound
<1>4. (Opens => Opens') /\ (Expires => Expires')
  BY DEF Same, Opens, Expires, Sound, ExpiryHandled
<1>5. Serves => Serves'
  BY <1>1 DEF Same, Serves, Sound
<1> QED
  BY <1>2, <1>3, <1>4, <1>5 DEF Same, ProviderInv, Online, Sound

\* A client brings the provider online.
LEMMA BornOnline ==
  ASSUME ProviderInv, Born(provider)
  PROVE  Online' /\ ~ Known /\ handled'[provider] = handled[provider]
<1>1. PICK c \in Clients, n \in 1..MaxOps : \E o \in Script(c, n) :
        o.op = "go" /\ o.id = provider /\ Begins(provider, o.key, o.arg)
  BY DEF Born, ProviderInv, Elsewhere
<1>2. PICK o \in Script(c, n) : o.op = "go" /\ o.id = provider /\ Begins(provider, o.key, o.arg)
  BY <1>1
<1>3. o.key = "Init" /\ o.arg \in ProviderInput
  BY <1>2, ProviderAssumption
<1>4. Opens' /\ pc'[provider] = "run" /\ pc[provider] = "absent" /\ handled'[provider] = handled[provider]
  BY <1>2, <1>3 DEF Begins, Opens
<1> QED
  BY <1>4 DEF Online, Known

\* Without its handler, nobody is told anything new.
LEMMA StaysTrue ==
  ASSUME ProviderInv, [Next]_vars, ~ RunHandler(provider), Carries
  PROVE  Confirmed' /\ Promised'
<1>1. \A c \in Clients : \A a : Answer(c, a)' => Answer(c, a) /\ cop'[c] = cop[c]
  BY AnswersKept, ProviderAssumption DEF Answer, ProviderInv
<1>2. \A k : (Booked(k) => Booked(k)') /\ (Reserved(k) => Reserved(k)')
  BY DEF Carries, Booked, Reserved
<1> QED
  BY <1>1, <1>2 DEF Carries, ProviderInv, Confirmed, Promised

LEMMA ProviderInvNext == ProviderInv /\ [Next]_vars => ProviderInv'
<1> SUFFICES ASSUME ProviderInv, [Next]_vars PROVE ProviderInv'
  OBVIOUS
<1>1. AnswerInv /\ provider \in Ids
  BY ProviderAssumption DEF ProviderInv
<1>2. AnswerInv' /\ Elsewhere'
  BY <1>1, AnswerInvNext, ElsewhereNext
<1>3. CASE RunHandler(provider)
  BY <1>2, <1>3, ProviderRuns DEF ProviderInv
<1>4. CASE ~ RunHandler(provider) /\ (Onward(provider) \/ Same(provider))
  BY <1>2, <1>4, OnwardOnline, SameOnline, StaysTrue DEF ProviderInv
<1>5. CASE ~ RunHandler(provider) /\ Born(provider)
  <2>1. Online' /\ ~ Known /\ handled'[provider] = handled[provider]
    BY <1>5, BornOnline
  <2>2. \A c \in Clients : \A a : Answer(c, a)' => Answer(c, a) /\ cop'[c] = cop[c]
    BY <1>1, <1>5, AnswersKept DEF Answer
  <2>3. Confirmed' /\ Promised'
    BY <2>1, <2>2 DEF ProviderInv, Confirmed, Promised, Booked, Reserved, ExpiryHandled
  <2> QED
    BY <1>2, <2>1, <2>3 DEF ProviderInv
<1> QED
  BY <1>1, <1>3, <1>4, <1>5, StepsOf

LEMMA ProviderInvInit == Init => ProviderInv
<1> SUFFICES ASSUME Init PROVE ProviderInv
  OBVIOUS
<1>1. AnswerInv
  BY AnswerInvInit
<1>2. Elsewhere /\ Online
  BY ProviderAssumption DEF Init, Elsewhere, Online
<1>3. Confirmed /\ Promised
  BY DEF Init, Confirmed, Promised, Answer, Answered, Called
<1> QED
  BY <1>1, <1>2, <1>3 DEF ProviderInv

LEMMA ProviderInvAlways == Spec => []ProviderInv
BY ProviderInvInit, ProviderInvNext, PTL DEF Spec

-----------------------------------------------------------------------------
(* The theorems.                                                           *)

LEMMA ToldAnswer ==
  ASSUME NEW c, NEW a, Told(c, a)
  PROVE  Answer(c, a)
BY DEF Told, Answer, Answered, Called, Has

\* Whoever was told that a booking is confirmed stays booked, whatever
\* expiries, reservations and other confirmations the provider handles later.
THEOREM BookingsStay == Spec => []ConfirmedStaysBooked
<1>1. ProviderInv => ConfirmedStaysBooked
  BY ToldAnswer DEF ProviderInv, Confirmed, Booked, ConfirmedStaysBooked
<1> QED
  BY <1>1, ProviderInvAlways, PTL

\* No slot is reserved and booked at once: HandleReserve checks both maps, and
\* HandleConfirmAndPay deletes what it books.
THEOREM SlotsAreSound == Spec => []ReservedOrBooked
<1>1. ASSUME ProviderInv, Known PROVE Sound(State)
  <2>1. CASE pc[provider] = "run"
    <3>1. Sound(cur[provider].input)
      BY <1>1, <2>1 DEF ProviderInv, Online, Known, Opens, Serves, Expires
    <3> QED
      BY <2>1, <3>1 DEF State, Waiting
  <2>2. CASE pc[provider] # "run"
    <3>1. \/ Loops(out[provider]) /\ pc[provider] # "done"
          \/ out[provider].done /\ Sound(cur[provider].input)
      BY <1>1, <2>2 DEF ProviderInv, Online, Known
    <3>2. pc[provider] # "done" => Waiting(provider)
      BY <1>1, <2>2, ProviderAssumption
      DEF ProviderInv, AnswerInv, CallInv, TypeInv, TypeOK, Known, Waiting
    <3> QED
      BY <3>1, <3>2 DEF State, Loops
  <2> QED
    BY <2>1, <2>2
<1>2. ProviderInv => ReservedOrBooked
  BY <1>1 DEF ReservedOrBooked, Sound
<1> QED
  BY <1>2, ProviderInvAlways, PTL

\* Whoever was told that a slot is reserved holds it, reserved or booked,
\* until the provider is handed the expiry of that reservation.
THEOREM ReservationsHold == Spec => []ReservationIsHeld
<1>1. ProviderInv => ReservationIsHeld
  BY ToldAnswer DEF ProviderInv, Promised, Booked, Reserved, ReservationIsHeld
<1> QED
  BY <1>1, ProviderInvAlways, PTL

=============================================================================
