-------------------------- MODULE TemporalCallProofs --------------------------
(***************************************************************************)
(* Proofs about calls on the Temporal backend: a run that closes leaves no *)
(* caller behind, and every caller has exactly one answer coming, through  *)
(* failures, completion and continue-as-new.                               *)
(***************************************************************************)
EXTENDS TemporalProofs

\* Neither part is inductive alone: a new run starts with the queue of the one
\* before it, which is empty only because a run that closed owes nothing.
CallInv == TypeInv /\ ClosedRunOwesNothing /\ CallOwnership

-----------------------------------------------------------------------------
(* The line of one routine: how it changes when calls come and go.         *)

\* The two parts of a line: the call being served, and the ones that wait.
Front(s, c) == IF s # Nil /\ s.client = c THEN {0} ELSE {}
Rest(q, c)  == {p \in 1..Len(q) : q[p].client = c}

LEMMA LineParts ==
  ASSUME NEW s, NEW q \in Seq(PendingCall), NEW c
  PROVE  Line(s, q, c) = Front(s, c) \cup Rest(q, c)
<1>1. Len(q) \in Nat /\ \A p \in 1..Len(q) : q[p] \in PendingCall
  BY LenProperties, ElementOfSeq
<1>2. \A p \in 1..Len(q) : q[p] # Nil /\ p # 0 /\ p \in 0..Len(q)
  BY <1>1, TemporalAssumption
<1>3. 0 \in 0..Len(q) /\ \A p \in 0..Len(q) : p = 0 \/ p \in 1..Len(q)
  BY <1>1
<1> QED
  BY <1>2, <1>3 DEF Line, Front, Rest

LEMMA RestType ==
  ASSUME NEW q \in Seq(PendingCall), NEW c
  PROVE  Rest(q, c) \in SUBSET Nat /\ 0 \notin Rest(q, c)
<1>1. Len(q) \in Nat
  BY LenProperties
<1> QED
  BY <1>1 DEF Rest

LEMMA LineType ==
  ASSUME NEW s, NEW q \in Seq(PendingCall), NEW c
  PROVE  Line(s, q, c) \in SUBSET Nat
<1>1. Front(s, c) \in SUBSET Nat
  BY DEF Front
<1>2. Rest(q, c) \in SUBSET Nat
  BY RestType
<1>3. Line(s, q, c) = Front(s, c) \cup Rest(q, c)
  BY LineParts
<1> QED
  BY <1>1, <1>2, <1>3

\* The line when the queue has moved up by one.
MovedUp(line) == {p - 1 : p \in line}

\* The line when its front has been answered.
FrontLeft(line) == line \ {0}

LEMMA LineAppend ==
  ASSUME NEW s, NEW q \in Seq(PendingCall), NEW e \in PendingCall, NEW c
  PROVE  Line(s, Append(q, e), c) =
           IF e.client = c THEN Line(s, q, c) \cup {Len(q) + 1} ELSE Line(s, q, c)
<1> DEFINE a == Append(q, e)
<1>1. /\ a \in Seq(PendingCall) /\ Len(q) \in Nat /\ Len(a) = Len(q) + 1
      /\ a[Len(q) + 1] = e /\ \A p \in 1..Len(q) : a[p] = q[p]
  BY AppendProperties, LenProperties
<1> HIDE DEF a
<1>2. \A p : p \in 1..Len(a) <=> p \in 1..Len(q) \/ p = Len(q) + 1
  BY <1>1
<1>3. Rest(a, c) = IF e.client = c THEN Rest(q, c) \cup {Len(q) + 1} ELSE Rest(q, c)
  BY <1>1, <1>2 DEF Rest
<1>4. Line(s, q, c) = Front(s, c) \cup Rest(q, c) /\ Line(s, a, c) = Front(s, c) \cup Rest(a, c)
  BY <1>1, LineParts
<1> QED
  BY <1>3, <1>4 DEF a

\* The oldest call is taken up.
LEMMA LineServe ==
  ASSUME NEW q \in Seq(PendingCall), q # <<>>, NEW c
  PROVE  Line(Head(q), Tail(q), c) = MovedUp(Line(Nil, q, c))
<1> DEFINE h == Head(q)
           t == Tail(q)
<1>1. /\ t \in Seq(PendingCall) /\ Len(q) \in Nat \ {0} /\ Len(t) = Len(q) - 1
      /\ h = q[1] /\ \A p \in 1..Len(t) : t[p] = q[p + 1]
      /\ h \in PendingCall
  BY EmptySeq, HeadTailProperties, LenProperties
<1>2. h # Nil
  BY <1>1, TemporalAssumption
<1> HIDE DEF h, t
<1>3. Line(Nil, q, c) = Rest(q, c) /\ Line(h, t, c) = Front(h, c) \cup Rest(t, c)
  <2>1. Line(Nil, q, c) = Front(Nil, c) \cup Rest(q, c)
    BY LineParts
  <2>2. Front(Nil, c) = {}
    BY DEF Front
  <2>3. Line(h, t, c) = Front(h, c) \cup Rest(t, c)
    BY <1>1, LineParts
  <2> QED
    BY <2>1, <2>2, <2>3
<1>4. ASSUME NEW p \in Front(h, c) \cup Rest(t, c)
      PROVE  p \in {r - 1 : r \in Rest(q, c)}
  <2>1. /\ p = 0 \/ p \in 1..Len(t)
        /\ p \in Nat /\ p + 1 \in 1..Len(q) /\ (p + 1) - 1 = p
    BY <1>1 DEF Front, Rest
  <2>2. q[p + 1].client = c
    BY <1>1, <2>1 DEF Front, Rest
  <2>3. p + 1 \in Rest(q, c)
    BY <2>1, <2>2 DEF Rest
  <2> QED
    BY <2>1, <2>3
<1>5. ASSUME NEW r \in Rest(q, c)
      PROVE  r - 1 \in Front(h, c) \cup Rest(t, c)
  <2>1. r \in 1..Len(q) /\ q[r].client = c
    BY DEF Rest
  <2>2. r = 1 \/ (r - 1 \in 1..Len(t) /\ (r - 1) + 1 = r)
    BY <1>1, <2>1
  <2>3. CASE r = 1
    BY <1>1, <1>2, <2>1, <2>3 DEF Front
  <2>4. CASE r - 1 \in 1..Len(t) /\ (r - 1) + 1 = r
    BY <1>1, <2>1, <2>4 DEF Rest
  <2> QED
    BY <2>2, <2>3, <2>4
<1>6. Line(h, t, c) = MovedUp(Line(Nil, q, c))
  BY <1>3, <1>4, <1>5 DEF MovedUp
<1> QED
  BY <1>6 DEF h, t

\* The call that was taken up is answered.
LEMMA LineServed ==
  ASSUME NEW s, NEW q \in Seq(PendingCall), NEW c
  PROVE  Line(Nil, q, c) = FrontLeft(Line(s, q, c))
<1>1. Line(Nil, q, c) = Front(Nil, c) \cup Rest(q, c) /\ Line(s, q, c) = Front(s, c) \cup Rest(q, c)
  BY LineParts
<1> QED
  BY <1>1, RestType DEF Front, FrontLeft

\* The oldest call is answered without being taken up.
LEMMA LineDrain ==
  ASSUME NEW q \in Seq(PendingCall), q # <<>>, NEW c
  PROVE  Line(Nil, Tail(q), c) = FrontLeft(MovedUp(Line(Nil, q, c)))
<1>1. Tail(q) \in Seq(PendingCall)
  BY EmptySeq, HeadTailProperties
<1>2. Line(Nil, Tail(q), c) = FrontLeft(Line(Head(q), Tail(q), c))
  BY <1>1, LineServed
<1> QED
  BY <1>2, LineServe

LEMMA LineEmpty == \A c : Line(Nil, <<>>, c) = {}
<1>1. <<>> \in Seq(PendingCall) /\ 1..Len(<<>>) = {}
  BY EmptySeq
<1>2. \A c : Line(Nil, <<>>, c) = Front(Nil, c) \cup Rest(<<>>, c)
  BY <1>1, LineParts
<1> QED
  BY <1>1, <1>2 DEF Front, Rest

-----------------------------------------------------------------------------
(* The places of a client's call, put together from the lines.             *)

\* lines[i] is the line of client c in routine i.
Lines(c) == [i \in Ids |-> Line(serving[i], pending[i], c)]
NextLines(c) == [i \in Ids |-> Line(serving'[i], pending'[i], c)]

PlacesOf(lines) == UNION {{<<i, p>> : p \in lines[i]} : i \in Ids}
Nowhere(lines) == \A i \in Ids : lines[i] = {}
InOnePlace(lines) == \E i \in Ids : \E p \in Nat : lines[i] = {p} /\ \A j \in Ids : j # i => lines[j] = {}

\* What CallOwnership says of one client: a tells whether it awaits an answer,
\* r is its resp and waits are the queues.
OneAnswer(a, r, waits, places) ==
  IF a
  THEN \/ r = <<>> /\ \E i \in Ids : \E p \in 0..Len(waits[i]) : places = {<<i, p>>}
       \/ Len(r) = 1 /\ places = {}
  ELSE r = <<>> /\ places = {}

\* The same in terms of its lines.
Answerable(a, r, lines) ==
  IF a THEN \/ r = <<>> /\ InOnePlace(lines)
            \/ Len(r) = 1 /\ Nowhere(lines)
  ELSE r = <<>> /\ Nowhere(lines)

LEMMA NoPlace ==
  ASSUME NEW lines \in [Ids -> SUBSET Nat]
  PROVE  PlacesOf(lines) = {} <=> Nowhere(lines)
<1>1. \A i \in Ids, p \in Nat : p \in lines[i] => <<i, p>> \in PlacesOf(lines)
  BY DEF PlacesOf
<1>2. \A w \in PlacesOf(lines) : \E i \in Ids : \E p \in Nat : w = <<i, p>> /\ p \in lines[i]
  BY DEF PlacesOf
<1> QED
  BY <1>1, <1>2 DEF Nowhere

LEMMA OnePlace ==
  ASSUME NEW lines \in [Ids -> SUBSET Nat], NEW i \in Ids, NEW p \in Nat
  PROVE  PlacesOf(lines) = {<<i, p>>} <=> lines[i] = {p} /\ \A j \in Ids : j # i => lines[j] = {}
<1>1. \A j \in Ids, r \in Nat : <<j, r>> \in PlacesOf(lines) <=> r \in lines[j]
  BY DEF PlacesOf
<1>2. \A w \in PlacesOf(lines) : \E j \in Ids : \E r \in Nat : w = <<j, r>> /\ r \in lines[j]
  BY DEF PlacesOf
<1>3. ASSUME PlacesOf(lines) = {<<i, p>>}
      PROVE  lines[i] = {p} /\ \A j \in Ids : j # i => lines[j] = {}
  <2>1. ASSUME NEW j \in Ids, NEW r \in lines[j]
        PROVE  j = i /\ r = p
    <3>1. <<j, r>> \in PlacesOf(lines)
      BY <1>1
    <3>2. <<j, r>> = <<i, p>>
      BY <1>3, <3>1
    <3> QED
      BY <3>2
  <2>2. p \in lines[i]
    BY <1>1, <1>3
  <2> QED
    BY <2>1, <2>2
<1>4. ASSUME lines[i] = {p} /\ \A j \in Ids : j # i => lines[j] = {}
      PROVE  PlacesOf(lines) = {<<i, p>>}
  <2>1. \A w \in PlacesOf(lines) : w = <<i, p>>
    BY <1>2, <1>4
  <2>2. <<i, p>> \in PlacesOf(lines)
    BY <1>1, <1>4
  <2> QED
    BY <2>1, <2>2
<1> QED
  BY <1>3, <1>4

LEMMA AnswerByLines ==
  ASSUME NEW waits \in [Ids -> Seq(PendingCall)], NEW lines \in [Ids -> SUBSET Nat],
         \A i \in Ids : \A p \in lines[i] : p \in 0..Len(waits[i]),
         NEW a, NEW r
  PROVE  OneAnswer(a, r, waits, PlacesOf(lines)) <=> Answerable(a, r, lines)
<1>1. \A i \in Ids : Len(waits[i]) \in Nat
  BY LenProperties
<1>2. (\E i \in Ids : \E p \in 0..Len(waits[i]) : PlacesOf(lines) = {<<i, p>>}) <=> InOnePlace(lines)
  <2>1. \A i \in Ids : \A p \in 0..Len(waits[i]) : p \in Nat
    BY <1>1
  <2>2. \A i \in Ids : \A p \in Nat : lines[i] = {p} => p \in 0..Len(waits[i])
    OBVIOUS
  <2>3. \A i \in Ids : \A p \in Nat :
          PlacesOf(lines) = {<<i, p>>} <=> lines[i] = {p} /\ \A j \in Ids : j # i => lines[j] = {}
    BY OnePlace
  <2> QED
    BY <2>1, <2>2, <2>3, SMTT(30) DEF InOnePlace
<1> QED
  BY <1>2, NoPlace DEF OneAnswer, Answerable

LEMMA LinesOfQueues ==
  ASSUME NEW serves \in [Ids -> PendingCall \cup {Nil}], NEW waits \in [Ids -> Seq(PendingCall)],
         NEW c, NEW lines, lines = [i \in Ids |-> Line(serves[i], waits[i], c)]
  PROVE  /\ lines \in [Ids -> SUBSET Nat]
         /\ \A i \in Ids : \A p \in lines[i] : p \in 0..Len(waits[i])
<1>1. \A i \in Ids : lines[i] \in SUBSET Nat
  BY LineType
<1>2. \A i \in Ids : \A p \in lines[i] : p \in 0..Len(waits[i])
  BY DEF Line
<1> QED
  BY <1>1, <1>2

LEMMA OwnershipByLines ==
  ASSUME TypeInv, CallOwnership, NEW c \in Clients
  PROVE  Lines(c) \in [Ids -> SUBSET Nat] /\ Answerable(cpc[c] = "awaiting", resp[c], Lines(c))
<1>1. serving \in [Ids -> PendingCall \cup {Nil}] /\ pending \in [Ids -> Seq(PendingCall)]
  BY DEF TypeInv, TypeOK
<1>2. /\ Lines(c) \in [Ids -> SUBSET Nat]
      /\ \A i \in Ids : \A p \in Lines(c)[i] : p \in 0..Len(pending[i])
  BY <1>1, LinesOfQueues DEF Lines
<1>3. Places(c) = PlacesOf(Lines(c))
  BY DEF Places, PlacesOf, Lines
<1>4. OneAnswer(cpc[c] = "awaiting", resp[c], pending, Places(c))
  BY DEF CallOwnership, OneAnswer
<1> QED
  BY <1>1, <1>2, <1>3, <1>4, AnswerByLines

LEMMA LinesGiveOwnership ==
  ASSUME TypeInv',
         \A c \in Clients : Answerable(cpc'[c] = "awaiting", resp'[c], NextLines(c))
  PROVE  CallOwnership'
<1>1. serving' \in [Ids -> PendingCall \cup {Nil}] /\ pending' \in [Ids -> Seq(PendingCall)]
  BY DEF TypeInv, TypeOK
<1>2. ASSUME NEW c \in Clients
      PROVE  OneAnswer(cpc'[c] = "awaiting", resp'[c], pending', PlacesOf(NextLines(c)))
  <2>1. /\ NextLines(c) \in [Ids -> SUBSET Nat]
        /\ \A i \in Ids : \A p \in NextLines(c)[i] : p \in 0..Len(pending'[i])
    BY <1>1, LinesOfQueues DEF NextLines
  <2> QED
    BY <1>1, <2>1, AnswerByLines
<1>3. ASSUME NEW c \in Clients
      PROVE  UNION {{<<i, p>> : p \in Line(serving'[i], pending'[i], c)} : i \in Ids} = PlacesOf(NextLines(c))
  BY DEF PlacesOf, NextLines
<1> QED
  BY <1>2, <1>3 DEF CallOwnership, Places, OneAnswer

-----------------------------------------------------------------------------
(* Steps that leave calls alone and close no run.                          *)

Quiet == UNCHANGED <<serving, pending, resp>> /\ \A c \in Clients : cpc[c] = "awaiting" <=> cpc'[c] = "awaiting"
Stays == \A i \in Ids : pc'[i] = pc[i] \/ pc'[i] \notin {"absent", "done", "failed"}

LEMMA SamePlaces ==
  ASSUME NEW c, UNCHANGED <<serving, pending>>
  PROVE  Places(c)' = Places(c)
BY DEF Places, Line

LEMMA QuietOwnership ==
  ASSUME CallInv, Quiet, Stays
  PROVE  ClosedRunOwesNothing' /\ CallOwnership'
<1>1. \A c : Places(c)' = Places(c)
  BY SamePlaces DEF Quiet
<1>2. CallOwnership'
  BY <1>1 DEF CallInv, CallOwnership, Quiet
<1>3. \A i \in Ids : Running(i) => Running(i)'
  BY DEF Stays, Running, Closed
<1>4. ClosedRunOwesNothing'
  BY <1>3 DEF CallInv, ClosedRunOwesNothing, Quiet
<1> QED
  BY <1>2, <1>4

LEMMA SignalStays ==
  ASSUME TypeInv, NEW i \in Ids, NEW k, NEW m, Signal(i, k, m)
  PROVE  Stays
BY DEF Signal, Fire, Stays, TypeInv, TypeOK

LEMMA BeginRunStays ==
  ASSUME TypeInv, NEW i \in Ids, NEW k, NEW x, NEW q, BeginRun(i, k, x, q)
  PROVE  Stays
BY DEF BeginRun, Stays, TypeInv, TypeOK

LEMMA QuietLoop ==
  ASSUME TypeInv, NEW i \in Ids,
         \/ RunActivity(i) \/ DeliverSend(i) \/ EnterSelect(i) \/ ContinueAtOnce(i) \/ TimerFires(i)
         \/ Proceed(i) \/ SuggestContinueAsNew(i) \/ ContinueAsNew(i)
  PROVE  Quiet /\ Stays
<1> USE DEF Quiet, clientVars
<1>1. CASE RunActivity(i)
  BY <1>1 DEF RunActivity, Process, Stays, TypeInv, TypeOK
<1>2. CASE DeliverSend(i)
  <2>1. UNCHANGED pc \/ Stays
    <3>1. Sends(i)[eff[i] + 1].id \in Ids
      BY <1>2, NextSend DEF DeliverSend, SendRequest
    <3> QED
      BY <1>2, <3>1, SignalStays DEF DeliverSend
  <2> QED
    BY <1>2, <2>1 DEF DeliverSend, Stays
<1>3. CASE EnterSelect(i)
  <2>1. \/ \E n, m, t : Fire(i, n, m, t)
        \/ pc' = [pc EXCEPT ![i] = "select"]
    BY <1>3, TakeReadyCaseSplit DEF EnterSelect
  <2>2. Stays
    BY <2>1 DEF Fire, Stays, TypeInv, TypeOK
  <2> QED
    BY <1>3, <2>2 DEF EnterSelect
<1>4. CASE ContinueAtOnce(i) \/ TimerFires(i)
  BY <1>4 DEF ContinueAtOnce, TimerFires, Fire, Stays, TypeInv, TypeOK
<1>5. CASE Proceed(i) \/ SuggestContinueAsNew(i)
  BY <1>5 DEF Proceed, SuggestContinueAsNew, Stays, TypeInv, TypeOK
<1>6. CASE ContinueAsNew(i)
  BY <1>6, BeginRunStays DEF ContinueAsNew
<1> QED
  BY <1>1, <1>2, <1>3, <1>4, <1>5, <1>6

\* The child that the p-th request names.
LEMMA ChildStartAt ==
  ASSUME TypeInv, NEW i \in Ids, NEW p \in DOMAIN starting[i]
  PROVE  starting[i][p] \in ChildStart
<1>1. starting[i] \in Seq(ChildStart)
  BY DEF TypeInv, TypeOK
<1> QED
  BY <1>1, LenProperties, ElementOfSeq

LEMMA QuietChildren ==
  ASSUME TypeInv, NEW i \in Ids, StartChild(i) \/ ForgetChild(i)
  PROVE  Quiet /\ Stays
<1> USE DEF Quiet, clientVars, instVars
<1>1. CASE StartChild(i)
  <2>1. PICK p \in DOMAIN starting[i] :
          \/ UNCHANGED pc
          \/ BeginRun(starting[i][p].id, starting[i][p].key, starting[i][p].input, NoQueries)
    BY <1>1 DEF StartChild
  <2>2. starting[i][p].id \in Ids
    BY ChildStartAt DEF ChildStart
  <2>3. Stays
    BY <2>1, <2>2, BeginRunStays DEF Stays
  <2> QED
    BY <1>1, <2>3 DEF StartChild
<1>2. CASE ForgetChild(i)
  BY <1>2 DEF ForgetChild, Stays
<1> QED
  BY <1>1, <1>2

LEMMA QuietClient ==
  ASSUME TypeInv, NEW c \in Clients, RejectUpdate(c) \/ Invoke(c)
  PROVE  Quiet /\ Stays
<1> USE DEF Quiet, instVars
<1>1. CASE RejectUpdate(c)
  BY <1>1 DEF RejectUpdate, Stays, TypeInv, TypeOK
<1>2. CASE Invoke(c)
  <2>1. PICK o \in Op :
           /\ o.op = "go" => o.arg \in Inputs
           /\ o.op \in {"send", "call"} => o.arg \in Messages
           /\ o.op = "query" => o.name \in Names
           /\ ClientGo(c, o) \/ ClientSend(c, o) \/ ClientCall(c, o) \/ ClientQuery(c, o)
              \/ ClientGet(c, o)
    BY <1>2, InvokeOp
  <2>2. o.id \in Ids
    BY DEF Op
  <2>3. CASE ClientGo(c, o)
    BY <2>2, <2>3, BeginRunStays DEF ClientGo, Stays
  <2>4. CASE ClientSend(c, o)
    BY <2>2, <2>4, SignalStays DEF ClientSend, Stays
  <2>5. CASE ClientCall(c, o) \/ ClientQuery(c, o) \/ ClientGet(c, o)
    <3>1. cpc[c] = "idle" /\ UNCHANGED <<pc, serving, pending, resp>>
      BY <2>5 DEF ClientCall, ClientQuery, ClientGet, Choose
    <3>2. cpc' = cpc \/ \E l \in {"calling", "getting"} : cpc' = [cpc EXCEPT ![c] = l]
      BY <2>5 DEF ClientCall, ClientQuery, ClientGet
    <3> QED
      BY <3>1, <3>2 DEF Stays, TypeInv, TypeOK
  <2> QED
    BY <2>1, <2>3, <2>4, <2>5
<1> QED
  BY <1>1, <1>2

-----------------------------------------------------------------------------
(* How an answer comes closer: the lines of one client when one routine's  *)
(* queue moves.                                                            *)

\* The call is put at the end of a queue.
LEMMA CallAdded ==
  ASSUME NEW lines \in [Ids -> SUBSET Nat], NEW i \in Ids, NEW n \in Nat, Nowhere(lines),
         NEW next \in [Ids -> SUBSET Nat], next = [lines EXCEPT ![i] = lines[i] \cup {n}]
  PROVE  Answerable(TRUE, <<>>, next)
<1>1. next[i] = {n} /\ \A j \in Ids : j # i => next[j] = {}
  BY DEF Nowhere
<1> QED
  BY <1>1 DEF Answerable, InOnePlace

\* The queue moves up by one, and nobody is at its front.
LEMMA CallMovesUp ==
  ASSUME NEW lines \in [Ids -> SUBSET Nat], NEW i \in Ids, 0 \notin lines[i],
         NEW a, NEW r, Answerable(a, r, lines),
         NEW next, next = [lines EXCEPT ![i] = MovedUp(lines[i])]
  PROVE  next \in [Ids -> SUBSET Nat] /\ Answerable(a, r, next)
<1>1. MovedUp(lines[i]) \in SUBSET Nat
  BY DEF MovedUp
<1>2. next \in [Ids -> SUBSET Nat]
  BY <1>1
<1>3. Nowhere(lines) => Nowhere(next)
  BY DEF Nowhere, MovedUp
<1>4. InOnePlace(lines) => InOnePlace(next)
  <2>1. SUFFICES ASSUME NEW j \in Ids, NEW p \in Nat,
                        lines[j] = {p}, \A l \in Ids : l # j => lines[l] = {}
                 PROVE  InOnePlace(next)
    BY DEF InOnePlace
  <2>2. CASE j = i
    <3>1. p - 1 \in Nat /\ next[i] = {p - 1}
      BY <2>1, <2>2 DEF MovedUp
    <3>2. \A l \in Ids : l # i => next[l] = {}
      BY <2>1, <2>2
    <3> QED
      BY <3>1, <3>2 DEF InOnePlace
  <2>3. CASE j # i
    <3>1. MovedUp(lines[i]) = {}
      BY <2>1, <2>3 DEF MovedUp
    <3>2. next[j] = {p} /\ \A l \in Ids : l # j => next[l] = {}
      BY <2>1, <2>3, <3>1
    <3> QED
      BY <3>2 DEF InOnePlace
  <2> QED
    BY <2>2, <2>3
<1> QED
  BY <1>2, <1>3, <1>4 DEF Answerable

\* The call at the front is answered.
LEMMA CallAnswered ==
  ASSUME NEW lines \in [Ids -> SUBSET Nat], NEW i \in Ids, 0 \in lines[i],
         NEW a, NEW r, Answerable(a, r, lines), NEW v \in Response,
         NEW next, next = [lines EXCEPT ![i] = FrontLeft(lines[i])]
  PROVE  a /\ r = <<>> /\ Answerable(TRUE, Append(r, v), next)
<1>1. ~ Nowhere(lines)
  BY DEF Nowhere
<1>2. a /\ r = <<>> /\ InOnePlace(lines)
  BY <1>1 DEF Answerable
<1>3. lines[i] = {0} /\ \A j \in Ids : j # i => lines[j] = {}
  BY <1>2 DEF InOnePlace
<1>4. Nowhere(next)
  BY <1>3 DEF Nowhere, FrontLeft
<1>5. Len(Append(r, v)) = 1
  <2>1. <<>> \in Seq(Response) /\ Len(<<>>) = 0
    BY EmptySeq
  <2> QED
    BY <1>2, <2>1, AppendProperties
<1> QED
  BY <1>2, <1>4, <1>5 DEF Answerable

\* Every call in the line is answered, because the run closes.
LEMMA CallRefused ==
  ASSUME NEW lines \in [Ids -> SUBSET Nat], NEW i \in Ids, lines[i] # {},
         NEW a, NEW r, Answerable(a, r, lines), NEW v \in Response,
         NEW next, next = [lines EXCEPT ![i] = {}]
  PROVE  a /\ r = <<>> /\ Answerable(TRUE, Append(r, v), next)
<1>1. ~ Nowhere(lines)
  BY DEF Nowhere
<1>2. a /\ r = <<>> /\ InOnePlace(lines)
  BY <1>1 DEF Answerable
<1>3. Nowhere(next)
  BY <1>2 DEF Nowhere, InOnePlace
<1>4. Len(Append(r, v)) = 1
  <2>1. <<>> \in Seq(Response) /\ Len(<<>>) = 0
    BY EmptySeq
  <2> QED
    BY <1>2, <2>1, AppendProperties
<1> QED
  BY <1>2, <1>3, <1>4 DEF Answerable

\* A client whose call is not there is not concerned.
LEMMA NotConcerned ==
  ASSUME NEW lines \in [Ids -> SUBSET Nat], NEW i \in Ids
  PROVE  /\ 0 \notin lines[i] => [lines EXCEPT ![i] = FrontLeft(lines[i])] = lines
         /\ lines[i] = {} => [lines EXCEPT ![i] = {}] = lines
BY DEF FrontLeft

\* Who is in a line: at its front the call being served, or else in the queue.
LEMMA WhoIsInLine ==
  ASSUME NEW q \in Seq(PendingCall), NEW c
  PROVE  /\ \A s \in PendingCall : 0 \in Line(s, q, c) <=> s.client = c
         /\ 0 \notin Line(Nil, q, c)
         /\ Line(Nil, q, c) # {} <=> c \in {q[p].client : p \in DOMAIN q}
         /\ q # <<>> => (0 \in MovedUp(Line(Nil, q, c)) <=> Head(q).client = c)
<1>1. /\ \A s : Line(s, q, c) = Front(s, c) \cup Rest(q, c)
      /\ 0 \notin Rest(q, c) /\ Rest(q, c) \in SUBSET Nat
  BY LineParts, RestType
<1>2. \A s \in PendingCall : s # Nil
  BY TemporalAssumption
<1>3. \A s \in PendingCall : 0 \in Line(s, q, c) <=> s.client = c
  BY <1>1, <1>2 DEF Front
<1>4. Line(Nil, q, c) = Rest(q, c)
  BY <1>1 DEF Front
<1>5. Rest(q, c) # {} <=> c \in {q[p].client : p \in DOMAIN q}
  BY LenProperties DEF Rest
<1>6. ASSUME q # <<>>
      PROVE  0 \in MovedUp(Line(Nil, q, c)) <=> Head(q).client = c
  <2>1. Head(q) \in PendingCall /\ Tail(q) \in Seq(PendingCall)
    BY <1>6, HeadTailProperties
  <2>2. MovedUp(Line(Nil, q, c)) = Line(Head(q), Tail(q), c)
    BY <1>6, LineServe
  <2>3. Line(Head(q), Tail(q), c) = Front(Head(q), c) \cup Rest(Tail(q), c) /\ 0 \notin Rest(Tail(q), c)
    BY <2>1, LineParts, RestType
  <2> QED
    BY <1>2, <2>1, <2>2, <2>3 DEF Front
<1> QED
  BY <1>1, <1>3, <1>4, <1>5, <1>6

-----------------------------------------------------------------------------
(* Steps that move, answer or collect a call.                              *)

\* Only the lines of routine i change.
LEMMA NextLinesAt ==
  ASSUME NEW i \in Ids, NEW c,
         \A j \in Ids : j # i => serving'[j] = serving[j] /\ pending'[j] = pending[j]
  PROVE  /\ Lines(c)[i] = Line(serving[i], pending[i], c)
         /\ NextLines(c) = [Lines(c) EXCEPT ![i] = Line(serving'[i], pending'[i], c)]
<1>1. \A j \in Ids : j # i => Line(serving'[j], pending'[j], c) = Line(serving[j], pending[j], c)
  OBVIOUS
<1> QED
  BY <1>1 DEF Lines, NextLines

LEMMA OwnershipRunCall ==
  ASSUME CallInv, NEW i \in Ids, RunCall(i), TypeInv'
  PROVE  ClosedRunOwesNothing' /\ CallOwnership'
<1> DEFINE call == serving[i]
<1>1. TypeInv /\ ClosedRunOwesNothing /\ CallOwnership /\ pc[i] = "call"
  BY DEF CallInv, RunCall
<1>2. call \in PendingCall /\ call.client \in Clients /\ pending[i] \in Seq(PendingCall)
  BY <1>1 DEF TypeInv, TypeOK, WellFormed, PendingCall
<1>3. PICK a \in Outcomes(i, call.key, call.input, call.req) :
        /\ Respond(call.client, a.ok, a.resp)
        /\ pc' = [pc EXCEPT ![i] = "effects"]
  BY DEF RunCall, Process
<1>4. a \in Attempt
  <2>1. call.key \in Keys /\ call.input \in Inputs /\ call.req \in Msg
    BY <1>2 DEF PendingCall, Msg
  <2> QED
    BY <1>1, <1>3, <2>1, OutcomesType DEF TypeInv, TypeOK
<1> DEFINE v == [ok |-> a.ok, value |-> a.resp]
<1>5. v \in Response
  BY <1>4 DEF Attempt, Response
<1>6. serving' = [serving EXCEPT ![i] = Nil] /\ UNCHANGED <<pending, cpc>>
  BY DEF RunCall
<1>7. serving'[i] = Nil /\ \A j \in Ids : j # i => serving'[j] = serving[j]
  BY <1>1, <1>6 DEF TypeInv, TypeOK
<1>8. ClosedRunOwesNothing'
  BY <1>1, <1>3, <1>6, <1>7 DEF ClosedRunOwesNothing, Running, Closed, TypeInv, TypeOK
<1>9. resp' = [resp EXCEPT ![call.client] = Append(resp[call.client], v)]
  BY <1>3 DEF Respond
<1> HIDE DEF call, v
<1>10. ASSUME NEW c \in Clients
       PROVE  Answerable(cpc'[c] = "awaiting", resp'[c], NextLines(c))
  <2>1. Lines(c) \in [Ids -> SUBSET Nat] /\ Answerable(cpc[c] = "awaiting", resp[c], Lines(c))
    BY <1>1, OwnershipByLines
  <2>2. /\ Lines(c)[i] = Line(call, pending[i], c)
        /\ NextLines(c) = [Lines(c) EXCEPT ![i] = Line(Nil, pending[i], c)]
    BY <1>6, <1>7, NextLinesAt DEF call
  <2>3. NextLines(c) = [Lines(c) EXCEPT ![i] = FrontLeft(Lines(c)[i])]
    <3>1. Line(Nil, pending[i], c) = FrontLeft(Line(call, pending[i], c))
      BY <1>2, LineServed
    <3> QED
      BY <2>2, <3>1
  <2>4. 0 \in Lines(c)[i] <=> call.client = c
    <3>1. 0 \in Line(call, pending[i], c) <=> call.client = c
      BY <1>2, WhoIsInLine
    <3> QED
      BY <2>2, <3>1
  <2>5. CASE call.client = c
    <3>1. /\ cpc[c] = "awaiting" /\ Answerable(TRUE, Append(resp[c], v), NextLines(c))
      <4>1. 0 \in Lines(c)[i]
        BY <2>4, <2>5
      <4> QED
        BY <1>5, <2>1, <2>3, <4>1, CallAnswered
    <3>2. resp'[c] = Append(resp[c], v)
      BY <1>1, <1>9, <2>5 DEF TypeInv, TypeOK
    <3> QED
      BY <1>6, <3>1, <3>2
  <2>6. CASE call.client # c
    <3>1. NextLines(c) = Lines(c)
      BY <2>1, <2>3, <2>4, <2>6, NotConcerned
    <3>2. resp'[c] = resp[c]
      BY <1>1, <1>9, <2>6 DEF TypeInv, TypeOK
    <3> QED
      BY <1>6, <2>1, <3>1, <3>2
  <2> QED
    BY <2>5, <2>6
<1> QED
  BY <1>8, <1>10, LinesGiveOwnership

LEMMA OwnershipDrainCall ==
  ASSUME CallInv, NEW i \in Ids, DrainCall(i), TypeInv'
  PROVE  ClosedRunOwesNothing' /\ CallOwnership'
<1> DEFINE call == Head(pending[i])
<1>1. TypeInv /\ ClosedRunOwesNothing /\ CallOwnership /\ pc[i] = "drain" /\ pending[i] # <<>>
  BY DEF CallInv, DrainCall
<1>2. /\ call \in PendingCall /\ call.client \in Clients
      /\ call.key \in Keys /\ call.input \in Inputs /\ call.req \in Msg
      /\ pending[i] \in Seq(PendingCall) /\ Tail(pending[i]) \in Seq(PendingCall)
  BY <1>1, PendingTypes DEF TypeInv, TypeOK
<1>3. PICK a \in Ends(i, call.key, call.input, call.req) : Respond(call.client, a.ok, a.resp)
  BY DEF DrainCall
<1>4. a \in Attempt
  BY <1>1, <1>2, <1>3, EndsType DEF TypeInv, TypeOK
<1> DEFINE v == [ok |-> a.ok, value |-> a.resp]
<1>5. v \in Response
  BY <1>4 DEF Attempt, Response
<1>6. pending' = [pending EXCEPT ![i] = Tail(pending[i])] /\ UNCHANGED <<pc, serving, cpc>>
  BY DEF DrainCall
<1>7. /\ pending'[i] = Tail(pending[i]) /\ serving[i] = Nil
      /\ \A j \in Ids : j # i => pending'[j] = pending[j]
  BY <1>1, <1>6 DEF TypeInv, TypeOK, WellFormed
<1>8. ClosedRunOwesNothing'
  <2>1. Running(i)
    BY <1>1 DEF Running, Closed
  <2>2. \A j \in Ids : Running(j)' <=> Running(j)
    BY <1>6 DEF Running, Closed
  <2> QED
    BY <1>1, <1>6, <1>7, <2>1, <2>2 DEF ClosedRunOwesNothing
<1>9. resp' = [resp EXCEPT ![call.client] = Append(resp[call.client], v)]
  BY <1>3 DEF Respond
<1> HIDE DEF call, v
<1>10. ASSUME NEW c \in Clients
       PROVE  Answerable(cpc'[c] = "awaiting", resp'[c], NextLines(c))
  <2> DEFINE moved == [Lines(c) EXCEPT ![i] = MovedUp(Lines(c)[i])]
  <2>1. Lines(c) \in [Ids -> SUBSET Nat] /\ Answerable(cpc[c] = "awaiting", resp[c], Lines(c))
    BY <1>1, OwnershipByLines
  <2>2. /\ Lines(c)[i] = Line(Nil, pending[i], c)
        /\ NextLines(c) = [Lines(c) EXCEPT ![i] = Line(Nil, Tail(pending[i]), c)]
    BY <1>6, <1>7, NextLinesAt
  <2>3. 0 \notin Lines(c)[i]
    BY <1>2, <2>2, WhoIsInLine
  <2>0. moved = [Lines(c) EXCEPT ![i] = MovedUp(Lines(c)[i])]
    OBVIOUS
  <2> HIDE DEF moved
  <2>4. moved \in [Ids -> SUBSET Nat] /\ Answerable(cpc[c] = "awaiting", resp[c], moved)
    BY <2>0, <2>1, <2>3, CallMovesUp, ZenonT(30)
  <2>5. moved[i] = MovedUp(Lines(c)[i])
    BY <2>0, <2>1
  <2>6. NextLines(c) = [moved EXCEPT ![i] = FrontLeft(moved[i])]
    <3>1. NextLines(c) = [Lines(c) EXCEPT ![i] = FrontLeft(moved[i])]
      <4>1. Line(Nil, Tail(pending[i]), c) = FrontLeft(MovedUp(Line(Nil, pending[i], c)))
        BY <1>1, <1>2, LineDrain
      <4> QED
        BY <2>2, <2>5, <4>1
    <3> DEFINE rest == FrontLeft(moved[i])
    <3>2. NextLines(c) = [Lines(c) EXCEPT ![i] = rest]
      BY <3>1
    <3> HIDE DEF rest
    <3>3. NextLines(c) = [moved EXCEPT ![i] = rest]
      BY <2>0, <2>1, <3>2
    <3> QED
      BY <3>3 DEF rest
  <2>7. 0 \in moved[i] <=> call.client = c
    BY <1>1, <1>2, <2>2, <2>5, WhoIsInLine DEF call
  <2>8. CASE call.client = c
    <3>1. /\ cpc[c] = "awaiting" /\ Answerable(TRUE, Append(resp[c], v), NextLines(c))
      <4>1. 0 \in moved[i]
        BY <2>7, <2>8
      <4> QED
        BY <1>5, <2>4, <2>6, <4>1, CallAnswered
    <3>2. resp'[c] = Append(resp[c], v)
      BY <1>1, <1>9, <2>8 DEF TypeInv, TypeOK
    <3> QED
      BY <1>6, <3>1, <3>2
  <2>9. CASE call.client # c
    <3>1. NextLines(c) = moved
      BY <2>4, <2>6, <2>7, <2>9, NotConcerned
    <3>2. resp'[c] = resp[c]
      BY <1>1, <1>9, <2>9 DEF TypeInv, TypeOK
    <3> QED
      BY <1>6, <2>4, <3>1, <3>2
  <2> QED
    BY <2>8, <2>9
<1> QED
  BY <1>8, <1>10, LinesGiveOwnership

LEMMA OwnershipAcceptUpdate ==
  ASSUME CallInv, NEW c \in Clients, AcceptUpdate(c), TypeInv'
  PROVE  ClosedRunOwesNothing' /\ CallOwnership'
<1> DEFINE i == cop[c].id
           e == [client |-> c, key |-> cop[c].key, req |-> cop[c].arg, input |-> updates[i][cop[c].key]]
           queue == Append(pending[i], e)
<1>1. TypeInv /\ ClosedRunOwesNothing /\ CallOwnership
  BY DEF CallInv
<1>2. /\ cpc[c] = "calling" /\ Running(i) /\ updates[i][cop[c].key] # Nil
      /\ cpc' = [cpc EXCEPT ![c] = "awaiting"] /\ resp' = resp
      /\ IF Listening(i)
         THEN /\ serving' = [serving EXCEPT ![i] = Head(queue)]
              /\ pending' = [pending EXCEPT ![i] = Tail(queue)]
              /\ pc' = [pc EXCEPT ![i] = "call"]
         ELSE /\ pending' = [pending EXCEPT ![i] = queue]
              /\ UNCHANGED <<serving, pc>>
  BY DEF AcceptUpdate
<1>3. i \in Ids /\ cop[c].key \in Keys /\ cop[c].arg \in Messages
  BY <1>1, <1>2, AcceptedOp
<1> HIDE DEF i
<1>4. e \in PendingCall /\ e.client = c /\ pending[i] \in Seq(PendingCall)
  <2>1. updates[i][cop[c].key] \in Inputs
    <3>1. updates \in [Ids -> [Keys -> Inputs \cup {Nil}]]
      BY <1>1 DEF TypeInv, TypeOK
    <3> QED
      BY <1>2, <1>3, <3>1
  <2>2. pending[i] \in Seq(PendingCall)
    BY <1>1, <1>3 DEF TypeInv, TypeOK
  <2> QED
    BY <1>3, <2>1, <2>2 DEF PendingCall
<1> HIDE DEF e
<1>5. queue \in Seq(PendingCall) /\ queue # <<>> /\ Len(pending[i]) + 1 \in Nat
  BY <1>4, AppendProperties, LenProperties
<1>6. Listening(i) => serving[i] = Nil
  BY <1>1, <1>3 DEF Listening, TypeInv, WellFormed
<1> HIDE DEF queue
<1>7. \A j \in Ids : j # i => serving'[j] = serving[j] /\ pending'[j] = pending[j]
  <2>1. /\ serving' = serving \/ serving' = [serving EXCEPT ![i] = Head(queue)]
        /\ pending' = [pending EXCEPT ![i] = Tail(queue)] \/ pending' = [pending EXCEPT ![i] = queue]
    BY <1>2
  <2>2. DOMAIN serving = Ids /\ DOMAIN pending = Ids
    BY <1>1 DEF TypeInv, TypeOK
  <2> QED
    BY <2>1, <2>2
<1>8. ClosedRunOwesNothing'
  <2>1. pc' = pc \/ pc' = [pc EXCEPT ![i] = "call"]
    BY <1>2
  <2>2. DOMAIN pc = Ids /\ pc[i] \notin {"absent", "done", "failed"}
    BY <1>1, <1>2 DEF TypeInv, TypeOK, Running, Closed
  <2>3. pc'[i] \notin {"absent", "done", "failed"} /\ \A j \in Ids : j # i => pc'[j] = pc[j]
    BY <1>3, <2>1, <2>2
  <2>4. \A j \in Ids : ~ Running(j)' => j # i /\ ~ Running(j)
    BY <2>3 DEF Running, Closed
  <2> QED
    BY <1>1, <1>7, <2>4 DEF ClosedRunOwesNothing
<1>9. ASSUME NEW d \in Clients
      PROVE  Answerable(cpc'[d] = "awaiting", resp'[d], NextLines(d))
  <2>1. Lines(d) \in [Ids -> SUBSET Nat] /\ Answerable(cpc[d] = "awaiting", resp[d], Lines(d))
    BY <1>1, OwnershipByLines
  <2>2. /\ Lines(d)[i] = Line(serving[i], pending[i], d)
        /\ NextLines(d) = [Lines(d) EXCEPT ![i] = Line(serving'[i], pending'[i], d)]
    BY <1>3, <1>7, NextLinesAt
  <2> DEFINE added == [Lines(d) EXCEPT ![i] = Line(serving[i], queue, d)]
  <2>3. Line(serving[i], queue, d) =
          IF d = c THEN Lines(d)[i] \cup {Len(pending[i]) + 1} ELSE Lines(d)[i]
    <3>1. Line(serving[i], Append(pending[i], e), d) =
            IF e.client = d THEN Line(serving[i], pending[i], d) \cup {Len(pending[i]) + 1}
            ELSE Line(serving[i], pending[i], d)
      BY <1>4, LineAppend
    <3> QED
      BY <1>4, <2>2, <3>1 DEF queue
  <2>4. added \in [Ids -> SUBSET Nat] /\ added[i] = Line(serving[i], queue, d)
    BY <1>3, <1>5, <2>1, LineType
  <2>5. Answerable(cpc'[d] = "awaiting", resp'[d], added)
    <3>1. CASE d = c
      <4>1. resp'[d] = <<>> /\ Nowhere(Lines(d)) /\ cpc'[d] = "awaiting"
        BY <1>1, <1>2, <2>1, <3>1 DEF Answerable, TypeInv, TypeOK
      <4>2. added = [Lines(d) EXCEPT ![i] = Lines(d)[i] \cup {Len(pending[i]) + 1}]
        BY <2>3, <3>1
      <4> HIDE DEF added
      <4>3. Answerable(TRUE, <<>>, added)
        BY <1>3, <1>5, <2>1, <2>4, <4>1, <4>2, CallAdded
      <4> QED
        BY <4>1, <4>3
    <3>2. CASE d # c
      <4>1. added = Lines(d)
        BY <2>1, <2>3, <3>2
      <4>2. cpc'[d] = cpc[d] /\ resp'[d] = resp[d]
        BY <1>1, <1>2, <3>2 DEF TypeInv, TypeOK
      <4> QED
        BY <2>1, <4>1, <4>2
    <3> QED
      BY <3>1, <3>2
  <2>6. CASE ~ Listening(i)
    <3>1. serving'[i] = serving[i] /\ pending'[i] = queue
      BY <1>1, <1>2, <1>3, <2>6 DEF TypeInv, TypeOK
    <3> QED
      BY <2>2, <2>5, <3>1
  <2>7. CASE Listening(i)
    <3>1. serving[i] = Nil /\ serving'[i] = Head(queue) /\ pending'[i] = Tail(queue)
      BY <1>1, <1>2, <1>3, <1>6, <2>7 DEF TypeInv, TypeOK
    <3>2. Line(Head(queue), Tail(queue), d) = MovedUp(Line(Nil, queue, d))
      BY <1>5, LineServe
    <3>3. NextLines(d) = [added EXCEPT ![i] = MovedUp(added[i])]
      <4>1. NextLines(d) = [Lines(d) EXCEPT ![i] = MovedUp(added[i])]
        BY <2>2, <2>4, <3>1, <3>2
      <4> QED
        BY <2>1, <2>4, <4>1
    <3>4. 0 \notin added[i]
      <4>1. 0 \notin Line(Nil, queue, d)
        BY <1>5, WhoIsInLine
      <4> QED
        BY <2>4, <3>1, <4>1
    <3> HIDE DEF added
    <3> QED
      BY <1>3, <2>4, <2>5, <3>3, <3>4, CallMovesUp, ZenonT(30)
  <2> QED
    BY <2>6, <2>7
<1> QED
  BY <1>8, <1>9, LinesGiveOwnership

\* A run that closes answers every call in its queue; none is being served.
LEMMA OwnershipCloseRun ==
  ASSUME CallInv, NEW i \in Ids, pc[i] \in {"activity", "effects"},
         NEW ok, NEW v, CloseRun(i, ok, v), UNCHANGED serving, TypeInv'
  PROVE  ClosedRunOwesNothing' /\ CallOwnership'
<1> DEFINE waiting == {pending[i][p].client : p \in DOMAIN pending[i]}
           refusal == [ok |-> FALSE, value |-> Nil]
<1>1. TypeInv /\ ClosedRunOwesNothing /\ CallOwnership
  BY DEF CallInv
<1>2. serving[i] = Nil /\ serving'[i] = Nil /\ pending[i] \in Seq(PendingCall)
  BY <1>1 DEF TypeInv, TypeOK, WellFormed
<1>3. /\ pending' = [pending EXCEPT ![i] = <<>>]
      /\ pc' = [pc EXCEPT ![i] = IF ok THEN "done" ELSE "failed"]
      /\ resp' = [c \in Clients |-> IF c \in waiting THEN Append(resp[c], refusal) ELSE resp[c]]
      /\ \A c \in Clients : cpc'[c] = "awaiting" <=> cpc[c] = "awaiting"
  BY DEF CloseRun
<1>4. refusal \in Response
  BY DEF Response, Value
<1>5. pending'[i] = <<>> /\ \A j \in Ids : j # i => pending'[j] = pending[j] /\ serving'[j] = serving[j]
  BY <1>1, <1>3 DEF TypeInv, TypeOK
<1>6. ClosedRunOwesNothing'
  <2>1. \A j \in Ids : j # i => (Running(j)' <=> Running(j))
    BY <1>1, <1>3 DEF Running, Closed, TypeInv, TypeOK
  <2> QED
    BY <1>1, <1>2, <1>5, <2>1 DEF ClosedRunOwesNothing
<1> HIDE DEF waiting, refusal
<1>7. ASSUME NEW c \in Clients
      PROVE  Answerable(cpc'[c] = "awaiting", resp'[c], NextLines(c))
  <2>1. Lines(c) \in [Ids -> SUBSET Nat] /\ Answerable(cpc[c] = "awaiting", resp[c], Lines(c))
    BY <1>1, OwnershipByLines
  <2>2. /\ Lines(c)[i] = Line(Nil, pending[i], c)
        /\ NextLines(c) = [Lines(c) EXCEPT ![i] = Line(Nil, <<>>, c)]
    BY <1>2, <1>5, NextLinesAt
  <2>3. NextLines(c) = [Lines(c) EXCEPT ![i] = {}]
    BY <2>2, LineEmpty
  <2>4. Lines(c)[i] # {} <=> c \in waiting
    BY <1>2, <2>2, WhoIsInLine DEF waiting
  <2>5. CASE c \in waiting
    <3>1. cpc[c] = "awaiting" /\ Answerable(TRUE, Append(resp[c], refusal), NextLines(c))
      BY <1>4, <2>1, <2>3, <2>4, <2>5, CallRefused
    <3> QED
      BY <1>3, <2>5, <3>1
  <2>6. CASE c \notin waiting
    <3>1. NextLines(c) = Lines(c)
      BY <2>1, <2>3, <2>4, <2>6, NotConcerned
    <3> QED
      BY <1>3, <2>1, <2>6, <3>1
  <2> QED
    BY <2>5, <2>6
<1> QED
  BY <1>6, <1>7, LinesGiveOwnership

LEMMA OwnershipCloses ==
  ASSUME CallInv, NEW i \in Ids, ActivityFails(i) \/ Complete(i) \/ FailWithoutCases(i), TypeInv'
  PROVE  ClosedRunOwesNothing' /\ CallOwnership'
<1>1. CASE ActivityFails(i)
  BY <1>1, OwnershipCloseRun DEF ActivityFails
<1>2. CASE Complete(i)
  BY <1>2, OwnershipCloseRun DEF Complete
<1>3. CASE FailWithoutCases(i)
  BY <1>3, OwnershipCloseRun DEF FailWithoutCases
<1> QED
  BY <1>1, <1>2, <1>3

LEMMA OwnershipReturn ==
  ASSUME CallInv, NEW c \in Clients, ClientCallReturn(c)
  PROVE  ClosedRunOwesNothing' /\ CallOwnership'
<1>1. TypeInv /\ ClosedRunOwesNothing /\ CallOwnership
  BY DEF CallInv
<1>2. /\ cpc[c] = "awaiting" /\ resp[c] # <<>>
      /\ resp' = [resp EXCEPT ![c] = Tail(resp[c])]
      /\ cpc' = [cpc EXCEPT ![c] = "idle"]
      /\ UNCHANGED <<pc, serving, pending>>
  BY DEF ClientCallReturn, instVars
<1>3. \A d : Places(d)' = Places(d)
  BY <1>2, SamePlaces
<1>4. Len(resp[c]) = 1 /\ Places(c) = {} /\ resp[c] \in Seq(Response)
  BY <1>1, <1>2 DEF CallOwnership, TypeInv, TypeOK
<1>5. Tail(resp[c]) = <<>>
  <2>1. Tail(resp[c]) \in Seq(Response) /\ Len(Tail(resp[c])) = 0
    BY <1>2, <1>4, HeadTailProperties
  <2> QED
    BY <2>1, EmptySeq
<1>6. CallOwnership'
  <2>1. ASSUME NEW d \in Clients
        PROVE  IF cpc'[d] = "awaiting"
               THEN \/ resp'[d] = <<>> /\ \E i \in Ids : \E p \in 0..Len(pending'[i]) : Places(d)' = {<<i, p>>}
                    \/ Len(resp'[d]) = 1 /\ Places(d)' = {}
               ELSE resp'[d] = <<>> /\ Places(d)' = {}
    <3>1. CASE d = c
      BY <1>1, <1>2, <1>3, <1>4, <1>5, <3>1 DEF TypeInv, TypeOK
    <3>2. CASE d # c
      <4>1. cpc'[d] = cpc[d] /\ resp'[d] = resp[d]
        BY <1>1, <1>2, <3>2 DEF TypeInv, TypeOK
      <4> QED
        BY <1>1, <1>2, <1>3, <4>1 DEF CallOwnership
    <3> QED
      BY <3>1, <3>2
  <2> QED
    BY <2>1 DEF CallOwnership
<1>7. ClosedRunOwesNothing'
  BY <1>1, <1>2 DEF ClosedRunOwesNothing, Running, Closed
<1> QED
  BY <1>6, <1>7

-----------------------------------------------------------------------------
(* The invariant, and what follows from it.                                *)

LEMMA CallInvInit == Init => CallInv
<1> SUFFICES ASSUME Init PROVE CallInv
  OBVIOUS
<1>1. TypeInv
  BY TypeInvInit
<1>2. ClosedRunOwesNothing
  BY DEF Init, ClosedRunOwesNothing
<1>3. CallOwnership
  <2>1. ASSUME NEW c \in Clients
        PROVE  Places(c) = {}
    <3>1. \A i \in Ids : Line(serving[i], pending[i], c) = {}
      BY LineEmpty DEF Init
    <3> QED
      BY <3>1 DEF Places
  <2> QED
    BY <2>1 DEF Init, CallOwnership
<1> QED
  BY <1>1, <1>2, <1>3 DEF CallInv

LEMMA CallInvNext == CallInv /\ [Next]_vars => CallInv'
<1> SUFFICES ASSUME CallInv, [Next]_vars PROVE CallInv'
  OBVIOUS
<1>1. TypeInv /\ TypeInv'
  BY TypeInvNext DEF CallInv
<1>2. ClosedRunOwesNothing' /\ CallOwnership'
  <2>1. CASE Tick \/ UNCHANGED vars
    <3>1. Quiet /\ Stays
      BY <2>1 DEF Tick, vars, Quiet, Stays, instVars, clientVars
    <3> QED
      BY <3>1, QuietOwnership
  <2>2. CASE \E i \in Ids : Workflow(i) \/ Children(i)
    <3>1. PICK i \in Ids : Workflow(i) \/ Children(i)
      BY <2>2
    <3>2. CASE \/ RunActivity(i) \/ DeliverSend(i) \/ EnterSelect(i) \/ ContinueAtOnce(i)
               \/ TimerFires(i) \/ Proceed(i) \/ SuggestContinueAsNew(i) \/ ContinueAsNew(i)
      BY <1>1, <3>2, QuietLoop, QuietOwnership
    <3>3. CASE StartChild(i) \/ ForgetChild(i)
      BY <1>1, <3>3, QuietChildren, QuietOwnership
    <3>4. CASE ActivityFails(i) \/ Complete(i) \/ FailWithoutCases(i)
      BY <1>1, <3>4, OwnershipCloses
    <3>5. CASE RunCall(i)
      BY <1>1, <3>5, OwnershipRunCall
    <3>6. CASE DrainCall(i)
      BY <1>1, <3>6, OwnershipDrainCall
    <3> QED
      BY <3>1, <3>2, <3>3, <3>4, <3>5, <3>6 DEF Workflow, Children
  <2>3. CASE \E c \in Clients : Resume(c) \/ Invoke(c)
    <3>1. PICK c \in Clients : Resume(c) \/ Invoke(c)
      BY <2>3
    <3>2. CASE RejectUpdate(c) \/ Invoke(c)
      BY <1>1, <3>2, QuietClient, QuietOwnership
    <3>3. CASE AcceptUpdate(c)
      BY <1>1, <3>3, OwnershipAcceptUpdate
    <3>4. CASE ClientCallReturn(c)
      BY <3>4, OwnershipReturn
    <3> QED
      BY <3>1, <3>2, <3>3, <3>4 DEF Resume
  <2> QED
    BY <2>1, <2>2, <2>3 DEF Next
<1> QED
  BY <1>1, <1>2 DEF CallInv

LEMMA CallInvAlways == Spec => []CallInv
BY CallInvInit, CallInvNext, PTL DEF Spec

\* A run that closes - with a result, by a failure, or for want of cases -
\* leaves no call queued or being served, so that no caller waits for ever for
\* a run that is gone.
THEOREM ClosedRunsOweNothing == Spec => []ClosedRunOwesNothing
<1>1. CallInv => ClosedRunOwesNothing
  BY DEF CallInv
<1> QED
  BY <1>1, CallInvAlways, PTL

\* Every client whose update was accepted has its call at exactly one position
\* of one routine's pendingCalls, or in its Selector's callback, or has exactly
\* one outcome waiting; nobody else has either.  So updates are answered once,
\* through failures, recovery, completion and the drain before continue-as-new.
THEOREM TemporalCallsAnsweredOnce == Spec => []CallOwnership
<1>1. CallInv => CallOwnership
  BY DEF CallInv
<1> QED
  BY <1>1, CallInvAlways, PTL

-----------------------------------------------------------------------------
(* Query results.                                                          *)

KeepsResults(i) == \A n \in Names : queries[i][n] # Nil => queries'[i][n] # Nil
ForgetsOnlyClosed == \A i \in Ids : KeepsResults(i) \/ Closed(i)

LEMMA ProcessKeepsResults ==
  ASSUME TypeInv, NEW i \in Ids, NEW a \in Attempt, Process(i, a)
  PROVE  ForgetsOnlyClosed
<1>1. /\ queries[i] \in [Names -> Value]
      /\ a.queries \in UNION {[Q -> Results] : Q \in SUBSET Names}
  BY DEF TypeInv, TypeOK, Attempt
<1>2. \A n \in Names : queries[i][n] # Nil => Merge(queries[i], a.queries)[n] # Nil
  BY <1>1, MergeType
<1>3. queries'[i] = Merge(queries[i], a.queries) /\ \A j \in Ids : j # i => queries'[j] = queries[j]
  BY DEF Process, TypeInv, TypeOK
<1>4. \A j \in Ids : KeepsResults(j)
  BY <1>2, <1>3 DEF KeepsResults
<1> QED
  BY <1>4 DEF ForgetsOnlyClosed

\* A new run forgets the results of a run that has closed, or there are none.
LEMMA NewRunForgetsOnlyClosed ==
  ASSUME TypeInv, NEW i \in Ids, ~ Running(i), NEW k, NEW x, BeginRun(i, k, x, NoQueries)
  PROVE  ForgetsOnlyClosed
<1>1. \A j \in Ids : j # i => queries'[j] = queries[j]
  BY DEF BeginRun, TypeInv, TypeOK
<1>2. pc[i] = "absent" => queries[i] = NoQueries
  BY DEF TypeInv, WellFormed
<1>3. Closed(i) \/ KeepsResults(i)
  BY <1>2 DEF Running, KeepsResults, NoQueries
<1> QED
  BY <1>1, <1>3 DEF ForgetsOnlyClosed, KeepsResults

LEMMA SameResults == UNCHANGED queries => ForgetsOnlyClosed
BY DEF ForgetsOnlyClosed, KeepsResults

LEMMA LoopKeepsResults ==
  ASSUME TypeInv, NEW i \in Ids, Workflow(i) \/ Children(i)
  PROVE  ForgetsOnlyClosed
<1>1. CASE RunActivity(i)
  <2>1. PICK a \in Outcomes(i, cur[i].key, cur[i].input, cur[i].msg) : Process(i, a)
    BY <1>1 DEF RunActivity
  <2>2. cur[i] \in Position
    BY <1>1 DEF RunActivity, TypeInv, WellFormed
  <2>3. a \in Attempt
    BY <2>1, <2>2, OutcomesType DEF TypeInv, TypeOK, Position
  <2> QED
    BY <2>1, <2>3, ProcessKeepsResults
<1>2. CASE RunCall(i)
  <2> DEFINE call == serving[i]
  <2>1. call \in PendingCall /\ out[i] \in Attempt
    BY <1>2 DEF RunCall, TypeInv, WellFormed, Working
  <2>2. PICK a \in Outcomes(i, call.key, call.input, call.req) :
          Process(i, IF a.ok THEN a ELSE SameCases(i))
    BY <1>2 DEF RunCall
  <2>3. call.key \in Keys /\ call.input \in Inputs /\ call.req \in Msg
    BY <2>1 DEF PendingCall, Msg
  <2>4. a \in Attempt
    BY <2>2, <2>3, OutcomesType DEF TypeInv, TypeOK
  <2>5. PICK b \in Attempt : Process(i, b)
    BY <2>1, <2>2, <2>4, SameCasesType
  <2> QED
    BY <2>5, ProcessKeepsResults
<1>3. CASE ContinueAsNew(i)
  <2>1. queries' = queries
    BY <1>3 DEF ContinueAsNew, BeginRun, TypeInv, TypeOK
  <2> QED
    BY <2>1, SameResults
<1>4. CASE StartChild(i)
  <2>1. PICK p \in DOMAIN starting[i] :
          IF Running(starting[i][p].id) THEN UNCHANGED queries
          ELSE BeginRun(starting[i][p].id, starting[i][p].key, starting[i][p].input, NoQueries)
    BY <1>4 DEF StartChild
  <2>2. starting[i][p].id \in Ids
    BY ChildStartAt DEF ChildStart
  <2> QED
    BY <2>1, <2>2, NewRunForgetsOnlyClosed, SameResults
<1>5. CASE \/ ActivityFails(i) \/ DeliverSend(i) \/ Complete(i) \/ EnterSelect(i)
           \/ FailWithoutCases(i) \/ ContinueAtOnce(i) \/ TimerFires(i) \/ DrainCall(i)
           \/ Proceed(i) \/ SuggestContinueAsNew(i) \/ ForgetChild(i)
  <2>1. UNCHANGED queries
    BY <1>5 DEF ActivityFails, DeliverSend, Complete, EnterSelect, FailWithoutCases, ContinueAtOnce,
       TimerFires, DrainCall, Proceed, SuggestContinueAsNew, ForgetChild, instVars
  <2> QED
    BY <2>1, SameResults
<1> QED
  BY <1>1, <1>2, <1>3, <1>4, <1>5 DEF Workflow, Children

LEMMA ClientKeepsResults ==
  ASSUME TypeInv, NEW c \in Clients, Resume(c) \/ Invoke(c)
  PROVE  ForgetsOnlyClosed
<1>1. CASE Resume(c)
  BY <1>1, SameResults DEF Resume, AcceptUpdate, RejectUpdate, ClientCallReturn, instVars
<1>2. CASE Invoke(c)
  <2>1. PICK o \in Op :
          ClientGo(c, o) \/ ClientSend(c, o) \/ ClientCall(c, o) \/ ClientQuery(c, o) \/ ClientGet(c, o)
    BY <1>2, InvokeOp
  <2>2. o.id \in Ids
    BY DEF Op
  <2>3. CASE ClientGo(c, o)
    <3>1. CASE pc[o.id] \in {"absent", "failed"}
      <4>1. BeginRun(o.id, o.key, o.arg, NoQueries) /\ ~ Running(o.id)
        BY <2>3, <3>1 DEF ClientGo, Running, Closed
      <4> QED
        BY <2>2, <4>1, NewRunForgetsOnlyClosed
    <3>2. CASE pc[o.id] \notin {"absent", "failed"}
      BY <2>3, <3>2, SameResults DEF ClientGo
    <3> QED
      BY <3>1, <3>2
  <2>4. CASE ClientSend(c, o) \/ ClientCall(c, o) \/ ClientQuery(c, o) \/ ClientGet(c, o)
    BY <2>4, SameResults DEF ClientSend, ClientCall, ClientQuery, ClientGet, instVars
  <2> QED
    BY <2>1, <2>3, <2>4
<1> QED
  BY <1>1, <1>2

\* A query that has had an answer keeps having one: only a start of the id
\* after its run has closed forgets the results; continue-as-new hands them on
\* and a handler's results are merged into them.
THEOREM QueryResultsKept == Spec => QueryResultsSurvive
<1>1. TypeInv /\ [Next]_vars =>
        [\A i \in Ids, n \in Names :
           queries[i][n] # Nil /\ queries'[i][n] = Nil => Closed(i)]_vars
  <2> SUFFICES ASSUME TypeInv, Next
               PROVE  \A i \in Ids, n \in Names :
                        queries[i][n] # Nil /\ queries'[i][n] = Nil => Closed(i)
    OBVIOUS
  <2>1. ForgetsOnlyClosed
    BY LoopKeepsResults, ClientKeepsResults, SameResults DEF Next, Tick, instVars
  <2> QED
    BY <2>1 DEF ForgetsOnlyClosed, KeepsResults
<1> QED
  BY <1>1, TypeInvAlways, PTL DEF Spec, QueryResultsSurvive

=============================================================================
