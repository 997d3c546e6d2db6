------------------------ MODULE TemporalContractProofs ------------------------
(***************************************************************************)
(* Proofs about signals on the Temporal backend, and that the backend      *)
(* implements RoutineContract.                                             *)
(***************************************************************************)
EXTENDS TemporalCallProofs

-----------------------------------------------------------------------------
(* Sequences of signals.                                                   *)

Upto(s, n)        == \A p \in DOMAIN s : s[p].n <= n
OfKey(s, k)       == \A p \in DOMAIN s : s[p].key = k
Precedes(s, t, k) == \A p \in DOMAIN s, q \in DOMAIN t : s[p].key = k => s[p].n < t[q].n

LEMMA AppendedSignal ==
  ASSUME NEW s \in Seq(Envelope), NEW e \in Envelope
  PROVE  /\ Append(s, e) \in Seq(Envelope)
         /\ DOMAIN Append(s, e) = DOMAIN s \cup {Len(s) + 1}
         /\ \A p \in DOMAIN s : p \in Nat /\ p < Len(s) + 1 /\ Append(s, e)[p] = s[p]
         /\ \A p \in DOMAIN s : s[p] \in Envelope
         /\ Append(s, e)[Len(s) + 1] = e
         /\ Len(s) + 1 \in Nat
<1>1. /\ Append(s, e) \in Seq(Envelope) /\ Len(s) \in Nat /\ DOMAIN s = 1..Len(s)
      /\ DOMAIN Append(s, e) = 1..(Len(s) + 1)
      /\ \A p \in DOMAIN s : Append(s, e)[p] = s[p]
      /\ Append(s, e)[Len(s) + 1] = e
  BY AppendProperties, LenProperties
<1>2. 1..(Len(s) + 1) = 1..Len(s) \cup {Len(s) + 1} /\ \A p \in 1..Len(s) : p \in Nat /\ p < Len(s) + 1
  BY <1>1
<1>3. \A p \in DOMAIN s : s[p] \in Envelope
  BY <1>1, ElementOfSeq
<1> QED
  BY <1>1, <1>2, <1>3

LEMMA RemovedSignal ==
  ASSUME NEW s \in Seq(Envelope), s # <<>>
  PROVE  /\ Head(s) \in Envelope /\ Tail(s) \in Seq(Envelope)
         /\ 1 \in DOMAIN s /\ Head(s) = s[1]
         /\ \A p \in DOMAIN Tail(s) : p \in Nat /\ p + 1 \in DOMAIN s /\ 1 < p + 1 /\ Tail(s)[p] = s[p + 1]
         /\ \A p \in DOMAIN s : s[p] \in Envelope
<1>1. /\ Len(s) \in Nat \ {0} /\ DOMAIN s = 1..Len(s) /\ \A p \in 1..Len(s) : s[p] \in Envelope
  BY EmptySeq, LenProperties, ElementOfSeq
<1>2. /\ Head(s) \in Envelope /\ Tail(s) \in Seq(Envelope) /\ Head(s) = s[1]
      /\ Len(Tail(s)) = Len(s) - 1 /\ \A p \in 1..Len(Tail(s)) : Tail(s)[p] = s[p + 1]
  BY <1>1, HeadTailProperties
<1>3. DOMAIN Tail(s) = 1..Len(Tail(s))
  BY <1>2, LenProperties
<1> QED
  BY <1>1, <1>2, <1>3

LEMMA UptoMore ==
  ASSUME NEW s \in Seq(Envelope), NEW n \in Nat, Upto(s, n)
  PROVE  Upto(s, n + 1)
<1>1. \A p \in DOMAIN s : s[p] \in Envelope
  BY ElementOfSeq, LenProperties
<1>2. \A p \in DOMAIN s : s[p].n \in Nat
  BY <1>1 DEF Envelope
<1> QED
  BY <1>2 DEF Upto

\* A signal that is recorded now is younger than every other.
LEMMA YoungestLast ==
  ASSUME NEW s \in Seq(Envelope), NEW n \in Nat, Upto(s, n), InOrder(s),
         NEW e \in Envelope, e.n = n + 1
  PROVE  /\ Append(s, e) \in Seq(Envelope) /\ Upto(Append(s, e), n + 1) /\ InOrder(Append(s, e))
<1> DEFINE t == Append(s, e)
           l == Len(s) + 1
<1>1. /\ t \in Seq(Envelope) /\ DOMAIN t = DOMAIN s \cup {l} /\ l \in Nat /\ t[l] = e
      /\ \A p \in DOMAIN s : p \in Nat /\ p < l /\ t[p] = s[p] /\ s[p].n \in Nat
  <2>1. /\ t \in Seq(Envelope) /\ DOMAIN t = DOMAIN s \cup {l} /\ l \in Nat /\ t[l] = e
        /\ \A p \in DOMAIN s : p \in Nat /\ p < l /\ t[p] = s[p] /\ s[p] \in Envelope
    BY AppendedSignal
  <2>2. \A x \in Envelope : x.n \in Nat
    BY DEF Envelope
  <2> QED
    BY <2>1, <2>2
<1> HIDE DEF t, l
<1>2. \A p \in DOMAIN s : s[p].n <= n
  BY DEF Upto
<1>3. Upto(t, n + 1)
  BY <1>1, <1>2 DEF Upto
<1>4. ASSUME NEW p \in DOMAIN t, NEW q \in DOMAIN t, p < q, t[p].key = t[q].key
      PROVE  t[p].n < t[q].n
  <2>1. p \in DOMAIN s
    BY <1>1, <1>4
  <2>2. CASE q \in DOMAIN s
    BY <1>1, <1>4, <2>1, <2>2 DEF InOrder
  <2>3. CASE q = l
    BY <1>1, <1>2, <2>1, <2>3
  <2> QED
    BY <1>1, <2>2, <2>3
<1>5. InOrder(t)
  BY <1>4 DEF InOrder
<1> QED
  BY <1>1, <1>3, <1>5 DEF t

\* The oldest signal of a channel, after the ones of its key that were received.
LEMMA OldestNext ==
  ASSUME NEW s \in Seq(Envelope), NEW t \in Seq(Envelope), t # <<>>, NEW k, OfKey(t, k),
         NEW n \in Nat, Upto(s, n), Upto(t, n), InOrder(s), InOrder(t), Precedes(s, t, k)
  PROVE  /\ Append(s, Head(t)) \in Seq(Envelope) /\ Tail(t) \in Seq(Envelope)
         /\ Upto(Append(s, Head(t)), n) /\ Upto(Tail(t), n)
         /\ InOrder(Append(s, Head(t))) /\ InOrder(Tail(t))
         /\ OfKey(Tail(t), k) /\ Head(t).key = k
         /\ Precedes(Append(s, Head(t)), Tail(t), k)
<1> DEFINE e == Head(t)
           u == Append(s, e)
           l == Len(s) + 1
           v == Tail(t)
<1>1. /\ e \in Envelope /\ v \in Seq(Envelope) /\ 1 \in DOMAIN t /\ e = t[1]
      /\ \A p \in DOMAIN v : p \in Nat /\ p + 1 \in DOMAIN t /\ 1 < p + 1 /\ v[p] = t[p + 1]
      /\ \A p \in DOMAIN t : t[p].n \in Nat
  BY RemovedSignal DEF Envelope
<1> HIDE DEF e, v
<1>2. /\ u \in Seq(Envelope) /\ DOMAIN u = DOMAIN s \cup {l} /\ l \in Nat /\ u[l] = e
      /\ \A p \in DOMAIN s : p \in Nat /\ p < l /\ u[p] = s[p] /\ s[p].n \in Nat
  BY <1>1, AppendedSignal DEF Envelope
<1> HIDE DEF u, l
<1>3. e.key = k /\ OfKey(v, k)
  BY <1>1 DEF OfKey
<1>4. Upto(u, n) /\ Upto(v, n)
  BY <1>1, <1>2 DEF Upto
<1>5. \A p \in DOMAIN v : e.n < v[p].n
  BY <1>1 DEF InOrder, OfKey
<1>6. InOrder(v)
  <2>1. ASSUME NEW p \in DOMAIN v, NEW q \in DOMAIN v, p < q, v[p].key = v[q].key
        PROVE  v[p].n < v[q].n
    <3>1. p + 1 \in DOMAIN t /\ q + 1 \in DOMAIN t /\ p + 1 < q + 1
      BY <1>1, <2>1
    <3>2. t[p + 1].key = t[q + 1].key
      BY <1>1, <2>1
    <3>3. t[p + 1].n < t[q + 1].n
      BY <3>1, <3>2 DEF InOrder
    <3> QED
      BY <1>1, <3>3
  <2> QED
    BY <2>1 DEF InOrder
<1>7. ASSUME NEW p \in DOMAIN u, NEW q \in DOMAIN u, p < q, u[p].key = u[q].key
      PROVE  u[p].n < u[q].n
  <2>1. p \in DOMAIN s
    BY <1>2, <1>7
  <2>2. CASE q \in DOMAIN s
    BY <1>2, <1>7, <2>1, <2>2 DEF InOrder
  <2>3. CASE q = l
    BY <1>1, <1>2, <1>3, <1>7, <2>1, <2>3 DEF Precedes
  <2> QED
    BY <1>2, <2>2, <2>3
<1>8. InOrder(u)
  BY <1>7 DEF InOrder
<1>9. Precedes(u, v, k)
  BY <1>1, <1>2, <1>5 DEF Precedes
<1> QED
  BY <1>1, <1>2, <1>3, <1>4, <1>6, <1>8, <1>9 DEF e, u, v

-----------------------------------------------------------------------------
(* The signals of one routine: con was received, ch waits in the channels, *)
(* and acc is the number of the youngest signal.                           *)

Ordered(con, ch, acc) ==
  /\ Upto(con, acc) /\ InOrder(con)
  /\ \A k \in Keys : /\ Upto(ch[k], acc) /\ OfKey(ch[k], k) /\ InOrder(ch[k])
                     /\ Precedes(con, ch[k], k)

LEMMA SignalWaits ==
  ASSUME NEW con \in Seq(Envelope), NEW ch \in [Keys -> Seq(Envelope)], NEW acc \in Nat,
         Ordered(con, ch, acc), NEW k \in Keys, NEW e \in Envelope, e.key = k, e.n = acc + 1
  PROVE  Ordered(con, [ch EXCEPT ![k] = Append(ch[k], e)], acc + 1)
<1> DEFINE next == [ch EXCEPT ![k] = Append(ch[k], e)]
<1>1. next[k] = Append(ch[k], e) /\ \A l \in Keys : l # k => next[l] = ch[l]
  OBVIOUS
<1> HIDE DEF next
<1>2. Upto(con, acc + 1) /\ InOrder(con)
  BY UptoMore DEF Ordered
<1>3. \A l \in Keys : l # k => Upto(next[l], acc + 1)
  BY <1>1, UptoMore DEF Ordered
<1>4. Upto(next[k], acc + 1) /\ InOrder(next[k])
  BY <1>1, YoungestLast DEF Ordered
<1>5. ch[k] \in Seq(Envelope)
  OBVIOUS
<1>6. OfKey(next[k], k)
  <2>1. OfKey(ch[k], k)
    BY DEF Ordered
  <2> QED
    BY <1>1, <1>5, <2>1, AppendedSignal DEF OfKey
<1>7. Precedes(con, next[k], k)
  <2>1. Precedes(con, ch[k], k) /\ \A p \in DOMAIN con : con[p].n < acc + 1
    <3>1. \A p \in DOMAIN con : con[p] \in Envelope
      BY ElementOfSeq, LenProperties
    <3>2. \A p \in DOMAIN con : con[p].n \in Nat /\ con[p].n <= acc
      BY <3>1 DEF Ordered, Upto, Envelope
    <3> QED
      BY <3>2 DEF Ordered
  <2>2. /\ DOMAIN next[k] = DOMAIN ch[k] \cup {Len(ch[k]) + 1} /\ next[k][Len(ch[k]) + 1] = e
        /\ \A p \in DOMAIN ch[k] : next[k][p] = ch[k][p]
    BY <1>1, <1>5, AppendedSignal
  <2> QED
    BY <2>1, <2>2 DEF Precedes
<1>8. \A l \in Keys : l # k => OfKey(next[l], l) /\ InOrder(next[l]) /\ Precedes(con, next[l], l)
  BY <1>1 DEF Ordered
<1>9. Ordered(con, next, acc + 1)
  BY <1>2, <1>3, <1>4, <1>6, <1>7, <1>8 DEF Ordered
<1> QED
  BY <1>9 DEF next

LEMMA SignalReceived ==
  ASSUME NEW con \in Seq(Envelope), NEW ch \in [Keys -> Seq(Envelope)], NEW acc \in Nat,
         Ordered(con, ch, acc), NEW k \in Keys, ch[k] = <<>>,
         NEW e \in Envelope, e.key = k, e.n = acc + 1
  PROVE  Ordered(Append(con, e), ch, acc + 1)
<1>1. Upto(con, acc) /\ InOrder(con)
  BY DEF Ordered
<1>2. Upto(Append(con, e), acc + 1) /\ InOrder(Append(con, e))
  BY <1>1, YoungestLast
<1>3. \A l \in Keys : Upto(ch[l], acc + 1) /\ OfKey(ch[l], l) /\ InOrder(ch[l])
  BY UptoMore DEF Ordered
<1>4. \A l \in Keys : Precedes(Append(con, e), ch[l], l)
  <2>1. \A l \in Keys : Precedes(con, ch[l], l)
    BY DEF Ordered
  <2>2. DOMAIN ch[k] = {}
    BY EmptySeq
  <2> DEFINE t == Append(con, e)
  <2>3. /\ DOMAIN t = DOMAIN con \cup {Len(con) + 1} /\ t[Len(con) + 1] = e
        /\ \A p \in DOMAIN con : t[p] = con[p]
    BY AppendedSignal
  <2> HIDE DEF t
  <2>4. \A l \in Keys : Precedes(t, ch[l], l)
    BY <2>1, <2>2, <2>3 DEF Precedes
  <2> QED
    BY <2>4 DEF t
<1> QED
  BY <1>2, <1>3, <1>4 DEF Ordered

LEMMA SignalTaken ==
  ASSUME NEW con \in Seq(Envelope), NEW ch \in [Keys -> Seq(Envelope)], NEW acc \in Nat,
         Ordered(con, ch, acc), NEW k \in Keys, ch[k] # <<>>
  PROVE  Ordered(Append(con, Head(ch[k])), [ch EXCEPT ![k] = Tail(ch[k])], acc)
<1> DEFINE next == [ch EXCEPT ![k] = Tail(ch[k])]
           t == Append(con, Head(ch[k]))
<1>1. next[k] = Tail(ch[k]) /\ \A l \in Keys : l # k => next[l] = ch[l]
  OBVIOUS
<1>2. /\ Upto(con, acc) /\ InOrder(con) /\ Upto(ch[k], acc) /\ OfKey(ch[k], k) /\ InOrder(ch[k])
      /\ Precedes(con, ch[k], k) /\ ch[k] \in Seq(Envelope)
  BY DEF Ordered
<1>3. /\ Upto(t, acc) /\ InOrder(t) /\ Upto(next[k], acc) /\ InOrder(next[k])
      /\ OfKey(next[k], k) /\ Precedes(t, next[k], k) /\ Head(ch[k]).key = k
  BY <1>1, <1>2, OldestNext
<1>4. /\ DOMAIN t = DOMAIN con \cup {Len(con) + 1} /\ t[Len(con) + 1] = Head(ch[k])
      /\ \A p \in DOMAIN con : t[p] = con[p]
  BY <1>2, RemovedSignal, AppendedSignal
<1> HIDE DEF next, t
<1>5. \A l \in Keys : l # k => /\ Upto(next[l], acc) /\ OfKey(next[l], l) /\ InOrder(next[l])
                               /\ Precedes(con, next[l], l)
  BY <1>1 DEF Ordered
<1>6. \A l \in Keys : l # k => Precedes(t, next[l], l)
  BY <1>3, <1>4, <1>5 DEF Precedes
<1>7. Ordered(t, next, acc)
  BY <1>3, <1>5, <1>6 DEF Ordered
<1> QED
  BY <1>7 DEF next, t

\* A new run has empty channels; what was received stays received.
LEMMA SignalsForgotten ==
  ASSUME NEW con, NEW ch, NEW acc, Ordered(con, ch, acc)
  PROVE  Ordered(con, NoSignals, acc)
<1>1. \A k \in Keys : NoSignals[k] = <<>>
  BY DEF NoSignals
<1>2. DOMAIN <<>> = {}
  BY EmptySeq
<1> QED
  BY <1>1, <1>2 DEF Ordered, Upto, OfKey, InOrder, Precedes

-----------------------------------------------------------------------------
(* The invariant of signals.                                               *)

SignalsOrdered == \A i \in Ids : Ordered(consumed[i], signals[i], accepted[i])

\* A blocked Selector takes a new signal past the channels.  The order holds
\* only because the channel of that signal is empty then.
SignalInv == TypeInv /\ SignalsOrdered /\ NoSignalWaitsInSelect

\* Steps that leave signals alone and block no Selector.
Calm == /\ UNCHANGED signalVars
        /\ \A i \in Ids : pc'[i] = "select" => pc[i] = "select" /\ out'[i] = out[i]

LEMMA CalmKeepsSignals ==
  ASSUME SignalInv, Calm
  PROVE  SignalsOrdered' /\ NoSignalWaitsInSelect'
<1>1. SignalsOrdered'
  BY DEF SignalInv, SignalsOrdered, Calm, signalVars
<1>2. \A i \in Ids : out'[i] = out[i] => Ready(i)' = Ready(i)
  BY DEF Calm, signalVars, Ready, CasesOf, Cases
<1>3. NoSignalWaitsInSelect'
  BY <1>2 DEF SignalInv, NoSignalWaitsInSelect, Calm
<1> QED
  BY <1>1, <1>3

LEMMA NewRunKeepsSignals ==
  ASSUME SignalInv, NEW i \in Ids, NEW k, NEW x, NEW q, BeginRun(i, k, x, q),
         UNCHANGED <<out, accepted, consumed>>
  PROVE  SignalsOrdered' /\ NoSignalWaitsInSelect'
<1>1. /\ signals'[i] = NoSignals /\ pc'[i] = "activity"
      /\ \A j \in Ids : j # i => signals'[j] = signals[j] /\ pc'[j] = pc[j]
  BY DEF BeginRun, SignalInv, TypeInv, TypeOK
<1>2. SignalsOrdered'
  <2>1. Ordered(consumed[i], NoSignals, accepted[i])
    BY SignalsForgotten DEF SignalInv, SignalsOrdered
  <2> QED
    BY <1>1, <2>1 DEF SignalInv, SignalsOrdered
<1>3. \A j \in Ids : j # i => Ready(j)' = Ready(j)
  BY <1>1 DEF Ready, CasesOf, Cases
<1>4. NoSignalWaitsInSelect'
  BY <1>1, <1>3 DEF SignalInv, NoSignalWaitsInSelect
<1> QED
  BY <1>2, <1>4

\* What a signal for routine i does: it is received at once, or waits.
LEMMA SignalSplit ==
  ASSUME SignalInv, NEW i \in Ids, NEW k \in Keys, NEW m \in Messages, Signal(i, k, m)
  PROVE  \E e \in Envelope :
           /\ e.key = k /\ e.n = accepted[i] + 1
           /\ accepted' = [accepted EXCEPT ![i] = @ + 1]
           /\ \/ /\ pc[i] = "select" /\ signals[i][k] = <<>>
                 /\ pc' = [pc EXCEPT ![i] = "can"]
                 /\ consumed' = [consumed EXCEPT ![i] = Append(@, e)]
                 /\ signals' = signals
              \/ /\ pc[i] = "select" => SendCases(i, k) = {}
                 /\ signals' = [signals EXCEPT ![i][k] = Append(@, e)]
                 /\ UNCHANGED <<pc, consumed>>
<1> DEFINE e == [key |-> k, msg |-> m, n |-> accepted[i] + 1]
<1>1. e \in Envelope /\ e.key = k /\ e.n = accepted[i] + 1
  BY DEF Envelope, SignalInv, TypeInv, TypeOK
<1>2. accepted' = [accepted EXCEPT ![i] = @ + 1]
  BY DEF Signal
<1>3. CASE pc[i] = "select" /\ SendCases(i, k) # {}
  <2>1. /\ pc' = [pc EXCEPT ![i] = "can"]
        /\ consumed' = [consumed EXCEPT ![i] = Append(@, e)]
        /\ signals' = signals
    BY <1>3 DEF Signal, Fire
  <2>2. PICK n \in CasesOf(i, "send") : Cases(i)[n].key = k
    BY <1>3 DEF SendCases
  <2>3. signals[i][k] = <<>>
    BY <1>3, <2>2 DEF Ready, SignalInv, NoSignalWaitsInSelect
  <2> QED
    BY <1>1, <1>2, <1>3, <2>1, <2>3
<1>4. CASE ~ (pc[i] = "select" /\ SendCases(i, k) # {})
  <2>1. /\ signals' = [signals EXCEPT ![i][k] = Append(@, e)]
        /\ UNCHANGED <<pc, consumed>>
    BY <1>4 DEF Signal
  <2> QED
    BY <1>1, <1>2, <1>4, <2>1
<1> QED
  BY <1>3, <1>4

LEMMA SignalKeepsOrder ==
  ASSUME SignalInv, NEW i \in Ids, NEW k \in Keys, NEW m \in Messages, Signal(i, k, m), UNCHANGED out
  PROVE  SignalsOrdered' /\ NoSignalWaitsInSelect'
<1>1. TypeInv /\ SignalsOrdered /\ NoSignalWaitsInSelect
  BY DEF SignalInv
<1>2. PICK e \in Envelope :
           /\ e.key = k /\ e.n = accepted[i] + 1
           /\ accepted' = [accepted EXCEPT ![i] = @ + 1]
           /\ \/ /\ pc[i] = "select" /\ signals[i][k] = <<>>
                 /\ pc' = [pc EXCEPT ![i] = "can"]
                 /\ consumed' = [consumed EXCEPT ![i] = Append(@, e)]
                 /\ signals' = signals
              \/ /\ pc[i] = "select" => SendCases(i, k) = {}
                 /\ signals' = [signals EXCEPT ![i][k] = Append(@, e)]
                 /\ UNCHANGED <<pc, consumed>>
  BY SignalSplit
<1>3. /\ consumed[i] \in Seq(Envelope) /\ signals[i] \in [Keys -> Seq(Envelope)] /\ accepted[i] \in Nat
      /\ Ordered(consumed[i], signals[i], accepted[i])
      /\ DOMAIN consumed = Ids /\ DOMAIN signals = Ids /\ DOMAIN accepted = Ids /\ DOMAIN pc = Ids
  BY <1>1 DEF TypeInv, TypeOK, SignalsOrdered
<1>4. accepted'[i] = accepted[i] + 1 /\ \A j \in Ids : j # i => accepted'[j] = accepted[j]
  BY <1>2, <1>3
<1>5. CASE /\ pc[i] = "select" /\ signals[i][k] = <<>>
           /\ pc' = [pc EXCEPT ![i] = "can"]
           /\ consumed' = [consumed EXCEPT ![i] = Append(@, e)]
           /\ signals' = signals
  <2>1. /\ consumed'[i] = Append(consumed[i], e) /\ pc'[i] = "can"
        /\ \A j \in Ids : j # i => consumed'[j] = consumed[j] /\ pc'[j] = pc[j]
    BY <1>3, <1>5
  <2>2. Ordered(consumed'[i], signals'[i], accepted'[i])
    BY <1>2, <1>3, <1>4, <1>5, <2>1, SignalReceived
  <2>3. SignalsOrdered'
    BY <1>1, <1>4, <1>5, <2>1, <2>2 DEF SignalsOrdered
  <2>4. \A j \in Ids : Ready(j)' = Ready(j)
    BY <1>5 DEF Ready, CasesOf, Cases
  <2>5. NoSignalWaitsInSelect'
    BY <1>1, <2>1, <2>4 DEF NoSignalWaitsInSelect
  <2> QED
    BY <2>3, <2>5
<1>6. CASE /\ pc[i] = "select" => SendCases(i, k) = {}
           /\ signals' = [signals EXCEPT ![i][k] = Append(@, e)]
           /\ UNCHANGED <<pc, consumed>>
  <2>1. /\ signals'[i] = [signals[i] EXCEPT ![k] = Append(signals[i][k], e)]
        /\ \A j \in Ids : j # i => signals'[j] = signals[j]
    BY <1>3, <1>6
  <2>2. Ordered(consumed[i], signals'[i], accepted'[i])
    <3>1. Ordered(consumed[i], [signals[i] EXCEPT ![k] = Append(signals[i][k], e)], accepted[i] + 1)
      BY <1>2, <1>3, SignalWaits
    <3> QED
      BY <1>4, <2>1, <3>1
  <2>3. SignalsOrdered'
    BY <1>1, <1>4, <1>6, <2>1, <2>2 DEF SignalsOrdered
  <2>4. \A j \in Ids : j # i => Ready(j)' = Ready(j)
    BY <2>1 DEF Ready, CasesOf, Cases
  <2>5. pc[i] = "select" => Ready(i)' = {}
    <3>1. SUFFICES ASSUME pc[i] = "select"
                   PROVE  \A n \in CasesOf(i, "send") : signals'[i][Cases(i)[n].key] = <<>>
      BY DEF Ready, CasesOf, Cases
    <3>2. TAKE n \in CasesOf(i, "send")
    <3>3. Cases(i)[n].key \in Keys
      BY <1>1, <3>1, CaseTypes DEF CasesOf, Case, Working
    <3>4. Cases(i)[n].key # k
      BY <1>6, <3>1 DEF SendCases
    <3>5. signals[i][Cases(i)[n].key] = <<>>
      BY <1>1, <3>1 DEF NoSignalWaitsInSelect, Ready
    <3> QED
      BY <1>3, <2>1, <3>3, <3>4, <3>5
  <2>6. NoSignalWaitsInSelect'
    BY <1>1, <1>6, <2>4, <2>5 DEF NoSignalWaitsInSelect
  <2> QED
    BY <2>3, <2>6
<1> QED
  BY <1>2, <1>5, <1>6

LEMMA SelectKeepsOrder ==
  ASSUME SignalInv, NEW i \in Ids, EnterSelect(i)
  PROVE  SignalsOrdered' /\ NoSignalWaitsInSelect'
<1>1. TypeInv /\ SignalsOrdered /\ NoSignalWaitsInSelect /\ pc[i] = "effects" /\ TakeReadyCase(i)
      /\ UNCHANGED out /\ DOMAIN pc = Ids
  BY DEF SignalInv, EnterSelect, TypeInv, TypeOK
<1>2. CASE \E n \in DOMAIN Cases(i) : Fire(i, n, Nil, 0) /\ UNCHANGED signalVars
  BY <1>1, <1>2, CalmKeepsSignals DEF Calm, Fire
<1>3. CASE \E n \in Ready(i) :
              LET k == Cases(i)[n].key
                  e == Head(signals[i][k])
              IN  /\ Fire(i, n, e.msg, e.n)
                  /\ signals' = [signals EXCEPT ![i][k] = Tail(@)]
                  /\ consumed' = [consumed EXCEPT ![i] = Append(@, e)]
                  /\ UNCHANGED accepted
  <2>1. PICK n \in Ready(i) :
              LET k == Cases(i)[n].key
                  e == Head(signals[i][k])
              IN  /\ Fire(i, n, e.msg, e.n)
                  /\ signals' = [signals EXCEPT ![i][k] = Tail(@)]
                  /\ consumed' = [consumed EXCEPT ![i] = Append(@, e)]
                  /\ UNCHANGED accepted
    BY <1>3
  <2> DEFINE k == Cases(i)[n].key
  <2>2. k \in Keys /\ signals[i][k] # <<>>
    BY <1>1, CaseTypes DEF Ready, CasesOf, Case, Working
  <2>3. /\ signals' = [signals EXCEPT ![i][k] = Tail(@)]
        /\ consumed' = [consumed EXCEPT ![i] = Append(@, Head(signals[i][k]))]
        /\ pc' = [pc EXCEPT ![i] = "can"] /\ accepted' = accepted
    BY <2>1 DEF Fire
  <2> HIDE DEF k
  <2>4. /\ consumed[i] \in Seq(Envelope) /\ signals[i] \in [Keys -> Seq(Envelope)] /\ accepted[i] \in Nat
        /\ Ordered(consumed[i], signals[i], accepted[i])
        /\ DOMAIN consumed = Ids /\ DOMAIN signals = Ids
    BY <1>1 DEF TypeInv, TypeOK, SignalsOrdered
  <2>5. /\ signals'[i] = [signals[i] EXCEPT ![k] = Tail(signals[i][k])]
        /\ consumed'[i] = Append(consumed[i], Head(signals[i][k])) /\ pc'[i] = "can"
        /\ \A j \in Ids : j # i => /\ signals'[j] = signals[j] /\ consumed'[j] = consumed[j]
                                   /\ pc'[j] = pc[j]
    <3>1. signals' = [signals EXCEPT ![i] = [signals[i] EXCEPT ![k] = Tail(signals[i][k])]]
      BY <2>2, <2>3, <2>4
    <3> QED
      BY <1>1, <2>3, <2>4, <3>1
  <2>6. Ordered(consumed'[i], signals'[i], accepted'[i])
    BY <2>2, <2>3, <2>4, <2>5, SignalTaken
  <2>7. SignalsOrdered'
    BY <1>1, <2>3, <2>5, <2>6 DEF SignalsOrdered
  <2>8. \A j \in Ids : j # i => Ready(j)' = Ready(j)
    BY <1>1, <2>5 DEF Ready, CasesOf, Cases
  <2>9. NoSignalWaitsInSelect'
    BY <1>1, <2>5, <2>8 DEF NoSignalWaitsInSelect
  <2> QED
    BY <2>7, <2>9
<1>4. CASE pc' = [pc EXCEPT ![i] = "select"] /\ Ready(i) = {} /\ UNCHANGED <<cur, signalVars>>
  <2>1. \A j \in Ids : Ready(j)' = Ready(j)
    BY <1>1, <1>4 DEF Ready, CasesOf, Cases, signalVars
  <2>2. NoSignalWaitsInSelect'
    BY <1>1, <1>4, <2>1 DEF NoSignalWaitsInSelect
  <2>3. SignalsOrdered'
    BY <1>1, <1>4 DEF SignalsOrdered, signalVars
  <2> QED
    BY <2>2, <2>3
<1> QED
  BY <1>1, <1>2, <1>3, <1>4, TakeReadyCaseSplit

\* The steps of a loop that neither select nor receive a signal.
LEMMA CalmLoop ==
  ASSUME TypeInv, NEW i \in Ids,
         \/ RunActivity(i) \/ ActivityFails(i) \/ Complete(i) \/ FailWithoutCases(i)
         \/ ContinueAtOnce(i) \/ TimerFires(i) \/ RunCall(i) \/ DrainCall(i)
         \/ Proceed(i) \/ SuggestContinueAsNew(i) \/ ForgetChild(i)
  PROVE  Calm
<1>1. pc \in [Ids -> PcType] /\ out \in [Ids -> Attempt \cup {Nil}]
  BY DEF TypeInv, TypeOK, PcType
<1>2. CASE RunActivity(i)
  BY <1>1, <1>2 DEF RunActivity, Process, Calm
<1>3. CASE RunCall(i)
  BY <1>1, <1>3 DEF RunCall, Process, Calm
<1>4. CASE ActivityFails(i) \/ Complete(i) \/ FailWithoutCases(i)
  <2>1. /\ pc' = [pc EXCEPT ![i] = "done"] \/ pc' = [pc EXCEPT ![i] = "failed"]
        /\ UNCHANGED <<out, signalVars>>
    BY <1>4 DEF ActivityFails, Complete, FailWithoutCases, CloseRun
  <2> QED
    BY <1>1, <2>1 DEF Calm
<1>5. CASE ContinueAtOnce(i) \/ TimerFires(i)
  BY <1>1, <1>5 DEF ContinueAtOnce, TimerFires, Fire, Calm
<1>6. CASE DrainCall(i) \/ Proceed(i) \/ SuggestContinueAsNew(i) \/ ForgetChild(i)
  BY <1>1, <1>6 DEF DrainCall, Proceed, SuggestContinueAsNew, ForgetChild, Calm, instVars
<1> QED
  BY <1>2, <1>3, <1>4, <1>5, <1>6

LEMMA LoopKeepsOrder ==
  ASSUME SignalInv, NEW i \in Ids, Workflow(i) \/ Children(i)
  PROVE  SignalsOrdered' /\ NoSignalWaitsInSelect'
<1>1. TypeInv
  BY DEF SignalInv
<1>2. CASE \/ RunActivity(i) \/ ActivityFails(i) \/ Complete(i) \/ FailWithoutCases(i)
           \/ ContinueAtOnce(i) \/ TimerFires(i) \/ RunCall(i) \/ DrainCall(i)
           \/ Proceed(i) \/ SuggestContinueAsNew(i) \/ ForgetChild(i)
  BY <1>1, <1>2, CalmLoop, CalmKeepsSignals
<1>3. CASE EnterSelect(i)
  BY <1>3, SelectKeepsOrder
<1>4. CASE DeliverSend(i)
  <2> DEFINE s == Sends(i)[eff[i] + 1]
  <2>1. s.id \in Ids /\ s.key \in Keys /\ s.msg \in Messages
    BY <1>1, <1>4, NextSend DEF DeliverSend, SendRequest
  <2>2. CASE Running(s.id)
    BY <1>4, <2>1, <2>2, SignalKeepsOrder DEF DeliverSend
  <2>3. CASE ~ Running(s.id)
    BY <1>4, <2>3, CalmKeepsSignals DEF DeliverSend, Calm
  <2> QED
    BY <2>2, <2>3
<1>5. CASE ContinueAsNew(i)
  BY <1>5, NewRunKeepsSignals DEF ContinueAsNew
<1>6. CASE StartChild(i)
  <2>1. PICK p \in DOMAIN starting[i] :
          /\ IF Running(starting[i][p].id) THEN UNCHANGED <<pc, cur, queries, signals, updates, runs>>
             ELSE BeginRun(starting[i][p].id, starting[i][p].key, starting[i][p].input, NoQueries)
          /\ UNCHANGED <<out, accepted, consumed>>
    BY <1>6 DEF StartChild
  <2>2. starting[i][p].id \in Ids
    BY <1>1, ChildStartAt DEF ChildStart
  <2>3. CASE Running(starting[i][p].id)
    BY <2>1, <2>3, CalmKeepsSignals DEF Calm, signalVars
  <2>4. CASE ~ Running(starting[i][p].id)
    BY <2>1, <2>2, <2>4, NewRunKeepsSignals
  <2> QED
    BY <2>3, <2>4
<1> QED
  BY <1>2, <1>3, <1>4, <1>5, <1>6 DEF Workflow, Children

LEMMA ClientKeepsOrder ==
  ASSUME SignalInv, NEW c \in Clients, Resume(c) \/ Invoke(c)
  PROVE  SignalsOrdered' /\ NoSignalWaitsInSelect'
<1>1. CASE Resume(c)
  <2>1. pc \in [Ids -> PcType]
    BY DEF SignalInv, TypeInv, TypeOK, PcType
  <2>2. UNCHANGED <<out, signalVars>> /\ (pc' = pc \/ \E i : pc' = [pc EXCEPT ![i] = "call"])
    BY <1>1 DEF Resume, AcceptUpdate, RejectUpdate, ClientCallReturn, instVars
  <2>3. Calm
    BY <2>1, <2>2 DEF Calm
  <2> QED
    BY <2>3, CalmKeepsSignals
<1>2. CASE Invoke(c)
  <2>1. PICK o \in Op :
           /\ o.op \in {"send", "call"} => o.arg \in Messages
           /\ ClientGo(c, o) \/ ClientSend(c, o) \/ ClientCall(c, o) \/ ClientQuery(c, o)
              \/ ClientGet(c, o)
    BY <1>2, InvokeOp
  <2>2. o.id \in Ids /\ o.key \in Keys
    BY DEF Op
  <2>3. CASE ClientGo(c, o)
    <3>1. CASE pc[o.id] \in {"absent", "failed"}
      BY <2>2, <2>3, <3>1, NewRunKeepsSignals DEF ClientGo
    <3>2. CASE pc[o.id] \notin {"absent", "failed"}
      BY <2>3, <3>2, CalmKeepsSignals DEF ClientGo, Calm, signalVars
    <3> QED
      BY <3>1, <3>2
  <2>4. CASE ClientSend(c, o)
    <3>1. CASE Running(o.id)
      BY <2>1, <2>2, <2>4, <3>1, SignalKeepsOrder DEF ClientSend
    <3>2. CASE ~ Running(o.id)
      BY <2>4, <3>2, CalmKeepsSignals DEF ClientSend, Calm
    <3> QED
      BY <3>1, <3>2
  <2>5. CASE ClientCall(c, o) \/ ClientQuery(c, o) \/ ClientGet(c, o)
    BY <2>5, CalmKeepsSignals DEF ClientCall, ClientQuery, ClientGet, Calm, instVars
  <2> QED
    BY <2>1, <2>3, <2>4, <2>5
<1> QED
  BY <1>1, <1>2

LEMMA SignalInvInit == Init => SignalInv
<1> SUFFICES ASSUME Init PROVE SignalInv
  OBVIOUS
<1>1. DOMAIN <<>> = {} /\ \A k \in Keys : NoSignals[k] = <<>>
  BY EmptySeq DEF NoSignals
<1>2. SignalsOrdered
  BY <1>1 DEF Init, SignalsOrdered, Ordered, Upto, OfKey, InOrder, Precedes
<1>3. NoSignalWaitsInSelect
  BY DEF Init, NoSignalWaitsInSelect
<1> QED
  BY <1>2, <1>3, TypeInvInit DEF SignalInv

LEMMA SignalInvNext == SignalInv /\ [Next]_vars => SignalInv'
<1> SUFFICES ASSUME SignalInv, [Next]_vars PROVE SignalInv'
  OBVIOUS
<1>1. TypeInv'
  BY TypeInvNext DEF SignalInv
<1>2. CASE Tick \/ UNCHANGED vars
  BY <1>1, <1>2, CalmKeepsSignals DEF SignalInv, Tick, vars, instVars, Calm
<1>3. CASE \E i \in Ids : Workflow(i) \/ Children(i)
  BY <1>1, <1>3, LoopKeepsOrder DEF SignalInv
<1>4. CASE \E c \in Clients : Resume(c) \/ Invoke(c)
  BY <1>1, <1>4, ClientKeepsOrder DEF SignalInv
<1> QED
  BY <1>2, <1>3, <1>4 DEF Next

LEMMA SignalInvAlways == Spec => []SignalInv
BY SignalInvInit, SignalInvNext, PTL DEF Spec

\* The signals of one name reach the handlers in the order in which the server
\* recorded them, whether they wait in a channel or meet a blocked Selector,
\* and also when a continue-as-new loses some of them in between.
THEOREM TemporalSignalsInOrder == Spec => []SignalsInOrder
<1>1. SignalInv => SignalsInOrder
  BY DEF SignalInv, SignalsOrdered, Ordered, Precedes, SignalsInOrder
<1> QED
  BY <1>1, SignalInvAlways, PTL

\* A Selector never blocks while a channel of one of its cases holds a signal:
\* no wake-up is lost between AddReceive and the signal's arrival.
THEOREM NoSignalLeftWaiting == Spec => []NoSignalWaitsInSelect
<1>1. SignalInv => NoSignalWaitsInSelect
  BY DEF SignalInv
<1> QED
  BY <1>1, SignalInvAlways, PTL

-----------------------------------------------------------------------------
(* What the contract sees of a state.                                      *)

\* Both states of a step are in the same phase of the routine's life.
SameStatus ==
  \A i \in Ids : \/ pc'[i] = pc[i]
                 \/ pc[i] \notin {"absent", "done", "failed"} /\ pc'[i] \notin {"absent", "done", "failed"}

LEMMA StatusOf ==
  ASSUME NEW i \in Ids
  PROVE  /\ RunStatus[i] = "new" <=> pc[i] = "absent"
         /\ RunStatus[i] = "running" <=> Running(i)
BY DEF RunStatus, Running, Closed

LEMMA StatusKept == SameStatus => UNCHANGED RunStatus
BY DEF SameStatus, RunStatus, Running, Closed

LEMMA StatusMoves ==
  ASSUME NEW i \in Ids, \A j \in Ids : j # i => pc'[j] = pc[j]
  PROVE  /\ pc'[i] \in {"done", "failed"} => RunStatus' = [RunStatus EXCEPT ![i] = "done"]
         /\ pc'[i] \notin {"absent", "done", "failed"} => RunStatus' = [RunStatus EXCEPT ![i] = "running"]
BY DEF RunStatus, Running, Closed

\* The routine that serves client c, if serves holds the calls being served.
ServesIn(serves, i, c) == serves[i] # Nil /\ serves[i].client = c
Taker(serves, c) ==
  IF \E i \in Ids : ServesIn(serves, i, c) THEN CHOOSE i \in Ids : ServesIn(serves, i, c) ELSE Nil
OneTaker(serves, c) == \A i, j \in Ids : ServesIn(serves, i, c) /\ ServesIn(serves, j, c) => i = j

LEMMA TakerIs ==
  ASSUME NEW serves, NEW c, OneTaker(serves, c)
  PROVE  /\ \A i \in Ids : Taker(serves, c) = i <=> ServesIn(serves, i, c)
         /\ Taker(serves, c) = Nil <=> \A i \in Ids : ~ ServesIn(serves, i, c)
<1>1. CASE \E i \in Ids : ServesIn(serves, i, c)
  <2>1. PICK i \in Ids : ServesIn(serves, i, c)
    BY <1>1
  <2>2. Taker(serves, c) \in Ids /\ ServesIn(serves, Taker(serves, c), c)
    BY <1>1 DEF Taker
  <2>3. Taker(serves, c) = i /\ i # Nil
    BY <2>1, <2>2, DurableAssumption DEF OneTaker
  <2> QED
    BY <2>1, <2>3 DEF OneTaker
<1>2. CASE ~ \E i \in Ids : ServesIn(serves, i, c)
  <2>1. Taker(serves, c) = Nil
    BY <1>2 DEF Taker
  <2> QED
    BY <1>2, <2>1, DurableAssumption
<1> QED
  BY <1>1, <1>2

LEMMA TakerKept ==
  ASSUME NEW serves, NEW next, NEW c, OneTaker(serves, c),
         \A i \in Ids : ServesIn(next, i, c) <=> ServesIn(serves, i, c)
  PROVE  Taker(next, c) = Taker(serves, c)
<1>1. OneTaker(next, c)
  BY DEF OneTaker
<1>2. CASE \E i \in Ids : ServesIn(serves, i, c)
  <2>1. PICK i \in Ids : ServesIn(serves, i, c)
    BY <1>2
  <2>2. Taker(serves, c) = i
    BY <2>1, TakerIs
  <2>3. Taker(next, c) = i
    BY <1>1, <2>1, TakerIs
  <2> QED
    BY <2>2, <2>3
<1>3. CASE ~ \E i \in Ids : ServesIn(serves, i, c)
  BY <1>3 DEF Taker
<1> QED
  BY <1>2, <1>3

LEMMA ServerMeans ==
  /\ Server = [c \in Clients |-> Taker(serving, c)]
  /\ Server' = [c \in Clients |-> Taker(serving', c)]
  /\ \A i, c : Serves(i, c) <=> ServesIn(serving, i, c)
BY DEF Server, Serves, Taker, ServesIn

\* The contract sees nothing of such a step.
LEMMA Stutters ==
  ASSUME SameStatus, UNCHANGED <<signals, consumed, serving, resp>>
  PROVE  UNCHANGED Contract!vars
<1>1. Server' = Server
  BY ServerMeans
<1>2. Answers' = Answers
  BY DEF Answers
<1> QED
  BY <1>1, <1>2, StatusKept DEF Contract!vars

-----------------------------------------------------------------------------
(* Where the call of a client is, read off CallOwnership.                  *)

\* Nobody owes client c an answer, and none waits for it.
Unserved(c) == resp[c] = <<>> /\ \A i \in Ids : ~ ServesIn(serving, i, c)

LEMMA PlaceOf ==
  ASSUME CallInv, NEW c \in Clients, NEW i \in Ids, NEW p \in 0..Len(pending[i]), <<i, p>> \in Places(c)
  PROVE  resp[c] = <<>> /\ Places(c) = {<<i, p>>}
BY DEF CallInv, CallOwnership

LEMMA ServedPlace ==
  ASSUME TypeInv, NEW c, NEW i \in Ids
  PROVE  ServesIn(serving, i, c) <=> <<i, 0>> \in Places(c)
<1>1. pending[i] \in Seq(PendingCall)
  BY DEF TypeInv, TypeOK
<1>2. 0 \in Line(serving[i], pending[i], c) <=> ServesIn(serving, i, c)
  <2>1. Line(serving[i], pending[i], c) = Front(serving[i], c) \cup Rest(pending[i], c)
    BY <1>1, LineParts
  <2>2. 0 \notin Rest(pending[i], c)
    BY <1>1, RestType
  <2> QED
    BY <2>1, <2>2 DEF Front, ServesIn
<1>3. <<i, 0>> \in Places(c) <=> 0 \in Line(serving[i], pending[i], c)
  BY DEF Places
<1> QED
  BY <1>2, <1>3

LEMMA OneTakerAlways ==
  ASSUME CallInv, NEW c \in Clients
  PROVE  OneTaker(serving, c)
<1> SUFFICES ASSUME NEW i \in Ids, NEW j \in Ids, ServesIn(serving, i, c), ServesIn(serving, j, c)
             PROVE  i = j
  BY DEF OneTaker
<1>1. <<i, 0>> \in Places(c) /\ <<j, 0>> \in Places(c)
  BY ServedPlace DEF CallInv
<1>2. 0 \in 0..Len(pending[i])
  BY DEF CallInv, TypeInv, TypeOK
<1>3. Places(c) = {<<i, 0>>}
  BY <1>1, <1>2, PlaceOf
<1> QED
  BY <1>1, <1>3

\* A client whose call is being served has no outcome yet.
LEMMA ServedUnanswered ==
  ASSUME CallInv, NEW c \in Clients, NEW i \in Ids, ServesIn(serving, i, c)
  PROVE  resp[c] = <<>>
<1>1. <<i, 0>> \in Places(c)
  BY ServedPlace DEF CallInv
<1>2. 0 \in 0..Len(pending[i])
  BY DEF CallInv, TypeInv, TypeOK
<1> QED
  BY <1>1, <1>2, PlaceOf

\* Nor has one whose call is in a queue, and nobody serves it.
LEMMA QueuedUnserved ==
  ASSUME CallInv, NEW i \in Ids, NEW p \in DOMAIN pending[i]
  PROVE  pending[i][p].client \in Clients /\ Unserved(pending[i][p].client)
<1> DEFINE c == pending[i][p].client
<1>1. TypeInv
  BY DEF CallInv
<1>2. pending[i] \in Seq(PendingCall)
  BY <1>1 DEF TypeInv, TypeOK
<1>3. p \in 1..Len(pending[i]) /\ Len(pending[i]) \in Nat /\ pending[i][p] \in PendingCall
  BY <1>2, LenProperties, ElementOfSeq
<1>4. c \in Clients
  BY <1>3 DEF PendingCall
<1> HIDE DEF c
<1>5. p \in Line(serving[i], pending[i], c)
  <2>1. p \in Rest(pending[i], c)
    BY <1>3 DEF Rest, c
  <2> QED
    BY <1>2, <2>1, LineParts
<1>6. <<i, p>> \in Places(c) /\ p \in 0..Len(pending[i]) /\ p # 0
  BY <1>3, <1>5 DEF Places
<1>7. resp[c] = <<>> /\ Places(c) = {<<i, p>>}
  BY <1>4, <1>6, PlaceOf
<1>8. \A j \in Ids : <<j, 0>> # <<i, p>>
  BY <1>6
<1>9. \A j \in Ids : ~ ServesIn(serving, j, c)
  BY <1>1, <1>7, <1>8, ServedPlace
<1> QED
  BY <1>4, <1>7, <1>9 DEF Unserved, c

\* Nor has one whose update has not been accepted yet.
LEMMA CallingUnserved ==
  ASSUME CallInv, NEW c \in Clients, cpc[c] # "awaiting"
  PROVE  Unserved(c)
<1>1. TypeInv /\ resp[c] = <<>> /\ Places(c) = {}
  BY DEF CallInv, CallOwnership
<1> QED
  BY <1>1, ServedPlace DEF Unserved

\* For the contract such a client is idle.
LEMMA UnservedIdle ==
  ASSUME CallInv, NEW c \in Clients, Unserved(c)
  PROVE  Contract!Idle(c)
<1>1. Server[c] = Nil
  BY ServerMeans, OneTakerAlways, TakerIs DEF Unserved
<1>2. Answers[c] = 0
  BY EmptySeq DEF Unserved, Answers
<1> QED
  BY <1>1, <1>2 DEF Contract!Idle

\* A routine that is not in the callback of its Selector serves nobody.
LEMMA ServesNobody ==
  ASSUME CallInv, NEW i \in Ids, serving[i] = Nil
  PROVE  \A c \in Clients : Server[c] # i
BY ServerMeans, OneTakerAlways, TakerIs DEF ServesIn

-----------------------------------------------------------------------------
(* Steps that change signals, and steps that begin or end a run.           *)

\* Nothing but the signals and the loop's position changes.
CallsKept == UNCHANGED <<serving, resp>>

LEMMA ServerKept == CallsKept => UNCHANGED <<Server, Answers>>
BY ServerMeans DEF CallsKept, Answers

\* A signal waits in its queue, or is received at once when that is empty.
LEMMA SignalRefines ==
  ASSUME SignalInv, NEW i \in Ids, Running(i), NEW k \in Keys, NEW m \in Messages,
         Signal(i, k, m), CallsKept
  PROVE  Contract!Next
<1>1. PICK e \in Envelope :
           \/ /\ pc[i] = "select" /\ signals[i][k] = <<>>
              /\ pc' = [pc EXCEPT ![i] = "can"]
              /\ consumed' = [consumed EXCEPT ![i] = Append(@, e)]
              /\ signals' = signals
           \/ /\ signals' = [signals EXCEPT ![i][k] = Append(@, e)]
              /\ UNCHANGED <<pc, consumed>>
  BY SignalSplit
<1>2. /\ consumed \in [Ids -> Seq(Envelope)] /\ signals \in [Ids -> [Keys -> Seq(Envelope)]]
      /\ DOMAIN pc = Ids
  BY DEF SignalInv, TypeInv, TypeOK
<1>3. UNCHANGED <<Server, Answers>> /\ RunStatus[i] = "running"
  BY ServerKept, StatusOf
<1>4. CASE /\ pc[i] = "select" /\ signals[i][k] = <<>>
           /\ pc' = [pc EXCEPT ![i] = "can"]
           /\ consumed' = [consumed EXCEPT ![i] = Append(@, e)]
           /\ signals' = signals
  <2>1. UNCHANGED RunStatus
    <3>1. SameStatus
      BY <1>2, <1>4 DEF SameStatus
    <3> QED
      BY <3>1, StatusKept
  <2>2. /\ consumed'[i] = Append(consumed[i], e) /\ consumed'[i] # <<>>
        /\ consumed'[i][Len(consumed'[i])] = e
    <3>1. consumed[i] \in Seq(Envelope) /\ consumed'[i] = Append(consumed[i], e)
      BY <1>2, <1>4
    <3> QED
      BY <3>1, AppendProperties
  <2>3. Contract!Receive(i, k)
    BY <1>3, <1>4, <2>1, <2>2 DEF Contract!Receive
  <2> QED
    BY <2>3 DEF Contract!Next
<1>5. CASE signals' = [signals EXCEPT ![i][k] = Append(@, e)] /\ UNCHANGED <<pc, consumed>>
  <2>1. UNCHANGED RunStatus
    BY <1>5, StatusKept DEF SameStatus
  <2>2. /\ signals'[i][k] = Append(signals[i][k], e) /\ signals'[i][k] # <<>>
        /\ signals'[i][k][Len(signals'[i][k])] = e
    <3>1. signals[i] \in [Keys -> Seq(Envelope)] /\ signals[i][k] \in Seq(Envelope)
      BY <1>2
    <3>2. signals'[i][k] = Append(signals[i][k], e)
      BY <1>2, <1>5
    <3> QED
      BY <3>1, <3>2, AppendProperties
  <2>3. Contract!Post(i, k)
    BY <1>3, <1>5, <2>1, <2>2 DEF Contract!Post
  <2> QED
    BY <2>3 DEF Contract!Next
<1> QED
  BY <1>1, <1>4, <1>5

\* The Selector takes the oldest signal of a channel, or none.
LEMMA SelectRefines ==
  ASSUME SignalInv, NEW i \in Ids, EnterSelect(i)
  PROVE  [Contract!Next]_Contract!vars
<1>1. TypeInv /\ pc[i] = "effects" /\ TakeReadyCase(i) /\ CallsKept /\ DOMAIN pc = Ids
  BY DEF SignalInv, EnterSelect, TypeInv, TypeOK, CallsKept, clientVars
<1>2. CASE \E n \in DOMAIN Cases(i) : Fire(i, n, Nil, 0) /\ UNCHANGED signalVars
  BY <1>1, <1>2, Stutters DEF Fire, SameStatus, signalVars, CallsKept
<1>3. CASE \E n \in Ready(i) :
              LET k == Cases(i)[n].key
                  e == Head(signals[i][k])
              IN  /\ Fire(i, n, e.msg, e.n)
                  /\ signals' = [signals EXCEPT ![i][k] = Tail(@)]
                  /\ consumed' = [consumed EXCEPT ![i] = Append(@, e)]
                  /\ UNCHANGED accepted
  <2>1. PICK n \in Ready(i) :
              LET k == Cases(i)[n].key
                  e == Head(signals[i][k])
              IN  /\ Fire(i, n, e.msg, e.n)
                  /\ signals' = [signals EXCEPT ![i][k] = Tail(@)]
                  /\ consumed' = [consumed EXCEPT ![i] = Append(@, e)]
                  /\ UNCHANGED accepted
    BY <1>3
  <2> DEFINE k == Cases(i)[n].key
  <2>2. k \in Keys /\ signals[i][k] # <<>>
    BY <1>1, CaseTypes DEF Ready, CasesOf, Case, Working
  <2>3. /\ signals' = [signals EXCEPT ![i][k] = Tail(@)]
        /\ consumed' = [consumed EXCEPT ![i] = Append(@, Head(signals[i][k]))]
        /\ pc' = [pc EXCEPT ![i] = "can"]
    BY <2>1 DEF Fire
  <2> HIDE DEF k
  <2>4. UNCHANGED <<RunStatus, Server, Answers>> /\ RunStatus[i] = "running"
    BY <1>1, <2>3, StatusKept, ServerKept DEF SameStatus, RunStatus, Running, Closed
  <2>5. Contract!Take(i, k)
    BY <2>2, <2>3, <2>4 DEF Contract!Take
  <2> QED
    BY <2>2, <2>5 DEF Contract!Next
<1>4. CASE pc' = [pc EXCEPT ![i] = "select"] /\ Ready(i) = {} /\ UNCHANGED <<cur, signalVars>>
  BY <1>1, <1>4, Stutters DEF SameStatus, signalVars, CallsKept
<1> QED
  BY <1>1, <1>2, <1>3, <1>4, TakeReadyCaseSplit

\* A run that begins starts the routine, or renews it.
LEMMA BeginRunRefines ==
  ASSUME CallInv, NEW i \in Ids, NEW k, NEW x, NEW q, BeginRun(i, k, x, q),
         serving[i] = Nil, CallsKept, UNCHANGED consumed
  PROVE  Contract!Next
<1>1. /\ TypeInv /\ DOMAIN pc = Ids /\ signals \in [Ids -> [Keys -> Seq(Envelope)]]
      /\ pc[i] = "absent" => signals[i] = NoSignals
  BY DEF CallInv, TypeInv, TypeOK, WellFormed
<1>2. /\ pc' = [pc EXCEPT ![i] = "activity"] /\ signals' = [signals EXCEPT ![i] = NoSignals]
  BY DEF BeginRun
<1>3. RunStatus' = [RunStatus EXCEPT ![i] = "running"] /\ UNCHANGED <<Server, Answers>>
  BY <1>1, <1>2, StatusMoves, ServerKept
<1>4. CASE pc[i] = "absent"
  <2>1. signals' = signals
    BY <1>1, <1>2, <1>4
  <2>2. RunStatus[i] = "new"
    BY <1>4 DEF RunStatus
  <2>3. Contract!Start(i)
    BY <1>3, <2>1, <2>2 DEF Contract!Start
  <2> QED
    BY <2>3 DEF Contract!Next
<1>5. CASE pc[i] # "absent"
  <2>1. RunStatus[i] # "new"
    BY <1>5 DEF RunStatus
  <2>2. Contract!Renew(i)
    BY <1>2, <1>3, <2>1, ServesNobody DEF Contract!Renew, NoSignals
  <2> QED
    BY <2>2 DEF Contract!Next
<1> QED
  BY <1>4, <1>5

\* A run that closes refuses the calls in its queue; no other is concerned.
LEMMA CloseRunRefines ==
  ASSUME CallInv, NEW i \in Ids, pc[i] \in {"activity", "effects"}, NEW ok, NEW v,
         CloseRun(i, ok, v), UNCHANGED <<serving, signals, consumed>>
  PROVE  Contract!Next
<1> DEFINE waiting == {pending[i][p].client : p \in DOMAIN pending[i]}
           refusal == [ok |-> FALSE, value |-> Nil]
<1>1. /\ TypeInv /\ DOMAIN pc = Ids /\ serving[i] = Nil /\ resp \in [Clients -> Seq(Response)]
  BY DEF CallInv, TypeInv, TypeOK, WellFormed
<1>2. /\ pc' = [pc EXCEPT ![i] = IF ok THEN "done" ELSE "failed"]
      /\ resp' = [c \in Clients |-> IF c \in waiting THEN Append(resp[c], refusal) ELSE resp[c]]
  BY DEF CloseRun
<1>3. \A c \in waiting : c \in Clients /\ Contract!Idle(c) /\ resp[c] = <<>>
  BY QueuedUnserved, UnservedIdle DEF Unserved
<1>4. \A c \in waiting : Len(Append(resp[c], refusal)) = 1
  <2>1. refusal \in Response /\ <<>> \in Seq(Response) /\ Len(<<>>) = 0
    BY EmptySeq DEF Response, Value
  <2>2. Len(Append(<<>>, refusal)) = 1
    BY <2>1, AppendProperties
  <2> QED
    BY <1>3, <2>2
<1> HIDE DEF waiting, refusal
<1>5. Answers' = [c \in Clients |-> IF c \in waiting THEN 1 ELSE Answers[c]]
  <2>1. \A c \in Clients : Len(resp'[c]) = IF c \in waiting THEN 1 ELSE Len(resp[c])
    BY <1>2, <1>4
  <2> QED
    BY <2>1 DEF Answers
<1>6. UNCHANGED Server
  BY ServerMeans
<1>7. RunStatus[i] = "running" /\ RunStatus' = [RunStatus EXCEPT ![i] = "done"]
  <2>1. pc'[i] \in {"done", "failed"} /\ \A j \in Ids : j # i => pc'[j] = pc[j]
    BY <1>1, <1>2
  <2> QED
    BY <2>1, StatusMoves, StatusOf DEF Running, Closed
<1>8. waiting \in SUBSET {c \in Clients : Contract!Idle(c)}
  BY <1>3
<1>9. Contract!Complete(i)
  BY <1>1, <1>5, <1>6, <1>7, <1>8, ServesNobody DEF Contract!Complete
<1> QED
  BY <1>9 DEF Contract!Next

-----------------------------------------------------------------------------
(* Steps that change calls.                                                *)

\* An outcome for a client that has none.
LEMMA OneOutcome ==
  ASSUME TypeInv, NEW c \in Clients, resp[c] = <<>>, NEW ok, NEW v,
         [ok |-> ok, value |-> v] \in Response, Respond(c, ok, v)
  PROVE  Answers' = [Answers EXCEPT ![c] = 1]
<1> DEFINE r == [ok |-> ok, value |-> v]
<1>1. resp' = [resp EXCEPT ![c] = Append(resp[c], r)] /\ DOMAIN resp = Clients
  BY DEF Respond, TypeInv, TypeOK
<1>2. Len(Append(<<>>, r)) = 1
  <2>1. <<>> \in Seq(Response) /\ Len(<<>>) = 0
    BY EmptySeq
  <2> QED
    BY <2>1, AppendProperties
<1> HIDE DEF r
<1>3. \A d \in Clients : Len(resp'[d]) = IF d = c THEN 1 ELSE Len(resp[d])
  BY <1>1, <1>2
<1> QED
  BY <1>3 DEF Answers

\* Routine i takes up the call of a client nobody serves.
LEMMA ServerTakes ==
  ASSUME CallInv, NEW i \in Ids, serving[i] = Nil, NEW call \in PendingCall,
         Unserved(call.client), serving' = [serving EXCEPT ![i] = call]
  PROVE  Server' = [Server EXCEPT ![call.client] = i]
<1> DEFINE c == call.client
<1>1. c \in Clients /\ call # Nil
  BY TemporalAssumption DEF PendingCall
<1>2. serving'[i] = call /\ \A j \in Ids : j # i => serving'[j] = serving[j]
  BY DEF CallInv, TypeInv, TypeOK
<1>3. Taker(serving', c) = i
  <2>1. \A j \in Ids : ServesIn(serving', j, c) <=> j = i
    BY <1>1, <1>2 DEF ServesIn, Unserved
  <2>2. OneTaker(serving', c)
    BY <2>1 DEF OneTaker
  <2> QED
    BY <2>1, <2>2, TakerIs
<1>4. ASSUME NEW d \in Clients, d # c
      PROVE  Taker(serving', d) = Taker(serving, d)
  <2>1. \A j \in Ids : ServesIn(serving', j, d) <=> ServesIn(serving, j, d)
    BY <1>2, <1>4 DEF ServesIn
  <2> QED
    BY <2>1, OneTakerAlways, TakerKept
<1> HIDE DEF c
<1>5. Server' = [Server EXCEPT ![c] = i]
  BY <1>3, <1>4, ServerMeans
<1> QED
  BY <1>5 DEF c

\* Routine i is done with the call it served.
LEMMA ServerReleases ==
  ASSUME CallInv, NEW i \in Ids, serving[i] \in PendingCall, serving' = [serving EXCEPT ![i] = Nil]
  PROVE  /\ Server[serving[i].client] # Nil
         /\ Server' = [Server EXCEPT ![serving[i].client] = Nil]
<1> DEFINE c == serving[i].client
<1>1. c \in Clients /\ serving[i] # Nil
  BY TemporalAssumption DEF PendingCall
<1>2. serving'[i] = Nil /\ \A j \in Ids : j # i => serving'[j] = serving[j]
  BY DEF CallInv, TypeInv, TypeOK
<1>3. OneTaker(serving, c) /\ ServesIn(serving, i, c)
  BY <1>1, OneTakerAlways DEF ServesIn
<1>4. Taker(serving, c) = i /\ i # Nil
  BY <1>3, TakerIs, DurableAssumption
<1>5. Taker(serving', c) = Nil
  <2>1. \A j \in Ids : ~ ServesIn(serving', j, c)
    BY <1>2, <1>3 DEF ServesIn, OneTaker
  <2> QED
    BY <2>1 DEF Taker
<1>6. ASSUME NEW d \in Clients, d # c
      PROVE  Taker(serving', d) = Taker(serving, d)
  <2>1. \A j \in Ids : ServesIn(serving', j, d) <=> ServesIn(serving, j, d)
    BY <1>2, <1>6 DEF ServesIn
  <2> QED
    BY <2>1, OneTakerAlways, TakerKept
<1> HIDE DEF c
<1>7. Server[c] # Nil /\ Server' = [Server EXCEPT ![c] = Nil]
  BY <1>1, <1>4, <1>5, <1>6, ServerMeans
<1> QED
  BY <1>7 DEF c

LEMMA RunCallRefines ==
  ASSUME CallInv, NEW i \in Ids, RunCall(i)
  PROVE  Contract!Next
<1> DEFINE c == serving[i].client
<1>1. /\ TypeInv /\ pc[i] = "call" /\ DOMAIN pc = Ids /\ serving[i] \in PendingCall
      /\ serving[i].key \in Keys /\ serving[i].input \in Inputs /\ serving[i].req \in Msg
      /\ c \in Clients /\ serving[i] # Nil /\ now \in Time
  BY TemporalAssumption DEF RunCall, CallInv, TypeInv, TypeOK, WellFormed, PendingCall, Msg
<1>2. PICK a \in Outcomes(i, serving[i].key, serving[i].input, serving[i].req) :
        /\ Respond(c, a.ok, a.resp)
        /\ pc' = [pc EXCEPT ![i] = "effects"]
  BY DEF RunCall, Process
<1>3. [ok |-> a.ok, value |-> a.resp] \in Response
  <2>1. a \in Attempt
    BY <1>1, OutcomesType
  <2> QED
    BY <2>1 DEF Attempt, Response
<1>4. Server[c] # Nil /\ Server' = [Server EXCEPT ![c] = Nil]
  <2>1. serving' = [serving EXCEPT ![i] = Nil]
    BY DEF RunCall
  <2> QED
    BY <1>1, <2>1, ServerReleases
<1>5. resp[c] = <<>>
  BY <1>1, ServedUnanswered DEF ServesIn
<1> HIDE DEF c
<1>6. Answers' = [Answers EXCEPT ![c] = 1]
  BY <1>1, <1>2, <1>3, <1>5, OneOutcome
<1>7. UNCHANGED RunStatus
  <2>1. SameStatus
    BY <1>1, <1>2 DEF SameStatus
  <2> QED
    BY <2>1, StatusKept
<1>8. Contract!Answer(c)
  <2>1. UNCHANGED <<signals, consumed>>
    BY DEF RunCall, signalVars
  <2> QED
    BY <1>4, <1>6, <1>7, <2>1 DEF Contract!Answer
<1> QED
  BY <1>1, <1>8 DEF Contract!Next

LEMMA DrainCallRefines ==
  ASSUME CallInv, NEW i \in Ids, DrainCall(i)
  PROVE  Contract!Next
<1> DEFINE call == Head(pending[i])
           c == call.client
<1>1. /\ TypeInv /\ now \in Time /\ call.key \in Keys /\ call.input \in Inputs /\ call.req \in Msg
      /\ pending[i] \in Seq(PendingCall) /\ pending[i] # <<>>
  BY PendingTypes DEF DrainCall, CallInv, TypeInv, TypeOK
<1>2. PICK a \in Ends(i, call.key, call.input, call.req) : Respond(c, a.ok, a.resp)
  BY DEF DrainCall
<1>3. [ok |-> a.ok, value |-> a.resp] \in Response
  <2>1. a \in Attempt
    BY <1>1, EndsType
  <2> QED
    BY <2>1 DEF Attempt, Response
<1>4. 1 \in DOMAIN pending[i] /\ call = pending[i][1]
  BY <1>1, EmptySeq, LenProperties, HeadTailProperties
<1>5. c \in Clients /\ Unserved(c)
  BY <1>4, QueuedUnserved
<1> HIDE DEF call, c
<1>6. Answers' = [Answers EXCEPT ![c] = 1]
  BY <1>1, <1>2, <1>3, <1>5, OneOutcome DEF Unserved
<1>7. UNCHANGED <<RunStatus, Server>>
  <2>1. UNCHANGED <<pc, serving>>
    BY DEF DrainCall
  <2>2. SameStatus
    BY <2>1 DEF SameStatus
  <2> QED
    BY <2>1, <2>2, StatusKept, ServerMeans
<1>8. Contract!Refuse(c)
  <2>1. UNCHANGED <<signals, consumed>>
    BY DEF DrainCall, signalVars
  <2> QED
    BY <1>5, <1>6, <1>7, <2>1, UnservedIdle DEF Contract!Refuse
<1> QED
  BY <1>5, <1>8 DEF Contract!Next

\* The Selector takes up the oldest call, which may be the one just queued.
LEMMA AcceptUpdateRefines ==
  ASSUME CallInv, NEW c \in Clients, AcceptUpdate(c)
  PROVE  [Contract!Next]_Contract!vars
<1> DEFINE i == cop[c].id
           e == [client |-> c, key |-> cop[c].key, req |-> cop[c].arg, input |-> updates[i][cop[c].key]]
           queue == Append(pending[i], e)
<1>1. /\ TypeInv /\ cpc[c] = "calling" /\ Running(i) /\ DOMAIN pc = Ids
      /\ UNCHANGED <<resp, signals, consumed>> /\ i \in Ids
      /\ IF Listening(i)
         THEN /\ serving' = [serving EXCEPT ![i] = Head(queue)]
              /\ pc' = [pc EXCEPT ![i] = "call"]
         ELSE UNCHANGED <<serving, pc>>
  BY DEF AcceptUpdate, CallInv, TypeInv, TypeOK, WellFormed, Op, signalVars
<1>2. CASE ~ Listening(i)
  BY <1>1, <1>2, Stutters DEF SameStatus
<1>3. CASE Listening(i)
  <2>1. pc[i] = "select" /\ serving[i] = Nil /\ pending[i] \in Seq(PendingCall)
    BY <1>1, <1>3 DEF Listening, TypeInv, TypeOK, WellFormed
  <2>2. e \in PendingCall /\ e.client = c
    <3>1. i \in Ids /\ cop[c].key \in Keys /\ cop[c].arg \in Messages
      BY <1>1 DEF TypeInv, WellFormed, Op
    <3>2. updates[i][cop[c].key] \in Inputs
      BY <1>1, <3>1 DEF AcceptUpdate, TypeInv, TypeOK
    <3> QED
      BY <3>1, <3>2 DEF PendingCall
  <2> HIDE DEF i, e
  <2>3. \/ Head(queue) = e
        \/ \E p \in DOMAIN pending[i] : Head(queue) = pending[i][p]
    <3>1. CASE pending[i] = <<>>
      BY <2>1, <2>2, <3>1, AppendProperties, HeadTailProperties, EmptySeq
    <3>2. CASE pending[i] # <<>>
      BY <2>1, <2>2, <3>2, AppendProperties, HeadTailProperties, EmptySeq, LenProperties
    <3> QED
      BY <3>1, <3>2
  <2>4. Head(queue) \in PendingCall /\ Unserved(Head(queue).client)
    <3>1. CASE Head(queue) = e
      BY <1>1, <2>2, <3>1, CallingUnserved
    <3>2. CASE \E p \in DOMAIN pending[i] : Head(queue) = pending[i][p]
      <4>1. PICK p \in DOMAIN pending[i] : Head(queue) = pending[i][p]
        BY <3>2
      <4>2. pending[i][p] \in PendingCall
        BY <2>1, LenProperties, ElementOfSeq
      <4> QED
        BY <1>1, <4>1, <4>2, QueuedUnserved
    <3> QED
      BY <2>3, <3>1, <3>2
  <2> DEFINE call == Head(queue)
  <2>5. serving' = [serving EXCEPT ![i] = call] /\ pc' = [pc EXCEPT ![i] = "call"]
    BY <1>1, <1>3
  <2>6. call \in PendingCall /\ Unserved(call.client)
    BY <2>4
  <2> HIDE DEF queue, call
  <2>7. call.client \in Clients
    BY <2>6 DEF PendingCall
  <2>8. Server' = [Server EXCEPT ![call.client] = i]
    BY <1>1, <2>1, <2>5, <2>6, ServerTakes
  <2>9. UNCHANGED <<RunStatus, Answers>>
    <3>1. SameStatus
      BY <1>1, <2>1, <2>5 DEF SameStatus
    <3> QED
      BY <1>1, <3>1, StatusKept DEF Answers
  <2>10. Contract!Serve(i, call.client)
    BY <1>1, <2>1, <2>6, <2>7, <2>8, <2>9, StatusOf, UnservedIdle, ServesNobody DEF Contract!Serve
  <2> QED
    BY <1>1, <2>7, <2>10 DEF Contract!Next
<1> QED
  BY <1>2, <1>3

LEMMA ReturnRefines ==
  ASSUME CallInv, NEW c \in Clients, ClientCallReturn(c)
  PROVE  Contract!Next
<1>1. /\ TypeInv /\ cpc[c] = "awaiting" /\ resp[c] # <<>> /\ DOMAIN resp = Clients
      /\ resp' = [resp EXCEPT ![c] = Tail(resp[c])]
      /\ UNCHANGED <<pc, serving, signals, consumed>> /\ resp[c] \in Seq(Response)
  BY DEF ClientCallReturn, instVars, signalVars, CallInv, TypeInv, TypeOK
<1>2. Len(resp[c]) = 1
  BY <1>1 DEF CallInv, CallOwnership
<1>3. Len(Tail(resp[c])) = 0
  BY <1>1, <1>2, HeadTailProperties
<1>4. Answers[c] = 1 /\ Answers' = [Answers EXCEPT ![c] = 0]
  <2>1. \A d \in Clients : Len(resp'[d]) = IF d = c THEN 0 ELSE Len(resp[d])
    BY <1>1, <1>3
  <2> QED
    BY <1>2, <2>1 DEF Answers
<1>5. UNCHANGED <<RunStatus, Server>>
  <2>1. SameStatus
    BY <1>1 DEF SameStatus
  <2> QED
    BY <1>1, <2>1, StatusKept, ServerMeans
<1>6. Contract!Collect(c)
  BY <1>1, <1>4, <1>5 DEF Contract!Collect
<1> QED
  BY <1>6 DEF Contract!Next

-----------------------------------------------------------------------------
(* The backend implements the contract, step by step.                      *)

LEMMA LoopRefines ==
  ASSUME CallInv, SignalInv, NEW i \in Ids, Workflow(i)
  PROVE  [Contract!Next]_Contract!vars
<1>1. TypeInv /\ DOMAIN pc = Ids /\ (pc[i] # "call" => serving[i] = Nil)
  BY DEF CallInv, TypeInv, TypeOK, WellFormed
<1>2. CASE \/ RunActivity(i) \/ ContinueAtOnce(i) \/ TimerFires(i) \/ Proceed(i)
           \/ SuggestContinueAsNew(i)
  <2>1. /\ \/ pc' = [pc EXCEPT ![i] = "effects"] \/ pc' = [pc EXCEPT ![i] = "can"]
           \/ pc' = [pc EXCEPT ![i] = "activity"] \/ pc' = [pc EXCEPT ![i] = "drain"]
        /\ pc[i] \notin {"absent", "done", "failed"}
        /\ UNCHANGED <<signals, consumed, serving, resp>>
    BY <1>2 DEF RunActivity, Process, ContinueAtOnce, TimerFires, Fire, Proceed, SuggestContinueAsNew,
                clientVars, signalVars
  <2>2. SameStatus
    BY <1>1, <2>1 DEF SameStatus
  <2> QED
    BY <2>1, <2>2, Stutters
<1>3. CASE ActivityFails(i) \/ Complete(i) \/ FailWithoutCases(i)
  <2>1. /\ pc[i] \in {"activity", "effects"} /\ UNCHANGED <<serving, signals, consumed>>
        /\ \E ok, v : CloseRun(i, ok, v)
    BY <1>3 DEF ActivityFails, Complete, FailWithoutCases, signalVars
  <2> QED
    BY <2>1, CloseRunRefines
<1>4. CASE DeliverSend(i)
  <2> DEFINE s == Sends(i)[eff[i] + 1]
  <2>1. s.id \in Ids /\ s.key \in Keys /\ s.msg \in Messages
    BY <1>1, <1>4, NextSend DEF DeliverSend, SendRequest
  <2>2. CASE Running(s.id)
    BY <1>4, <2>1, <2>2, SignalRefines DEF DeliverSend, CallsKept, clientVars
  <2>3. CASE ~ Running(s.id)
    BY <1>4, <2>3, Stutters DEF DeliverSend, SameStatus, clientVars, signalVars
  <2> QED
    BY <2>2, <2>3
<1>5. CASE EnterSelect(i)
  BY <1>5, SelectRefines
<1>6. CASE RunCall(i) \/ DrainCall(i)
  BY <1>6, RunCallRefines, DrainCallRefines
<1>7. CASE ContinueAsNew(i)
  <2>1. /\ pc[i] = "drain" /\ BeginRun(i, cur[i].key, cur[i].input, queries[i])
        /\ UNCHANGED <<serving, resp, consumed>>
    BY <1>7 DEF ContinueAsNew, clientVars
  <2> QED
    BY <1>1, <2>1, BeginRunRefines DEF CallsKept
<1> QED
  BY <1>2, <1>3, <1>4, <1>5, <1>6, <1>7 DEF Workflow

LEMMA ChildrenRefine ==
  ASSUME CallInv, NEW i \in Ids, Children(i)
  PROVE  [Contract!Next]_Contract!vars
<1>1. TypeInv
  BY DEF CallInv
<1>2. CASE ForgetChild(i)
  BY <1>2, Stutters DEF ForgetChild, SameStatus, instVars, clientVars, signalVars
<1>3. CASE StartChild(i)
  <2>1. PICK p \in DOMAIN starting[i] :
          /\ IF Running(starting[i][p].id) THEN UNCHANGED <<pc, cur, queries, signals, updates, runs>>
             ELSE BeginRun(starting[i][p].id, starting[i][p].key, starting[i][p].input, NoQueries)
          /\ UNCHANGED <<serving, resp, consumed>>
    BY <1>3 DEF StartChild, clientVars
  <2> DEFINE j == starting[i][p].id
  <2>2. j \in Ids
    BY <1>1, ChildStartAt DEF ChildStart
  <2>3. CASE Running(j)
    BY <2>1, <2>3, Stutters DEF SameStatus
  <2>4. CASE ~ Running(j)
    <3>1. serving[j] = Nil
      BY <2>2, <2>4 DEF CallInv, ClosedRunOwesNothing
    <3> QED
      BY <2>1, <2>2, <2>4, <3>1, BeginRunRefines DEF CallsKept
  <2> QED
    BY <2>3, <2>4
<1> QED
  BY <1>2, <1>3 DEF Children

LEMMA ClientRefines ==
  ASSUME CallInv, SignalInv, NEW c \in Clients, Resume(c) \/ Invoke(c)
  PROVE  [Contract!Next]_Contract!vars
<1>1. CASE AcceptUpdate(c)
  BY <1>1, AcceptUpdateRefines
<1>2. CASE RejectUpdate(c)
  BY <1>2, Stutters DEF RejectUpdate, SameStatus, instVars, signalVars
<1>3. CASE ClientCallReturn(c)
  BY <1>3, ReturnRefines
<1>4. CASE Invoke(c)
  <2>1. PICK o \in Op :
           /\ o.op \in {"send", "call"} => o.arg \in Messages
           /\ ClientGo(c, o) \/ ClientSend(c, o) \/ ClientCall(c, o) \/ ClientQuery(c, o)
              \/ ClientGet(c, o)
    BY <1>4, InvokeOp
  <2>2. o.id \in Ids /\ o.key \in Keys
    BY DEF Op
  <2>3. CASE ClientGo(c, o)
    <3>1. CASE pc[o.id] \in {"absent", "failed"}
      <4>1. serving[o.id] = Nil
        BY <2>2, <3>1 DEF CallInv, ClosedRunOwesNothing, Running, Closed
      <4>2. /\ BeginRun(o.id, o.key, o.arg, NoQueries) /\ UNCHANGED <<serving, resp, consumed>>
        BY <2>3, <3>1 DEF ClientGo
      <4> QED
        BY <2>2, <4>1, <4>2, BeginRunRefines DEF CallsKept
    <3>2. CASE pc[o.id] \notin {"absent", "failed"}
      BY <2>3, <3>2, Stutters DEF ClientGo, SameStatus
    <3> QED
      BY <3>1, <3>2
  <2>4. CASE ClientSend(c, o)
    <3>1. CASE Running(o.id)
      BY <2>1, <2>2, <2>4, <3>1, SignalRefines DEF ClientSend, CallsKept
    <3>2. CASE ~ Running(o.id)
      BY <2>4, <3>2, Stutters DEF ClientSend, SameStatus, signalVars
    <3> QED
      BY <3>1, <3>2
  <2>5. CASE ClientCall(c, o) \/ ClientQuery(c, o) \/ ClientGet(c, o)
    BY <2>5, Stutters DEF ClientCall, ClientQuery, ClientGet, SameStatus, instVars, signalVars
  <2> QED
    BY <2>1, <2>3, <2>4, <2>5
<1> QED
  BY <1>1, <1>2, <1>3, <1>4 DEF Resume

LEMMA ContractStarts == Init => Contract!Init
<1> SUFFICES ASSUME Init PROVE Contract!Init
  OBVIOUS
<1>1. RunStatus = [i \in Ids |-> "new"]
  BY DEF Init, RunStatus
<1>2. Server = [c \in Clients |-> Nil]
  BY ServerMeans DEF Init, Taker, ServesIn
<1>3. Answers = [c \in Clients |-> 0]
  BY EmptySeq DEF Init, Answers
<1>4. signals = [i \in Ids |-> [k \in Keys |-> <<>>]] /\ consumed = [i \in Ids |-> <<>>]
  BY DEF Init, NoSignals
<1> QED
  BY <1>1, <1>2, <1>3, <1>4 DEF Contract!Init

LEMMA StepRefines ==
  ASSUME CallInv, SignalInv, [Next]_vars
  PROVE  [Contract!Next]_Contract!vars
<1>1. CASE Tick \/ UNCHANGED vars
  BY <1>1, Stutters DEF Tick, vars, instVars, clientVars, signalVars, SameStatus
<1>2. CASE \E i \in Ids : Workflow(i) \/ Children(i)
  BY <1>2, LoopRefines, ChildrenRefine
<1>3. CASE \E c \in Clients : Resume(c) \/ Invoke(c)
  BY <1>3, ClientRefines
<1> QED
  BY <1>1, <1>2, <1>3 DEF Next

\* RoutineWorkflow and the client implement the contract of a backend that
\* may start an id afresh: within a run signals wait and are taken first come
\* first served, and every accepted call is served by one loop, or refused
\* when that one drains its queue or returns, and answered once.
THEOREM TemporalImplementsContract == Spec => ImplementsContract
<1>1. CallInv /\ SignalInv /\ [Next]_vars => [Contract!Next]_Contract!vars
  BY StepRefines
<1> QED
  BY <1>1, ContractStarts, CallInvAlways, SignalInvAlways, PTL DEF Spec, ImplementsContract, Contract!Spec

=============================================================================
