------------------------ MODULE InMemoryContractProofs ------------------------
(***************************************************************************)
(* Proofs about sends on the in-memory backend: each is in one place, none *)
(* overtakes an older one of its key, and no instance waits for a send     *)
(* that it has already set aside; and that the backend implements          *)
(* RoutineContract, as the two places in which a send may wait, the        *)
(* channel and the map of sends set aside, are together one queue per key. *)
(***************************************************************************)
EXTENDS InMemoryProofs

-----------------------------------------------------------------------------
(* Sequences of sends.                                                     *)

LEMMA AppendElements ==
  ASSUME NEW s \in Seq(Envelope), NEW e \in Envelope
  PROVE  /\ DOMAIN Append(s, e) = 1..(Len(s) + 1) /\ DOMAIN s = 1..Len(s) /\ Len(s) \in Nat
         /\ \A p \in 1..Len(s) : Append(s, e)[p] = s[p]
         /\ Append(s, e)[Len(s) + 1] = e
BY AppendProperties, LenProperties

LEMMA TailElements ==
  ASSUME NEW s \in Seq(Envelope), s # <<>>
  PROVE  /\ DOMAIN Tail(s) = 1..(Len(s) - 1) /\ DOMAIN s = 1..Len(s) /\ Len(s) \in Nat \ {0}
         /\ \A p \in 1..(Len(s) - 1) : Tail(s)[p] = s[p + 1]
         /\ Head(s) = s[1]
         /\ \A p \in DOMAIN s : s[p].n \in Nat
<1>1. Tail(s) \in Seq(Envelope) /\ Len(Tail(s)) = Len(s) - 1
  BY HeadTailProperties
<1>2. Len(s) \in Nat \ {0} /\ DOMAIN s = 1..Len(s) /\ \A p \in DOMAIN s : s[p] \in Envelope
  BY EmptySeq, LenProperties
<1>3. DOMAIN Tail(s) = 1..(Len(s) - 1)
  BY <1>1, LenProperties
<1> QED
  BY <1>1, <1>2, <1>3, HeadTailProperties DEF Envelope

LEMMA TagsAppend ==
  ASSUME NEW s \in Seq(Envelope), NEW e \in Envelope
  PROVE  Tags(Append(s, e)) = Tags(s) \cup {e.n}
<1> DEFINE t == Append(s, e)
<1>1. DOMAIN t = DOMAIN s \cup {Len(s) + 1}
  BY AppendElements
<1>2. (\A p \in DOMAIN s : t[p] = s[p]) /\ t[Len(s) + 1] = e
  BY AppendElements
<1> HIDE DEF t
<1>3. Tags(t) = Tags(s) \cup {e.n}
  BY <1>1, <1>2 DEF Tags
<1> QED
  BY <1>3 DEF t

LEMMA TagsTail ==
  ASSUME NEW s \in Seq(Envelope), s # <<>>
  PROVE  Tags(s) = {Head(s).n} \cup Tags(Tail(s))
<1>1. \A p \in DOMAIN s : p = 1 \/ (p - 1 \in DOMAIN Tail(s) /\ Tail(s)[p - 1] = s[p])
  BY TailElements
<1>2. \A p \in DOMAIN Tail(s) : p + 1 \in DOMAIN s /\ Tail(s)[p] = s[p + 1]
  BY TailElements
<1>3. Head(s) = s[1] /\ 1 \in DOMAIN s
  BY TailElements
<1>4. Tags(s) \subseteq {Head(s).n} \cup Tags(Tail(s))
  BY <1>1, <1>3 DEF Tags
<1>5. {Head(s).n} \cup Tags(Tail(s)) \subseteq Tags(s)
  BY <1>2, <1>3 DEF Tags
<1> QED
  BY <1>4, <1>5

LEMMA DistinctAppend ==
  ASSUME NEW s \in Seq(Envelope), NEW e \in Envelope, Distinct(s), e.n \notin Tags(s)
  PROVE  Distinct(Append(s, e))
<1>1. \A p \in DOMAIN Append(s, e) :
        \/ p \in DOMAIN s /\ Append(s, e)[p] = s[p]
        \/ p = Len(s) + 1 /\ Append(s, e)[p] = e
  BY AppendElements
<1>2. \A p \in DOMAIN s : s[p].n # e.n
  BY DEF Tags
<1> QED
  BY <1>1, <1>2 DEF Distinct

LEMMA DistinctTail ==
  ASSUME NEW s \in Seq(Envelope), s # <<>>, Distinct(s)
  PROVE  Distinct(Tail(s)) /\ Head(s).n \notin Tags(Tail(s))
<1>1. \A p \in DOMAIN Tail(s) : p \in Nat \ {0} /\ p + 1 \in DOMAIN s /\ Tail(s)[p] = s[p + 1]
  BY TailElements
<1>2. 1 \in DOMAIN s /\ Head(s) = s[1]
  BY TailElements
<1>3. \A p, q \in Nat : p + 1 = q + 1 => p = q
  OBVIOUS
<1>4. \A p \in Nat \ {0} : p + 1 # 1
  OBVIOUS
<1>5. Distinct(Tail(s))
  BY <1>1, <1>3 DEF Distinct
<1>6. \A p \in DOMAIN Tail(s) : Tail(s)[p].n # Head(s).n
  BY <1>1, <1>2, <1>4 DEF Distinct
<1> QED
  BY <1>5, <1>6 DEF Tags

\* e is younger than the sends of its key in s, or older.
Behind(s, e) == \A p \in DOMAIN s : s[p].key = e.key => s[p].n < e.n
Before(e, s) == \A p \in DOMAIN s : s[p].key = e.key => e.n < s[p].n

LEMMA AppendOrder ==
  ASSUME NEW s \in Seq(Envelope), NEW t \in Seq(Envelope), NEW e \in Envelope
  PROVE  /\ Increasing(s) /\ Behind(s, e) => Increasing(Append(s, e))
         /\ Precedes(s, t) /\ Before(e, t) => Precedes(Append(s, e), t)
         /\ Precedes(t, s) /\ Behind(t, e) => Precedes(t, Append(s, e))
<1>1. \A p \in DOMAIN Append(s, e) :
        \/ p \in DOMAIN s /\ Append(s, e)[p] = s[p]
        \/ p = Len(s) + 1 /\ Append(s, e)[p] = e
  BY AppendElements
<1>2. \A p \in DOMAIN s : p \in Nat /\ p < Len(s) + 1
  BY AppendElements
<1>3. Len(s) \in Nat
  BY AppendElements
<1>4. Increasing(s) /\ Behind(s, e) => Increasing(Append(s, e))
  BY <1>1, <1>2, <1>3 DEF Increasing, Behind
<1>5. Precedes(s, t) /\ Before(e, t) => Precedes(Append(s, e), t)
  BY <1>1 DEF Precedes, Before
<1>6. Precedes(t, s) /\ Behind(t, e) => Precedes(t, Append(s, e))
  BY <1>1 DEF Precedes, Behind
<1> QED
  BY <1>4, <1>5, <1>6

LEMMA TailOrder ==
  ASSUME NEW s \in Seq(Envelope), NEW t \in Seq(Envelope), s # <<>>
  PROVE  /\ Increasing(s) => Increasing(Tail(s)) /\ Before(Head(s), Tail(s))
         /\ Precedes(s, t) => Precedes(Tail(s), t) /\ Before(Head(s), t)
         /\ Precedes(t, s) => Precedes(t, Tail(s)) /\ Behind(t, Head(s))
<1>1. \A p \in DOMAIN Tail(s) : p \in Nat /\ p + 1 \in DOMAIN s /\ Tail(s)[p] = s[p + 1]
  BY TailElements
<1>2. 1 \in DOMAIN s /\ Head(s) = s[1]
  BY TailElements
<1>3. Increasing(s) => Increasing(Tail(s)) /\ Before(Head(s), Tail(s))
  <2>1. ASSUME Increasing(s) PROVE Increasing(Tail(s))
    <3>1. \A p, q \in DOMAIN Tail(s) : p < q => p + 1 < q + 1
      BY <1>1
    <3> QED
      BY <1>1, <2>1, <3>1 DEF Increasing
  <2>2. ASSUME Increasing(s) PROVE Before(Head(s), Tail(s))
    <3>1. \A p \in DOMAIN Tail(s) : 1 < p + 1
      BY TailElements
    <3> QED
      BY <1>1, <1>2, <2>2, <3>1 DEF Increasing, Before
  <2> QED
    BY <2>1, <2>2
<1>4. Precedes(s, t) => Precedes(Tail(s), t) /\ Before(Head(s), t)
  BY <1>1, <1>2 DEF Precedes, Before
<1>5. Precedes(t, s) => Precedes(t, Tail(s)) /\ Behind(t, Head(s))
  BY <1>1, <1>2 DEF Precedes, Behind
<1> QED
  BY <1>3, <1>4, <1>5

-----------------------------------------------------------------------------
(* The sends of one instance: h was handled, c is in the channel, b is set *)
(* aside, and the channel has accepted a of them.                          *)

Kept(h, c, b, a) == Tags(h) \cup Tags(c) \cup UNION {Tags(b[k]) : k \in Keys} = 1..a

Once(h, c, b) ==
  /\ Distinct(h)
  /\ Distinct(c)
  /\ Disjoint(h, c)
  /\ \A k \in Keys :
       /\ \A p \in DOMAIN b[k] : b[k][p].key = k
       /\ Distinct(b[k])
       /\ Disjoint(h, b[k])
       /\ Disjoint(b[k], c)
       /\ \A l \in Keys \ {k} : Disjoint(b[k], b[l])

Ordered(h, c, b) ==
  /\ Increasing(h)
  /\ Increasing(c)
  /\ Precedes(h, c)
  /\ \A k \in Keys :
       /\ Increasing(b[k])
       /\ Precedes(h, b[k])
       /\ Precedes(b[k], c)

Sound(h, c, b, a) == Kept(h, c, b, a) /\ Once(h, c, b) /\ Ordered(h, c, b)

\* The channel accepts a send, which is younger than all others.
LEMMA EnqueueSound ==
  ASSUME NEW h \in Seq(Envelope), NEW c \in Seq(Envelope), NEW b \in [Keys -> Seq(Envelope)],
         NEW a \in Nat, NEW e \in Envelope, e.n = a + 1, Sound(h, c, b, a)
  PROVE  Sound(h, Append(c, e), b, a + 1)
<1>1. Kept(h, Append(c, e), b, a + 1)
  <2>1. 1..(a + 1) = 1..a \cup {a + 1}
    OBVIOUS
  <2> QED
    BY <2>1, TagsAppend DEF Sound, Kept
<1>2. /\ Behind(h, e) /\ Behind(c, e)
      /\ \A k \in Keys : Behind(b[k], e)
  <2>1. Tags(h) \subseteq 1..a /\ Tags(c) \subseteq 1..a /\ \A k \in Keys : Tags(b[k]) \subseteq 1..a
    BY DEF Sound, Kept
  <2>2. \A n \in 1..a : n < e.n
    OBVIOUS
  <2>3. ASSUME NEW s, Tags(s) \subseteq 1..a
        PROVE  Behind(s, e)
    BY <2>2, <2>3 DEF Tags, Behind
  <2> QED
    BY <2>1, <2>3
<1>3. Increasing(Append(c, e)) /\ Precedes(h, Append(c, e))
  BY <1>2, AppendOrder DEF Sound, Ordered
<1>4. \A k \in Keys : Precedes(b[k], Append(c, e))
  BY <1>2, AppendOrder DEF Sound, Ordered
<1>5. Once(h, Append(c, e), b)
  <2>1. Tags(h) \subseteq 1..a /\ Tags(c) \subseteq 1..a /\ \A k \in Keys : Tags(b[k]) \subseteq 1..a
    BY DEF Sound, Kept
  <2>2. e.n \notin 1..a
    OBVIOUS
  <2>3. Distinct(Append(c, e)) /\ Tags(Append(c, e)) = Tags(c) \cup {e.n}
    BY <2>1, <2>2, DistinctAppend, TagsAppend DEF Sound, Once
  <2>4. Disjoint(h, Append(c, e)) /\ \A k \in Keys : Disjoint(b[k], Append(c, e))
    BY <2>1, <2>2, <2>3 DEF Sound, Once, Disjoint
  <2> QED
    BY <2>3, <2>4 DEF Sound, Once
<1> QED
  BY <1>1, <1>3, <1>4, <1>5 DEF Sound, Ordered

\* The oldest send set aside under key k is handled.
LEMMA TakeBufferedSound ==
  ASSUME NEW h \in Seq(Envelope), NEW c \in Seq(Envelope), NEW b \in [Keys -> Seq(Envelope)],
         NEW a \in Nat, NEW k \in Keys, b[k] # <<>>, Sound(h, c, b, a)
  PROVE  Sound(Append(h, Head(b[k])), c, [b EXCEPT ![k] = Tail(@)], a)
<1> DEFINE e == Head(b[k])
           d == [b EXCEPT ![k] = Tail(@)]
<1>1. e \in Envelope /\ e.key = k
  BY TailElements, HeadTailProperties DEF Sound, Once
<1>2. d[k] = Tail(b[k]) /\ \A l \in Keys : l # k => d[l] = b[l]
  OBVIOUS
<1>3. Tags(Append(h, e)) = Tags(h) \cup {e.n} /\ Tags(b[k]) = {e.n} \cup Tags(d[k])
  BY <1>1, <1>2, TagsAppend, TagsTail
<1>4. /\ Behind(h, e) /\ Before(e, c) /\ Before(e, d[k])
      /\ Increasing(d[k]) /\ Precedes(h, d[k]) /\ Precedes(d[k], c)
  BY <1>2, TailOrder DEF Sound, Ordered
<1>5. \A l \in Keys : l # k => Before(e, b[l])
  BY <1>1 DEF Sound, Once, Before
<1>6. /\ \A p \in DOMAIN d[k] : d[k][p].key = k
      /\ Distinct(d[k]) /\ e.n \notin Tags(d[k])
  BY <1>2, TailElements, DistinctTail DEF Sound, Once
<1>7. d[k] \in Seq(Envelope)
  BY <1>2, HeadTailProperties
<1> HIDE DEF e, d
<1>8. Kept(Append(h, e), c, d, a)
  BY <1>2, <1>3 DEF Sound, Kept
<1>9. Increasing(Append(h, e)) /\ Precedes(Append(h, e), c)
  BY <1>1, <1>4, AppendOrder DEF Sound, Ordered
<1>10. Precedes(Append(h, e), d[k])
  BY <1>1, <1>4, <1>7, AppendOrder
<1>11. \A l \in Keys : l # k => Precedes(Append(h, e), d[l])
  BY <1>1, <1>2, <1>5, AppendOrder DEF Sound, Ordered
<1>12. Ordered(Append(h, e), c, d)
  BY <1>2, <1>4, <1>9, <1>10, <1>11 DEF Sound, Ordered
<1>13. Once(Append(h, e), c, d)
  <2>1. Distinct(Append(h, e)) /\ Disjoint(Append(h, e), c)
    <3>1. e.n \notin Tags(h) /\ e.n \notin Tags(c)
      BY <1>3 DEF Sound, Once, Disjoint
    <3> QED
      BY <1>1, <1>3, <3>1, DistinctAppend DEF Sound, Once, Disjoint
  <2>2. Disjoint(Append(h, e), d[k]) /\ Disjoint(d[k], c)
    BY <1>3, <1>6 DEF Sound, Once, Disjoint
  <2>3. ASSUME NEW l \in Keys, l # k
        PROVE  Disjoint(Append(h, e), d[l]) /\ Disjoint(d[k], d[l]) /\ Disjoint(d[l], d[k])
    BY <1>2, <1>3, <2>3 DEF Sound, Once, Disjoint
  <2>4. \A l, o \in Keys : l # k /\ o # k /\ o # l => Disjoint(d[l], d[o])
    BY <1>2 DEF Sound, Once
  <2>5. \A l \in Keys : l # k =>
          (\A p \in DOMAIN d[l] : d[l][p].key = l) /\ Distinct(d[l]) /\ Disjoint(d[l], c)
    BY <1>2 DEF Sound, Once
  <2>6. Distinct(c)
    BY DEF Sound, Once
  <2> QED
    BY <1>6, <2>1, <2>2, <2>3, <2>4, <2>5, <2>6 DEF Once
<1> QED
  BY <1>8, <1>12, <1>13 DEF Sound, e, d

\* The oldest send in the channel is handled; none of its key is set aside.
LEMMA AcceptSendSound ==
  ASSUME NEW h \in Seq(Envelope), NEW c \in Seq(Envelope), NEW b \in [Keys -> Seq(Envelope)],
         NEW a \in Nat, c # <<>>, b[Head(c).key] = <<>>, Sound(h, c, b, a)
  PROVE  Sound(Append(h, Head(c)), Tail(c), b, a)
<1> DEFINE e == Head(c)
<1>1. e \in Envelope /\ Tail(c) \in Seq(Envelope)
  BY HeadTailProperties
<1>2. Tags(Append(h, e)) = Tags(h) \cup {e.n} /\ Tags(c) = {e.n} \cup Tags(Tail(c))
  BY <1>1, TagsAppend, TagsTail
<1>3. /\ Behind(h, e) /\ Before(e, Tail(c))
      /\ Increasing(Tail(c)) /\ Precedes(h, Tail(c))
      /\ \A k \in Keys : Precedes(b[k], Tail(c))
  BY TailOrder DEF Sound, Ordered
<1>4. \A k \in Keys : Before(e, b[k])
  BY DEF Sound, Once, Before
<1>9. Distinct(Tail(c)) /\ e.n \notin Tags(Tail(c))
  BY DistinctTail DEF Sound, Once
<1> HIDE DEF e
<1>5. Kept(Append(h, e), Tail(c), b, a)
  BY <1>2 DEF Sound, Kept
<1>6. Increasing(Append(h, e)) /\ Precedes(Append(h, e), Tail(c))
  BY <1>1, <1>3, AppendOrder DEF Sound, Ordered
<1>7. \A k \in Keys : Precedes(Append(h, e), b[k])
  BY <1>1, <1>4, AppendOrder DEF Sound, Ordered
<1>8. Ordered(Append(h, e), Tail(c), b)
  BY <1>3, <1>6, <1>7 DEF Sound, Ordered
<1>10. Once(Append(h, e), Tail(c), b)
  <2>1. e.n \notin Tags(h) /\ \A k \in Keys : e.n \notin Tags(b[k])
    BY <1>2 DEF Sound, Once, Disjoint
  <2>2. Distinct(Append(h, e)) /\ Disjoint(Append(h, e), Tail(c))
    BY <1>1, <1>2, <1>9, <2>1, DistinctAppend DEF Sound, Once, Disjoint
  <2>3. \A k \in Keys : Disjoint(Append(h, e), b[k]) /\ Disjoint(b[k], Tail(c))
    BY <1>2, <2>1 DEF Sound, Once, Disjoint
  <2> QED
    BY <1>9, <2>2, <2>3 DEF Sound, Once
<1> QED
  BY <1>5, <1>8, <1>10 DEF Sound, e

\* The oldest send in the channel is set aside under its key.
LEMMA SetAsideSound ==
  ASSUME NEW h \in Seq(Envelope), NEW c \in Seq(Envelope), NEW b \in [Keys -> Seq(Envelope)],
         NEW a \in Nat, c # <<>>, Sound(h, c, b, a)
  PROVE  Sound(h, Tail(c), [b EXCEPT ![Head(c).key] = Append(@, Head(c))], a)
<1> DEFINE e == Head(c)
           k == e.key
           d == [b EXCEPT ![k] = Append(@, e)]
<1>1. e \in Envelope /\ k \in Keys /\ Tail(c) \in Seq(Envelope)
  <2>1. Head(c) \in Envelope /\ Tail(c) \in Seq(Envelope)
    BY HeadTailProperties
  <2>2. \A x \in Envelope : x.key \in Keys
    BY DEF Envelope
  <2> QED
    BY <2>1, <2>2
<1>2. d[k] = Append(b[k], e) /\ \A l \in Keys : l # k => d[l] = b[l]
  BY <1>1
<1>3. Tags(d[k]) = Tags(b[k]) \cup {e.n} /\ Tags(c) = {e.n} \cup Tags(Tail(c))
  BY <1>1, <1>2, TagsAppend, TagsTail
<1>4. /\ Behind(h, e) /\ Before(e, Tail(c)) /\ Behind(b[k], e)
      /\ Increasing(Tail(c)) /\ Precedes(h, Tail(c))
      /\ \A l \in Keys : Precedes(b[l], Tail(c))
  BY <1>1, TailOrder DEF Sound, Ordered
<1>5. \A p \in DOMAIN d[k] : d[k][p].key = k
  BY <1>1, <1>2, AppendElements DEF Sound, Once
<1>9. Distinct(Tail(c)) /\ e.n \notin Tags(Tail(c))
  BY DistinctTail DEF Sound, Once
<1> HIDE DEF e, k, d
<1>6. Kept(h, Tail(c), d, a)
  <2>1. UNION {Tags(d[l]) : l \in Keys} = {e.n} \cup UNION {Tags(b[l]) : l \in Keys}
    BY <1>1, <1>2, <1>3
  <2>2. Tags(h) \cup Tags(c) \cup UNION {Tags(b[l]) : l \in Keys} = 1..a
    BY DEF Sound, Kept
  <2> QED
    BY <1>3, <2>1, <2>2 DEF Kept
<1>7. Increasing(d[k]) /\ Precedes(h, d[k]) /\ Precedes(d[k], Tail(c))
  <2>1. b[k] \in Seq(Envelope) /\ Increasing(b[k]) /\ Precedes(h, b[k]) /\ Precedes(b[k], Tail(c))
    BY <1>1, <1>4 DEF Sound, Ordered
  <2>2. Increasing(Append(b[k], e)) /\ Precedes(Append(b[k], e), Tail(c))
    BY <1>1, <1>4, <2>1, AppendOrder
  <2>3. Precedes(h, Append(b[k], e))
    BY <1>1, <1>4, <2>1, AppendOrder
  <2> QED
    BY <1>2, <2>2, <2>3
<1>8. Ordered(h, Tail(c), d)
  BY <1>1, <1>2, <1>4, <1>7 DEF Sound, Ordered
<1>10. Once(h, Tail(c), d)
  <2>1. e.n \notin Tags(h) /\ \A l \in Keys : e.n \notin Tags(b[l])
    BY <1>3 DEF Sound, Once, Disjoint
  <2>2. Distinct(h) /\ Distinct(Tail(c)) /\ Disjoint(h, Tail(c))
    BY <1>3, <1>9 DEF Sound, Once, Disjoint
  <2>3. Distinct(d[k])
    <3>1. b[k] \in Seq(Envelope) /\ Distinct(b[k])
      BY <1>1 DEF Sound, Once
    <3> QED
      BY <1>1, <1>2, <2>1, <3>1, DistinctAppend
  <2>4. Disjoint(h, d[k]) /\ Disjoint(d[k], Tail(c))
    BY <1>1, <1>3, <1>9, <2>1 DEF Sound, Once, Disjoint
  <2>5. ASSUME NEW l \in Keys, l # k
        PROVE  Disjoint(d[k], d[l]) /\ Disjoint(d[l], d[k]) /\ Disjoint(d[l], Tail(c))
    BY <1>1, <1>2, <1>3, <2>1, <2>5 DEF Sound, Once, Disjoint
  <2>6. \A l, o \in Keys : l # k /\ o # k /\ o # l => Disjoint(d[l], d[o])
    BY <1>2 DEF Sound, Once
  <2>7. \A l \in Keys : l # k =>
          (\A p \in DOMAIN d[l] : d[l][p].key = l) /\ Distinct(d[l]) /\ Disjoint(h, d[l])
    BY <1>2 DEF Sound, Once
  <2> QED
    BY <1>1, <1>5, <2>2, <2>3, <2>4, <2>5, <2>6, <2>7 DEF Once
<1> QED
  BY <1>6, <1>8, <1>10 DEF Sound, e, k, d

-----------------------------------------------------------------------------
(* The steps of the runtime, by what they do to the sends.                 *)

Wanting == {"pollCall", "pollSend", "default", "block"}

SendInv == TypeInv /\ NothingSetAsideIsWanted /\ SendsInOnePlace /\ SendsInOrder

LEMMA SoundEverywhere ==
  SendsInOnePlace /\ SendsInOrder
    <=> \A i \in Ids : Sound(handled[i], sendCh[i], buffered[i], accepted[i])
BY DEF SendsInOnePlace, SendsInOrder, Sound, Kept, Once, Ordered

LEMMA SoundStep ==
  ASSUME SendInv, NEW i \in Ids,
         \A j \in Ids : j # i => /\ handled'[j] = handled[j] /\ sendCh'[j] = sendCh[j]
                                 /\ buffered'[j] = buffered[j] /\ accepted'[j] = accepted[j],
         Sound(handled'[i], sendCh'[i], buffered'[i], accepted'[i])
  PROVE  SendsInOnePlace' /\ SendsInOrder'
<1>1. \A j \in Ids : Sound(handled[j], sendCh[j], buffered[j], accepted[j])
  BY SoundEverywhere DEF SendInv
<1>2. \A j \in Ids : Sound(handled'[j], sendCh'[j], buffered'[j], accepted'[j])
  <2> TAKE j \in Ids
  <2>1. CASE j = i
    BY <2>1
  <2>2. CASE j # i
    <3>1. /\ handled'[j] = handled[j] /\ sendCh'[j] = sendCh[j]
          /\ buffered'[j] = buffered[j] /\ accepted'[j] = accepted[j]
      BY <2>2
    <3> QED
      BY <1>1, <3>1
  <2> QED
    BY <2>1, <2>2
<1> QED
  BY <1>2 DEF SendsInOnePlace, SendsInOrder, Sound, Kept, Once, Ordered

LEMMA SoundStutter ==
  ASSUME SendInv, UNCHANGED <<handled, sendCh, buffered, accepted>>
  PROVE  SendsInOnePlace' /\ SendsInOrder'
BY DEF SendInv, SendsInOnePlace, SendsInOrder

LEMMA SoundEnqueue ==
  ASSUME SendInv, NEW i \in Ids, NEW k \in Keys, NEW m \in Messages, Enqueue(i, k, m),
         UNCHANGED <<handled, buffered>>
  PROVE  SendsInOnePlace' /\ SendsInOrder'
<1> DEFINE e == [key |-> k, msg |-> m, n |-> accepted[i] + 1]
<1>1. /\ handled[i] \in Seq(Envelope) /\ sendCh[i] \in Seq(Envelope)
      /\ buffered[i] \in [Keys -> Seq(Envelope)] /\ accepted[i] \in Nat
  BY DEF SendInv, TypeInv, TypeOK
<1>2. e \in Envelope /\ e.n = accepted[i] + 1
  BY <1>1 DEF Envelope
<1>3. Sound(handled[i], sendCh[i], buffered[i], accepted[i])
  BY SoundEverywhere DEF SendInv
<1> HIDE DEF e
<1>4. Sound(handled[i], Append(sendCh[i], e), buffered[i], accepted[i] + 1)
  BY <1>1, <1>2, <1>3, EnqueueSound
<1>5. sendCh'[i] = Append(sendCh[i], e) /\ accepted'[i] = accepted[i] + 1
  BY DEF Enqueue, SendInv, TypeInv, TypeOK, e
<1>6. \A j \in Ids : j # i => sendCh'[j] = sendCh[j] /\ accepted'[j] = accepted[j]
  BY DEF Enqueue, SendInv, TypeInv, TypeOK
<1> QED
  BY <1>4, <1>5, <1>6, SoundStep

LEMMA SoundTakeBuffered ==
  ASSUME SendInv, NEW i \in Ids, TakeBuffered(i)
  PROVE  SendsInOnePlace' /\ SendsInOrder'
<1> DEFINE n == First(Buffered(i))
           k == Cases(i)[n].key
<1>1. n \in Buffered(i) /\ n \in DOMAIN Cases(i)
  BY FirstCase DEF SendInv, TakeBuffered, Buffered, CasesOf
<1>2. k \in Keys /\ buffered[i][k] # <<>>
  BY <1>1, CaseKeys DEF SendInv, Case, TakeBuffered, Buffered
<1>3. /\ buffered' = [buffered EXCEPT ![i][k] = Tail(@)]
      /\ handled' = [handled EXCEPT ![i] = Append(@, Head(buffered[i][k]))]
      /\ UNCHANGED <<sendCh, accepted>>
  BY DEF TakeBuffered
<1> HIDE DEF n, k
<1>4. /\ handled[i] \in Seq(Envelope) /\ sendCh[i] \in Seq(Envelope)
      /\ buffered[i] \in [Keys -> Seq(Envelope)] /\ accepted[i] \in Nat
  BY DEF SendInv, TypeInv, TypeOK
<1>5. Sound(handled[i], sendCh[i], buffered[i], accepted[i])
  BY SoundEverywhere DEF SendInv
<1>6. Sound(Append(handled[i], Head(buffered[i][k])), sendCh[i],
            [buffered[i] EXCEPT ![k] = Tail(@)], accepted[i])
  BY <1>2, <1>4, <1>5, TakeBufferedSound
<1>7. /\ handled'[i] = Append(handled[i], Head(buffered[i][k]))
      /\ buffered'[i] = [buffered[i] EXCEPT ![k] = Tail(@)]
      /\ \A j \in Ids : j # i => handled'[j] = handled[j] /\ buffered'[j] = buffered[j]
  BY <1>3 DEF SendInv, TypeInv, TypeOK
<1> QED
  BY <1>3, <1>6, <1>7, SoundStep

LEMMA SoundAcceptSend ==
  ASSUME SendInv, NEW i \in Ids, pc[i] \in Wanting, sendCh[i] # <<>>, AcceptSend(i)
  PROVE  SendsInOnePlace' /\ SendsInOrder'
<1> DEFINE e == Head(sendCh[i])
<1>1. /\ handled' = [handled EXCEPT ![i] = Append(@, e)]
      /\ sendCh' = [sendCh EXCEPT ![i] = Tail(@)]
      /\ UNCHANGED <<buffered, accepted>>
  BY DEF AcceptSend
<1>2. buffered[i][e.key] = <<>>
  <2>1. PICK n \in CasesOf(i, "send") : Cases(i)[n].key = e.key
    BY DEF AcceptSend, SendCases
  <2>2. Buffered(i) = {}
    BY DEF SendInv, NothingSetAsideIsWanted, Wanting
  <2> QED
    BY <2>1, <2>2 DEF Buffered
<1>3. /\ handled[i] \in Seq(Envelope) /\ sendCh[i] \in Seq(Envelope)
      /\ buffered[i] \in [Keys -> Seq(Envelope)] /\ accepted[i] \in Nat
  BY DEF SendInv, TypeInv, TypeOK
<1>4. Sound(handled[i], sendCh[i], buffered[i], accepted[i])
  BY SoundEverywhere DEF SendInv
<1>5. Sound(Append(handled[i], e), Tail(sendCh[i]), buffered[i], accepted[i])
  BY <1>2, <1>3, <1>4, AcceptSendSound
<1>6. /\ handled'[i] = Append(handled[i], e) /\ sendCh'[i] = Tail(sendCh[i])
      /\ \A j \in Ids : j # i => handled'[j] = handled[j] /\ sendCh'[j] = sendCh[j]
  BY <1>1 DEF SendInv, TypeInv, TypeOK
<1> QED
  BY <1>1, <1>5, <1>6, SoundStep

LEMMA SoundSetAside ==
  ASSUME SendInv, NEW i \in Ids, sendCh[i] # <<>>, NEW l, SetAside(i, l)
  PROVE  SendsInOnePlace' /\ SendsInOrder'
<1> DEFINE e == Head(sendCh[i])
<1>1. /\ buffered' = [buffered EXCEPT ![i][e.key] = Append(@, e)]
      /\ sendCh' = [sendCh EXCEPT ![i] = Tail(@)]
      /\ UNCHANGED <<handled, accepted>>
  BY DEF SetAside, history
<1>2. /\ handled[i] \in Seq(Envelope) /\ sendCh[i] \in Seq(Envelope)
      /\ buffered[i] \in [Keys -> Seq(Envelope)] /\ accepted[i] \in Nat
  BY DEF SendInv, TypeInv, TypeOK
<1>3. Sound(handled[i], sendCh[i], buffered[i], accepted[i])
  BY SoundEverywhere DEF SendInv
<1>4. Sound(handled[i], Tail(sendCh[i]), [buffered[i] EXCEPT ![e.key] = Append(@, e)], accepted[i])
  BY <1>2, <1>3, SetAsideSound
<1> HIDE DEF e
<1>5. /\ sendCh'[i] = Tail(sendCh[i])
      /\ buffered'[i] = [buffered[i] EXCEPT ![e.key] = Append(@, e)]
      /\ \A j \in Ids : j # i => sendCh'[j] = sendCh[j] /\ buffered'[j] = buffered[j]
  BY <1>1 DEF SendInv, TypeInv, TypeOK
<1> QED
  BY <1>1, <1>4, <1>5, SoundStep

-----------------------------------------------------------------------------
(* Nothing that is wanted is set aside.                                    *)

\* A step that brings no instance into the later stages of its wait.
LEMMA WantedFrame ==
  ASSUME NothingSetAsideIsWanted,
         \A j \in Ids : pc'[j] \in Wanting =>
            pc[j] \in Wanting /\ out'[j] = out[j] /\ buffered'[j] = buffered[j]
  PROVE  NothingSetAsideIsWanted'
BY DEF NothingSetAsideIsWanted, Wanting, Buffered, Cases, CasesOf

\* A step of instance i that leaves it without a send that it wants.
LEMMA WantedStep ==
  ASSUME TypeInv, NothingSetAsideIsWanted, NEW i \in Ids, NEW l,
         Goto(i, l), l \in Wanting => Buffered(i)' = {},
         \A j \in Ids : j # i => buffered'[j] = buffered[j]
  PROVE  NothingSetAsideIsWanted'
<1>1. \A j \in Ids : j # i => pc'[j] = pc[j] /\ out'[j] = out[j]
  BY DEF Goto, TypeInv, TypeOK
<1>2. pc'[i] = l
  BY DEF Goto, TypeInv, TypeOK
<1> QED
  BY <1>1, <1>2 DEF NothingSetAsideIsWanted, Wanting, Buffered, Cases, CasesOf

\* A case fires: the instance runs its handler.
LEMMA WantedFire ==
  ASSUME TypeInv, NothingSetAsideIsWanted, NEW i \in Ids, NEW n, NEW m, NEW c,
         Fire(i, n, m, c), \A j \in Ids : j # i => buffered'[j] = buffered[j]
  PROVE  NothingSetAsideIsWanted'
<1>1. \A j \in Ids : pc'[j] \in Wanting => j # i
  BY DEF Fire, TypeInv, TypeOK, Wanting
<1>2. \A j \in Ids : j # i => pc'[j] = pc[j] /\ out'[j] = out[j]
  BY DEF Fire, TypeInv, TypeOK
<1> QED
  BY <1>1, <1>2, WantedFrame

\* A send that no case wants stays unwanted when it is set aside.
LEMMA WantedSetAside ==
  ASSUME TypeInv, NothingSetAsideIsWanted, NEW i \in Ids, sendCh[i] # <<>>,
         NEW l, SetAside(i, l), l \in Wanting => pc[i] \in Wanting
  PROVE  NothingSetAsideIsWanted'
<1> DEFINE e == Head(sendCh[i])
<1>1. /\ buffered' = [buffered EXCEPT ![i][e.key] = Append(@, e)]
      /\ SendCases(i, e) = {} /\ Goto(i, l)
  BY DEF SetAside
<1> HIDE DEF e
<1>2. \A j \in Ids : j # i => buffered'[j] = buffered[j]
  BY <1>1 DEF TypeInv, TypeOK
<1>3. ASSUME l \in Wanting
      PROVE  Buffered(i)' = {}
  <2>1. Buffered(i) = {}
    BY <1>3 DEF NothingSetAsideIsWanted, Wanting
  <2>2. \A n \in CasesOf(i, "send") : Cases(i)[n].key # e.key
    BY <1>1 DEF SendCases
  <2>3. \A k : k # e.key => buffered'[i][k] = buffered[i][k]
    BY <1>1 DEF TypeInv, TypeOK
  <2>4. out' = out
    BY <1>1 DEF Goto
  <2> QED
    BY <2>1, <2>2, <2>3, <2>4 DEF Buffered, Cases, CasesOf
<1> QED
  BY <1>1, <1>2, <1>3, WantedStep

-----------------------------------------------------------------------------
(* One lemma per group of actions.                                         *)

LEMMA SendInvRun ==
  ASSUME SendInv, NEW i \in Ids,
         RunHandler(i) \/ StartChild(i) \/ ReplyToCaller(i) \/ Finish(i) \/ EnterWait(i)
  PROVE  NothingSetAsideIsWanted' /\ SendsInOnePlace' /\ SendsInOrder'
<1> USE DEF chanVars, history, Wanting
<1>1. UNCHANGED <<handled, sendCh, buffered, accepted>>
  BY DEF RunHandler, StartChild, ReplyToCaller, Finish, EnterWait
<1>2. \A j \in Ids : pc'[j] \in Wanting => pc[j] \in Wanting /\ out'[j] = out[j]
  <2>1. CASE RunHandler(i)
    BY <2>1 DEF RunHandler, SendInv, TypeInv, TypeOK
  <2>2. CASE StartChild(i)
    BY <2>2 DEF StartChild, StartInstance, SendInv, TypeInv, TypeOK
  <2>3. CASE ReplyToCaller(i) \/ Finish(i) \/ EnterWait(i)
    BY <2>3 DEF ReplyToCaller, Finish, EnterWait, SendInv, TypeInv, TypeOK
  <2> QED
    BY <2>1, <2>2, <2>3
<1> QED
  BY <1>1, <1>2, SoundStutter, WantedFrame DEF SendInv

LEMMA SendInvDeliverSend ==
  ASSUME SendInv, NEW i \in Ids, DeliverSend(i)
  PROVE  NothingSetAsideIsWanted' /\ SendsInOnePlace' /\ SendsInOrder'
<1> DEFINE s == Sends(i)[eff[i] - Len(Starts(i)) + 1]
<1>1. UNCHANGED <<pc, out, buffered, handled>>
  BY DEF DeliverSend
<1>2. s \in SendRequest
  <2>1. out[i] \in Attempt
    BY DEF SendInv, TypeInv, WellFormed, DeliverSend
  <2>2. Starts(i) \in Seq(StartRequest) /\ Sends(i) \in Seq(SendRequest)
    BY <2>1 DEF Attempt, Starts, Sends
  <2>3. eff[i] - Len(Starts(i)) + 1 \in 1..Len(Sends(i))
    BY <2>2 DEF DeliverSend, Applied, SendInv, TypeInv, TypeOK
  <2> QED
    BY <2>2, <2>3
<1>3. Enqueue(s.id, s.key, s.msg) \/ UNCHANGED <<sendCh, accepted>>
  BY DEF DeliverSend
<1> HIDE DEF s
<1>4. s.id \in Ids /\ s.key \in Keys /\ s.msg \in Messages
  BY <1>2 DEF SendRequest
<1>5. SendsInOnePlace' /\ SendsInOrder'
  BY <1>1, <1>3, <1>4, SoundEnqueue, SoundStutter
<1> QED
  BY <1>1, <1>5, WantedFrame DEF SendInv

\* Timers, the default case and the stages between them fire or go on.
LEMMA SendInvTimers ==
  ASSUME SendInv, NEW i \in Ids,
         \/ ContinueAtOnce(i) \/ TakeExpired(i) \/ PollNothing(i) \/ TakeDefault(i)
         \/ Block(i) \/ SelectTimer(i)
  PROVE  NothingSetAsideIsWanted' /\ SendsInOnePlace' /\ SendsInOrder'
<1>1. UNCHANGED <<handled, sendCh, buffered, accepted>>
  BY DEF ContinueAtOnce, TakeExpired, PollNothing, TakeDefault, Block, SelectTimer, history
<1>2. CASE \E n : Fire(i, n, Nil, NoClient)
  BY <1>1, <1>2, WantedFire, SoundStutter DEF SendInv
<1>3. CASE Buffered(i) = {} /\ \E l : Goto(i, l)
  <2>1. PICK l : Goto(i, l)
    BY <1>3
  <2>2. out' = out
    BY <2>1 DEF Goto
  <2>3. Buffered(i)' = {}
    BY <1>1, <1>3, <2>2 DEF Buffered, Cases, CasesOf
  <2> QED
    BY <1>1, <2>1, <2>3, WantedStep, SoundStutter DEF SendInv
<1>4. CASE Block(i) /\ Goto(i, "block")
  <2>1. Buffered(i) = {}
    BY <1>4 DEF Block, SendInv, NothingSetAsideIsWanted
  <2> QED
    BY <1>3, <1>4, <2>1
<1> QED
  BY <1>2, <1>3, <1>4
  DEF ContinueAtOnce, TakeExpired, PollNothing, TakeDefault, Block, SelectTimer

LEMMA SendInvTakeBuffered ==
  ASSUME SendInv, NEW i \in Ids, TakeBuffered(i)
  PROVE  NothingSetAsideIsWanted' /\ SendsInOnePlace' /\ SendsInOrder'
<1>1. \E n, m : Fire(i, n, m, NoClient)
  BY DEF TakeBuffered
<1>2. \A j \in Ids : j # i => buffered'[j] = buffered[j]
  BY DEF TakeBuffered, SendInv, TypeInv, TypeOK
<1> QED
  BY <1>1, <1>2, WantedFire, SoundTakeBuffered DEF SendInv

LEMMA SendInvReceive ==
  ASSUME SendInv, NEW i \in Ids, PollSend(i) \/ SelectSend(i)
  PROVE  NothingSetAsideIsWanted' /\ SendsInOnePlace' /\ SendsInOrder'
<1>1. pc[i] \in Wanting
  BY DEF PollSend, SelectSend, Wanting
<1>2. CASE Goto(i, "default") /\ UNCHANGED <<sendCh, buffered, clientVars, history>>
  <2>1. Buffered(i) = {}
    BY <1>1 DEF SendInv, NothingSetAsideIsWanted, Wanting
  <2>2. Buffered(i)' = {}
    BY <1>2, <2>1 DEF Goto, Buffered, Cases, CasesOf
  <2> QED
    BY <1>2, <2>2, WantedStep, SoundStutter DEF SendInv, history
<1>3. CASE sendCh[i] # <<>> /\ AcceptSend(i)
  <2>1. (\E n, m : Fire(i, n, m, NoClient)) /\ buffered' = buffered
    BY <1>3 DEF AcceptSend
  <2> QED
    BY <1>1, <1>3, <2>1, WantedFire, SoundAcceptSend DEF SendInv
<1>4. CASE sendCh[i] # <<>> /\ \E l : SetAside(i, l)
  BY <1>1, <1>4, WantedSetAside, SoundSetAside DEF SendInv
<1> QED
  BY <1>2, <1>3, <1>4 DEF PollSend, SelectSend

LEMMA SendInvCalls ==
  ASSUME SendInv, NEW i \in Ids, PollCall(i) \/ SelectCall(i)
  PROVE  NothingSetAsideIsWanted' /\ SendsInOnePlace' /\ SendsInOrder'
<1>1. pc[i] \in Wanting
  BY DEF PollCall, SelectCall, Wanting
<1>2. UNCHANGED <<handled, sendCh, buffered, accepted>>
  BY DEF PollCall, SelectCall, AcceptCall, RejectCall, history
<1>3. CASE \E n, m, c : Fire(i, n, m, c)
  BY <1>2, <1>3, WantedFire, SoundStutter DEF SendInv
<1>4. CASE \E l : Goto(i, l)
  <2>1. PICK l : Goto(i, l)
    BY <1>4
  <2>2. Buffered(i) = {}
    BY <1>1 DEF SendInv, NothingSetAsideIsWanted, Wanting
  <2>3. Buffered(i)' = {}
    BY <1>2, <2>1, <2>2 DEF Goto, Buffered, Cases, CasesOf
  <2> QED
    BY <1>2, <2>1, <2>3, WantedStep, SoundStutter DEF SendInv
<1> QED
  BY <1>3, <1>4 DEF PollCall, SelectCall, AcceptCall, RejectCall

LEMMA SendInvClient ==
  ASSUME SendInv, NEW c \in Clients, Resume(c) \/ Invoke(c)
  PROVE  NothingSetAsideIsWanted' /\ SendsInOnePlace' /\ SendsInOrder'
<1> USE DEF instVars, chanVars, history
<1>1. CASE ClientSend(c)
  <2>1. cop[c] \in Op /\ cop[c].arg \in Messages
    BY <1>1 DEF ClientSend, SendInv, TypeInv, WellFormed
  <2>2. cop[c].id \in Ids /\ cop[c].key \in Keys
    BY <2>1 DEF Op
  <2>3. SendsInOnePlace' /\ SendsInOrder'
    BY <1>1, <2>1, <2>2, SoundEnqueue DEF ClientSend
  <2> QED
    BY <1>1, <2>3, WantedFrame DEF ClientSend, SendInv
<1>2. CASE ClientCallReturn(c) \/ ClientGetReturn(c)
  BY <1>2, WantedFrame, SoundStutter DEF ClientCallReturn, ClientGetReturn, SendInv
<1>3. CASE Invoke(c)
  <2>1. PICK o : ClientGo(c, o) \/ ClientNotFound(c, o) \/ ClientBlock(c, o) \/ ClientQuery(c, o)
    BY <1>3 DEF Invoke
  <2>2. UNCHANGED <<handled, sendCh, buffered, accepted, out>>
    BY <2>1 DEF ClientGo, ClientNotFound, ClientBlock, ClientQuery
  <2>3. \A i \in Ids : pc'[i] = pc[i] \/ pc'[i] = "run"
    BY <2>1 DEF ClientGo, ClientNotFound, ClientBlock, ClientQuery, StartInstance,
                SendInv, TypeInv, TypeOK
  <2> QED
    BY <2>2, <2>3, WantedFrame, SoundStutter DEF SendInv, Wanting
<1> QED
  BY <1>1, <1>2, <1>3 DEF Resume

-----------------------------------------------------------------------------
LEMMA SendInvInit == Init => SendInv
<1> SUFFICES ASSUME Init PROVE SendInv
  OBVIOUS
<1>1. NothingSetAsideIsWanted
  BY DEF Init, NothingSetAsideIsWanted
<1>2. Tags(<<>>) = {}
  BY DEF Tags
<1>3. 1..0 = {}
  OBVIOUS
<1>4. SendsInOnePlace
  BY <1>2, <1>3 DEF Init, SendsInOnePlace, Distinct, Disjoint
<1>5. SendsInOrder
  BY DEF Init, SendsInOrder, Increasing, Precedes
<1> QED
  BY <1>1, <1>4, <1>5, TypeInvInit DEF SendInv

LEMMA SendInvNext == SendInv /\ [Next]_vars => SendInv'
<1> SUFFICES ASSUME SendInv, [Next]_vars PROVE SendInv'
  OBVIOUS
<1>1. TypeInv'
  BY TypeInvNext DEF SendInv
<1>2. CASE Tick \/ UNCHANGED vars
  <2>1. UNCHANGED <<pc, out, handled, sendCh, buffered, accepted>>
    BY <1>2 DEF Tick, vars, instVars, chanVars, history
  <2> QED
    BY <1>1, <2>1, WantedFrame, SoundStutter DEF SendInv
<1>3. CASE \E i \in Ids : Instance(i)
  BY <1>1, <1>3, SendInvRun, SendInvDeliverSend, SendInvTimers, SendInvTakeBuffered,
     SendInvReceive, SendInvCalls
  DEF SendInv, Instance
<1>4. CASE \E c \in Clients : Resume(c) \/ Invoke(c)
  BY <1>1, <1>4, SendInvClient DEF SendInv
<1> QED
  BY <1>2, <1>3, <1>4 DEF Next

LEMMA SendInvAlways == Spec => []SendInv
BY SendInvInit, SendInvNext, PTL DEF Spec

\* No lost wake-up: past the check of buffered sends, no instance has a send
\* set aside that one of its cases wants.
THEOREM NoWantedSendSetAside == Spec => []NothingSetAsideIsWanted
<1>1. SendInv => NothingSetAsideIsWanted
  BY DEF SendInv
<1> QED
  BY <1>1, SendInvAlways, PTL

\* Every send that sendCh accepted is in the channel, set aside under its own
\* key, or handled; it is in one of these places only, and there only once.
THEOREM SendsKept == Spec => []SendsInOnePlace
<1>1. SendInv => SendsInOnePlace
  BY DEF SendInv
<1> QED
  BY <1>1, SendInvAlways, PTL

\* Sends of one key are handled in the order in which sendCh accepted them,
\* although an instance handles sends it had set aside and sends straight from
\* the channel: what it takes from the channel is wanted, hence nothing of its
\* key is set aside.
THEOREM SendsOrdered == Spec => []SendsInOrder
<1>1. SendInv => SendsInOrder
  BY DEF SendInv
<1> QED
  BY <1>1, SendInvAlways, PTL

-----------------------------------------------------------------------------
(* Selecting the sends of a key.                                           *)

\* Induction over a set: the theorems of the library take a predicate.
LEMMA InductiveSet ==
  ASSUME NEW S, 0 \in S, \A n \in Nat : n \in S => n + 1 \in S
  PROVE  Nat \subseteq S
<1> DEFINE T == Nat \ S
<1>1. SUFFICES ASSUME T # {} PROVE FALSE
  OBVIOUS
<1>2. First(T) \in T /\ \A n \in T : First(T) <= n
  BY <1>1, FirstIsLeast
<1>3. First(T) \in Nat \ {0}
  BY <1>2
<1>4. First(T) - 1 \in Nat /\ First(T) - 1 \notin T
  BY <1>2, <1>3
<1>5. (First(T) - 1) + 1 \in S
  BY <1>4
<1>6. (First(T) - 1) + 1 = First(T)
  BY <1>3
<1> QED
  BY <1>2, <1>5, <1>6

\* f[n] is what OfKey keeps of the first n sends of s, for n up to m.
Keeps(s, k, m, f) ==
  f = [n \in 0..m |-> IF n = 0 THEN <<>>
                      ELSE IF s[n].key = k THEN Append(f[n - 1], s[n]) ELSE f[n - 1]]

\* The same, one send at a time.
Grows(s, k, m, f) ==
  /\ f[0] = <<>>
  /\ \A n \in 1..m : f[n] = IF s[n].key = k THEN Append(f[n - 1], s[n]) ELSE f[n - 1]

LEMMA KeepsStep ==
  ASSUME NEW s, NEW k, NEW m \in Nat, NEW f, Keeps(s, k, m, f)
  PROVE  Grows(s, k, m, f)
<1> DEFINE g == [n \in 0..m |-> IF n = 0 THEN <<>>
                      ELSE IF s[n].key = k THEN Append(f[n - 1], s[n]) ELSE f[n - 1]]
<1>1. f = g
  BY DEF Keeps
<1>2. g[0] = <<>>
  OBVIOUS
<1>3. \A n \in 1..m : g[n] = IF s[n].key = k THEN Append(f[n - 1], s[n]) ELSE f[n - 1]
  OBVIOUS
<1> HIDE DEF g
<1> QED
  BY <1>1, <1>2, <1>3 DEF Grows

LEMMA KeepsExists ==
  ASSUME NEW s, NEW k
  PROVE  \A m \in Nat : \E f : Keeps(s, k, m, f)
<1> DEFINE S == {m \in Nat : \E f : Keeps(s, k, m, f)}
<1>1. 0 \in S
  <2> DEFINE f == [n \in 0..0 |-> <<>>]
  <2>1. Keeps(s, k, 0, f)
    BY DEF Keeps
  <2> QED
    BY <2>1
<1>2. ASSUME NEW m \in Nat, m \in S
      PROVE  m + 1 \in S
  <2>1. PICK f : Keeps(s, k, m, f)
    BY <1>2
  <2>5. Grows(s, k, m, f)
    BY <2>1, KeepsStep
  <2> DEFINE last == IF s[m + 1].key = k THEN Append(f[m], s[m + 1]) ELSE f[m]
             g == [n \in 0..(m + 1) |-> IF n = m + 1 THEN last ELSE f[n]]
             h == [n \in 0..(m + 1) |-> IF n = 0 THEN <<>>
                      ELSE IF s[n].key = k THEN Append(g[n - 1], s[n]) ELSE g[n - 1]]
  <2>2. ASSUME NEW n \in 0..(m + 1)
        PROVE  g[n] = h[n]
    <3>1. CASE n = 0
      BY <2>5, <3>1 DEF Grows
    <3>2. CASE n # 0
      <4>1. n - 1 \in 0..m /\ n - 1 # m + 1 /\ n - 1 \in 0..(m + 1) /\ (n - 1) + 1 = n
        BY <3>2
      <4>2. g[n - 1] = f[n - 1]
        BY <4>1
      <4>3. CASE n = m + 1
        <5>1. g[n] = last /\ n - 1 = m
          BY <4>3
        <5>2. h[n] = IF s[n].key = k THEN Append(g[n - 1], s[n]) ELSE g[n - 1]
          BY <3>2
        <5> HIDE DEF g, h
        <5> QED
          BY <4>2, <4>3, <5>1, <5>2
      <4>4. CASE n # m + 1
        <5>1. n \in 1..m
          BY <3>2, <4>4
        <5>2. f[n] = IF s[n].key = k THEN Append(f[n - 1], s[n]) ELSE f[n - 1]
          BY <2>5, <5>1 DEF Grows
        <5> QED
          BY <3>2, <4>2, <4>4, <5>2
      <4> QED
        BY <4>3, <4>4
    <3> QED
      BY <3>1, <3>2
  <2>3. g = h
    <3>1. g = [n \in 0..(m + 1) |-> g[n]] /\ h = [n \in 0..(m + 1) |-> h[n]]
      OBVIOUS
    <3> HIDE DEF g, h
    <3>2. [n \in 0..(m + 1) |-> g[n]] = [n \in 0..(m + 1) |-> h[n]]
      BY <2>2
    <3> QED
      BY <3>1, <3>2
  <2> HIDE DEF g
  <2>4. Keeps(s, k, m + 1, g)
    BY <2>3 DEF Keeps
  <2> QED
    BY <2>4
<1> HIDE DEF S
<1>3. Nat \subseteq S
  BY <1>1, <1>2, InductiveSet
<1> QED
  BY <1>3 DEF S

\* What a prefix keeps depends on that prefix only.
Agree(f, g, m) == \A n \in 0..m : f[n] = g[n]

LEMMA KeepsAgree ==
  ASSUME NEW s, NEW t, NEW k, NEW m \in Nat, NEW l \in Nat, NEW f, NEW g,
         Keeps(s, k, m, f), Keeps(t, k, l, g), m <= l, \A n \in 1..m : s[n] = t[n]
  PROVE  Agree(f, g, m)
<1> DEFINE S == {n \in Nat : n \in 0..m => f[n] = g[n]}
<1>4. Grows(s, k, m, f) /\ Grows(t, k, l, g)
  BY KeepsStep
<1>1. 0 \in S
  BY <1>4 DEF Grows
<1>2. ASSUME NEW n \in Nat, n \in S
      PROVE  n + 1 \in S
  <2> SUFFICES ASSUME n + 1 \in 0..m PROVE f[n + 1] = g[n + 1]
    OBVIOUS
  <2>1. n \in 0..m /\ n + 1 \in 1..l /\ n + 1 \in 1..m /\ (n + 1) - 1 = n
    OBVIOUS
  <2>2. f[n] = g[n] /\ s[n + 1] = t[n + 1]
    BY <1>2, <2>1
  <2>3. f[n + 1] = IF s[n + 1].key = k THEN Append(f[n], s[n + 1]) ELSE f[n]
    BY <1>4, <2>1 DEF Grows
  <2>4. g[n + 1] = IF t[n + 1].key = k THEN Append(g[n], t[n + 1]) ELSE g[n]
    BY <1>4, <2>1 DEF Grows
  <2> QED
    BY <2>2, <2>3, <2>4
<1> HIDE DEF S
<1>3. Nat \subseteq S
  BY <1>1, <1>2, InductiveSet
<1> QED
  BY <1>3 DEF S, Agree

LEMMA OfKeyKeeps ==
  ASSUME NEW s \in Seq(Envelope), NEW k
  PROVE  \E f : Keeps(s, k, Len(s), f) /\ OfKey(s, k) = f[Len(s)]
<1> DEFINE c == CHOOSE f : Keeps(s, k, Len(s), f)
<1>1. \E f : Keeps(s, k, Len(s), f)
  BY KeepsExists, LenProperties
<1>2. Keeps(s, k, Len(s), c)
  BY <1>1
<1>3. OfKey(s, k) = c[Len(s)]
  BY DEF Keeps, OfKey
<1> QED
  BY <1>2, <1>3

LEMMA ConcatAppend ==
  ASSUME NEW s \in Seq(Envelope), NEW t \in Seq(Envelope), NEW e \in Envelope
  PROVE  s \o Append(t, e) = Append(s \o t, e)
<1>1. Append(t, e) = t \o <<e>> /\ Append(s \o t, e) = (s \o t) \o <<e>> /\ <<e>> \in Seq(Envelope)
  BY AppendIsConcat, ConcatProperties
<1> QED
  BY <1>1, ConcatAssociative

LEMMA AppendConcat ==
  ASSUME NEW s \in Seq(Envelope), NEW t \in Seq(Envelope), NEW e \in Envelope
  PROVE  Append(s, e) \o t = s \o (<<e>> \o t)
<1>1. Append(s, e) = s \o <<e>> /\ <<e>> \in Seq(Envelope)
  BY AppendIsConcat
<1> QED
  BY <1>1, ConcatAssociative

LEMMA KeepsType ==
  ASSUME NEW s \in Seq(Envelope), NEW k, NEW f, Keeps(s, k, Len(s), f)
  PROVE  \A n \in 0..Len(s) : f[n] \in Seq(Envelope)
<1> DEFINE S == {n \in Nat : n \in 0..Len(s) => f[n] \in Seq(Envelope)}
<1>1. Len(s) \in Nat /\ \A n \in 1..Len(s) : s[n] \in Envelope
  BY LenProperties, ElementOfSeq
<1>2. Grows(s, k, Len(s), f)
  BY <1>1, KeepsStep
<1>3. 0 \in S
  <2>1. f[0] = <<>>
    BY <1>2 DEF Grows
  <2>2. <<>> \in Seq(Envelope)
    BY EmptySeq
  <2> QED
    BY <2>1, <2>2
<1>4. ASSUME NEW n \in Nat, n \in S
      PROVE  n + 1 \in S
  <2> SUFFICES ASSUME n + 1 \in 0..Len(s) PROVE f[n + 1] \in Seq(Envelope)
    OBVIOUS
  <2>1. n + 1 \in 1..Len(s) /\ (n + 1) - 1 = n /\ f[n] \in Seq(Envelope)
    BY <1>1, <1>4
  <2>2. f[n + 1] = IF s[n + 1].key = k THEN Append(f[n], s[n + 1]) ELSE f[n]
    BY <1>2, <2>1 DEF Grows
  <2>3. Append(f[n], s[n + 1]) \in Seq(Envelope)
    BY <1>1, <2>1, AppendProperties
  <2> QED
    BY <2>1, <2>2, <2>3
<1> HIDE DEF S
<1>5. Nat \subseteq S
  BY <1>3, <1>4, InductiveSet
<1> QED
  BY <1>1, <1>5 DEF S

LEMMA OfKeyType ==
  ASSUME NEW s \in Seq(Envelope), NEW k
  PROVE  OfKey(s, k) \in Seq(Envelope)
<1>1. PICK f : Keeps(s, k, Len(s), f) /\ OfKey(s, k) = f[Len(s)]
  BY OfKeyKeeps
<1>2. Len(s) \in 0..Len(s)
  BY LenProperties
<1> QED
  BY <1>1, <1>2, KeepsType

LEMMA OfKeyEmpty ==
  ASSUME NEW k
  PROVE  OfKey(<<>>, k) = <<>>
<1>1. <<>> \in Seq(Envelope) /\ Len(<<>>) = 0
  BY EmptySeq
<1>2. PICK f : Keeps(<<>>, k, 0, f) /\ OfKey(<<>>, k) = f[0]
  BY <1>1, OfKeyKeeps
<1>3. Grows(<<>>, k, 0, f)
  BY <1>2, KeepsStep
<1> QED
  BY <1>2, <1>3 DEF Grows

LEMMA OfKeyAppend ==
  ASSUME NEW s \in Seq(Envelope), NEW e \in Envelope, NEW k
  PROVE  OfKey(Append(s, e), k) = IF e.key = k THEN Append(OfKey(s, k), e) ELSE OfKey(s, k)
<1> DEFINE t == Append(s, e)
           m == Len(s)
<1>1. /\ t \in Seq(Envelope) /\ Len(t) = m + 1 /\ m \in Nat
      /\ (\A n \in 1..m : s[n] = t[n]) /\ t[m + 1] = e
  BY AppendProperties, LenProperties
<1> HIDE DEF t, m
<1>2. PICK f : Keeps(s, k, m, f) /\ OfKey(s, k) = f[m]
  BY OfKeyKeeps DEF m
<1>3. PICK g : Keeps(t, k, m + 1, g) /\ OfKey(t, k) = g[m + 1]
  BY <1>1, OfKeyKeeps
<1>4. f[m] = g[m]
  <2>1. m + 1 \in Nat /\ m <= m + 1 /\ m \in 0..m
    BY <1>1
  <2>2. Agree(f, g, m)
    BY <1>1, <1>2, <1>3, <2>1, KeepsAgree
  <2> QED
    BY <2>1, <2>2 DEF Agree
<1>5. g[m + 1] = IF t[m + 1].key = k THEN Append(g[m], t[m + 1]) ELSE g[m]
  <2>1. Grows(t, k, m + 1, g)
    BY <1>1, <1>3, KeepsStep
  <2>2. m + 1 \in 1..(m + 1) /\ (m + 1) - 1 = m
    BY <1>1
  <2> QED
    BY <2>1, <2>2 DEF Grows
<1> QED
  BY <1>1, <1>2, <1>3, <1>4, <1>5 DEF t

\* The first send of s, if it has key k.
Front(s, k) == IF Head(s).key = k THEN <<Head(s)>> ELSE <<>>

LEMMA OfKeyTail ==
  ASSUME NEW s \in Seq(Envelope), s # <<>>, NEW k
  PROVE  OfKey(s, k) = Front(s, k) \o OfKey(Tail(s), k)
<1> DEFINE t == Tail(s)
           m == Len(s) - 1
           p == Front(s, k)
<1>1. /\ t \in Seq(Envelope) /\ Len(t) = m /\ m \in Nat /\ Len(s) = m + 1
      /\ \A n \in 1..m : t[n] = s[n + 1]
      /\ \A n \in 1..m : t[n] \in Envelope
      /\ Head(s) = s[1] /\ Head(s) \in Envelope
  BY HeadTailProperties, EmptySeq, LenProperties, ElementOfSeq
<1>2. p \in Seq(Envelope)
  BY <1>1 DEF Front
<1> HIDE DEF t, m
<1>3. PICK f : Keeps(s, k, m + 1, f) /\ OfKey(s, k) = f[m + 1]
  BY <1>1, OfKeyKeeps
<1>4. PICK g : Keeps(t, k, m, g) /\ OfKey(t, k) = g[m]
  BY <1>1, OfKeyKeeps
<1>5. Grows(s, k, m + 1, f) /\ Grows(t, k, m, g)
  BY <1>1, <1>3, <1>4, KeepsStep
<1>6. \A n \in 0..m : g[n] \in Seq(Envelope)
  BY <1>1, <1>4, KeepsType
<1> DEFINE S == {n \in Nat : n \in 0..m => f[n + 1] = p \o g[n]}
<1>7. 0 \in S
  <2>1. f[0] = <<>> /\ g[0] = <<>>
    BY <1>5 DEF Grows
  <2>2. f[1] = IF s[1].key = k THEN Append(<<>>, s[1]) ELSE <<>>
    <3>1. 1 \in 1..(m + 1) /\ 1 - 1 = 0
      BY <1>1
    <3>2. f[1] = IF s[1].key = k THEN Append(f[0], s[1]) ELSE f[0]
      BY <1>5, <3>1 DEF Grows
    <3> QED
      BY <2>1, <3>2
  <2>3. f[1] = p
    BY <1>1, <2>2 DEF Front
  <2>4. p \o <<>> = p
    BY <1>2, ConcatEmptySeq
  <2> HIDE DEF p
  <2>5. f[0 + 1] = p \o g[0]
    BY <2>1, <2>3, <2>4
  <2> QED
    BY <2>5
<1> HIDE DEF p
<1>8. ASSUME NEW n \in Nat, n \in S
      PROVE  n + 1 \in S
  <2> SUFFICES ASSUME n + 1 \in 0..m PROVE f[(n + 1) + 1] = p \o g[n + 1]
    OBVIOUS
  <2> DEFINE e == t[n + 1]
  <2>1. /\ n \in 0..m /\ n + 1 \in 1..m /\ (n + 1) - 1 = n
        /\ n + 2 \in 1..(m + 1) /\ (n + 2) - 1 = n + 1 /\ (n + 1) + 1 = n + 2
    BY <1>1
  <2>2. e \in Envelope /\ s[n + 2] = e
    BY <1>1, <2>1
  <2>3. f[n + 1] = p \o g[n] /\ g[n] \in Seq(Envelope)
    BY <1>6, <1>8, <2>1
  <2>4. f[n + 2] = IF s[n + 2].key = k THEN Append(f[n + 1], s[n + 2]) ELSE f[n + 1]
    BY <1>5, <2>1 DEF Grows
  <2>5. g[n + 1] = IF e.key = k THEN Append(g[n], e) ELSE g[n]
    BY <1>5, <2>1 DEF Grows
  <2>6. p \o Append(g[n], e) = Append(p \o g[n], e)
    BY <1>2, <2>2, <2>3, ConcatAppend
  <2> HIDE DEF e
  <2> QED
    BY <2>1, <2>2, <2>3, <2>4, <2>5, <2>6
<1> HIDE DEF S
<1>9. Nat \subseteq S
  BY <1>7, <1>8, InductiveSet
<1>10. f[m + 1] = p \o g[m]
  <2>1. m \in S /\ m \in 0..m
    BY <1>1, <1>9
  <2> QED
    BY <2>1 DEF S
<1> QED
  BY <1>3, <1>4, <1>10 DEF t, p

-----------------------------------------------------------------------------
(* The queue of a key: what is set aside, then what is in the channel.     *)

Line(b, s, k) == b[k] \o OfKey(s, k)

\* From b and s to d and t, the queue of key k becomes q and no other changes.
Moves(b, s, d, t, k, q) ==
  Line(d, t, k) = q /\ \A l \in Keys : l # k => Line(d, t, l) = Line(b, s, l)

LEMMA LineType ==
  ASSUME NEW b \in [Keys -> Seq(Envelope)], NEW s \in Seq(Envelope), NEW k \in Keys
  PROVE  Line(b, s, k) \in Seq(Envelope)
BY OfKeyType, ConcatProperties DEF Line

\* A send that the channel accepts joins the end of its queue.
LEMMA LineEnqueue ==
  ASSUME NEW b \in [Keys -> Seq(Envelope)], NEW s \in Seq(Envelope), NEW e \in Envelope,
         NEW t, t = Append(s, e), e.key \in Keys
  PROVE  Moves(b, s, b, t, e.key, Append(Line(b, s, e.key), e))
<1>1. \A k \in Keys : OfKey(t, k) = IF e.key = k THEN Append(OfKey(s, k), e) ELSE OfKey(s, k)
  BY OfKeyAppend
<1>2. \A k \in Keys : b[k] \o Append(OfKey(s, k), e) = Append(b[k] \o OfKey(s, k), e)
  BY OfKeyType, ConcatAppend
<1> QED
  BY <1>1, <1>2 DEF Line, Moves

LEMMA ConcatHeadTail ==
  ASSUME NEW s \in Seq(Envelope), NEW t \in Seq(Envelope), s # <<>>
  PROVE  s \o t # <<>> /\ Head(s \o t) = Head(s) /\ Tail(s \o t) = Tail(s) \o t
<1>1. /\ Head(s) \in Envelope /\ Tail(s) \in Seq(Envelope)
      /\ s = <<Head(s)>> \o Tail(s) /\ <<Head(s)>> \in Seq(Envelope)
  BY HeadTailProperties
<1>2. s \o t = <<Head(s)>> \o (Tail(s) \o t) /\ Tail(s) \o t \in Seq(Envelope)
  BY <1>1, ConcatAssociative, ConcatProperties
<1>3. ASSUME NEW x \in Envelope, NEW u \in Seq(Envelope)
      PROVE  <<x>> \o u # <<>> /\ Head(<<x>> \o u) = x /\ Tail(<<x>> \o u) = u
  <2>1. <<x>> \in Seq(Envelope)
    OBVIOUS
  <2>2. <<x>> \o u # <<>>
    BY <2>1, ConcatEqualIffEmpty
  <2> QED
    BY <2>1, <2>2, HeadTailProperties, ConcatProperties, SeqEqual
<1> QED
  BY <1>1, <1>2, <1>3

\* A send taken from those set aside is the first of its queue.
LEMMA LineTakeBuffered ==
  ASSUME NEW b \in [Keys -> Seq(Envelope)], NEW s \in Seq(Envelope), NEW k \in Keys, b[k] # <<>>,
         NEW d, d = [b EXCEPT ![k] = Tail(@)]
  PROVE  /\ Line(b, s, k) # <<>> /\ Head(Line(b, s, k)) = Head(b[k])
         /\ Moves(b, s, d, s, k, Tail(Line(b, s, k)))
<1>1. OfKey(s, k) \in Seq(Envelope)
  BY OfKeyType
<1>2. d[k] = Tail(b[k]) /\ \A l \in Keys : l # k => d[l] = b[l]
  OBVIOUS
<1>3. /\ Line(b, s, k) # <<>> /\ Head(Line(b, s, k)) = Head(b[k])
      /\ Line(d, s, k) = Tail(Line(b, s, k))
  BY <1>1, <1>2, ConcatHeadTail DEF Line
<1> QED
  BY <1>2, <1>3 DEF Line, Moves

\* So is one taken from the channel while none of its key is set aside.
LEMMA LineAcceptSend ==
  ASSUME NEW b \in [Keys -> Seq(Envelope)], NEW s \in Seq(Envelope), s # <<>>,
         Head(s).key \in Keys, b[Head(s).key] = <<>>
  PROVE  LET k == Head(s).key
         IN  /\ Line(b, s, k) # <<>> /\ Head(Line(b, s, k)) = Head(s)
             /\ Moves(b, s, b, Tail(s), k, Tail(Line(b, s, k)))
<1> DEFINE k == Head(s).key
<1>1. Head(s) \in Envelope /\ Tail(s) \in Seq(Envelope)
  BY HeadTailProperties
<1>2. \A l \in Keys : OfKey(Tail(s), l) \in Seq(Envelope) /\ OfKey(s, l) \in Seq(Envelope)
  BY <1>1, OfKeyType
<1>3. Line(b, s, k) = <<Head(s)>> \o OfKey(Tail(s), k) /\ Line(b, Tail(s), k) = OfKey(Tail(s), k)
  <2>1. OfKey(s, k) = <<Head(s)>> \o OfKey(Tail(s), k)
    BY OfKeyTail DEF Front
  <2>2. <<>> \o OfKey(s, k) = OfKey(s, k) /\ <<>> \o OfKey(Tail(s), k) = OfKey(Tail(s), k)
    BY <1>2, ConcatEmptySeq
  <2> QED
    BY <2>1, <2>2 DEF Line
<1> DEFINE one == <<Head(s)>>
           rest == OfKey(Tail(s), k)
<1>4. one \in Seq(Envelope) /\ one # <<>> /\ Head(one) = Head(s) /\ Tail(one) = <<>>
  BY <1>1
<1>5. rest \in Seq(Envelope) /\ <<>> \o rest = rest
  BY <1>2, ConcatEmptySeq
<1>8. Line(b, s, k) = one \o rest /\ Line(b, Tail(s), k) = rest
  BY <1>3
<1> HIDE DEF one, rest
<1>9. one \o rest # <<>> /\ Head(one \o rest) = Head(one) /\ Tail(one \o rest) = Tail(one) \o rest
  BY <1>4, <1>5, ConcatHeadTail
<1>6. /\ Line(b, s, k) # <<>> /\ Head(Line(b, s, k)) = Head(s)
      /\ Line(b, Tail(s), k) = Tail(Line(b, s, k))
  BY <1>4, <1>5, <1>8, <1>9
<1>7. ASSUME NEW l \in Keys, l # k
      PROVE  Line(b, Tail(s), l) = Line(b, s, l)
  <2>1. OfKey(s, l) = <<>> \o OfKey(Tail(s), l)
    BY <1>7, OfKeyTail DEF Front
  <2> QED
    BY <1>2, <2>1, ConcatEmptySeq DEF Line
<1> QED
  BY <1>6, <1>7 DEF Moves

\* A send that is set aside keeps its place in its queue.
LEMMA LineSetAside ==
  ASSUME NEW b \in [Keys -> Seq(Envelope)], NEW s \in Seq(Envelope), s # <<>>,
         NEW e, e = Head(s), e.key \in Keys, NEW l \in Keys,
         NEW d, d[l] = IF e.key = l THEN Append(b[l], e) ELSE b[l]
  PROVE  Line(d, Tail(s), l) = Line(b, s, l)
<1>1. e \in Envelope /\ Tail(s) \in Seq(Envelope) /\ <<e>> \in Seq(Envelope)
  BY HeadTailProperties
<1>2. OfKey(Tail(s), l) \in Seq(Envelope)
  BY <1>1, OfKeyType
<1>3. OfKey(s, l) = (IF e.key = l THEN <<e>> ELSE <<>>) \o OfKey(Tail(s), l)
  BY OfKeyTail DEF Front
<1>5. Append(b[l], e) \o OfKey(Tail(s), l) = b[l] \o (<<e>> \o OfKey(Tail(s), l))
  BY <1>1, <1>2, AppendConcat
<1>6. <<>> \o OfKey(Tail(s), l) = OfKey(Tail(s), l)
  BY <1>2, ConcatEmptySeq
<1> QED
  BY <1>3, <1>5, <1>6 DEF Line

-----------------------------------------------------------------------------
(* The mapping.                                                            *)

QueueIs(b, s) == [i \in Ids |-> [k \in Keys |-> Line(b[i], s[i], k)]]

LEMMA QueueMeans ==
  Queue = QueueIs(buffered, sendCh) /\ Queue' = QueueIs(buffered', sendCh')
BY DEF Queue, QueueIs, Line

LEMMA QueueKept == UNCHANGED <<buffered, sendCh>> => UNCHANGED Queue
BY QueueMeans

\* A step in which the queue of key k of routine i becomes q.
LEMMA QueueStep ==
  ASSUME NEW i \in Ids, NEW k \in Keys, NEW q,
         \A j \in Ids : j # i => buffered'[j] = buffered[j] /\ sendCh'[j] = sendCh[j],
         Moves(buffered[i], sendCh[i], buffered'[i], sendCh'[i], k, q)
  PROVE  Queue' = [Queue EXCEPT ![i][k] = q]
<1> DEFINE new == QueueIs(buffered', sendCh')
           old == QueueIs(buffered, sendCh)
<1>1. new = [j \in Ids |-> [l \in Keys |-> new[j][l]]] /\ DOMAIN old = Ids /\ DOMAIN old[i] = Keys
  BY DEF QueueIs
<1>2. \A j \in Ids, l \in Keys :
        /\ new[j][l] = Line(buffered'[j], sendCh'[j], l)
        /\ old[j] = [m \in Keys |-> old[j][m]]
        /\ old[j][l] = Line(buffered[j], sendCh[j], l)
  BY DEF QueueIs
<1> HIDE DEF new, old
<1>3. ASSUME NEW j \in Ids, NEW l \in Keys
      PROVE  new[j][l] = IF j = i /\ l = k THEN q ELSE old[j][l]
  <2>1. new[j][l] = Line(buffered'[j], sendCh'[j], l) /\ old[j][l] = Line(buffered[j], sendCh[j], l)
    BY <1>2
  <2>2. CASE j # i
    <3>1. buffered'[j] = buffered[j] /\ sendCh'[j] = sendCh[j]
      BY <2>2
    <3> QED
      BY <2>1, <2>2, <3>1
  <2>3. CASE j = i /\ l # k
    <3>1. Line(buffered'[i], sendCh'[i], l) = Line(buffered[i], sendCh[i], l)
      BY <2>3 DEF Moves
    <3> QED
      BY <2>1, <2>3, <3>1
  <2>4. CASE j = i /\ l = k
    BY <2>1, <2>4 DEF Moves
  <2> QED
    BY <2>2, <2>3, <2>4
<1>4. new = [old EXCEPT ![i][k] = q]
  <2>1. [old EXCEPT ![i][k] = q] = [j \in Ids |-> IF j = i THEN [old[i] EXCEPT ![k] = q] ELSE old[j]]
    BY <1>1
  <2>2. [old[i] EXCEPT ![k] = q] = [l \in Keys |-> IF l = k THEN q ELSE old[i][l]]
    BY <1>1
  <2>3. ASSUME NEW j \in Ids
        PROVE  [l \in Keys |-> new[j][l]] = IF j = i THEN [old[i] EXCEPT ![k] = q] ELSE old[j]
    <3>1. CASE j = i
      BY <1>3, <2>2, <3>1
    <3>2. CASE j # i
      <4>1. \A l \in Keys : new[j][l] = old[j][l]
        BY <1>3, <3>2
      <4> QED
        BY <1>2, <3>2, <4>1
    <3> QED
      BY <3>1, <3>2
  <2> QED
    BY <1>1, <2>1, <2>3
<1> QED
  BY <1>4, QueueMeans DEF new, old

\* The routine that owes client c an answer, by r, a value of replyTo.
ServerOf(r, c) == IF \E i \in Ids : r[i] = c THEN CHOOSE i \in Ids : r[i] = c ELSE Nil

OneServer(r, c) == \A i, j \in Ids : r[i] = c /\ r[j] = c => i = j

LEMMA ServerMeans ==
  /\ Server = [c \in Clients |-> ServerOf(replyTo, c)]
  /\ Server' = [c \in Clients |-> ServerOf(replyTo', c)]
BY DEF Server, ServerOf

LEMMA ServerIs ==
  ASSUME NEW r, NEW c, OneServer(r, c)
  PROVE  /\ \A i \in Ids : ServerOf(r, c) = i <=> r[i] = c
         /\ ServerOf(r, c) = Nil <=> \A i \in Ids : r[i] # c
BY DurableAssumption DEF ServerOf, OneServer

LEMMA ServerSame ==
  ASSUME NEW r, NEW s, NEW c, \A i \in Ids : r[i] = c <=> s[i] = c
  PROVE  ServerOf(r, c) = ServerOf(s, c)
<1>1. (\E i \in Ids : r[i] = c) <=> (\E i \in Ids : s[i] = c)
  OBVIOUS
<1>2. (CHOOSE i \in Ids : r[i] = c) = (CHOOSE i \in Ids : s[i] = c)
  OBVIOUS
<1> QED
  BY <1>1, <1>2 DEF ServerOf

LEMMA OneServerAlways ==
  ASSUME CallInv, NEW c \in Clients
  PROVE  OneServer(replyTo, c)
<1> DEFINE owing == {i \in Ids : replyTo[i] = c}
<1>1. owing = {} \/ \E i \in Ids : owing = {i}
  BY DEF CallInv, CallOwnership
<1> QED
  BY <1>1 DEF OneServer

\* A routine that owes no answer serves nobody.
LEMMA ServesNobody ==
  ASSUME CallInv, NEW i \in Ids, replyTo[i] = NoClient
  PROVE  \A c \in Clients : Server[c] # i
<1>1. \A c \in Clients : replyTo[i] # c
  BY RuntimeAssumption
<1> QED
  BY <1>1, ServerMeans, ServerIs, OneServerAlways

\* A client that awaits nothing is idle for the contract.
LEMMA CallerIdle ==
  ASSUME CallInv, NEW c \in Clients, cpc[c] # "awaiting"
  PROVE  Contract!Idle(c) /\ resp[c] = <<>> /\ \A i \in Ids : replyTo[i] # c
<1>1. resp[c] = <<>> /\ {i \in Ids : replyTo[i] = c} = {}
  BY DEF CallInv, CallOwnership
<1>2. \A i \in Ids : replyTo[i] # c
  BY <1>1
<1>3. Server[c] = Nil
  BY <1>2, ServerMeans, ServerIs, OneServerAlways
<1>4. Answers[c] = 0
  BY <1>1, EmptySeq DEF Answers
<1> QED
  BY <1>1, <1>2, <1>3, <1>4 DEF Contract!Idle

\* Instances that are started or done stay so, and no other is.
SameStatus ==
  \A j \in Ids : (pc'[j] = "absent" <=> pc[j] = "absent") /\ (pc'[j] = "done" <=> pc[j] = "done")

LEMMA StatusKept == SameStatus => UNCHANGED RunStatus
BY DEF SameStatus, RunStatus

LEMMA StatusMoves ==
  ASSUME NEW i \in Ids, \A j \in Ids : j # i => pc'[j] = pc[j]
  PROVE  /\ pc'[i] = "run"  => RunStatus' = [RunStatus EXCEPT ![i] = "running"]
         /\ pc'[i] = "done" => RunStatus' = [RunStatus EXCEPT ![i] = "done"]
BY DEF RunStatus

CallsKept == UNCHANGED <<replyTo, resp>>

LEMMA ServerKept == CallsKept => UNCHANGED <<Server, Answers>>
BY ServerMeans DEF CallsKept, Answers

\* The contract sees nothing of such a step.
LEMMA Stutters ==
  ASSUME SameStatus, CallsKept, UNCHANGED <<sendCh, buffered, handled>>
  PROVE  UNCHANGED Contract!vars
BY StatusKept, ServerKept, QueueKept DEF Contract!vars

-----------------------------------------------------------------------------
(* Steps that concern sends.                                               *)

LEMMA ChannelTypes ==
  ASSUME TypeInv, NEW i \in Ids
  PROVE  /\ handled[i] \in Seq(Envelope) /\ sendCh[i] \in Seq(Envelope)
         /\ buffered[i] \in [Keys -> Seq(Envelope)] /\ accepted[i] \in Nat
BY DEF TypeInv, TypeOK

\* A send that sendCh accepts joins the queue of its key.
LEMMA EnqueueRefines ==
  ASSUME TypeInv, NEW i \in Ids, Exists(i), NEW k \in Keys, NEW m \in Messages, Enqueue(i, k, m),
         SameStatus, CallsKept, buffered' = buffered, handled' = handled
  PROVE  Contract!Next
<1> DEFINE e == [key |-> k, msg |-> m, n |-> accepted[i] + 1]
           q == Line(buffered[i], sendCh[i], k)
<1>0. accepted[i] \in Nat
  BY ChannelTypes
<1>1. sendCh[i] \in Seq(Envelope) /\ buffered[i] \in [Keys -> Seq(Envelope)]
  BY ChannelTypes
<1>2. e \in Envelope /\ e.key = k
  BY <1>0 DEF Envelope
<1>3. /\ sendCh'[i] = Append(sendCh[i], e) /\ buffered'[i] = buffered[i]
      /\ \A j \in Ids : j # i => buffered'[j] = buffered[j] /\ sendCh'[j] = sendCh[j]
  BY DEF Enqueue, TypeInv, TypeOK
<1>4. Queue[i][k] = q /\ q \in Seq(Envelope) /\ DOMAIN Queue = Ids /\ DOMAIN Queue[i] = Keys
  BY <1>1, QueueMeans, LineType DEF QueueIs
<1> HIDE DEF e
<1>5. Moves(buffered[i], sendCh[i], buffered[i], sendCh'[i], k, Append(q, e))
  BY <1>1, <1>2, <1>3, LineEnqueue
<1> HIDE DEF q
<1>6. Queue' = [Queue EXCEPT ![i][k] = Append(q, e)]
  <2> DEFINE r == Append(q, e)
  <2> HIDE DEF r
  <2>1. Moves(buffered[i], sendCh[i], buffered'[i], sendCh'[i], k, r)
    BY <1>3, <1>5 DEF r
  <2>2. \A j \in Ids : j # i => buffered'[j] = buffered[j] /\ sendCh'[j] = sendCh[j]
    BY <1>3
  <2>3. Queue' = [Queue EXCEPT ![i][k] = r]
    BY <2>1, <2>2, QueueStep
  <2> QED
    BY <2>3 DEF r
<1>7. Queue'[i][k] = Append(q, e) /\ Queue'[i][k] # <<>> /\ Queue'[i][k][Len(Queue'[i][k])] = e
  <2>1. Append(q, e) # <<>> /\ Append(q, e)[Len(Append(q, e))] = e
    BY <1>2, <1>4, AppendProperties
  <2>2. Queue'[i][k] = Append(q, e)
    BY <1>4, <1>6
  <2> QED
    BY <2>1, <2>2
<1>8. RunStatus[i] # "new" /\ UNCHANGED <<RunStatus, Server, Answers>>
  BY StatusKept, ServerKept DEF Exists, RunStatus
<1>9. e \in Envelope /\ Queue' = [Queue EXCEPT ![i][k] = Append(@, e)]
  BY <1>2, <1>4, <1>6
<1>10. Contract!Post(i, k)
  BY <1>7, <1>8, <1>9 DEF Contract!Post
<1> QED
  BY <1>10 DEF Contract!Next

\* The first send of a queue goes to a handler.
LEMMA TakeRefines ==
  ASSUME TypeInv, NEW i \in Ids, pc[i] \notin {"absent", "done"}, pc' = [pc EXCEPT ![i] = "run"],
         NEW k \in Keys, Queue[i][k] # <<>>,
         handled' = [handled EXCEPT ![i] = Append(@, Head(Queue[i][k]))],
         Queue' = [Queue EXCEPT ![i][k] = Tail(Queue[i][k])],
         CallsKept
  PROVE  Contract!Next
<1>1. SameStatus /\ RunStatus[i] = "running"
  BY DEF SameStatus, RunStatus, TypeInv, TypeOK
<1>2. UNCHANGED <<RunStatus, Server, Answers>>
  BY <1>1, StatusKept, ServerKept
<1>3. Contract!Take(i, k)
  BY <1>1, <1>2 DEF Contract!Take
<1> QED
  BY <1>3 DEF Contract!Next

\* Waiting instances leave the answers to calls alone, but for a call.
LEMMA WaitKeepsCalls ==
  ASSUME CallInv, NEW i \in Ids,
         \/ ContinueAtOnce(i) \/ TakeBuffered(i) \/ TakeExpired(i) \/ PollNothing(i)
         \/ PollSend(i) \/ TakeDefault(i) \/ Block(i) \/ SelectSend(i) \/ SelectTimer(i)
  PROVE  CallsKept
BY QuietWait DEF CallInv, Quiet, CallsKept

LEMMA TakeBufferedRefines ==
  ASSUME CallInv, NEW i \in Ids, TakeBuffered(i)
  PROVE  Contract!Next
<1> DEFINE n == First(Buffered(i))
           k == Cases(i)[n].key
<1>0. TypeInv /\ CallsKept
  BY WaitKeepsCalls DEF CallInv
<1>1. n \in Buffered(i) /\ n \in DOMAIN Cases(i)
  BY <1>0, FirstCase DEF TakeBuffered, Buffered, CasesOf
<1>2. k \in Keys /\ buffered[i][k] # <<>>
  BY <1>0, <1>1, CaseKeys DEF Case, TakeBuffered, Buffered
<1>3. /\ buffered' = [buffered EXCEPT ![i][k] = Tail(@)]
      /\ handled' = [handled EXCEPT ![i] = Append(@, Head(buffered[i][k]))]
      /\ sendCh' = sendCh
      /\ pc[i] = "poll" /\ pc' = [pc EXCEPT ![i] = "run"]
  BY DEF TakeBuffered, Fire
<1> HIDE DEF n, k
<1>4. sendCh[i] \in Seq(Envelope) /\ buffered[i] \in [Keys -> Seq(Envelope)]
  BY <1>0, ChannelTypes
<1>5. /\ buffered'[i] = [buffered[i] EXCEPT ![k] = Tail(@)]
      /\ \A j \in Ids : j # i => buffered'[j] = buffered[j] /\ sendCh'[j] = sendCh[j]
      /\ sendCh'[i] = sendCh[i]
  BY <1>0, <1>3 DEF TypeInv, TypeOK
<1> DEFINE q == Line(buffered[i], sendCh[i], k)
<1>6. /\ q # <<>> /\ Head(q) = Head(buffered[i][k])
      /\ Moves(buffered[i], sendCh[i], buffered'[i], sendCh[i], k, Tail(q))
  BY <1>2, <1>4, <1>5, LineTakeBuffered
<1>7. Queue[i][k] = q
  BY <1>2, QueueMeans DEF QueueIs
<1> HIDE DEF q
<1>8. Queue' = [Queue EXCEPT ![i][k] = Tail(q)]
  <2> DEFINE r == Tail(q)
  <2> HIDE DEF r
  <2>1. Moves(buffered[i], sendCh[i], buffered'[i], sendCh'[i], k, r)
    BY <1>5, <1>6 DEF r
  <2>2. \A j \in Ids : j # i => buffered'[j] = buffered[j] /\ sendCh'[j] = sendCh[j]
    BY <1>5
  <2>3. Queue' = [Queue EXCEPT ![i][k] = r]
    BY <1>2, <2>1, <2>2, QueueStep
  <2> QED
    BY <2>3 DEF r
<1> QED
  BY <1>0, <1>2, <1>3, <1>6, <1>7, <1>8, TakeRefines

\* What comes straight from the channel is the first of its queue: it is
\* wanted, hence nothing of its key is set aside.
LEMMA AcceptSendRefines ==
  ASSUME CallInv, SendInv, NEW i \in Ids, pc[i] \in Wanting, sendCh[i] # <<>>, AcceptSend(i), CallsKept
  PROVE  Contract!Next
<1> DEFINE e == Head(sendCh[i])
           k == e.key
<1>1. TypeInv /\ sendCh[i] \in Seq(Envelope) /\ buffered[i] \in [Keys -> Seq(Envelope)]
  BY ChannelTypes DEF CallInv
<1>2. buffered[i][k] = <<>>
  <2>1. PICK n \in CasesOf(i, "send") : Cases(i)[n].key = k
    BY DEF AcceptSend, SendCases
  <2>2. Buffered(i) = {}
    BY DEF SendInv, NothingSetAsideIsWanted, Wanting
  <2> QED
    BY <2>1, <2>2 DEF Buffered
<1>3. k \in Keys
  <2>1. e \in Envelope
    BY <1>1, HeadTailProperties
  <2> HIDE DEF e
  <2> QED
    BY <2>1 DEF Envelope
<1>4. /\ handled' = [handled EXCEPT ![i] = Append(@, e)]
      /\ sendCh' = [sendCh EXCEPT ![i] = Tail(@)]
      /\ buffered' = buffered
      /\ pc' = [pc EXCEPT ![i] = "run"]
  BY DEF AcceptSend, Fire
<1>5. /\ sendCh'[i] = Tail(sendCh[i]) /\ buffered'[i] = buffered[i]
      /\ \A j \in Ids : j # i => buffered'[j] = buffered[j] /\ sendCh'[j] = sendCh[j]
  BY <1>1, <1>4 DEF TypeInv, TypeOK
<1> DEFINE q == Line(buffered[i], sendCh[i], k)
<1>6. /\ q # <<>> /\ Head(q) = e
      /\ Moves(buffered[i], sendCh[i], buffered[i], sendCh'[i], k, Tail(q))
  BY <1>1, <1>2, <1>3, <1>5, LineAcceptSend
<1>7. Queue[i][k] = q
  BY <1>3, QueueMeans DEF QueueIs
<1> HIDE DEF q, k, e
<1>8. Queue' = [Queue EXCEPT ![i][k] = Tail(q)]
  BY <1>3, <1>5, <1>6, QueueStep
<1>9. pc[i] \notin {"absent", "done"}
  BY DEF Wanting
<1> QED
  BY <1>1, <1>3, <1>4, <1>6, <1>7, <1>8, <1>9, TakeRefines

\* An instance that waits goes on: the contract sees nothing of it.
LEMMA GotoSameStatus ==
  ASSUME TypeInv, NEW i \in Ids, pc[i] \notin {"absent", "done"},
         \/ \E n, m, c : Fire(i, n, m, c)
         \/ \E l \in {"poll", "pollCall", "pollSend", "default", "block"} : Goto(i, l)
  PROVE  SameStatus
BY DEF Fire, Goto, SameStatus, TypeInv, TypeOK

LEMMA SetAsideRefines ==
  ASSUME CallInv, NEW i \in Ids, pc[i] \notin {"absent", "done"}, sendCh[i] # <<>>,
         NEW l \in {"poll", "default"}, SetAside(i, l), CallsKept
  PROVE  UNCHANGED Contract!vars
<1> DEFINE e == Head(sendCh[i])
<1>1. TypeInv /\ sendCh[i] \in Seq(Envelope) /\ buffered[i] \in [Keys -> Seq(Envelope)]
  BY ChannelTypes DEF CallInv
<1>2. e.key \in Keys
  <2>1. e \in Envelope
    BY <1>1, HeadTailProperties
  <2> HIDE DEF e
  <2> QED
    BY <2>1 DEF Envelope
<1>3. /\ buffered' = [buffered EXCEPT ![i][e.key] = Append(@, e)]
      /\ sendCh' = [sendCh EXCEPT ![i] = Tail(@)]
      /\ handled' = handled /\ Goto(i, l)
  BY DEF SetAside, history
<1>4. /\ sendCh'[i] = Tail(sendCh[i])
      /\ buffered'[i] = [buffered[i] EXCEPT ![e.key] = Append(@, e)]
      /\ \A j \in Ids : j # i => buffered'[j] = buffered[j] /\ sendCh'[j] = sendCh[j]
  <2> HIDE DEF e
  <2> QED
    BY <1>1, <1>3 DEF TypeInv, TypeOK
<1> HIDE DEF e
<1>5. ASSUME NEW k \in Keys
      PROVE  Line(buffered'[i], Tail(sendCh[i]), k) = Line(buffered[i], sendCh[i], k)
  <2> DEFINE d == buffered'[i]
             b == buffered[i]
             s == sendCh[i]
  <2>1. /\ b \in [Keys -> Seq(Envelope)] /\ s \in Seq(Envelope) /\ s # <<>>
        /\ e = Head(s) /\ e.key \in Keys /\ d[k] = IF e.key = k THEN Append(b[k], e) ELSE b[k]
    BY <1>1, <1>2, <1>4 DEF e
  <2> HIDE DEF d, b, s
  <2>2. Line(d, Tail(s), k) = Line(b, s, k)
    BY <2>1, LineSetAside
  <2> QED
    BY <2>2 DEF d, b, s
<1>6. UNCHANGED Queue
  <2>1. \A j \in Ids, k \in Keys : Line(buffered'[j], sendCh'[j], k) = Line(buffered[j], sendCh[j], k)
    BY <1>4, <1>5
  <2>2. QueueIs(buffered', sendCh') = QueueIs(buffered, sendCh)
    BY <2>1 DEF QueueIs
  <2> QED
    BY <2>2, QueueMeans
<1>7. UNCHANGED <<RunStatus, Server, Answers>>
  BY <1>1, <1>3, GotoSameStatus, StatusKept, ServerKept
<1> QED
  BY <1>3, <1>6, <1>7 DEF Contract!vars

-----------------------------------------------------------------------------
(* Steps that concern calls.                                               *)

LEMMA OneAnswer ==
  ASSUME TypeInv, NEW c \in Clients, resp[c] = <<>>, NEW x \in Response,
         resp' = [resp EXCEPT ![c] = Append(@, x)]
  PROVE  Answers' = [Answers EXCEPT ![c] = 1]
<1>1. Len(Append(<<>>, x)) = 1
  <2>1. <<>> \in Seq(Response) /\ Len(<<>>) = 0
    BY EmptySeq
  <2> QED
    BY <2>1, AppendProperties
<1>2. \A d \in Clients : Len(resp'[d]) = IF d = c THEN 1 ELSE Len(resp[d])
  <2>1. DOMAIN resp = Clients
    BY DEF TypeInv, TypeOK
  <2> DEFINE one == Append(<<>>, x)
  <2>2. resp' = [resp EXCEPT ![c] = one]
    OBVIOUS
  <2> HIDE DEF one
  <2>3. \A d \in Clients : resp'[d] = IF d = c THEN one ELSE resp[d]
    BY <2>1, <2>2
  <2> QED
    BY <1>1, <2>3 DEF one
<1> QED
  BY <1>2 DEF Answers

LEMMA AcceptCallRefines ==
  ASSUME CallInv, NEW i \in Ids, pc[i] \in {"pollCall", "block"}, NEW c \in Callers(i), AcceptCall(i, c)
  PROVE  Contract!Next
<1>1. TypeInv /\ replyTo[i] = NoClient /\ c \in Clients /\ cpc[c] = "calling"
  BY DEF CallInv, NoAnswerOwedWhileWaiting, Callers
<1>2. /\ replyTo' = [replyTo EXCEPT ![i] = c]
      /\ pc' = [pc EXCEPT ![i] = "run"]
      /\ UNCHANGED <<resp, sendCh, buffered, handled>>
  BY DEF AcceptCall, Fire, history
<1>3. Contract!Idle(c) /\ \A j \in Ids : replyTo[j] # c
  BY <1>1, CallerIdle
<1>4. replyTo'[i] = c /\ \A j \in Ids : j # i => replyTo'[j] = replyTo[j]
  BY <1>1, <1>2 DEF TypeInv, TypeOK
<1>5. ServerOf(replyTo', c) = i
  <2>1. OneServer(replyTo', c)
    BY <1>3, <1>4 DEF OneServer
  <2> QED
    BY <1>4, <2>1, ServerIs
<1>6. ASSUME NEW d \in Clients, d # c
      PROVE  ServerOf(replyTo', d) = ServerOf(replyTo, d)
  <2>1. \A j \in Ids : replyTo'[j] = d <=> replyTo[j] = d
    BY <1>1, <1>4, <1>6, RuntimeAssumption
  <2> QED
    BY <2>1, ServerSame
<1>7. Server' = [Server EXCEPT ![c] = i]
  BY <1>5, <1>6, ServerMeans
<1>8. SameStatus /\ RunStatus[i] = "running"
  BY <1>1, <1>2 DEF SameStatus, RunStatus, TypeInv, TypeOK
<1>9. UNCHANGED <<RunStatus, Queue, Answers>>
  BY <1>2, <1>8, StatusKept, QueueKept DEF Answers
<1>10. \A d \in Clients : Server[d] # i
  BY <1>1, ServesNobody
<1>11. Contract!Serve(i, c)
  BY <1>2, <1>3, <1>7, <1>8, <1>9, <1>10 DEF Contract!Serve
<1> QED
  BY <1>1, <1>11 DEF Contract!Next

LEMMA RejectCallRefines ==
  ASSUME CallInv, NEW i \in Ids, pc[i] \in {"pollCall", "block"}, NEW c \in Callers(i),
         NEW l \in {"poll", "pollSend"}, RejectCall(i, c, l)
  PROVE  Contract!Next
<1>1. TypeInv /\ c \in Clients /\ cpc[c] = "calling"
  BY DEF CallInv, Callers
<1>2. /\ resp' = [resp EXCEPT ![c] = Append(@, [ok |-> FALSE, value |-> Nil])]
      /\ Goto(i, l) /\ UNCHANGED <<replyTo, sendCh, buffered, handled>>
  BY DEF RejectCall, Respond, Goto, history
<1>3. Contract!Idle(c) /\ resp[c] = <<>>
  BY <1>1, CallerIdle
<1>4. [ok |-> FALSE, value |-> Nil] \in Response
  BY DEF Response, Value
<1>5. Answers' = [Answers EXCEPT ![c] = 1]
  BY <1>1, <1>2, <1>3, <1>4, OneAnswer
<1>6. UNCHANGED <<RunStatus, Queue, Server>>
  BY <1>1, <1>2, GotoSameStatus, StatusKept, QueueKept, ServerMeans
<1>7. Contract!Refuse(c)
  BY <1>2, <1>3, <1>5, <1>6 DEF Contract!Refuse
<1> QED
  BY <1>1, <1>7 DEF Contract!Next

LEMMA ReplyRefines ==
  ASSUME CallInv, NEW i \in Ids, ReplyToCaller(i)
  PROVE  Contract!Next
<1> DEFINE c == replyTo[i]
           x == [ok |-> out[i].ok, value |-> out[i].resp]
<1>1. TypeInv /\ c \in Clients
  BY DEF ReplyToCaller, CallInv, TypeInv, TypeOK
<1>2. x \in Response
  <2>1. out[i] \in Attempt
    BY <1>1 DEF TypeInv, WellFormed, ReplyToCaller
  <2> QED
    BY <2>1 DEF Attempt, Response
<1>3. /\ replyTo' = [replyTo EXCEPT ![i] = NoClient]
      /\ resp' = [resp EXCEPT ![c] = Append(@, x)]
      /\ UNCHANGED <<pc, sendCh, buffered, handled>>
  BY DEF ReplyToCaller, Respond, chanVars, history
<1>4. resp[c] = <<>> /\ \A j \in Ids : replyTo[j] = c => j = i
  <2> DEFINE owing == {j \in Ids : replyTo[j] = c}
  <2>1. i \in owing
    OBVIOUS
  <2>2. resp[c] = <<>>
    BY <1>1, <2>1 DEF CallInv, CallOwnership
  <2>3. OneServer(replyTo, c)
    BY <1>1, OneServerAlways
  <2> QED
    BY <2>2, <2>3 DEF OneServer
<1>5. replyTo[i] = c /\ replyTo'[i] = NoClient /\ \A j \in Ids : j # i => replyTo'[j] = replyTo[j]
  BY <1>1, <1>3 DEF TypeInv, TypeOK
<1> HIDE DEF c, x
<1>6. Answers' = [Answers EXCEPT ![c] = 1]
  BY <1>1, <1>2, <1>3, <1>4, OneAnswer
<1>7. ServerOf(replyTo, c) # Nil
  BY <1>1, <1>5, ServerIs, OneServerAlways
<1>8. ServerOf(replyTo', c) = Nil
  <2>1. \A j \in Ids : replyTo'[j] # c
    BY <1>1, <1>4, <1>5, RuntimeAssumption
  <2> QED
    BY <2>1 DEF ServerOf
<1>9. ASSUME NEW d \in Clients, d # c
      PROVE  ServerOf(replyTo', d) = ServerOf(replyTo, d)
  <2>1. \A j \in Ids : replyTo'[j] = d <=> replyTo[j] = d
    BY <1>5, <1>9, RuntimeAssumption
  <2> QED
    BY <2>1, ServerSame
<1>10. Server[c] # Nil /\ Server' = [Server EXCEPT ![c] = Nil]
  BY <1>1, <1>7, <1>8, <1>9, ServerMeans
<1>11. UNCHANGED <<RunStatus, Queue>>
  BY <1>3, StatusKept, QueueKept DEF SameStatus
<1>12. Contract!Answer(c)
  BY <1>3, <1>6, <1>10, <1>11 DEF Contract!Answer
<1> QED
  BY <1>1, <1>12 DEF Contract!Next

LEMMA ReturnRefines ==
  ASSUME CallInv, NEW c \in Clients, ClientCallReturn(c)
  PROVE  Contract!Next
<1>1. /\ TypeInv /\ cpc[c] = "awaiting" /\ resp[c] # <<>>
      /\ resp' = [resp EXCEPT ![c] = Tail(@)]
      /\ UNCHANGED <<pc, replyTo, sendCh, buffered, handled>>
  BY DEF ClientCallReturn, instVars, chanVars, history, CallInv
<1>2. Len(resp[c]) = 1 /\ resp[c] \in Seq(Response)
  BY <1>1 DEF CallInv, CallOwnership, TypeInv, TypeOK
<1>3. Len(Tail(resp[c])) = 0
  BY <1>1, <1>2, HeadTailProperties
<1>4. Answers[c] = 1 /\ Answers' = [Answers EXCEPT ![c] = 0]
  <2>1. resp'[c] = Tail(resp[c]) /\ \A d \in Clients : d # c => resp'[d] = resp[d]
    BY <1>1 DEF TypeInv, TypeOK
  <2>2. \A d \in Clients : Len(resp'[d]) = IF d = c THEN 0 ELSE Len(resp[d])
    BY <1>3, <2>1
  <2> QED
    BY <1>2, <2>2 DEF Answers
<1>5. UNCHANGED <<RunStatus, Queue, Server>>
  BY <1>1, StatusKept, QueueKept, ServerMeans DEF SameStatus
<1>6. Contract!Collect(c)
  BY <1>1, <1>4, <1>5 DEF Contract!Collect
<1> QED
  BY <1>6 DEF Contract!Next

-----------------------------------------------------------------------------
(* Steps that start or end a routine, or that the contract does not see.   *)

\* r.start of an id that is new.
LEMMA StartRefines ==
  ASSUME TypeInv, NEW i \in Ids, ~ Exists(i), NEW k, NEW x, StartInstance(i, k, x),
         CallsKept, UNCHANGED <<sendCh, buffered, handled>>
  PROVE  Contract!Next
<1>1. pc'[i] = "run" /\ \A j \in Ids : j # i => pc'[j] = pc[j]
  BY DEF StartInstance, TypeInv, TypeOK
<1>2. RunStatus[i] = "new" /\ RunStatus' = [RunStatus EXCEPT ![i] = "running"]
  BY <1>1, StatusMoves DEF Exists, RunStatus
<1>3. Contract!Start(i)
  BY <1>2, ServerKept, QueueKept DEF Contract!Start
<1> QED
  BY <1>3 DEF Contract!Next

\* A routine that completes owes nobody an answer, and refuses nobody.
LEMMA FinishRefines ==
  ASSUME CallInv, NEW i \in Ids, Finish(i)
  PROVE  Contract!Next
<1>1. /\ TypeInv /\ pc[i] = "effects" /\ replyTo[i] = NoClient
      /\ pc' = [pc EXCEPT ![i] = "done"]
      /\ CallsKept /\ UNCHANGED <<sendCh, buffered, handled>>
  BY DEF Finish, CallInv, CallsKept, chanVars, clientVars, history
<1>2. RunStatus[i] = "running" /\ RunStatus' = [RunStatus EXCEPT ![i] = "done"]
  <2>1. pc'[i] = "done" /\ \A j \in Ids : j # i => pc'[j] = pc[j]
    BY <1>1 DEF TypeInv, TypeOK
  <2> QED
    BY <1>1, <2>1, StatusMoves DEF RunStatus
<1>3. UNCHANGED <<Queue, Server, Answers>>
  BY <1>1, ServerKept, QueueKept
<1> DEFINE refused == {}
<1>4. /\ refused \in SUBSET {c \in Clients : Contract!Idle(c)}
      /\ Answers' = [c \in Clients |-> IF c \in refused THEN 1 ELSE Answers[c]]
  <2>1. Answers = [c \in Clients |-> Answers[c]]
    BY DEF Answers
  <2> QED
    BY <1>3, <2>1
<1> HIDE DEF refused
<1>5. \E R \in SUBSET {c \in Clients : Contract!Idle(c)} :
        Answers' = [c \in Clients |-> IF c \in R THEN 1 ELSE Answers[c]]
  BY <1>4
<1>6. Contract!Complete(i)
  BY <1>1, <1>2, <1>3, <1>5, ServesNobody DEF Contract!Complete
<1> QED
  BY <1>6 DEF Contract!Next

LEMMA StartChildRefines ==
  ASSUME TypeInv, NEW i \in Ids, StartChild(i)
  PROVE  [Contract!Next]_Contract!vars
<1> DEFINE s == Starts(i)[eff[i] + 1]
<1>1. CallsKept /\ UNCHANGED <<sendCh, buffered, handled>>
  BY DEF StartChild, CallsKept, chanVars, clientVars, history
<1>2. s.id \in Ids
  <2>1. eff[i] + 1 \in DOMAIN Starts(i)
    BY StartsType DEF StartChild, TypeInv, TypeOK
  <2> QED
    BY <2>1, StartsType DEF StartChild
<1>3. IF Exists(s.id) THEN UNCHANGED <<pc, cur>> ELSE StartInstance(s.id, s.key, s.input)
  BY DEF StartChild
<1> HIDE DEF s
<1>4. CASE Exists(s.id)
  BY <1>1, <1>3, <1>4, Stutters DEF SameStatus
<1>5. CASE ~ Exists(s.id)
  BY <1>1, <1>2, <1>3, <1>5, StartRefines
<1> QED
  BY <1>4, <1>5

LEMMA DeliverSendRefines ==
  ASSUME TypeInv, NEW i \in Ids, DeliverSend(i)
  PROVE  [Contract!Next]_Contract!vars
<1> DEFINE s == Sends(i)[eff[i] - Len(Starts(i)) + 1]
<1>1. CallsKept /\ SameStatus /\ buffered' = buffered /\ handled' = handled
  BY DEF DeliverSend, CallsKept, SameStatus, clientVars
<1>2. s \in SendRequest
  <2>1. out[i] \in Attempt
    BY DEF TypeInv, WellFormed, DeliverSend
  <2>2. Starts(i) \in Seq(StartRequest) /\ Sends(i) \in Seq(SendRequest)
    BY <2>1 DEF Attempt, Starts, Sends
  <2>3. eff[i] - Len(Starts(i)) + 1 \in 1..Len(Sends(i))
    BY <2>2 DEF DeliverSend, Applied, TypeInv, TypeOK
  <2> QED
    BY <2>2, <2>3
<1>3. IF Exists(s.id) THEN Enqueue(s.id, s.key, s.msg) ELSE UNCHANGED <<sendCh, accepted>>
  BY DEF DeliverSend
<1> HIDE DEF s
<1>4. s.id \in Ids /\ s.key \in Keys /\ s.msg \in Messages
  BY <1>2 DEF SendRequest
<1>5. CASE Exists(s.id)
  BY <1>1, <1>3, <1>4, <1>5, EnqueueRefines
<1>6. CASE ~ Exists(s.id)
  BY <1>1, <1>3, <1>6, Stutters
<1> QED
  BY <1>5, <1>6

LEMMA InstanceRefines ==
  ASSUME CallInv, SendInv, NEW i \in Ids, Instance(i)
  PROVE  [Contract!Next]_Contract!vars
<1>1. TypeInv
  BY DEF CallInv
<1>2. CASE RunHandler(i) \/ EnterWait(i)
  <2>1. SameStatus /\ CallsKept /\ UNCHANGED <<sendCh, buffered, handled>>
    BY <1>1, <1>2 DEF RunHandler, EnterWait, SameStatus, CallsKept, chanVars, clientVars, history,
                      TypeInv, TypeOK
  <2> QED
    BY <2>1, Stutters
<1>3. CASE StartChild(i) \/ DeliverSend(i)
  BY <1>1, <1>3, StartChildRefines, DeliverSendRefines
<1>4. CASE ReplyToCaller(i) \/ Finish(i)
  BY <1>4, ReplyRefines, FinishRefines
<1>5. CASE \/ ContinueAtOnce(i) \/ TakeExpired(i) \/ PollNothing(i) \/ TakeDefault(i)
           \/ Block(i) \/ SelectTimer(i)
  <2>1. CallsKept /\ UNCHANGED <<sendCh, buffered, handled>>
    BY <1>5, WaitKeepsCalls
    DEF ContinueAtOnce, TakeExpired, PollNothing, TakeDefault, Block, SelectTimer, history
  <2>2. /\ pc[i] \notin {"absent", "done"}
        /\ \/ \E n, m, c : Fire(i, n, m, c)
           \/ \E l \in {"poll", "pollCall", "pollSend", "default", "block"} : Goto(i, l)
    BY <1>5 DEF ContinueAtOnce, TakeExpired, PollNothing, TakeDefault, Block, SelectTimer
  <2> QED
    BY <1>1, <2>1, <2>2, GotoSameStatus, Stutters
<1>6. CASE TakeBuffered(i)
  BY <1>6, TakeBufferedRefines
<1>7. CASE PollCall(i) \/ SelectCall(i)
  <2>1. CASE PollCall(i) /\ Goto(i, "pollSend") /\ UNCHANGED <<sendCh, buffered, clientVars, history>>
    <3>1. replyTo' = replyTo
      BY <2>1 DEF Goto
    <3>2. pc[i] \notin {"absent", "done"}
      BY <2>1 DEF PollCall
    <3>3. CallsKept /\ UNCHANGED <<sendCh, buffered, handled>>
      BY <2>1, <3>1 DEF CallsKept, clientVars, history
    <3> QED
      BY <1>1, <2>1, <3>2, <3>3, GotoSameStatus, Stutters
  <2>2. CASE \E c \in Callers(i) : \/ AcceptCall(i, c)
                                   \/ \E l \in {"poll", "pollSend"} : RejectCall(i, c, l)
    <3>1. pc[i] \in {"pollCall", "block"}
      BY <1>7 DEF PollCall, SelectCall
    <3> QED
      BY <2>2, <3>1, AcceptCallRefines, RejectCallRefines
  <2> QED
    BY <1>7, <2>1, <2>2 DEF PollCall, SelectCall
<1>8. CASE PollSend(i) \/ SelectSend(i)
  <2>1. CallsKept /\ pc[i] \in Wanting /\ pc[i] \notin {"absent", "done"}
    BY <1>8, WaitKeepsCalls DEF PollSend, SelectSend, Wanting
  <2>2. CASE Goto(i, "default") /\ UNCHANGED <<sendCh, buffered, clientVars, history>>
    BY <1>1, <2>1, <2>2, GotoSameStatus, Stutters DEF history
  <2>3. CASE sendCh[i] # <<>> /\ AcceptSend(i)
    BY <2>1, <2>3, AcceptSendRefines
  <2>4. CASE sendCh[i] # <<>> /\ \E l \in {"poll", "default"} : SetAside(i, l)
    BY <2>1, <2>4, SetAsideRefines
  <2> QED
    BY <1>8, <2>2, <2>3, <2>4 DEF PollSend, SelectSend
<1> QED
  BY <1>2, <1>3, <1>4, <1>5, <1>6, <1>7, <1>8 DEF Instance

-----------------------------------------------------------------------------
(* Clients.                                                                *)

\* Whom a client waits for exists: it was looked up before the client blocked.
AddressKnown == \A c \in Clients : cpc[c] # "idle" => Exists(cop[c].id)

\* A client that waits had been waiting, or has looked up an instance.
LookedUp ==
  \A c \in Clients : cpc'[c] # "idle" =>
    \/ cpc[c] # "idle" /\ cop'[c] = cop[c]
    \/ cop'[c].id \in Ids /\ Exists(cop'[c].id)

LEMMA AddressKept ==
  ASSUME TypeInv, [Next]_vars, AddressKnown, LookedUp
  PROVE  AddressKnown'
<1>1. \A j \in Ids : Exists(j) => pc'[j] # "absent"
  BY ExistsForever
<1>2. \A c \in Clients : cpc[c] # "idle" => cop[c].id \in Ids
  BY DEF TypeInv, WellFormed, Op
<1> QED
  BY <1>1, <1>2 DEF AddressKnown, LookedUp, Exists

LEMMA AddressNext == TypeInv /\ AddressKnown /\ [Next]_vars => AddressKnown'
<1> SUFFICES ASSUME TypeInv, AddressKnown, [Next]_vars PROVE AddressKnown'
  OBVIOUS
<1> USE DEF clientVars
<1>1. CASE Tick \/ UNCHANGED vars
  BY <1>1, AddressKept DEF Tick, vars, LookedUp
<1>2. CASE \E i \in Ids : Instance(i)
  <2>1. PICK i \in Ids : Instance(i)
    BY <1>2
  <2>2. cop' = cop /\ \A c \in Clients : cpc'[c] # "idle" => cpc[c] # "idle"
    <3>1. CASE PollCall(i) \/ SelectCall(i)
      BY <3>1 DEF PollCall, SelectCall, AcceptCall, RejectCall, Callers, TypeInv, TypeOK
    <3>2. CASE ~ (PollCall(i) \/ SelectCall(i))
      BY <2>1, <3>2 DEF Instance, RunHandler, StartChild, DeliverSend, ReplyToCaller, Finish,
           ContinueAtOnce, EnterWait, TakeBuffered, TakeExpired, PollNothing, PollSend,
           TakeDefault, Block, SelectSend, SelectTimer, AcceptSend, SetAside
    <3> QED
      BY <3>1, <3>2
  <2> QED
    BY <2>2, AddressKept DEF LookedUp
<1>3. CASE \E c \in Clients : Resume(c)
  <2>1. cop' = cop /\ \A c \in Clients : cpc'[c] # "idle" => cpc[c] # "idle"
    BY <1>3 DEF Resume, ClientSend, ClientCallReturn, ClientGetReturn, TypeInv, TypeOK
  <2> QED
    BY <2>1, AddressKept DEF LookedUp
<1>4. CASE \E c \in Clients : Invoke(c)
  <2>1. PICK c \in Clients : Invoke(c)
    BY <1>4
  <2>2. PICK o \in Op :
          ClientGo(c, o) \/ ClientNotFound(c, o) \/ ClientBlock(c, o) \/ ClientQuery(c, o)
    BY <2>1, InvokeOp
  <2>3. o.id \in Ids
    BY DEF Op
  <2>4. /\ cpc[c] = "idle" /\ cop' = [cop EXCEPT ![c] = o]
        /\ \A d \in Clients : d # c => cpc'[d] = cpc[d]
        /\ cpc'[c] # "idle" => Exists(o.id)
    BY <2>2 DEF ClientGo, ClientNotFound, ClientBlock, ClientQuery, Choose, TypeInv, TypeOK
  <2>5. cop'[c] = o /\ \A d \in Clients : d # c => cop'[d] = cop[d]
    BY <2>4 DEF TypeInv, TypeOK
  <2> QED
    BY <2>3, <2>4, <2>5, AddressKept DEF LookedUp
<1> QED
  BY <1>1, <1>2, <1>3, <1>4 DEF Next

LEMMA AddressAlways == Spec => []AddressKnown
<1>1. Init => AddressKnown
  BY DEF Init, AddressKnown
<1> QED
  BY <1>1, AddressNext, TypeCorrect, PTL DEF Spec

LEMMA ClientRefines ==
  ASSUME CallInv, AddressKnown, NEW c \in Clients, Resume(c) \/ Invoke(c)
  PROVE  [Contract!Next]_Contract!vars
<1>1. TypeInv
  BY DEF CallInv
<1> USE DEF instVars, chanVars, history
<1>2. CASE ClientSend(c)
  <2>1. cop[c] \in Op /\ cop[c].arg \in Messages /\ Exists(cop[c].id)
    BY <1>1, <1>2 DEF ClientSend, TypeInv, WellFormed, AddressKnown
  <2>2. cop[c].id \in Ids /\ cop[c].key \in Keys
    BY <2>1 DEF Op
  <2>3. SameStatus /\ CallsKept /\ buffered' = buffered /\ handled' = handled
    BY <1>2 DEF ClientSend, SameStatus, CallsKept
  <2>4. Enqueue(cop[c].id, cop[c].key, cop[c].arg)
    BY <1>2 DEF ClientSend
  <2> QED
    BY <1>1, <2>1, <2>2, <2>3, <2>4, EnqueueRefines
<1>3. CASE ClientCallReturn(c)
  BY <1>3, ReturnRefines
<1>4. CASE ClientGetReturn(c)
  BY <1>4, Stutters DEF ClientGetReturn, SameStatus, CallsKept
<1>5. CASE Invoke(c)
  <2>1. PICK o \in Op :
          ClientGo(c, o) \/ ClientNotFound(c, o) \/ ClientBlock(c, o) \/ ClientQuery(c, o)
    BY <1>5, InvokeOp
  <2>2. o.id \in Ids
    BY DEF Op
  <2>3. CASE ClientGo(c, o)
    <3>1. CallsKept /\ UNCHANGED <<sendCh, buffered, handled>>
      BY <2>3 DEF ClientGo, CallsKept
    <3>2. IF Exists(o.id) THEN UNCHANGED <<pc, cur>> ELSE StartInstance(o.id, o.key, o.arg)
      BY <2>3 DEF ClientGo
    <3>3. CASE Exists(o.id)
      BY <3>1, <3>2, <3>3, Stutters DEF SameStatus
    <3>4. CASE ~ Exists(o.id)
      BY <1>1, <2>2, <3>1, <3>2, <3>4, StartRefines
    <3> QED
      BY <3>3, <3>4
  <2>4. CASE ClientNotFound(c, o) \/ ClientBlock(c, o) \/ ClientQuery(c, o)
    BY <2>4, Stutters DEF ClientNotFound, ClientBlock, ClientQuery, SameStatus, CallsKept
  <2> QED
    BY <2>1, <2>3, <2>4
<1> QED
  BY <1>2, <1>3, <1>4, <1>5 DEF Resume

-----------------------------------------------------------------------------
(* The backend implements the contract, step by step.                      *)

LEMMA ContractStarts == Init => Contract!Init
<1> SUFFICES ASSUME Init PROVE Contract!Init
  OBVIOUS
<1>1. RunStatus = [i \in Ids |-> "new"]
  BY DEF Init, RunStatus
<1>2. Queue = [i \in Ids |-> [k \in Keys |-> <<>>]]
  <2>1. \A k : <<>> \o OfKey(<<>>, k) = <<>>
    <3>1. <<>> \in Seq(Envelope)
      BY EmptySeq
    <3> QED
      BY <3>1, OfKeyEmpty, ConcatEmptySeq
  <2> QED
    BY <2>1 DEF Init, Queue
<1>3. Server = [c \in Clients |-> Nil]
  <2>1. \A i \in Ids, c \in Clients : replyTo[i] # c
    BY RuntimeAssumption DEF Init
  <2> QED
    BY <2>1 DEF Server
<1>4. Answers = [c \in Clients |-> 0]
  BY EmptySeq DEF Init, Answers
<1>5. handled = [i \in Ids |-> <<>>]
  BY DEF Init
<1> QED
  BY <1>1, <1>2, <1>3, <1>4, <1>5 DEF Contract!Init

LEMMA StepRefines ==
  ASSUME CallInv, SendInv, AddressKnown, [Next]_vars
  PROVE  [Contract!Next]_Contract!vars
<1>1. CASE Tick \/ UNCHANGED vars
  BY <1>1, Stutters DEF Tick, vars, instVars, chanVars, clientVars, history, SameStatus, CallsKept
<1>2. CASE \E i \in Ids : Instance(i)
  BY <1>2, InstanceRefines
<1>3. CASE \E c \in Clients : Resume(c) \/ Invoke(c)
  BY <1>3, ClientRefines
<1> QED
  BY <1>1, <1>2, <1>3 DEF Next

\* The in-memory runtime and its clients implement the contract: although a
\* send may wait in the channel or among those set aside, and three stages of
\* the loop take sends, each key has one queue, served first come first
\* served; and every call that an instance receives is served by it and
\* answered once, or refused.
THEOREM InMemoryImplementsContract == Spec => ImplementsContract
<1>1. CallInv /\ SendInv /\ AddressKnown /\ [Next]_vars => [Contract!Next]_Contract!vars
  BY StepRefines
<1> QED
  BY <1>1, ContractStarts, CallInvAlways, SendInvAlways, AddressAlways, PTL
  DEF Spec, ImplementsContract, Contract!Spec

=============================================================================
