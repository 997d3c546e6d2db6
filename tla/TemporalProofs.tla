--------------------------- MODULE TemporalProofs ---------------------------
(***************************************************************************)
(* Proofs about the Temporal backend, for every program, every number of   *)
(* routines, clients, runs and operations: types, and that the control     *)
(* state of a loop or of a client says what its data is.                   *)
(***************************************************************************)
EXTENDS TemporalProperties, SequenceTheorems, WellFoundedInduction, TLAPS

PcType == {"absent", "activity", "effects", "select", "call", "can", "drain", "done", "failed"}

\* Where the loop works on an output.
Working == {"effects", "select", "call"}

WellFormed ==
  /\ \A i \in Ids : pc[i] # "absent" => cur[i] \in Position
  /\ \A i \in Ids : pc[i] \in Working => out[i] \in Attempt
  /\ \A i \in Ids : IF pc[i] = "call" THEN serving[i] \in PendingCall ELSE serving[i] = Nil
  /\ \A i \in Ids : pc[i] = "absent" => signals[i] = NoSignals /\ queries[i] = NoQueries
  /\ \A c \in Clients : cpc[c] # "idle" => cop[c] \in Op
  /\ \A c \in Clients : cpc[c] = "calling" => cop[c].arg \in Messages

TypeInv == TypeOK /\ WellFormed

-----------------------------------------------------------------------------
(* What a program hands to the loop.                                       *)

LEMMA FailureType == Failure \in Attempt
<1>1. [n \in {} |-> Nil] \in UNION {[Q -> Results] : Q \in SUBSET Names}
  <2>1. [n \in {} |-> Nil] \in [{} -> Results]
    OBVIOUS
  <2>2. {} \in SUBSET Names
    OBVIOUS
  <2> QED
    BY <2>1, <2>2
<1>2. Failure = [ok |-> FALSE, queries |-> [n \in {} |-> Nil], starts |-> <<>>, sends |-> <<>>,
                 done |-> TRUE, result |-> Nil, cases |-> <<>>, resp |-> Nil]
  BY DEF Failure, Fail, RunOutput, NewContext, Done
<1> QED
  BY <1>1, <1>2 DEF Attempt, Value

LEMMA EndsType ==
  ASSUME now \in Time, NEW i \in Ids, NEW k \in Keys, NEW x \in Inputs, NEW m \in Msg
  PROVE  Ends(i, k, x, m) \subseteq Attempt
<1>1. k \in Registered => Runner(i, k, x, m, now) \subseteq Attempt
  BY DurableAssumption
<1> QED
  BY <1>1, FailureType DEF Ends, RunHandler

\* Whatever the activity's outcome, recovered or not, it is an attempt of the
\* right type.
LEMMA OutcomesType ==
  ASSUME now \in Time, NEW i \in Ids, NEW k \in Keys, NEW x \in Inputs, NEW m \in Msg
  PROVE  Outcomes(i, k, x, m) \subseteq Attempt
<1>1. Ends(i, k, x, m) \subseteq Attempt
  BY EndsType
<1>2. RecoveryOf(k) # Nil => Ends(i, RecoveryOf(k), x, m) \subseteq Attempt
  <2>1. RecoveryOf(k) # Nil => RecoveryOf(k) \in Keys
    BY DurableAssumption DEF RecoveryOf
  <2> QED
    BY <2>1, EndsType
<1> QED
  BY <1>1, <1>2, FailureType DEF Outcomes

LEMMA MergeType ==
  ASSUME NEW s \in [Names -> Value], NEW q \in UNION {[Q -> Results] : Q \in SUBSET Names}
  PROVE  /\ Merge(s, q) \in [Names -> Value]
         /\ \A n \in Names : s[n] # Nil => Merge(s, q)[n] # Nil
<1>1. PICK Q \in SUBSET Names : q \in [Q -> Results]
  OBVIOUS
<1> QED
  BY <1>1, DurableAssumption DEF Merge, Value

\* The output that stands for a call that failed waits for the same cases.
LEMMA SameCasesType ==
  ASSUME NEW i \in Ids, out[i] \in Attempt
  PROVE  SameCases(i) \in Attempt
<1>1. Cases(i) \in Seq(Case)
  BY DEF Cases, Attempt
<1> QED
  BY <1>1, FailureType DEF SameCases, Attempt

LEMMA ChildStartsType ==
  ASSUME TypeOK, NEW i \in Ids, NEW a \in Attempt
  PROVE  ChildStarts(i, a) \in Seq(ChildStart)
<1>1. a.starts \in Seq(StartRequest)
  BY DEF Attempt
<1>2. /\ Len(a.starts) \in Nat /\ DOMAIN a.starts = 1..Len(a.starts)
      /\ \A p \in DOMAIN a.starts : a.starts[p] \in StartRequest
  BY <1>1
<1>3. \A p \in 1..Len(a.starts) :
        [id |-> a.starts[p].id, key |-> a.starts[p].key, input |-> a.starts[p].input, run |-> runs[i]]
          \in ChildStart
  BY <1>2 DEF StartRequest, ChildStart, TypeOK
<1> DEFINE f == [p \in 1..Len(a.starts) |->
     [id |-> a.starts[p].id, key |-> a.starts[p].key, input |-> a.starts[p].input, run |-> runs[i]]]
<1>4. f \in [1..Len(a.starts) -> ChildStart]
  BY <1>3
<1>5. ChildStarts(i, a) = f
  BY <1>2 DEF ChildStarts
<1> HIDE DEF f
<1> QED
  BY <1>2, <1>4, <1>5, IsASeq

LEMMA WithoutType ==
  ASSUME NEW S, NEW s \in Seq(S), NEW p \in DOMAIN s
  PROVE  Without(s, p) \in Seq(S)
<1>1. p \in 1..Len(s) /\ Len(s) \in Nat
  OBVIOUS
<1>2. SubSeq(s, 1, p - 1) \in Seq(S)
  BY <1>1, SubSeqProperties
<1>3. SubSeq(s, p + 1, Len(s)) \in Seq(S)
  BY <1>1, SubSeqProperties
<1> QED
  BY <1>2, <1>3, ConcatProperties DEF Without


-----------------------------------------------------------------------------
(* The Selector picks a case that exists.                                  *)

Less == {p \in Nat \X Nat : p[1] < p[2]}

\* First picks the least of a set of case indices.
LEMMA FirstIsLeast ==
  ASSUME NEW S \in SUBSET Nat, S # {}
  PROVE  First(S) \in S /\ \A m \in S : First(S) <= m
<1>1. IsWellFoundedOn(Less, Nat)
  BY NatLessThanWellFounded DEF Less, OpToRel
<1>2. \E n \in S : \A m \in S : <<m, n>> \notin Less
  BY <1>1, WFMin
<1>3. PICK n \in S : \A m \in S : <<m, n>> \notin Less
  BY <1>2
<1>4. ASSUME NEW m \in S
      PROVE  n <= m
  <2>1. m \in Nat /\ n \in Nat /\ <<m, n>> \in Nat \X Nat
    BY <1>3
  <2>2. ~ (m < n)
    BY <1>3, <2>1 DEF Less
  <2> QED
    BY <2>1, <2>2
<1> QED
  BY <1>3, <1>4 DEF First

\* Last picks the greatest, because a continuation has finitely many cases.
LEMMA LastIsGreatest ==
  ASSUME NEW N \in Nat, NEW S \in SUBSET (1..N), S # {}
  PROVE  Last(S) \in S /\ \A m \in S : m <= Last(S)
<1> DEFINE T == {N - m : m \in S}
<1>0. \A m \in S : m \in Nat /\ N - m \in Nat
  OBVIOUS
<1>1. T \in SUBSET Nat /\ T # {}
  <2>1. PICK m : m \in S
    OBVIOUS
  <2>2. N - m \in T
    BY <2>1
  <2> QED
    BY <1>0, <2>2
<1>2. First(T) \in T /\ \A t \in T : First(T) <= t
  BY <1>1, FirstIsLeast
<1>3. PICK n \in S : First(T) = N - n
  BY <1>2
<1>4. \A m \in S : N - n <= N - m
  BY <1>2, <1>3
<1>5. \A m \in S : m <= n
  BY <1>0, <1>4
<1> QED
  BY <1>3, <1>5 DEF Last

LEMMA CaseTypes ==
  ASSUME TypeInv, NEW i \in Ids, pc[i] \in Working
  PROVE  /\ Cases(i) \in Seq(Case)
         /\ Len(Cases(i)) \in Nat
         /\ DOMAIN Cases(i) = 1..Len(Cases(i))
         /\ \A n \in DOMAIN Cases(i) : Cases(i)[n] \in Case
<1>1. Cases(i) \in Seq(Case)
  BY DEF TypeInv, WellFormed, Cases, Attempt
<1> QED
  BY <1>1, LenProperties

LEMMA ChosenCase ==
  ASSUME TypeInv, NEW i \in Ids, pc[i] \in Working, NEW S \in SUBSET DOMAIN Cases(i), S # {}
  PROVE  First(S) \in S /\ Last(S) \in S
<1>1. DOMAIN Cases(i) = 1..Len(Cases(i)) /\ Len(Cases(i)) \in Nat
  BY CaseTypes
<1>2. S \in SUBSET (1..Len(Cases(i))) /\ S \in SUBSET Nat
  BY <1>1
<1>3. First(S) \in S
  BY <1>2, FirstIsLeast
<1>4. Last(S) \in S
  BY <1>1, <1>2, LastIsGreatest
<1> QED
  BY <1>3, <1>4

-----------------------------------------------------------------------------
(* Type correctness, first of the steps that several actions share.        *)

\* A case that fires gives the loop its next position.
LEMMA FireType ==
  ASSUME TypeInv, NEW i \in Ids, pc[i] \in {"effects", "select"},
         NEW n \in DOMAIN Cases(i), NEW m \in Msg, NEW tag \in Nat, Fire(i, n, m, tag)
  PROVE  /\ pc' = [pc EXCEPT ![i] = "can"]
         /\ cur' \in [Ids -> Position \cup {Nil}]
         /\ \A j \in Ids : pc'[j] # "absent" => cur'[j] \in Position
<1>1. Cases(i)[n] \in Case
  BY CaseTypes DEF Working
<1>2. [key |-> Cases(i)[n].key, input |-> Cases(i)[n].input, msg |-> m, n |-> tag] \in Position
  BY <1>1 DEF Case, Position
<1> QED
  BY <1>2 DEF Fire, TypeInv, TypeOK, WellFormed

\* A signal is an envelope wherever it waits.
LEMMA SignalTypes ==
  ASSUME TypeInv, NEW i \in Ids, NEW k \in Keys, signals[i][k] # <<>>
  PROVE  Head(signals[i][k]) \in Envelope /\ Tail(signals[i][k]) \in Seq(Envelope)
BY DEF TypeInv, TypeOK

\* What delivering a signal may change.
SignalEffect ==
  /\ pc' \in [Ids -> PcType]
  /\ cur' \in [Ids -> Position \cup {Nil}]
  /\ signals' \in [Ids -> [Keys -> Seq(Envelope)]]
  /\ accepted' \in [Ids -> Nat]
  /\ consumed' \in [Ids -> Seq(Envelope)]
  /\ \A j \in Ids : pc'[j] # "absent" => cur'[j] \in Position
  /\ \A j \in Ids : pc'[j] = pc[j] \/ (pc[j] = "select" /\ pc'[j] = "can")
  /\ \A j \in Ids : pc[j] = "absent" => signals'[j] = signals[j]

LEMMA SignalType ==
  ASSUME TypeInv, NEW i \in Ids, Running(i), NEW k \in Keys, NEW m \in Messages, Signal(i, k, m)
  PROVE  SignalEffect
<1> DEFINE e == [key |-> k, msg |-> m, n |-> accepted[i] + 1]
           n == First(SendCases(i, k))
<1>1. e \in Envelope /\ e.n \in Nat /\ accepted' \in [Ids -> Nat]
  BY DEF Envelope, Signal, TypeInv, TypeOK
<1>2. CASE pc[i] = "select" /\ SendCases(i, k) # {}
  <2>1. n \in DOMAIN Cases(i)
    BY <1>2, ChosenCase DEF SendCases, CasesOf, Working
  <2>2. Fire(i, n, m, e.n) /\ m \in Msg
    BY <1>2 DEF Signal, Msg
  <2> HIDE DEF n, e
  <2>3. /\ pc' = [pc EXCEPT ![i] = "can"]
        /\ cur' \in [Ids -> Position \cup {Nil}]
        /\ \A j \in Ids : pc'[j] # "absent" => cur'[j] \in Position
    BY <1>1, <1>2, <2>1, <2>2, FireType
  <2>4. signals' = signals /\ consumed' = [consumed EXCEPT ![i] = Append(@, e)]
    BY <1>2 DEF Signal, e
  <2> QED
    BY <1>1, <1>2, <2>3, <2>4 DEF SignalEffect, TypeInv, TypeOK, PcType
<1>3. CASE ~ (pc[i] = "select" /\ SendCases(i, k) # {})
  <2>1. /\ signals' = [signals EXCEPT ![i][k] = Append(@, e)]
        /\ UNCHANGED <<pc, cur, consumed>>
    BY <1>3 DEF Signal
  <2> HIDE DEF e
  <2>2. signals' \in [Ids -> [Keys -> Seq(Envelope)]]
    BY <1>1, <2>1 DEF TypeInv, TypeOK
  <2>3. \A j \in Ids : pc[j] = "absent" => signals'[j] = signals[j]
    BY <2>1 DEF Running, TypeInv, TypeOK
  <2> QED
    BY <1>1, <2>1, <2>2, <2>3 DEF SignalEffect, TypeInv, TypeOK, WellFormed, PcType
<1> QED
  BY <1>2, <1>3

\* A run begins where none is running.
LEMMA BeginRunType ==
  ASSUME TypeInv, NEW i \in Ids, NEW k \in Keys, NEW x \in Inputs,
         NEW q \in [Names -> Value], BeginRun(i, k, x, q)
  PROVE  /\ pc' \in [Ids -> PcType]
         /\ cur' \in [Ids -> Position \cup {Nil}]
         /\ queries' \in [Ids -> [Names -> Value]]
         /\ signals' \in [Ids -> [Keys -> Seq(Envelope)]]
         /\ updates' \in [Ids -> [Keys -> Inputs \cup {Nil}]]
         /\ runs' \in [Ids -> Nat]
         /\ pc'[i] = "activity"
         /\ \A j \in Ids : pc'[j] # "absent" => cur'[j] \in Position
         /\ \A j \in Ids : j # i => /\ pc'[j] = pc[j] /\ signals'[j] = signals[j]
                                    /\ queries'[j] = queries[j]
<1>1. [key |-> k, input |-> x, msg |-> Nil, n |-> 0] \in Position
  BY DEF Position, Msg
<1>2. NoSignals \in [Keys -> Seq(Envelope)] /\ NoUpdates \in [Keys -> Inputs \cup {Nil}]
  BY DEF NoSignals, NoUpdates
<1> HIDE DEF Position
<1>3. /\ cur' \in [Ids -> Position \cup {Nil}]
      /\ \A j \in Ids : pc'[j] # "absent" => cur'[j] \in Position
  BY <1>1 DEF BeginRun, TypeInv, TypeOK, WellFormed
<1> QED
  BY <1>2, <1>3 DEF BeginRun, TypeInv, TypeOK, PcType

LEMMA CloseRunType ==
  ASSUME TypeInv, NEW i \in Ids, NEW ok \in BOOLEAN, NEW v \in Value, CloseRun(i, ok, v)
  PROVE  /\ pc' = [pc EXCEPT ![i] = IF ok THEN "done" ELSE "failed"]
         /\ pc' \in [Ids -> PcType]
         /\ final' \in [Ids -> Response]
         /\ pending' \in [Ids -> Seq(PendingCall)]
         /\ resp' \in [Clients -> Seq(Response)]
         /\ got' \in [Clients -> Response]
         /\ cpc' \in [Clients -> {"idle", "calling", "awaiting", "getting"}]
         /\ \A c \in Clients : cpc'[c] = cpc[c] \/ cpc'[c] = "idle"
<1>1. [ok |-> ok, value |-> v] \in Response /\ [ok |-> FALSE, value |-> Nil] \in Response
  BY DEF Response, Value
<1>2. pc' \in [Ids -> PcType] /\ pc' = [pc EXCEPT ![i] = IF ok THEN "done" ELSE "failed"]
  BY DEF CloseRun, TypeInv, TypeOK, PcType
<1>3. final' \in [Ids -> Response] /\ pending' \in [Ids -> Seq(PendingCall)]
  BY <1>1 DEF CloseRun, TypeInv, TypeOK
<1>4. resp' \in [Clients -> Seq(Response)]
  <2>1. \A c \in Clients : Append(resp[c], [ok |-> FALSE, value |-> Nil]) \in Seq(Response)
    BY <1>1 DEF TypeInv, TypeOK
  <2> QED
    BY <2>1 DEF CloseRun, TypeInv, TypeOK
<1>5. got' \in [Clients -> Response]
  BY <1>1 DEF CloseRun, TypeInv, TypeOK
<1>6. cpc' \in [Clients -> {"idle", "calling", "awaiting", "getting"}]
  BY DEF CloseRun, TypeInv, TypeOK
<1>7. \A c \in Clients : cpc'[c] = cpc[c] \/ cpc'[c] = "idle"
  BY DEF CloseRun
<1> QED
  BY <1>2, <1>3, <1>4, <1>5, <1>6, <1>7

\* The loop takes up an output, from an activity or from a call.
LEMMA ProcessType ==
  ASSUME TypeInv, NEW i \in Ids, pc[i] # "absent", NEW a \in Attempt, Process(i, a)
  PROVE  /\ pc' = [pc EXCEPT ![i] = "effects"]
         /\ pc' \in [Ids -> PcType]
         /\ out' \in [Ids -> Attempt \cup {Nil}]
         /\ queries' \in [Ids -> [Names -> Value]]
         /\ starting' \in [Ids -> Seq(ChildStart)]
         /\ eff' \in [Ids -> Nat]
         /\ \A j \in Ids : pc'[j] \in Working => out'[j] \in Attempt
         /\ \A j \in Ids : pc'[j] = "absent" => queries'[j] = queries[j]
<1>1. Merge(queries[i], a.queries) \in [Names -> Value]
  BY MergeType DEF TypeInv, TypeOK, Attempt
<1>2. starting[i] \o ChildStarts(i, a) \in Seq(ChildStart)
  BY ChildStartsType, ConcatProperties DEF TypeInv, TypeOK
<1>3. starting' \in [Ids -> Seq(ChildStart)] /\ queries' \in [Ids -> [Names -> Value]]
  BY <1>1, <1>2 DEF Process, TypeInv, TypeOK
<1>4. pc' \in [Ids -> PcType] /\ pc' = [pc EXCEPT ![i] = "effects"] /\ eff' \in [Ids -> Nat]
  BY DEF Process, TypeInv, TypeOK, PcType
<1>5. out' \in [Ids -> Attempt \cup {Nil}]
  BY DEF Process, TypeInv, TypeOK
<1>6. \A j \in Ids : pc'[j] \in Working => out'[j] \in Attempt
  BY DEF Process, TypeInv, TypeOK, WellFormed
<1>7. \A j \in Ids : pc'[j] = "absent" => queries'[j] = queries[j]
  BY DEF Process, TypeInv, TypeOK
<1> QED
  BY <1>3, <1>4, <1>5, <1>6, <1>7

-----------------------------------------------------------------------------
(* Type correctness, action by action.                                     *)

LEMMA TypeInvInit == Init => TypeInv
<1> SUFFICES ASSUME Init PROVE TypeInv
  OBVIOUS
<1>1. now \in Time /\ 0 \in Time
  BY DurableAssumption DEF Init, Time
<1>2. final \in [Ids -> Response] /\ got \in [Clients -> Response]
  BY DEF Init, Blank, Response, Value
<1>3. /\ queries \in [Ids -> [Names -> Value]]
      /\ updates \in [Ids -> [Keys -> Inputs \cup {Nil}]]
      /\ signals \in [Ids -> [Keys -> Seq(Envelope)]]
  BY DEF Init, NoQueries, NoUpdates, NoSignals, Value
<1>4. TypeOK
  BY <1>1, <1>2, <1>3 DEF Init, TypeOK
<1>5. WellFormed
  BY DEF Init, WellFormed, Working
<1> QED
  BY <1>4, <1>5 DEF TypeInv

\* The position an activity leaves behind, whose message is cleared.
LEMMA ClearedPosition ==
  ASSUME TypeInv, NEW i \in Ids, pc[i] # "absent"
  PROVE  [cur EXCEPT ![i].msg = Nil, ![i].n = 0] \in [Ids -> Position \cup {Nil}]
         /\ \A j \in Ids : pc[j] # "absent" =>
              [cur EXCEPT ![i].msg = Nil, ![i].n = 0][j] \in Position
<1>1. cur[i] \in Position
  BY DEF TypeInv, WellFormed
<1>2. [cur[i] EXCEPT !.msg = Nil, !.n = 0] \in Position
  BY <1>1 DEF Position, Msg
<1>3. [cur EXCEPT ![i].msg = Nil, ![i].n = 0] =
      [cur EXCEPT ![i] = [cur[i] EXCEPT !.msg = Nil, !.n = 0]]
  BY <1>1 DEF TypeInv, TypeOK
<1> HIDE DEF Position
<1> QED
  BY <1>2, <1>3 DEF TypeInv, TypeOK, WellFormed

LEMMA TypeInvRunActivity ==
  ASSUME TypeInv, NEW i \in Ids, RunActivity(i)
  PROVE  TypeInv'
<1>1. cur[i] \in Position /\ pc[i] = "activity"
  BY DEF TypeInv, WellFormed, RunActivity
<1>2. PICK a \in Outcomes(i, cur[i].key, cur[i].input, cur[i].msg) : Process(i, a)
  BY DEF RunActivity
<1>3. a \in Attempt
  BY <1>1, <1>2, OutcomesType DEF TypeInv, TypeOK, Position
<1>4. /\ pc' = [pc EXCEPT ![i] = "effects"]
      /\ pc' \in [Ids -> PcType]
      /\ out' \in [Ids -> Attempt \cup {Nil}]
      /\ queries' \in [Ids -> [Names -> Value]]
      /\ starting' \in [Ids -> Seq(ChildStart)]
      /\ eff' \in [Ids -> Nat]
      /\ \A j \in Ids : pc'[j] \in Working => out'[j] \in Attempt
      /\ \A j \in Ids : pc'[j] = "absent" => queries'[j] = queries[j]
  BY <1>1, <1>2, <1>3, ProcessType
<1>5. /\ cur' = [cur EXCEPT ![i].msg = Nil, ![i].n = 0]
      /\ UNCHANGED <<now, since, serving, pending, updates, runs, final, clientVars, signalVars>>
  BY DEF RunActivity
<1>6. cur' \in [Ids -> Position \cup {Nil}] /\ \A j \in Ids : pc[j] # "absent" => cur'[j] \in Position
  BY <1>1, <1>5, ClearedPosition
<1>7. TypeOK'
  BY <1>4, <1>5, <1>6 DEF TypeInv, TypeOK, PcType, clientVars, signalVars
<1>8. WellFormed'
  BY <1>1, <1>4, <1>5, <1>6 DEF TypeInv, TypeOK, WellFormed, clientVars, signalVars
<1> QED
  BY <1>7, <1>8 DEF TypeInv

\* A run that closes, with the position it leaves.
LEMMA TypeInvClose ==
  ASSUME TypeInv, NEW i \in Ids, pc[i] \in {"activity", "effects"},
         NEW ok \in BOOLEAN, NEW v \in Value, CloseRun(i, ok, v),
         cur' = cur \/ cur' = [cur EXCEPT ![i].msg = Nil, ![i].n = 0],
         UNCHANGED <<now, out, eff, since, serving, updates, queries, runs, starting, cop, ops,
                     signalVars>>
  PROVE  TypeInv'
<1>1. /\ pc' = [pc EXCEPT ![i] = IF ok THEN "done" ELSE "failed"]
      /\ pc' \in [Ids -> PcType]
      /\ final' \in [Ids -> Response]
      /\ pending' \in [Ids -> Seq(PendingCall)]
      /\ resp' \in [Clients -> Seq(Response)]
      /\ got' \in [Clients -> Response]
      /\ cpc' \in [Clients -> {"idle", "calling", "awaiting", "getting"}]
      /\ \A c \in Clients : cpc'[c] = cpc[c] \/ cpc'[c] = "idle"
  BY CloseRunType
<1>2. cur' \in [Ids -> Position \cup {Nil}] /\ \A j \in Ids : pc[j] # "absent" => cur'[j] \in Position
  <2>1. CASE cur' = cur
    BY <2>1 DEF TypeInv, TypeOK, WellFormed
  <2>2. CASE cur' = [cur EXCEPT ![i].msg = Nil, ![i].n = 0]
    BY <2>2, ClearedPosition
  <2> QED
    BY <2>1, <2>2
<1>3. TypeOK'
  BY <1>1, <1>2 DEF TypeInv, TypeOK, PcType, signalVars
<1>4. WellFormed'
  BY <1>1, <1>2 DEF TypeInv, TypeOK, WellFormed, Working, signalVars
<1> QED
  BY <1>3, <1>4 DEF TypeInv

LEMMA TypeInvCloses ==
  ASSUME TypeInv, NEW i \in Ids, ActivityFails(i) \/ Complete(i) \/ FailWithoutCases(i)
  PROVE  TypeInv'
<1>1. Nil \in Value
  BY DEF Value
<1>2. CASE ActivityFails(i)
  BY <1>1, <1>2, TypeInvClose DEF ActivityFails
<1>3. CASE Complete(i)
  <2>1. out[i] \in Attempt
    BY <1>3 DEF Complete, TypeInv, WellFormed, Working
  <2>2. out[i].result \in Value
    BY <2>1 DEF Attempt
  <2> QED
    BY <1>3, <2>2, TypeInvClose DEF Complete
<1>4. CASE FailWithoutCases(i)
  BY <1>1, <1>4, TypeInvClose DEF FailWithoutCases
<1> QED
  BY <1>2, <1>3, <1>4

LEMMA TypeInvStartChild ==
  ASSUME TypeInv, NEW i \in Ids, StartChild(i)
  PROVE  TypeInv'
<1>1. PICK p \in DOMAIN starting[i] :
        LET s == starting[i][p]
        IN  /\ starting' = [starting EXCEPT ![i] = Without(@, p)]
            /\ IF Running(s.id) THEN UNCHANGED <<pc, cur, queries, signals, updates, runs>>
               ELSE BeginRun(s.id, s.key, s.input, NoQueries)
            /\ UNCHANGED <<now, out, eff, since, serving, pending, final, clientVars,
                           accepted, consumed>>
  BY DEF StartChild
<1> DEFINE s == starting[i][p]
<1>2. s.id \in Ids /\ s.key \in Keys /\ s.input \in Inputs
  <2>1. starting[i] \in Seq(ChildStart)
    BY DEF TypeInv, TypeOK
  <2>2. s \in ChildStart
    BY <2>1, LenProperties, ElementOfSeq
  <2> QED
    BY <2>2 DEF ChildStart
<1>3. starting' \in [Ids -> Seq(ChildStart)]
  <2>1. Without(starting[i], p) \in Seq(ChildStart)
    BY WithoutType DEF TypeInv, TypeOK
  <2> QED
    BY <1>1, <2>1 DEF TypeInv, TypeOK
<1> HIDE DEF s
<1>4. CASE Running(s.id)
  <2>1. UNCHANGED <<pc, cur, queries, signals, updates, runs>>
    BY <1>1, <1>4 DEF s
  <2> QED
    BY <1>1, <1>3, <2>1 DEF TypeInv, TypeOK, WellFormed, clientVars
<1>5. CASE ~ Running(s.id)
  <2>1. BeginRun(s.id, s.key, s.input, NoQueries)
    BY <1>1, <1>5 DEF s
  <2>2. NoQueries \in [Names -> Value]
    BY DEF NoQueries, Value
  <2>3. /\ pc' \in [Ids -> PcType]
        /\ cur' \in [Ids -> Position \cup {Nil}]
        /\ queries' \in [Ids -> [Names -> Value]]
        /\ signals' \in [Ids -> [Keys -> Seq(Envelope)]]
        /\ updates' \in [Ids -> [Keys -> Inputs \cup {Nil}]]
        /\ runs' \in [Ids -> Nat]
        /\ pc'[s.id] = "activity"
        /\ \A j \in Ids : pc'[j] # "absent" => cur'[j] \in Position
        /\ \A j \in Ids : j # s.id => /\ pc'[j] = pc[j] /\ signals'[j] = signals[j]
                                      /\ queries'[j] = queries[j]
    BY <1>2, <2>1, <2>2, BeginRunType
  <2>4. pc[s.id] # "call"
    BY <1>5 DEF Running, Closed
  <2>5. TypeOK'
    BY <1>1, <1>3, <2>3 DEF TypeInv, TypeOK, PcType, clientVars
  <2>6. WellFormed'
    BY <1>1, <1>2, <2>3, <2>4 DEF TypeInv, WellFormed, Working, clientVars
  <2> QED
    BY <2>5, <2>6 DEF TypeInv
<1> QED
  BY <1>4, <1>5

LEMMA TypeInvForgetChild ==
  ASSUME TypeInv, NEW i \in Ids, ForgetChild(i)
  PROVE  TypeInv'
<1>1. PICK p \in DOMAIN starting[i] : starting' = [starting EXCEPT ![i] = Without(@, p)]
  BY DEF ForgetChild
<1>2. Without(starting[i], p) \in Seq(ChildStart)
  BY WithoutType DEF TypeInv, TypeOK
<1>3. starting' \in [Ids -> Seq(ChildStart)]
  BY <1>1, <1>2 DEF TypeInv, TypeOK
<1> QED
  BY <1>3 DEF ForgetChild, TypeInv, TypeOK, WellFormed, instVars, clientVars, signalVars

LEMMA NextSend ==
  ASSUME TypeInv, NEW i \in Ids, pc[i] = "effects", ~ Sent(i)
  PROVE  Sends(i)[eff[i] + 1] \in SendRequest
<1>1. Sends(i) \in Seq(SendRequest)
  BY DEF TypeInv, WellFormed, Working, Sends, Attempt
<1>2. eff[i] + 1 \in 1..Len(Sends(i))
  BY <1>1 DEF Sent, TypeInv, TypeOK
<1> QED
  BY <1>1, <1>2

LEMMA TypeInvDeliverSend ==
  ASSUME TypeInv, NEW i \in Ids, DeliverSend(i)
  PROVE  TypeInv'
<1> DEFINE s == Sends(i)[eff[i] + 1]
<1>1. s.id \in Ids /\ s.key \in Keys /\ s.msg \in Messages
  BY NextSend DEF DeliverSend, SendRequest
<1>2. SignalEffect
  <2>1. CASE Running(s.id)
    BY <1>1, <2>1, SignalType DEF DeliverSend
  <2>2. CASE ~ Running(s.id)
    <3>1. UNCHANGED <<pc, cur, signalVars>>
      BY <2>2 DEF DeliverSend
    <3> QED
      BY <3>1 DEF SignalEffect, signalVars, TypeInv, TypeOK, WellFormed, PcType
  <2> QED
    BY <2>1, <2>2
<1> HIDE DEF s
<1>3. eff' \in [Ids -> Nat] /\ UNCHANGED <<now, out, since, serving, pending, updates, queries, runs,
                                           final, starting, clientVars>>
  BY DEF DeliverSend, TypeInv, TypeOK
<1>4. TypeOK'
  BY <1>2, <1>3 DEF SignalEffect, TypeInv, TypeOK, PcType, clientVars
<1>5. WellFormed'
  BY <1>2, <1>3 DEF SignalEffect, TypeInv, TypeOK, WellFormed, Working, clientVars
<1> QED
  BY <1>4, <1>5 DEF TypeInv

LEMMA TypeInvContinueAtOnce ==
  ASSUME TypeInv, NEW i \in Ids, ContinueAtOnce(i)
  PROVE  TypeInv'
<1>1. pc[i] = "effects" /\ Fire(i, 1, Nil, 0) /\ Len(Cases(i)) = 1
  BY DEF ContinueAtOnce, SoleImmediate
<1>2. 1 \in DOMAIN Cases(i) /\ Nil \in Msg /\ 0 \in Nat
  BY <1>1, CaseTypes DEF Working, Msg
<1>3. /\ pc' = [pc EXCEPT ![i] = "can"]
      /\ cur' \in [Ids -> Position \cup {Nil}]
      /\ \A j \in Ids : pc'[j] # "absent" => cur'[j] \in Position
  BY <1>1, <1>2, FireType
<1> QED
  BY <1>1, <1>3 DEF ContinueAtOnce, TypeInv, TypeOK, WellFormed, Working, clientVars, signalVars

LEMMA TypeInvTimerFires ==
  ASSUME TypeInv, NEW i \in Ids, TimerFires(i)
  PROVE  TypeInv'
<1>1. PICK n \in CasesOf(i, "after") : Fire(i, n, Nil, 0)
  BY DEF TimerFires
<1>2. n \in DOMAIN Cases(i) /\ Nil \in Msg /\ 0 \in Nat /\ pc[i] = "select"
  BY DEF CasesOf, Msg, TimerFires
<1>3. /\ pc' = [pc EXCEPT ![i] = "can"]
      /\ cur' \in [Ids -> Position \cup {Nil}]
      /\ \A j \in Ids : pc'[j] # "absent" => cur'[j] \in Position
  BY <1>1, <1>2, FireType
<1> QED
  BY <1>2, <1>3 DEF TimerFires, TypeInv, TypeOK, WellFormed, Working, clientVars, signalVars

\* How the Selector leaves its first look at what is ready: a case fires, with
\* or without a signal, or it blocks.
LEMMA TakeReadyCaseSplit ==
  ASSUME TypeInv, NEW i \in Ids, pc[i] = "effects", TakeReadyCase(i)
  PROVE  \/ \E n \in DOMAIN Cases(i) : Fire(i, n, Nil, 0) /\ UNCHANGED signalVars
         \/ \E n \in Ready(i) :
              LET k == Cases(i)[n].key
                  e == Head(signals[i][k])
              IN  /\ Fire(i, n, e.msg, e.n)
                  /\ signals' = [signals EXCEPT ![i][k] = Tail(@)]
                  /\ consumed' = [consumed EXCEPT ![i] = Append(@, e)]
                  /\ UNCHANGED accepted
         \/ pc' = [pc EXCEPT ![i] = "select"] /\ Ready(i) = {} /\ UNCHANGED <<cur, signalVars>>
<1> DEFINE due == {n \in CasesOf(i, "after") : Cases(i)[n].dur = 0}
           defaults == CasesOf(i, "immediate")
<1>1. due \subseteq DOMAIN Cases(i) /\ defaults \subseteq DOMAIN Cases(i)
      /\ Ready(i) \subseteq DOMAIN Cases(i)
  BY DEF CasesOf, Ready
<1>2. CASE due # {}
  <2>1. First(due) \in DOMAIN Cases(i)
    BY <1>1, <1>2, ChosenCase DEF Working
  <2>2. Fire(i, First(due), Nil, 0) /\ UNCHANGED signalVars
    BY <1>2 DEF TakeReadyCase
  <2> QED
    BY <2>1, <2>2
<1>3. CASE due = {} /\ Ready(i) # {}
  <2>1. First(Ready(i)) \in Ready(i)
    BY <1>1, <1>3, ChosenCase DEF Working
  <2>2. LET k == Cases(i)[First(Ready(i))].key
            e == Head(signals[i][k])
        IN  /\ Fire(i, First(Ready(i)), e.msg, e.n)
            /\ signals' = [signals EXCEPT ![i][k] = Tail(@)]
            /\ consumed' = [consumed EXCEPT ![i] = Append(@, e)]
            /\ UNCHANGED accepted
    BY <1>3 DEF TakeReadyCase
  <2> QED
    BY <2>1, <2>2
<1>4. CASE due = {} /\ Ready(i) = {} /\ defaults # {}
  <2>1. Last(defaults) \in DOMAIN Cases(i)
    BY <1>1, <1>4, ChosenCase DEF Working
  <2>2. Fire(i, Last(defaults), Nil, 0) /\ UNCHANGED signalVars
    BY <1>4 DEF TakeReadyCase
  <2> QED
    BY <2>1, <2>2
<1>5. CASE due = {} /\ Ready(i) = {} /\ defaults = {}
  BY <1>5 DEF TakeReadyCase
<1> QED
  BY <1>2, <1>3, <1>4, <1>5

LEMMA RegisterType ==
  ASSUME TypeInv, NEW i \in Ids, pc[i] = "effects"
  PROVE  Register(i) \in [Keys -> Inputs \cup {Nil}]
<1>1. ASSUME NEW k \in Keys
      PROVE  Register(i)[k] \in Inputs \cup {Nil}
  <2> DEFINE calls == {n \in CasesOf(i, "call") : Cases(i)[n].key = k}
  <2>1. CASE calls = {}
    BY <2>1 DEF Register, TypeInv, TypeOK
  <2>2. CASE calls # {}
    <3>1. Last(calls) \in DOMAIN Cases(i)
      BY <2>2, ChosenCase DEF CasesOf, Working
    <3>2. Cases(i)[Last(calls)].input \in Inputs
      BY <3>1, CaseTypes DEF Working, Case
    <3> QED
      BY <2>2, <3>2 DEF Register
  <2> QED
    BY <2>1, <2>2
<1>2. Register(i) = [k \in Keys |-> Register(i)[k]]
  BY DEF Register
<1> QED
  BY <1>1, <1>2

LEMMA TypeInvEnterSelect ==
  ASSUME TypeInv, NEW i \in Ids, EnterSelect(i)
  PROVE  TypeInv'
<1>1. /\ pc[i] = "effects"
      /\ updates' = [updates EXCEPT ![i] = Register(i)]
      /\ since' = [since EXCEPT ![i] = now]
      /\ TakeReadyCase(i)
      /\ UNCHANGED <<now, out, eff, serving, pending, queries, runs, final, starting, clientVars>>
  BY DEF EnterSelect
<1>2. updates' \in [Ids -> [Keys -> Inputs \cup {Nil}]] /\ since' \in [Ids -> Time]
  BY <1>1, RegisterType DEF TypeInv, TypeOK
<1>3. /\ pc' \in [Ids -> PcType]
      /\ cur' \in [Ids -> Position \cup {Nil}]
      /\ signals' \in [Ids -> [Keys -> Seq(Envelope)]]
      /\ accepted' \in [Ids -> Nat]
      /\ consumed' \in [Ids -> Seq(Envelope)]
      /\ \A j \in Ids : pc'[j] # "absent" => cur'[j] \in Position
      /\ pc'[i] \in {"can", "select"}
      /\ \A j \in Ids : j # i => pc'[j] = pc[j] /\ signals'[j] = signals[j]
  <2>1. CASE \E n \in DOMAIN Cases(i) : Fire(i, n, Nil, 0) /\ UNCHANGED signalVars
    <3>1. Nil \in Msg /\ 0 \in Nat
      BY DEF Msg
    <3> QED
      BY <1>1, <2>1, <3>1, FireType DEF signalVars, TypeInv, TypeOK, PcType
  <2>2. CASE \E n \in Ready(i) :
              LET k == Cases(i)[n].key
                  e == Head(signals[i][k])
              IN  /\ Fire(i, n, e.msg, e.n)
                  /\ signals' = [signals EXCEPT ![i][k] = Tail(@)]
                  /\ consumed' = [consumed EXCEPT ![i] = Append(@, e)]
                  /\ UNCHANGED accepted
    <3>1. PICK n \in Ready(i) :
              LET k == Cases(i)[n].key
                  e == Head(signals[i][k])
              IN  /\ Fire(i, n, e.msg, e.n)
                  /\ signals' = [signals EXCEPT ![i][k] = Tail(@)]
                  /\ consumed' = [consumed EXCEPT ![i] = Append(@, e)]
                  /\ UNCHANGED accepted
      BY <2>2
    <3> DEFINE k == Cases(i)[n].key
               e == Head(signals[i][k])
    <3>2. n \in DOMAIN Cases(i) /\ k \in Keys /\ signals[i][k] # <<>>
      BY <1>1, CaseTypes DEF Ready, CasesOf, Case, Working
    <3>3. e \in Envelope /\ Tail(signals[i][k]) \in Seq(Envelope)
      BY <3>2, SignalTypes
    <3>4. e.msg \in Msg /\ e.n \in Nat
      BY <3>3 DEF Envelope, Msg
    <3> HIDE DEF k, e
    <3>5. /\ pc' = [pc EXCEPT ![i] = "can"]
          /\ cur' \in [Ids -> Position \cup {Nil}]
          /\ \A j \in Ids : pc'[j] # "absent" => cur'[j] \in Position
      BY <1>1, <3>1, <3>2, <3>4, FireType DEF k, e
    <3>6. signals' = [signals EXCEPT ![i][k] = Tail(signals[i][k])]
          /\ consumed' = [consumed EXCEPT ![i] = Append(@, e)]
      BY <3>1, <3>2 DEF k, e, TypeInv, TypeOK
    <3>7. signals' \in [Ids -> [Keys -> Seq(Envelope)]] /\ consumed' \in [Ids -> Seq(Envelope)]
      BY <3>2, <3>3, <3>6 DEF TypeInv, TypeOK
    <3> QED
      BY <3>1, <3>5, <3>6, <3>7 DEF TypeInv, TypeOK, PcType
  <2>3. CASE pc' = [pc EXCEPT ![i] = "select"] /\ Ready(i) = {} /\ UNCHANGED <<cur, signalVars>>
    BY <1>1, <2>3 DEF signalVars, TypeInv, TypeOK, WellFormed, PcType
  <2> QED
    BY <1>1, <2>1, <2>2, <2>3, TakeReadyCaseSplit
<1>4. TypeOK'
  BY <1>1, <1>2, <1>3 DEF TypeInv, TypeOK, PcType, clientVars
<1>5. WellFormed'
  BY <1>1, <1>3 DEF TypeInv, TypeOK, WellFormed, Working, clientVars
<1> QED
  BY <1>4, <1>5 DEF TypeInv

LEMMA RespondType ==
  ASSUME TypeInv, NEW c, NEW a \in Attempt, Respond(c, a.ok, a.resp)
  PROVE  resp' \in [Clients -> Seq(Response)]
<1>1. [ok |-> a.ok, value |-> a.resp] \in Response
  BY DEF Attempt, Response
<1>2. c \in Clients => Append(resp[c], [ok |-> a.ok, value |-> a.resp]) \in Seq(Response)
  BY <1>1 DEF TypeInv, TypeOK
<1> QED
  BY <1>2 DEF Respond, TypeInv, TypeOK

LEMMA TypeInvRunCall ==
  ASSUME TypeInv, NEW i \in Ids, RunCall(i)
  PROVE  TypeInv'
<1> DEFINE call == serving[i]
<1>1. pc[i] = "call" /\ call \in PendingCall /\ out[i] \in Attempt
  BY DEF RunCall, TypeInv, WellFormed, Working
<1>2. PICK a \in Outcomes(i, call.key, call.input, call.req) :
        /\ Respond(call.client, a.ok, a.resp)
        /\ Process(i, IF a.ok THEN a ELSE SameCases(i))
  BY DEF RunCall
<1>3. call.client \in Clients /\ call.key \in Keys /\ call.input \in Inputs /\ call.req \in Msg
  BY <1>1 DEF PendingCall, Msg
<1>4. a \in Attempt
  BY <1>2, <1>3, OutcomesType DEF TypeInv, TypeOK
<1>5. PICK b \in Attempt : Process(i, b)
  BY <1>1, <1>2, <1>4, SameCasesType
<1>6. resp' \in [Clients -> Seq(Response)]
  BY <1>2, <1>4, RespondType
<1>7. /\ pc' = [pc EXCEPT ![i] = "effects"]
      /\ pc' \in [Ids -> PcType]
      /\ out' \in [Ids -> Attempt \cup {Nil}]
      /\ queries' \in [Ids -> [Names -> Value]]
      /\ starting' \in [Ids -> Seq(ChildStart)]
      /\ eff' \in [Ids -> Nat]
      /\ \A j \in Ids : pc'[j] \in Working => out'[j] \in Attempt
      /\ \A j \in Ids : pc'[j] = "absent" => queries'[j] = queries[j]
  BY <1>1, <1>5, ProcessType
<1>8. /\ serving' = [serving EXCEPT ![i] = Nil]
      /\ UNCHANGED <<now, cur, since, pending, updates, runs, final, cpc, cop, ops, got, signalVars>>
  BY DEF RunCall
<1>9. TypeOK'
  BY <1>6, <1>7, <1>8 DEF TypeInv, TypeOK, PcType, signalVars
<1>10. WellFormed'
  BY <1>1, <1>7, <1>8 DEF TypeInv, TypeOK, WellFormed, signalVars
<1> QED
  BY <1>9, <1>10 DEF TypeInv

\* The calls that wait are pending calls.
LEMMA PendingTypes ==
  ASSUME TypeInv, NEW i \in Ids, pending[i] # <<>>
  PROVE  /\ Head(pending[i]) \in PendingCall /\ Tail(pending[i]) \in Seq(PendingCall)
         /\ Head(pending[i]).client \in Clients /\ Head(pending[i]).key \in Keys
         /\ Head(pending[i]).input \in Inputs /\ Head(pending[i]).req \in Msg
<1>1. Head(pending[i]) \in PendingCall /\ Tail(pending[i]) \in Seq(PendingCall)
  BY DEF TypeInv, TypeOK
<1> QED
  BY <1>1 DEF PendingCall, Msg

LEMMA TypeInvDrainCall ==
  ASSUME TypeInv, NEW i \in Ids, DrainCall(i)
  PROVE  TypeInv'
<1> DEFINE call == Head(pending[i])
<1>1. /\ call \in PendingCall /\ Tail(pending[i]) \in Seq(PendingCall)
      /\ call.client \in Clients /\ call.key \in Keys /\ call.input \in Inputs /\ call.req \in Msg
  BY PendingTypes DEF DrainCall
<1>2. PICK a \in Ends(i, call.key, call.input, call.req) :
        /\ Respond(call.client, a.ok, a.resp)
        /\ IF a.ok /\ a.cases # <<>>
           THEN cur' = [cur EXCEPT ![i].key = a.cases[1].key, ![i].input = a.cases[1].input]
           ELSE UNCHANGED cur
  BY DEF DrainCall
<1>3. a \in Attempt
  BY <1>1, <1>2, EndsType DEF TypeInv, TypeOK
<1>4. resp' \in [Clients -> Seq(Response)]
  BY <1>2, <1>3, RespondType
<1>5. /\ pc[i] = "drain" /\ pending' = [pending EXCEPT ![i] = Tail(@)]
      /\ UNCHANGED <<now, pc, out, eff, since, serving, updates, queries, runs, final, starting,
                     cpc, cop, ops, got, signalVars>>
  BY DEF DrainCall
<1> HIDE DEF call
<1>6. cur' \in [Ids -> Position \cup {Nil}] /\ \A j \in Ids : pc[j] # "absent" => cur'[j] \in Position
  <2>1. CASE cur' = cur
    BY <2>1 DEF TypeInv, TypeOK, WellFormed
  <2>2. CASE a.cases # <<>> /\ cur' = [cur EXCEPT ![i].key = a.cases[1].key, ![i].input = a.cases[1].input]
    <3>1. a.cases[1] \in Case
      BY <1>3, <2>2 DEF Attempt
    <3>2. a.cases[1].key \in Keys /\ a.cases[1].input \in Inputs
      BY <3>1 DEF Case
    <3>3. cur[i] \in Position
      BY <1>5 DEF TypeInv, WellFormed
    <3>4. [cur[i] EXCEPT !.key = a.cases[1].key, !.input = a.cases[1].input] \in Position
      BY <3>2, <3>3 DEF Position
    <3>5. cur' = [cur EXCEPT ![i] = [cur[i] EXCEPT !.key = a.cases[1].key, !.input = a.cases[1].input]]
      BY <2>2 DEF TypeInv, TypeOK
    <3> HIDE DEF Position
    <3> QED
      BY <3>4, <3>5 DEF TypeInv, TypeOK, WellFormed
  <2> QED
    BY <1>2, <2>1, <2>2
<1>7. TypeOK'
  BY <1>1, <1>4, <1>5, <1>6 DEF TypeInv, TypeOK, signalVars
<1>8. WellFormed'
  BY <1>5, <1>6 DEF TypeInv, TypeOK, WellFormed, signalVars
<1> QED
  BY <1>7, <1>8 DEF TypeInv

LEMMA TypeInvContinueAsNew ==
  ASSUME TypeInv, NEW i \in Ids, ContinueAsNew(i)
  PROVE  TypeInv'
<1>1. cur[i] \in Position /\ pc[i] = "drain"
  BY DEF ContinueAsNew, TypeInv, WellFormed
<1>2. cur[i].key \in Keys /\ cur[i].input \in Inputs /\ queries[i] \in [Names -> Value]
  BY <1>1 DEF Position, TypeInv, TypeOK
<1>3. /\ BeginRun(i, cur[i].key, cur[i].input, queries[i])
      /\ UNCHANGED <<now, out, eff, since, serving, pending, final, starting, clientVars,
                     accepted, consumed>>
  BY DEF ContinueAsNew
<1>4. /\ pc' \in [Ids -> PcType]
      /\ cur' \in [Ids -> Position \cup {Nil}]
      /\ queries' \in [Ids -> [Names -> Value]]
      /\ signals' \in [Ids -> [Keys -> Seq(Envelope)]]
      /\ updates' \in [Ids -> [Keys -> Inputs \cup {Nil}]]
      /\ runs' \in [Ids -> Nat]
      /\ pc'[i] = "activity"
      /\ \A j \in Ids : pc'[j] # "absent" => cur'[j] \in Position
      /\ \A j \in Ids : j # i => /\ pc'[j] = pc[j] /\ signals'[j] = signals[j]
                                 /\ queries'[j] = queries[j]
  BY <1>2, <1>3, BeginRunType
<1>5. TypeOK'
  BY <1>3, <1>4 DEF TypeInv, TypeOK, PcType, clientVars
<1>6. WellFormed'
  BY <1>1, <1>3, <1>4 DEF TypeInv, WellFormed, Working, clientVars
<1> QED
  BY <1>5, <1>6 DEF TypeInv

LEMMA TypeInvMoves ==
  ASSUME TypeInv, NEW i \in Ids, Proceed(i) \/ SuggestContinueAsNew(i)
  PROVE  TypeInv'
BY DEF Proceed, SuggestContinueAsNew, TypeInv, TypeOK, WellFormed, Working, clientVars, signalVars

-----------------------------------------------------------------------------
(* Type correctness, the clients' steps.                                   *)

LEMMA AcceptedOp ==
  ASSUME TypeInv, NEW c \in Clients, cpc[c] = "calling"
  PROVE  cop[c].id \in Ids /\ cop[c].key \in Keys /\ cop[c].arg \in Messages
BY DEF TypeInv, WellFormed, Op

\* The queue that an accepted update extends.
LEMMA ExtendedQueue ==
  ASSUME TypeInv, NEW c \in Clients, NEW i \in Ids, NEW k \in Keys, NEW m \in Messages,
         updates[i][k] # Nil
  PROVE  LET queue == Append(pending[i], [client |-> c, key |-> k, req |-> m, input |-> updates[i][k]])
         IN  /\ queue \in Seq(PendingCall)
             /\ Head(queue) \in PendingCall
             /\ Tail(queue) \in Seq(PendingCall)
<1> DEFINE e == [client |-> c, key |-> k, req |-> m, input |-> updates[i][k]]
           queue == Append(pending[i], e)
<1>1. e \in PendingCall
  BY DEF TypeInv, TypeOK, PendingCall
<1>2. pending[i] \in Seq(PendingCall)
  BY DEF TypeInv, TypeOK
<1> HIDE DEF e
<1>3. queue \in Seq(PendingCall) /\ queue # <<>>
  BY <1>1, <1>2, AppendProperties
<1> HIDE DEF queue
<1>4. Head(queue) \in PendingCall /\ Tail(queue) \in Seq(PendingCall)
  BY <1>3
<1> QED
  BY <1>3, <1>4 DEF queue, e

LEMMA TypeInvAcceptUpdate ==
  ASSUME TypeInv, NEW c \in Clients, AcceptUpdate(c)
  PROVE  TypeInv'
<1> DEFINE i == cop[c].id
           k == cop[c].key
           queue == Append(pending[i], [client |-> c, key |-> k, req |-> cop[c].arg, input |-> updates[i][k]])
<1>1. /\ cpc[c] = "calling" /\ Running(i) /\ updates[i][k] # Nil
      /\ cpc' = [cpc EXCEPT ![c] = "awaiting"]
      /\ IF Listening(i)
         THEN /\ serving' = [serving EXCEPT ![i] = Head(queue)]
              /\ pending' = [pending EXCEPT ![i] = Tail(queue)]
              /\ pc' = [pc EXCEPT ![i] = "call"]
         ELSE /\ pending' = [pending EXCEPT ![i] = queue]
              /\ UNCHANGED <<serving, pc>>
      /\ UNCHANGED <<now, cur, out, eff, since, updates, queries, runs, final, starting,
                     cop, ops, resp, got, signalVars>>
  BY DEF AcceptUpdate
<1>2. i \in Ids /\ k \in Keys /\ cop[c].arg \in Messages
  BY <1>1, AcceptedOp
<1>3. queue \in Seq(PendingCall) /\ Head(queue) \in PendingCall /\ Tail(queue) \in Seq(PendingCall)
  BY <1>1, <1>2, ExtendedQueue
<1> HIDE DEF i, k, queue
<1>4. cpc' \in [Clients -> {"idle", "calling", "awaiting", "getting"}]
  BY <1>1 DEF TypeInv, TypeOK
<1>5. CASE Listening(i)
  <2>1. pc[i] = "select"
    BY <1>5 DEF Listening
  <2>2. /\ pc' \in [Ids -> PcType]
        /\ serving' \in [Ids -> PendingCall \cup {Nil}]
        /\ pending' \in [Ids -> Seq(PendingCall)]
    BY <1>1, <1>2, <1>3, <1>5, ZenonT(30) DEF TypeInv, TypeOK, PcType
  <2>3. TypeOK'
    BY <1>1, <1>4, <2>2 DEF TypeInv, TypeOK, PcType, signalVars
  <2>4. WellFormed'
    BY <1>1, <1>2, <1>3, <1>5, <2>1, ZenonT(30) DEF TypeInv, TypeOK, WellFormed, Working, signalVars
  <2> QED
    BY <2>3, <2>4 DEF TypeInv
<1>6. CASE ~ Listening(i)
  <2>1. TypeOK'
    BY <1>1, <1>2, <1>3, <1>4, <1>6, ZenonT(30) DEF TypeInv, TypeOK, signalVars
  <2>2. WellFormed'
    BY <1>1, <1>6 DEF TypeInv, TypeOK, WellFormed, signalVars
  <2> QED
    BY <2>1, <2>2 DEF TypeInv
<1> QED
  BY <1>5, <1>6

LEMMA TypeInvAnswered ==
  ASSUME TypeInv, NEW c \in Clients, RejectUpdate(c) \/ ClientCallReturn(c)
  PROVE  TypeInv'
<1> USE DEF instVars, signalVars
<1>1. CASE RejectUpdate(c)
  <2>1. got' \in [Clients -> Response]
    BY <1>1 DEF RejectUpdate, GotBack, Response, Value, TypeInv, TypeOK
  <2> QED
    BY <1>1, <2>1 DEF RejectUpdate, TypeInv, TypeOK, WellFormed
<1>2. CASE ClientCallReturn(c)
  <2>1. Head(resp[c]) \in Response /\ Tail(resp[c]) \in Seq(Response)
    BY <1>2 DEF ClientCallReturn, TypeInv, TypeOK
  <2>2. got' \in [Clients -> Response]
    BY <1>2, <2>1 DEF ClientCallReturn, GotBack, Response, TypeInv, TypeOK
  <2>3. resp' \in [Clients -> Seq(Response)]
    BY <1>2, <2>1 DEF ClientCallReturn, TypeInv, TypeOK
  <2> QED
    BY <1>2, <2>2, <2>3 DEF ClientCallReturn, TypeInv, TypeOK, WellFormed
<1> QED
  BY <1>1, <1>2

LEMMA ChooseType ==
  ASSUME TypeInv, NEW c \in Clients, NEW o \in Op, Choose(c, o)
  PROVE  /\ ops' \in [Clients -> Nat]
         /\ cop' \in [Clients -> Op \cup {Nil}]
         /\ cop'[c] = o
         /\ \A d \in Clients : d # c => cop'[d] = cop[d]
         /\ cpc[c] = "idle"
BY DEF Choose, TypeInv, TypeOK

LEMMA TypeInvGo ==
  ASSUME TypeInv, NEW c \in Clients, NEW o \in Op, o.arg \in Inputs, ClientGo(c, o)
  PROVE  TypeInv'
<1>1. o.id \in Ids /\ o.key \in Keys
  BY DEF Op
<1>2. got' \in [Clients -> Response]
  BY DEF ClientGo, GotBack, Response, Value, TypeInv, TypeOK
<1>3. /\ ops' \in [Clients -> Nat]
      /\ cop' \in [Clients -> Op \cup {Nil}]
      /\ cop'[c] = o
      /\ \A d \in Clients : d # c => cop'[d] = cop[d]
      /\ cpc[c] = "idle"
  BY ChooseType DEF ClientGo
<1>4. UNCHANGED <<now, out, eff, since, serving, pending, final, starting, cpc, resp, accepted, consumed>>
  BY DEF ClientGo
<1>5. CASE pc[o.id] \in {"absent", "failed"}
  <2>1. BeginRun(o.id, o.key, o.arg, NoQueries) /\ NoQueries \in [Names -> Value]
    BY <1>5 DEF ClientGo, NoQueries, Value
  <2>2. /\ pc' \in [Ids -> PcType]
        /\ cur' \in [Ids -> Position \cup {Nil}]
        /\ queries' \in [Ids -> [Names -> Value]]
        /\ signals' \in [Ids -> [Keys -> Seq(Envelope)]]
        /\ updates' \in [Ids -> [Keys -> Inputs \cup {Nil}]]
        /\ runs' \in [Ids -> Nat]
        /\ pc'[o.id] = "activity"
        /\ \A j \in Ids : pc'[j] # "absent" => cur'[j] \in Position
        /\ \A j \in Ids : j # o.id => /\ pc'[j] = pc[j] /\ signals'[j] = signals[j]
                                      /\ queries'[j] = queries[j]
    BY <1>1, <2>1, BeginRunType
  <2>3. TypeOK'
    BY <1>2, <1>3, <1>4, <2>2 DEF TypeInv, TypeOK, PcType
  <2>4. WellFormed'
    BY <1>1, <1>3, <1>4, <1>5, <2>2, ZenonT(30) DEF TypeInv, WellFormed, Working
  <2> QED
    BY <2>3, <2>4 DEF TypeInv
<1>6. CASE pc[o.id] \notin {"absent", "failed"}
  <2>1. UNCHANGED <<pc, cur, queries, signals, updates, runs>>
    BY <1>6 DEF ClientGo
  <2> QED
    BY <1>2, <1>3, <1>4, <2>1 DEF TypeInv, TypeOK, WellFormed
<1> QED
  BY <1>5, <1>6

LEMMA TypeInvSend ==
  ASSUME TypeInv, NEW c \in Clients, NEW o \in Op, o.arg \in Messages, ClientSend(c, o)
  PROVE  TypeInv'
<1>1. o.id \in Ids /\ o.key \in Keys
  BY DEF Op
<1>2. got' \in [Clients -> Response]
  BY DEF ClientSend, GotBack, Response, Value, Running, Closed, TypeInv, TypeOK
<1>3. /\ ops' \in [Clients -> Nat]
      /\ cop' \in [Clients -> Op \cup {Nil}]
      /\ cop'[c] = o
      /\ \A d \in Clients : d # c => cop'[d] = cop[d]
      /\ cpc[c] = "idle"
  BY ChooseType DEF ClientSend
<1>4. UNCHANGED <<now, out, eff, since, serving, pending, updates, queries, runs, final, starting,
                  cpc, resp>>
  BY DEF ClientSend
<1>5. SignalEffect
  <2>1. CASE Running(o.id)
    BY <1>1, <2>1, SignalType DEF ClientSend
  <2>2. CASE ~ Running(o.id)
    <3>1. UNCHANGED <<pc, cur, signalVars>>
      BY <2>2 DEF ClientSend
    <3> QED
      BY <3>1 DEF SignalEffect, signalVars, TypeInv, TypeOK, WellFormed, PcType
  <2> QED
    BY <2>1, <2>2
<1>6. TypeOK'
  BY <1>2, <1>3, <1>4, <1>5 DEF SignalEffect, TypeInv, TypeOK, PcType
<1>7. WellFormed'
  BY <1>3, <1>4, <1>5 DEF SignalEffect, TypeInv, TypeOK, WellFormed, Working
<1> QED
  BY <1>6, <1>7 DEF TypeInv

LEMMA TypeInvAsk ==
  ASSUME TypeInv, NEW c \in Clients, NEW o \in Op,
         o.op = "call" => o.arg \in Messages, o.op = "query" => o.name \in Names,
         ClientCall(c, o) \/ ClientQuery(c, o) \/ ClientGet(c, o)
  PROVE  TypeInv'
<1> USE DEF instVars, signalVars
<1>1. o.id \in Ids /\ o.key \in Keys
  BY DEF Op
<1>2. /\ ops' \in [Clients -> Nat]
      /\ cop' \in [Clients -> Op \cup {Nil}]
      /\ cop'[c] = o
      /\ \A d \in Clients : d # c => cop'[d] = cop[d]
      /\ cpc[c] = "idle"
  BY ChooseType DEF ClientCall, ClientQuery, ClientGet
<1>3. CASE ClientCall(c, o)
  BY <1>2, <1>3 DEF ClientCall, TypeInv, TypeOK, WellFormed
<1>4. CASE ClientQuery(c, o)
  <2>1. queries[o.id][o.name] \in Value
    BY <1>1, <1>4 DEF ClientQuery, TypeInv, TypeOK
  <2>2. got' \in [Clients -> Response]
    BY <1>4, <2>1 DEF ClientQuery, GotBack, Response, TypeInv, TypeOK
  <2> QED
    BY <1>2, <1>4, <2>2 DEF ClientQuery, TypeInv, TypeOK, WellFormed
<1>5. CASE ClientGet(c, o)
  <2>1. final[o.id].value \in Value
    BY <1>1 DEF TypeInv, TypeOK, Response
  <2>2. got' \in [Clients -> Response]
    <3>1. [ok |-> pc[o.id] = "done", value |-> final[o.id].value] \in Response
      BY <2>1 DEF Response
    <3> QED
      BY <1>5, <3>1 DEF ClientGet, GotBack, TypeInv, TypeOK
  <2>3. /\ cpc' \in [Clients -> {"idle", "calling", "awaiting", "getting"}]
        /\ cpc'[c] # "calling" /\ \A d \in Clients : d # c => cpc'[d] = cpc[d]
    BY <1>2, <1>5, ChooseType, ZenonT(30) DEF ClientGet, TypeInv, TypeOK
  <2> QED
    BY <1>2, <1>5, <2>2, <2>3 DEF ClientGet, TypeInv, TypeOK, WellFormed
<1> QED
  BY <1>3, <1>4, <1>5

\* A client's step, with what ClientAssumption says of its operation.
LEMMA InvokeOp ==
  ASSUME NEW c \in Clients, Invoke(c)
  PROVE  \E o \in Op :
           /\ o.op = "go" => o.arg \in Inputs
           /\ o.op \in {"send", "call"} => o.arg \in Messages
           /\ o.op = "query" => o.name \in Names
           /\ ClientGo(c, o) \/ ClientSend(c, o) \/ ClientCall(c, o) \/ ClientQuery(c, o)
              \/ ClientGet(c, o)
<1>1. PICK n \in 1..MaxOps : \E o \in Script(c, n) :
        ClientGo(c, o) \/ ClientSend(c, o) \/ ClientCall(c, o) \/ ClientQuery(c, o) \/ ClientGet(c, o)
  BY DEF Invoke
<1>2. PICK o \in Script(c, n) :
        ClientGo(c, o) \/ ClientSend(c, o) \/ ClientCall(c, o) \/ ClientQuery(c, o) \/ ClientGet(c, o)
  BY <1>1
<1>3. /\ o \in Op
      /\ o.op = "go" => o.arg \in Inputs
      /\ o.op \in {"send", "call"} => o.arg \in Messages
      /\ o.op = "query" => o.name \in Names
  BY ClientAssumption
<1> QED
  BY <1>2, <1>3

LEMMA TypeInvInvoke ==
  ASSUME TypeInv, NEW c \in Clients, Invoke(c)
  PROVE  TypeInv'
<1>1. PICK o \in Op :
           /\ o.op = "go" => o.arg \in Inputs
           /\ o.op \in {"send", "call"} => o.arg \in Messages
           /\ o.op = "query" => o.name \in Names
           /\ ClientGo(c, o) \/ ClientSend(c, o) \/ ClientCall(c, o) \/ ClientQuery(c, o)
              \/ ClientGet(c, o)
  BY InvokeOp
<1>2. CASE ClientGo(c, o)
  BY <1>1, <1>2, TypeInvGo DEF ClientGo
<1>3. CASE ClientSend(c, o)
  BY <1>1, <1>3, TypeInvSend DEF ClientSend
<1>4. CASE ClientCall(c, o) \/ ClientQuery(c, o) \/ ClientGet(c, o)
  BY <1>1, <1>4, TypeInvAsk
<1> QED
  BY <1>1, <1>2, <1>3, <1>4

LEMMA TypeInvNext == TypeInv /\ [Next]_vars => TypeInv'
<1> SUFFICES ASSUME TypeInv, [Next]_vars PROVE TypeInv'
  OBVIOUS
<1>1. CASE Tick
  <2>1. now' \in Time
    BY <1>1, DurableAssumption DEF Tick, Time, TypeInv, TypeOK
  <2> QED
    BY <1>1, <2>1 DEF Tick, TypeInv, TypeOK, WellFormed, instVars, clientVars, signalVars
<1>2. CASE \E i \in Ids : Workflow(i) \/ Children(i)
  BY <1>2, TypeInvRunActivity, TypeInvCloses, TypeInvDeliverSend, TypeInvEnterSelect,
     TypeInvContinueAtOnce, TypeInvTimerFires, TypeInvRunCall, TypeInvDrainCall,
     TypeInvContinueAsNew, TypeInvMoves, TypeInvStartChild, TypeInvForgetChild
  DEF Workflow, Children
<1>3. CASE \E c \in Clients : Resume(c) \/ Invoke(c)
  BY <1>3, TypeInvAcceptUpdate, TypeInvAnswered, TypeInvInvoke DEF Resume
<1>4. CASE UNCHANGED vars
  BY <1>4 DEF vars, TypeInv, TypeOK, WellFormed, instVars, clientVars, signalVars
<1> QED
  BY <1>1, <1>2, <1>3, <1>4 DEF Next

LEMMA TypeInvAlways == Spec => []TypeInv
BY TypeInvInit, TypeInvNext, PTL DEF Spec

\* Every variable of the Temporal backend keeps its type, whatever the program,
\* the number of runs and the scheduling: RoutineWorkflow never runs a nil
\* position or output, and serves a pending call exactly in the callback.
THEOREM TemporalTypes == Spec => []TypeOK
<1>1. TypeInv => TypeOK
  BY DEF TypeInv
<1> QED
  BY <1>1, TypeInvAlways, PTL

=============================================================================
