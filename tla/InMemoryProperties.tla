------------------------- MODULE InMemoryProperties -------------------------
(***************************************************************************)
(* What the in-memory backend guarantees to every program.                 *)
(***************************************************************************)
EXTENDS InMemoryRuntime

Tags(s) == {s[p].n : p \in DOMAIN s}

\* Sends of the same key keep the order in which sendCh accepted them.
Increasing(s) ==
  \A p, q \in DOMAIN s : p < q /\ s[p].key = s[q].key => s[p].n < s[q].n

Precedes(s, t) ==
  \A p \in DOMAIN s, q \in DOMAIN t : s[p].key = t[q].key => s[p].n < t[q].n

Distinct(s) == \A p, q \in DOMAIN s : s[p].n = s[q].n => p = q

Disjoint(s, t) == Tags(s) \cap Tags(t) = {}

\* A send that sendCh accepted is at every moment in exactly one place, and
\* there once: in the channel, set aside in buffered under its own key, or
\* handed to a handler.  (runtime.go sets unmatched sends aside in three
\* different stages of its loop and takes them back in a fourth; none of them
\* may drop, repeat or misplace one.)
SendsInOnePlace ==
  \A i \in Ids :
    /\ Tags(handled[i]) \cup Tags(sendCh[i]) \cup UNION {Tags(buffered[i][k]) : k \in Keys}
         = 1..accepted[i]
    /\ Distinct(handled[i])
    /\ Distinct(sendCh[i])
    /\ Disjoint(handled[i], sendCh[i])
    /\ \A k \in Keys :
         /\ \A p \in DOMAIN buffered[i][k] : buffered[i][k][p].key = k
         /\ Distinct(buffered[i][k])
         /\ Disjoint(handled[i], buffered[i][k])
         /\ Disjoint(buffered[i][k], sendCh[i])
         /\ \A l \in Keys \ {k} : Disjoint(buffered[i][k], buffered[i][l])

\* Handlers get the sends of one key in the order the channel accepted them,
\* although some were set aside by an earlier continuation and others come
\* straight from the channel: what is handled precedes what is set aside, and
\* that precedes what is still in the channel.
SendsInOrder ==
  \A i \in Ids :
    /\ Increasing(handled[i])
    /\ Increasing(sendCh[i])
    /\ Precedes(handled[i], sendCh[i])
    /\ \A k \in Keys :
         /\ Increasing(buffered[i][k])
         /\ Precedes(handled[i], buffered[i][k])
         /\ Precedes(buffered[i][k], sendCh[i])

\* No lost wake-up: past the check of buffered sends, in particular blocked in
\* the select, an instance has no send set aside that one of its cases wants.
NothingSetAsideIsWanted ==
  \A i \in Ids : pc[i] \in {"pollCall", "pollSend", "default", "block"} => Buffered(i) = {}

\* Every caller whose call was received has exactly one answer coming: either
\* one instance owes it, or it is in the response channel.  Nobody else has one.
CallOwnership ==
  \A c \in Clients :
    LET owing == {i \in Ids : replyTo[i] = c}
    IN  IF cpc[c] = "awaiting"
        THEN \/ resp[c] = <<>> /\ \E i \in Ids : owing = {i}
             \/ Len(resp[c]) = 1 /\ owing = {}
        ELSE resp[c] = <<>> /\ owing = {}

\* An instance that waits or is done owes no answer: a call is answered before
\* the routine waits for anything else or completes.
NoAnswerOwedWhileWaiting ==
  \A i \in Ids : pc[i] \notin {"run", "effects"} => replyTo[i] = NoClient

\* A handler that starts a child and sends to it reaches the child: the starts
\* of an invocation are applied before its sends.
StartedChildIsReached ==
  [][\A i \in Ids :
       (pc[i] = "effects" /\ eff'[i] = eff[i] + 1 /\ eff'[i] > Len(Starts(i))) =>
          LET s == Sends(i)[eff'[i] - Len(Starts(i))]
          IN  (\E p \in DOMAIN Starts(i) : Starts(i)[p].id = s.id)
                => accepted'[s.id] = accepted[s.id] + 1]_vars

-----------------------------------------------------------------------------
(* The contract, implemented.                                              *)

\* The sends of key k in s, in their order.
OfKey(s, k) ==
  LET f[n \in 0..Len(s)] == IF n = 0 THEN <<>>
                            ELSE IF s[n].key = k THEN Append(f[n - 1], s[n]) ELSE f[n - 1]
  IN  f[Len(s)]

\* The state of the contract: sends of key k that were set aside come before
\* those that are still in the channel.
RunStatus == [i \in Ids |-> CASE pc[i] = "absent" -> "new"
                              [] pc[i] = "done"   -> "done"
                              [] OTHER            -> "running"]
Queue     == [i \in Ids |-> [k \in Keys |-> buffered[i][k] \o OfKey(sendCh[i], k)]]
Server    == [c \in Clients |-> IF \E i \in Ids : replyTo[i] = c
                                THEN CHOOSE i \in Ids : replyTo[i] = c ELSE Nil]
Answers   == [c \in Clients |-> Len(resp[c])]

Contract == INSTANCE RoutineContract WITH
  Messages  <- Envelope,
  NoId      <- Nil,
  Renewable <- FALSE,
  status    <- RunStatus,
  queue     <- Queue,
  taken     <- handled,
  server    <- Server,
  answers   <- Answers

\* The in-memory backend implements the contract.
ImplementsContract == Contract!Spec

=============================================================================
