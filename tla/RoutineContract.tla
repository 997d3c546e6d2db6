-------------------------- MODULE RoutineContract --------------------------
(***************************************************************************)
(* What a backend promises the users of a routine, whatever its channels   *)
(* and loops: a send that was accepted waits in the queue of its key until *)
(* a handler takes it, first come first served and once; a call that was   *)
(* accepted is served by one routine and answered once; a routine that     *)
(* completes takes nothing any more and leaves no caller it had accepted   *)
(* without an answer.  A backend that is Renewable may start an id afresh: *)
(* then, and only then, sends that wait are forgotten.                     *)
(***************************************************************************)
EXTENDS Sequences

CONSTANTS
  Ids, Keys, Clients, Messages, NoId,
  Renewable   \* whether an id may be started more than once

VARIABLES
  status,  \* "new", "running" or "done"
  queue,   \* queue[i][k]: accepted sends of key k no handler has taken
  taken,   \* sends the handlers of i took, in that order
  server,  \* the routine that serves the call of a client, or NoId
  answers  \* how many answers wait for the client: 0 or 1

vars == <<status, queue, taken, server, answers>>

Init ==
  /\ status = [i \in Ids |-> "new"]
  /\ queue = [i \in Ids |-> [k \in Keys |-> <<>>]]
  /\ taken = [i \in Ids |-> <<>>]
  /\ server = [c \in Clients |-> NoId]
  /\ answers = [c \in Clients |-> 0]

Start(i) ==
  /\ status[i] = "new"
  /\ status' = [status EXCEPT ![i] = "running"]
  /\ UNCHANGED <<queue, taken, server, answers>>

\* No caller is in service meanwhile, and the sends that wait are forgotten.
Renew(i) ==
  /\ Renewable
  /\ status[i] # "new"
  /\ \A c \in Clients : server[c] # i
  /\ status' = [status EXCEPT ![i] = "running"]
  /\ queue' = [queue EXCEPT ![i] = [k \in Keys |-> <<>>]]
  /\ UNCHANGED <<taken, server, answers>>

\* The new message is read off the next state: Messages need not be finite.
Post(i, k) ==
  /\ status[i] # "new"
  /\ queue'[i][k] # <<>>
  /\ LET m == queue'[i][k][Len(queue'[i][k])]
     IN  /\ m \in Messages
         /\ queue' = [queue EXCEPT ![i][k] = Append(@, m)]
  /\ UNCHANGED <<status, taken, server, answers>>

Take(i, k) ==
  /\ status[i] = "running"
  /\ queue[i][k] # <<>>
  /\ taken' = [taken EXCEPT ![i] = Append(@, Head(queue[i][k]))]
  /\ queue' = [queue EXCEPT ![i][k] = Tail(@)]
  /\ UNCHANGED <<status, server, answers>>

\* A message that finds its queue empty may be taken at once.
Receive(i, k) ==
  /\ status[i] = "running"
  /\ queue[i][k] = <<>>
  /\ taken'[i] # <<>>
  /\ LET m == taken'[i][Len(taken'[i])]
     IN  /\ m \in Messages
         /\ taken' = [taken EXCEPT ![i] = Append(@, m)]
  /\ UNCHANGED <<status, queue, server, answers>>

Idle(c) == server[c] = NoId /\ answers[c] = 0

\* A routine serves one call at a time.
Serve(i, c) ==
  /\ status[i] = "running"
  /\ Idle(c)
  /\ \A d \in Clients : server[d] # i
  /\ server' = [server EXCEPT ![c] = i]
  /\ UNCHANGED <<status, queue, taken, answers>>

Answer(c) ==
  /\ server[c] # NoId
  /\ server' = [server EXCEPT ![c] = NoId]
  /\ answers' = [answers EXCEPT ![c] = 1]
  /\ UNCHANGED <<status, queue, taken>>

Refuse(c) ==
  /\ Idle(c)
  /\ answers' = [answers EXCEPT ![c] = 1]
  /\ UNCHANGED <<status, queue, taken, server>>

Collect(c) ==
  /\ answers[c] = 1
  /\ answers' = [answers EXCEPT ![c] = 0]
  /\ UNCHANGED <<status, queue, taken, server>>

\* With completion the calls the routine has not taken up may be refused.
Complete(i) ==
  /\ status[i] = "running"
  /\ \A c \in Clients : server[c] # i
  /\ status' = [status EXCEPT ![i] = "done"]
  /\ \E R \in SUBSET {c \in Clients : Idle(c)} :
       answers' = [c \in Clients |-> IF c \in R THEN 1 ELSE answers[c]]
  /\ UNCHANGED <<queue, taken, server>>

Next ==
  \/ \E i \in Ids : Start(i) \/ Renew(i) \/ Complete(i)
  \/ \E i \in Ids, k \in Keys : Take(i, k) \/ Post(i, k) \/ Receive(i, k)
  \/ \E c \in Clients : Answer(c) \/ Refuse(c) \/ Collect(c) \/ \E i \in Ids : Serve(i, c)

Spec == Init /\ [][Next]_vars

=============================================================================
