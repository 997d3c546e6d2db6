------------------------------ MODULE Durable ------------------------------
(***************************************************************************)
(* The interface between a program and a backend: the table of registered  *)
(* handlers, and the types of what passes between them.                    *)
(*                                                                         *)
(* A program is the operator Runner: Runner(id, key, input, msg, t) is the *)
(* set of attempts that the handler registered under key may make when     *)
(* routine id runs it at time t.                                           *)
(***************************************************************************)
EXTENDS Continuation

CONSTANTS
  Ids,        \* routine ids
  Keys,       \* routing keys (handler:K:R, send:I:E:R, call:I:Q:P:R, error:...)
  Names,      \* DurableKinds used as call names and query names
  Inputs,     \* the values handlers checkpoint and receive as input
  Messages,   \* the messages and requests of Send and Call
  Results,    \* results, responses and query results
  MaxNow,     \* bound on the clock
  Registered, \* the keys Worker.handlers holds
  Recovery,   \* [Keys -> Keys or Nil]: HandlerOptions.recoveryHandlerKey
  Runner(_,_,_,_,_)

Time  == 0..MaxNow
Msg   == Messages \cup {Nil}
Value == Results \cup {Nil}

Case == [kind  : {"after", "send", "call", "immediate"},
         key   : Keys,
         name  : Names \cup {Nil},
         input : Inputs,
         dur   : Nat]

StartRequest == [id : Ids, key : Keys, input : Inputs]
SendRequest  == [id : Ids, key : Keys, msg : Messages]

Attempt == [ok      : BOOLEAN,
            queries : UNION {[Q -> Results] : Q \in SUBSET Names},
            starts  : Seq(StartRequest),
            sends   : Seq(SendRequest),
            done    : BOOLEAN,
            result  : Value,
            cases   : Seq(Case),
            resp    : Value]

ASSUME DurableAssumption ==
  /\ Nil \notin Ids /\ Nil \notin Keys
  /\ Nil \notin Inputs /\ Nil \notin Messages /\ Nil \notin Results
  /\ MaxNow \in Nat
  /\ Registered \subseteq Keys
  /\ Recovery \in [Keys -> Keys \cup {Nil}]
  /\ \A i \in Ids, k \in Registered, x \in Inputs, m \in Msg, t \in Time :
       Runner(i, k, x, m, t) \subseteq Attempt

\* A faulty variant: a stored result is never replaced.
MergeOnce(stored, new) ==
  [n \in DOMAIN stored |-> IF n \in DOMAIN new /\ stored[n] = Nil THEN new[n] ELSE stored[n]]

\* mergeQueryResults: a name set by this step replaces the stored one.
Merge(stored, new) ==
  [n \in DOMAIN stored |-> IF n \in DOMAIN new THEN new[n] ELSE stored[n]]

=============================================================================
