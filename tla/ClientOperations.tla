--------------------------- MODULE ClientOperations ---------------------------
(***************************************************************************)
(* What the users of durable.Client may ask of a backend, and what they    *)
(* get back.                                                               *)
(***************************************************************************)
EXTENDS Durable

CONSTANTS
  Clients,      \* the processes that use durable.Client
  MaxOps,       \* bound on the operations of one client
  Script(_,_)   \* Script(c, n): the operations client c may choose as its n-th

Op == [op : {"go", "send", "call", "query", "get"},
       id : Ids, key : Keys, name : Names \cup {Nil}, arg : Inputs \cup Msg]

ASSUME ClientAssumption ==
  /\ MaxOps \in Nat
  /\ \A c \in Clients, n \in 1..MaxOps : \A o \in Script(c, n) :
       /\ o \in Op
       /\ o.op = "go" => o.arg \in Inputs
       /\ o.op \in {"send", "call"} => o.arg \in Messages
       /\ o.op = "query" => o.name \in Names

Response == [ok : BOOLEAN, value : Value]
Blank    == [ok |-> TRUE, value |-> Nil]

\* A send on its way, numbered in the order the target accepted it.
Envelope == [key : Keys, msg : Messages, n : Nat]

\* What a handler that returned an error leaves behind.
Failure == Fail(NewContext)

=============================================================================
