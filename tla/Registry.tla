------------------------------ MODULE Registry ------------------------------
(***************************************************************************)
(* The registry of handlers: a program registers its handlers with a       *)
(* Worker under keys made of their types' kinds, a backend is built from   *)
(* the Worker, and runs the handlers that clients, contexts and            *)
(* continuations ask for by the same keys.                                 *)
(*                                                                         *)
(* A type is known by its kind.  Keys are sequences of letters, because    *)
(* two programs' kinds may read alike once they are joined by colons.      *)
(***************************************************************************)
EXTENDS Naturals, Sequences

CONSTANTS
  Nil,
  Letter, Colon,   \* what kinds are written with; a colon is a letter
  Kinds,           \* what DurableKind() returns
  Handlers,        \* the functions a program may register
  Recoverers,      \* the functions it may register for recovery
  TypeOf,          \* their types
  Asks             \* the types by which handlers are asked for

HandlerType == [form : {"handler"}, input : Kinds, result : Kinds]
SendType    == [form : {"send"}, input : Kinds, msg : Kinds, result : Kinds]
CallType    == [form : {"call"}, input : Kinds, msg : Kinds, resp : Kinds, result : Kinds]
Type        == HandlerType \cup SendType \cup CallType

ASSUME RegistryAssumption ==
  /\ Colon \in Letter
  /\ Kinds \subseteq Seq(Letter)
  /\ Nil \notin Recoverers
  /\ TypeOf \in [Handlers \cup Recoverers -> Type]
  /\ Asks \subseteq Type

VARIABLES
  handlers,  \* Worker.handlers; no recovery handler is the empty key
  regs,      \* the registrations the program holds, with the recovery handler
             \* last given to each
  panicked,
  served,    \* the handlers of the backend, Nil before it is built
  promised,  \* history: regs when the backend was built
  last       \* the invocation that ran last

vars == <<handlers, regs, panicked, served, promised, last>>

-----------------------------------------------------------------------------
(* Keys.                                                                   *)

HandlerKey(kind, resultKind) ==
  <<"handler", Colon>> \o kind \o <<Colon>> \o resultKind

SendKey(inputKind, externalInputKind, resultKind) ==
  <<"send", Colon>> \o inputKind \o <<Colon>> \o externalInputKind \o <<Colon>> \o resultKind

\* A faulty variant: handlers that differ in the response only share a key.
CallKeyWithoutResponse(inputKind, externalReqKind, externalRespKind, resultKind) ==
  <<"call", Colon>> \o inputKind \o <<Colon>> \o externalReqKind \o <<Colon>> \o resultKind

CallKey(inputKind, externalReqKind, externalRespKind, resultKind) ==
  <<"call", Colon>> \o inputKind \o <<Colon>> \o externalReqKind \o <<Colon>> \o
    externalRespKind \o <<Colon>> \o resultKind

ErrorKey(primaryKey) == <<"error", Colon>> \o primaryKey

KeyOf(t) ==
  CASE t.form = "handler" -> HandlerKey(t.input, t.result)
    [] t.form = "send"    -> SendKey(t.input, t.msg, t.result)
    [] t.form = "call"    -> CallKey(t.input, t.msg, t.resp, t.result)

-----------------------------------------------------------------------------
(* Registration.                                                           *)

With(f, k, v) == [x \in DOMAIN f \cup {k} |-> IF x = k THEN v ELSE f[x]]

Init ==
  /\ handlers = <<>> /\ regs = <<>> /\ panicked = FALSE
  /\ served = Nil /\ promised = <<>> /\ last = Nil

\* A faulty variant: the later registration wins.
addEntryOver(f) ==
  /\ handlers' = With(handlers, KeyOf(TypeOf[f]), [fn |-> f, recovery |-> <<>>])
  /\ regs' = With(regs, f, Nil)
  /\ UNCHANGED panicked

addEntry(f) ==
  IF KeyOf(TypeOf[f]) \in DOMAIN handlers
  THEN panicked' = TRUE /\ UNCHANGED <<handlers, regs>>
  ELSE /\ handlers' = With(handlers, KeyOf(TypeOf[f]), [fn |-> f, recovery |-> <<>>])
       /\ regs' = With(regs, f, Nil)
       /\ UNCHANGED panicked

Register(f) ==
  /\ ~panicked
  /\ addEntry(f)
  /\ UNCHANGED <<served, promised, last>>

\* A faulty variant: the changed copy of the entry is not put back.
registerRecoveryHandlerAlone(k, te) ==
  handlers' = With(handlers, ErrorKey(k), [fn |-> te, recovery |-> <<>>])

\* Both entries are replaced, whatever was there.
registerRecoveryHandler(k, te) ==
  handlers' = With(With(handlers, ErrorKey(k), [fn |-> te, recovery |-> <<>>]),
                   k, [handlers[k] EXCEPT !.recovery = ErrorKey(k)])

\* The compiler wants the types of the handler.
WithRecoveryHandler(f, te) ==
  /\ ~panicked
  /\ f \in DOMAIN regs /\ TypeOf[te] = TypeOf[f]
  /\ registerRecoveryHandler(KeyOf(TypeOf[f]), te)
  /\ regs' = [regs EXCEPT ![f] = te]
  /\ UNCHANGED <<panicked, served, promised, last>>

\* A backend takes a copy: what is registered later is not served.
NewBackend ==
  /\ ~panicked /\ served = Nil
  /\ served' = handlers
  /\ promised' = regs
  /\ UNCHANGED <<handlers, regs, panicked, last>>

-----------------------------------------------------------------------------
(* Invocation.                                                             *)

\* The handlers that run, one after the other: none is registered, or the
\* handler, and, when it fails, its recovery handler.
Chain(k, failed) ==
  IF k \notin DOMAIN served THEN <<>>
  ELSE IF failed /\ served[k].recovery # <<>> /\ served[k].recovery \in DOMAIN served
       THEN <<served[k].fn, served[served[k].recovery].fn>>
       ELSE <<served[k].fn>>

RunHandler(t) ==
  /\ ~panicked /\ served # Nil
  /\ \E failed \in BOOLEAN :
       last' = [asked |-> t, failed |-> failed, by |-> Chain(KeyOf(t), failed)]
  /\ UNCHANGED <<handlers, regs, panicked, served, promised>>

Next ==
  \/ \E f \in Handlers : Register(f) \/ \E te \in Recoverers : WithRecoveryHandler(f, te)
  \/ NewBackend
  \/ \E t \in Asks : RunHandler(t)

Spec == Init /\ [][Next]_vars

-----------------------------------------------------------------------------
(* What registration promises.                                             *)

KindsOf(t) ==
  CASE t.form = "handler" -> {t.input, t.result}
    [] t.form = "send"    -> {t.input, t.msg, t.result}
    [] t.form = "call"    -> {t.input, t.msg, t.resp, t.result}

ColonFree(t) == \A k \in KindsOf(t) : \A p \in DOMAIN k : k[p] # Colon

\* Whatever else is registered, under kinds with colons too: what is asked for
\* by kinds without one is run by a handler of exactly these types, and
\* recovered by one of these types.
DispatchMatchesTypes ==
  last # Nil /\ ColonFree(last.asked) =>
    \A p \in DOMAIN last.by : TypeOf[last.by[p]] = last.asked

\* A handler whose registration has returned is the one that runs for its
\* types, and the recovery handler last given to it runs when it fails.
RegisteredIsServed ==
  last # Nil => \A f \in DOMAIN promised : TypeOf[f] = last.asked =>
    /\ last.by # <<>> /\ last.by[1] = f
    /\ last.failed /\ promised[f] # Nil => Len(last.by) = 2 /\ last.by[2] = promised[f]

=============================================================================
