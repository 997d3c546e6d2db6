------------------------------ MODULE MCMailbox ------------------------------
(***************************************************************************)
(* One routine whose handlers return any continuation of a small menu, so  *)
(* that every shape of Select meets every backlog of sends and calls.  The *)
(* input counts the invocations that are left, which bounds a run.         *)
(***************************************************************************)
EXTENDS InMemoryProperties

CONSTANTS r, c1, c2, m1, m2, m3, poison, Fuel,
  Late,     \* the duration of the timers
  CallKeys  \* the handlers c2 may call, all for requests of one kind

MCIds     == {r}
MCClients == {c1, c2}
MCKeys    == {"main", "left", "right", "ask", "demand", "err"}
MCNames   == {"ask", "status"}
MCInputs   == 0..Fuel
MCMessages == {m1, m2, m3, poison}
MCResults  == MCInputs \cup MCMessages

MCRegistered == MCKeys
MCRecovery   == [k \in MCKeys |-> IF k \in {"left", "ask"} THEN "err" ELSE Nil]

Menu(x) ==
  LET left  == ReceiveSend("left", x)
      right == ReceiveSend("right", x)
      ask   == ReceiveCall("ask", "ask", x)
      late  == After(Late, "main", x)
      next  == Continue("main", x)
  IN  {left, next, Select(left, late), Select(right, next),
       Select(ask, Select(left, right)), Select(late, ask), Done(m1)}

\* An attempt that fails has buffered a poisoned send and query result.
Spoilt == BufferSend(SetQueryResult(NewContext, "status", poison), r, "left", poison)

MCRunner(i, k, x, m, t) ==
  LET ctx == SetQueryResult(NewContext, "status", x)
  IN  (IF x = 0 THEN {Return(ctx, Done(x), m)}
       ELSE {Return(ctx, cont, m) : cont \in Menu(x - 1)})
      \cup (IF k \in {"left", "right", "err"} THEN {Fail(Spoilt)} ELSE {})

Request(op, k, n, a) == [op |-> op, id |-> r, key |-> k, name |-> n, arg |-> a]

MCScript(c, n) ==
  IF c = c1
  THEN CASE n = 1 -> {Request("go", "main", Nil, Fuel)}
         [] n = 2 -> {Request("send", "left", Nil, m1)}
         [] n = 3 -> {Request("send", "right", Nil, m2), Request("get", "main", Nil, Nil)}
         [] OTHER -> {}
  ELSE CASE n = 1 -> {Request("send", "left", Nil, m2)}
         [] n = 2 -> {Request("call", k, "ask", m3) : k \in CallKeys}
         [] n = 3 -> {Request("send", "right", Nil, m3), Request("query", "main", "status", Nil)}
         [] OTHER -> {}

\* No send or query result of a failed attempt is ever seen: the runtime drops
\* its context and applies only that of the attempt, or recovery, that succeeded.
FailedAttemptLeavesNoTrace ==
  /\ \A i \in Ids, n \in Names : queryResults[i][n] # poison
  /\ \A i \in Ids : \A p \in DOMAIN sendCh[i] : sendCh[i][p].msg # poison
  /\ \A i \in Ids : \A p \in DOMAIN handled[i] : handled[i][p].msg # poison

\* client.go: a call is routed by the kinds of its handler's input, request and
\* result, so what runs to answer it is the handler its key names.
CallReachesItsHandler ==
  \A i \in Ids, c \in Clients :
    replyTo[i] = c /\ pc[i] = "run" => cur[i].key = cop[c].key

=============================================================================
