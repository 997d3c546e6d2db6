------------------------------ MODULE MCTemporal ------------------------------
(***************************************************************************)
(* One routine whose handlers return any continuation of a small menu, on  *)
(* the Temporal backend: every shape of Select meets signals and calls,    *)
(* failing activities, a child, a restart and continue-as-new.             *)
(***************************************************************************)
EXTENDS TemporalProperties

CONSTANTS r, kid, c1, c2, m1, m2, m3, Fuel,
  Again   \* whether c1 starts the routine a second time

MCIds      == {r, kid}
MCClients  == {c1, c2}
MCKeys     == {"main", "left", "right", "ask", "err", "kid"}
MCNames    == {"ask", "status"}
MCInputs   == 0..Fuel
MCMessages == {m1, m2, m3}
MCResults  == MCInputs \cup MCMessages

MCRecovery == [k \in MCKeys |-> IF k = "left" THEN "err" ELSE Nil]
MCGivesUp  == {"left", "ask", "err"}

Menu(x) ==
  LET left  == ReceiveSend("left", x)
      right == ReceiveSend("right", x)
      ask   == ReceiveCall("ask", "ask", x)
      late  == After(1, "main", x)
      next  == Continue("main", x)
  IN  {left, next, Select(left, late), Select(right, next), Select(right, After(0, "main", x)),
       Select(late, ask), Select(ask, Select(left, right)), Done(x)}

\* The recovery of one of the messages starts a child, which sends to its parent.
MCRunner(i, k, x, m, t) ==
  LET ctx   == SetQueryResult(NewContext, "status", x)
      child == IF k = "err" /\ m = m1 THEN BufferStart(ctx, kid, "kid", 0) ELSE ctx
      conts == IF x = 0 THEN {Done(x), Select(Done(x), Done(x))} ELSE Menu(x - 1)
  IN  IF k = "kid" THEN {Return(BufferSend(NewContext, r, "right", m3), Done(x), Nil)}
      ELSE {Return(child, cont, m) : cont \in conts}

Request(op, k, n, a) == [op |-> op, id |-> r, key |-> k, name |-> n, arg |-> a]

MCScript(c, n) ==
  IF c = c1
  THEN CASE n = 1 -> {Request("go", "main", Nil, Fuel)}
         [] n = 2 -> {Request("send", "left", Nil, m1), Request("call", "ask", Nil, m1)}
         [] n = 3 -> {Request("send", "right", Nil, m2), Request("get", "main", Nil, Nil)}
                     \cup (IF Again THEN {Request("go", "main", Nil, 1)} ELSE {})
         [] OTHER -> {}
  ELSE CASE n = 1 -> {Request("send", "left", Nil, m2)}
         [] n = 2 -> {Request("call", "ask", Nil, m3)}
         [] n = 3 -> {Request("query", "main", "status", Nil)}
         [] OTHER -> {}

=============================================================================
