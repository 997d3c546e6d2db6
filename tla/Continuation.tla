---------------------------- MODULE Continuation ----------------------------
(***************************************************************************)
(* What a handler of package durable builds: the continuation it returns   *)
(* and the side effects it buffers in its Context while it runs.           *)
(***************************************************************************)
EXTENDS Naturals, Sequences

CONSTANT Nil   \* Go's nil

\* The value of struct{}, which has no fields.
Unit == <<>>

-----------------------------------------------------------------------------
(* Continuations.                                                          *)

Done(v) == [done |-> TRUE, result |-> v, cases |-> <<>>]

WaitFor(kind, k, n, x, d) ==
  [done |-> FALSE, result |-> Nil,
   cases |-> <<[kind |-> kind, key |-> k, name |-> n, input |-> x, dur |-> d]>>]

After(d, k, x)       == WaitFor("after", k, Nil, x, d)
ReceiveSend(k, x)    == WaitFor("send", k, Nil, x, 0)
ReceiveCall(k, n, x) == WaitFor("call", k, n, x, 0)

\* Continue and Default build the same case: alone it always fires, in a
\* Select it fires when nothing else is ready.
Continue(k, x) == WaitFor("immediate", k, Nil, x, 0)
Default(k, x)  == Continue(k, x)

\* Select is variadic and concatenates, so it is written by nesting.
Select(a, b) == [done |-> FALSE, result |-> Nil, cases |-> a.cases \o b.cases]

-----------------------------------------------------------------------------
(* Context: what a handler buffers while it runs.                          *)

NewContext == [queries |-> [n \in {} |-> Nil], starts |-> <<>>, sends |-> <<>>]

BufferStart(ctx, i, k, x) ==
  [ctx EXCEPT !.starts = Append(@, [id |-> i, key |-> k, input |-> x])]

BufferSend(ctx, i, k, m) ==
  [ctx EXCEPT !.sends = Append(@, [id |-> i, key |-> k, msg |-> m])]

\* A later result under the same name replaces the earlier one.
SetQueryResult(ctx, n, v) ==
  [ctx EXCEPT !.queries = [q \in DOMAIN @ \cup {n} |-> IF q = n THEN v ELSE @[q]]]

-----------------------------------------------------------------------------
(* What the registered runner hands to the runtime.                        *)

RunOutput(ok, ctx, cont, r) ==
  [ok |-> ok, queries |-> ctx.queries, starts |-> ctx.starts, sends |-> ctx.sends,
   done |-> cont.done, result |-> cont.result, cases |-> cont.cases, resp |-> r]

\* The handler returned continuation cont and, for a call, response r ...
Return(ctx, cont, r) == RunOutput(TRUE, ctx, cont, r)

\* ... or an error.  What it had buffered is still in the record, because the
\* runtime, not the handler, decides what becomes of it.
Fail(ctx) == RunOutput(FALSE, ctx, Done(Nil), Nil)

=============================================================================
