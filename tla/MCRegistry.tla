----------------------------- MODULE MCRegistry -----------------------------
(***************************************************************************)
(* A program with two handlers of one type, and two whose keys read alike: *)
(* those of low and high are both handler:a:b:b.                           *)
(***************************************************************************)
EXTENDS Registry

CONSTANTS h1, h2, low, high, s, c, e1, e2, e3

MCLetter == {"a", "b", Colon}

A  == <<"a">>
B  == <<"b">>
AB == <<"a", Colon, "b">>
BB == <<"b", Colon, "b">>

MCKinds    == {A, B, AB, BB}
MCHandlers == {h1, h2, low, high, s, c}

Handler(i, r)    == [form |-> "handler", input |-> i, result |-> r]
Call(i, m, p, r) == [form |-> "call", input |-> i, msg |-> m, resp |-> p, result |-> r]

MCTypeOf ==
  [f \in MCHandlers \cup {e1, e2, e3} |->
     CASE f \in {h1, h2, e1, e2} -> Handler(A, B)
       [] f = low  -> Handler(A, BB)
       [] f = high -> Handler(AB, B)
       [] f = s    -> [form |-> "send", input |-> A, msg |-> B, result |-> B]
       [] f \in {c, e3} -> Call(A, B, A, B)]

\* Everything that may be asked for by kinds without colons, and what is
\* registered under kinds with one.
MCAsks == {t \in Type : ColonFree(t)} \cup {MCTypeOf[low], MCTypeOf[high]}

=============================================================================
