--------------------------- MODULE RegistryProofs ---------------------------
(***************************************************************************)
(* Proofs about the registry.  Keys: what is asked for by kinds without    *)
(* colons has a key that no other type has, since all colons of the key    *)
(* then come from joining the kinds.  Registration: at any time the keys   *)
(* and the registrations a program holds agree, and a backend's copy does  *)
(* as well.                                                                *)
(***************************************************************************)
EXTENDS Registry, SequenceTheorems, TLAPS

Token == Letter \cup {"handler", "send", "call", "error"}

-----------------------------------------------------------------------------
(* Where the elements of a key are.                                        *)

LEMMA ConcatElements ==
  ASSUME NEW x \in Seq(Token), NEW y \in Seq(Token)
  PROVE  /\ x \o y \in Seq(Token)
         /\ Len(x) \in Nat /\ Len(y) \in Nat /\ Len(x \o y) = Len(x) + Len(y)
         /\ \A i \in 1..Len(x) : (x \o y)[i] = x[i]
         /\ \A i \in 1..Len(y) : (x \o y)[Len(x) + i] = y[i]
<1>1. x \o y \in Seq(Token) /\ Len(x \o y) = Len(x) + Len(y) /\ Len(x) \in Nat /\ Len(y) \in Nat
  BY ConcatProperties, LenProperties
<1>2. \A i \in 1..(Len(x) + Len(y)) :
        (x \o y)[i] = IF i <= Len(x) THEN x[i] ELSE y[i - Len(x)]
  BY ConcatProperties
<1>3. \A i \in 1..Len(x) : (x \o y)[i] = x[i]
  BY <1>1, <1>2
<1>4. ASSUME NEW i \in 1..Len(y) PROVE (x \o y)[Len(x) + i] = y[i]
  <2>1. Len(x) + i \in 1..(Len(x) + Len(y)) /\ ~(Len(x) + i <= Len(x)) /\ Len(x) + i - Len(x) = i
    BY <1>1
  <2> QED
    BY <1>2, <2>1
<1> QED
  BY <1>1, <1>3, <1>4

LEMMA PrefixElements ==
  ASSUME NEW f \in Token, NEW x \in Seq(Token)
  PROVE  LET y == <<f, Colon>> \o x
         IN  /\ y \in Seq(Token) /\ Len(y) = Len(x) + 2 /\ Len(x) \in Nat
             /\ y[1] = f
             /\ \A i \in 1..Len(x) : y[2 + i] = x[i]
<1> DEFINE p == <<f, Colon>>
<1>1. p \in Seq(Token) /\ Len(p) = 2 /\ p[1] = f
  BY RegistryAssumption DEF Token
<1> HIDE DEF p
<1>2. 1 \in 1..Len(p)
  BY <1>1
<1>3. /\ p \o x \in Seq(Token) /\ Len(x) \in Nat /\ Len(p \o x) = Len(p) + Len(x)
      /\ (p \o x)[1] = p[1]
      /\ \A i \in 1..Len(x) : (p \o x)[Len(p) + i] = x[i]
  BY <1>1, <1>2, ConcatElements
<1> QED
  BY <1>1, <1>3 DEF p

LEMMA JoinElements ==
  ASSUME NEW x \in Seq(Token), NEW y \in Seq(Token)
  PROVE  LET z == x \o <<Colon>> \o y
         IN  /\ z \in Seq(Token) /\ Len(z) = Len(x) + 1 + Len(y)
             /\ Len(x) \in Nat /\ Len(y) \in Nat
             /\ \A i \in 1..Len(x) : z[i] = x[i]
             /\ z[Len(x) + 1] = Colon
             /\ \A i \in 1..Len(y) : z[Len(x) + 1 + i] = y[i]
<1> DEFINE c == <<Colon>>
           u == x \o c
<1>1. c \in Seq(Token) /\ Len(c) = 1 /\ c[1] = Colon /\ 1 \in 1..1
  BY RegistryAssumption DEF Token
<1> HIDE DEF c
<1>2. /\ x \o c \in Seq(Token) /\ Len(x) \in Nat /\ Len(x \o c) = Len(x) + Len(c)
      /\ \A i \in 1..Len(x) : (x \o c)[i] = x[i]
      /\ \A i \in 1..Len(c) : (x \o c)[Len(x) + i] = c[i]
  BY <1>1, ConcatElements
<1>3. /\ u \in Seq(Token) /\ Len(x) \in Nat /\ Len(u) = Len(x) + 1
      /\ \A i \in 1..Len(x) : u[i] = x[i]
      /\ u[Len(x) + 1] = Colon
  BY <1>1, <1>2
<1> HIDE DEF u
<1>4. /\ u \o y \in Seq(Token) /\ Len(y) \in Nat /\ Len(u \o y) = Len(u) + Len(y)
      /\ \A i \in 1..Len(u) : (u \o y)[i] = u[i]
      /\ \A i \in 1..Len(y) : (u \o y)[Len(u) + i] = y[i]
  BY <1>3, ConcatElements
<1>5. (\A i \in 1..Len(x) : i \in 1..Len(u)) /\ Len(x) + 1 \in 1..Len(u)
  BY <1>3
<1>6. /\ \A i \in 1..Len(x) : (u \o y)[i] = x[i]
      /\ (u \o y)[Len(x) + 1] = Colon
      /\ \A i \in 1..Len(y) : (u \o y)[Len(x) + 1 + i] = y[i]
  BY <1>3, <1>4, <1>5
<1> QED
  BY <1>3, <1>4, <1>6 DEF u, c

-----------------------------------------------------------------------------
(* Keys tell types apart.  Both keys have a colon in as many places; where  *)
(* the kinds of one of them have none, these are the same places, and so    *)
(* the kinds between them are equal.                                        *)

Free(x) == \A i \in 1..Len(x) : x[i] # Colon

LEMMA KindsAreTokens ==
  ASSUME NEW t \in Type
  PROVE  /\ t.form \in Token
         /\ t.form = "handler" => t \in HandlerType
         /\ t.form = "send" => t \in SendType
         /\ t.form = "call" => t \in CallType
         /\ t.form \in {"handler", "send", "call"}
BY DEF Type, HandlerType, SendType, CallType, Token

LEMMA KindIsTokens == ASSUME NEW k \in Kinds PROVE k \in Seq(Token) /\ Len(k) \in Nat /\ DOMAIN k = 1..Len(k)
<1>1. k \in Seq(Letter)
  BY RegistryAssumption
<1>2. Letter \subseteq Token
  BY DEF Token
<1> QED
  BY <1>1, <1>2, SeqMonotonic, LenProperties

\* k has the elements of x after its o-th; k starts with x.
Span(k, o, x)   == \A i \in 1..Len(x) : k[o + i] = x[i]
Starts(k, x) == \A i \in 1..Len(x) : k[i] = x[i]

LEMMA NoColonInSpan ==
  ASSUME NEW k, NEW o \in Nat, NEW x \in Seq(Token), Free(x), Span(k, o, x),
         NEW p \in Nat, p > o, p <= o + Len(x)
  PROVE  k[p] # Colon
<1>1. Len(x) \in Nat
  BY LenProperties
<1>2. p - o \in 1..Len(x) /\ o + (p - o) = p
  BY <1>1
<1> QED
  BY <1>2 DEF Free, Span

LEMMA SameSpan ==
  ASSUME NEW k, NEW o \in Nat, NEW x \in Seq(Token), NEW y \in Seq(Token),
         Len(x) = Len(y), Span(k, o, x), Span(k, o, y)
  PROVE  x = y
BY SeqEqual DEF Span

LEMMA SpanKept ==
  ASSUME NEW x \in Seq(Token), NEW z \in Seq(Token), Starts(z, x),
         NEW o \in Nat, NEW w \in Seq(Token), Span(x, o, w), o + Len(w) <= Len(x)
  PROVE  Span(z, o, w)
<1>1. Len(w) \in Nat /\ Len(x) \in Nat
  BY LenProperties
<1>2. \A i \in 1..Len(w) : o + i \in 1..Len(x)
  BY <1>1
<1> QED
  BY <1>2 DEF Span, Starts

LEMMA FirstSpan ==
  ASSUME NEW f \in Token, NEW x \in Seq(Token), NEW z, z = <<f, Colon>> \o x
  PROVE  /\ z \in Seq(Token) /\ Len(z) = Len(x) + 2
         /\ z[1] = f /\ Span(z, 2, x)
BY PrefixElements DEF Span

LEMMA NextSpan ==
  ASSUME NEW x \in Seq(Token), NEW y \in Seq(Token), NEW z, z = x \o <<Colon>> \o y
  PROVE  /\ z \in Seq(Token) /\ Len(z) = Len(x) + 1 + Len(y)
         /\ z[Len(x) + 1] = Colon /\ Span(z, Len(x) + 1, y) /\ Starts(z, x)
BY JoinElements DEF Span, Starts

HandlerKeyLayout(k, i, a, b) ==
  /\ k \in Seq(Token) /\ Len(k) = i + Len(b) /\ k[1] = "handler"
  /\ i = Len(a) + 3
  /\ k[i] = Colon
  /\ Span(k, 2, a) /\ Span(k, i, b)

LEMMA HandlerKeySpans ==
  ASSUME NEW a \in Kinds, NEW b \in Kinds
  PROVE  \E i \in Nat : HandlerKeyLayout(HandlerKey(a, b), i, a, b)
<1>1. /\ "handler" \in Token /\ a \in Seq(Token) /\ b \in Seq(Token)
      /\ Len(a) \in Nat /\ Len(b) \in Nat
  BY KindIsTokens DEF Token
<1>2. PICK x : x = <<"handler", Colon>> \o a
  OBVIOUS
<1>3. PICK k : k = HandlerKey(a, b) /\ k = x \o <<Colon>> \o b
  BY <1>2 DEF HandlerKey
<1>4. PICK i \in Nat : i = Len(a) + 3
  BY <1>1
<1>5. x \in Seq(Token) /\ Len(x) = Len(a) + 2 /\ x[1] = "handler" /\ Span(x, 2, a)
  BY <1>1, <1>2, FirstSpan
<1>6. /\ k \in Seq(Token) /\ Len(k) = i + Len(b)
      /\ k[i] = Colon /\ Span(k, i, b) /\ Starts(k, x)
  <2>1. i = Len(x) + 1
    BY <1>1, <1>4, <1>5
  <2>2. /\ k \in Seq(Token) /\ Len(k) = Len(x) + 1 + Len(b)
        /\ k[Len(x) + 1] = Colon /\ Span(k, Len(x) + 1, b) /\ Starts(k, x)
    BY <1>1, <1>3, <1>5, NextSpan
  <2> QED
    BY <2>1, <2>2
<1>7. k[1] = "handler"
  <2>1. /\ 1 \in 1..Len(x)
    BY <1>1, <1>4, <1>5, <1>6
  <2> QED
    BY <1>4, <1>5, <1>6, <2>1 DEF Starts
<1>8. Span(k, 2, a)
  <2>1. 2 + Len(a) <= Len(x)
    BY <1>1, <1>4, <1>5, <1>6
  <2> QED
    BY <1>1, <1>5, <1>6, <2>1, SpanKept
<1>9. HandlerKeyLayout(k, i, a, b)
  BY <1>4, <1>6, <1>7, <1>8 DEF HandlerKeyLayout
<1> QED
  BY <1>3, <1>9

LEMMA HandlerKeyInjective ==
  ASSUME NEW a \in Kinds, NEW b \in Kinds,
         NEW c \in Kinds, NEW d \in Kinds,
         Free(a), Free(b),
         HandlerKey(a, b) = HandlerKey(c, d)
  PROVE  a = c /\ b = d
<1>1. /\ a \in Seq(Token) /\ b \in Seq(Token)
      /\ Len(a) \in Nat /\ Len(b) \in Nat
      /\ c \in Seq(Token) /\ d \in Seq(Token)
      /\ Len(c) \in Nat /\ Len(d) \in Nat
  BY KindIsTokens
<1>2. PICK k : k = HandlerKey(a, b) /\ k = HandlerKey(c, d)
  OBVIOUS
<1>3. PICK i \in Nat : HandlerKeyLayout(k, i, a, b)
  BY <1>2, HandlerKeySpans
<1>4. PICK u \in Nat : HandlerKeyLayout(k, u, c, d)
  BY <1>2, HandlerKeySpans
<1>5. /\ Len(k) = i + Len(b) /\ k[i] = Colon
      /\ i = Len(a) + 3
      /\ Span(k, 2, a) /\ Span(k, i, b)
  BY <1>3 DEF HandlerKeyLayout
<1>6. /\ Len(k) = u + Len(d) /\ k[u] = Colon
      /\ u = Len(c) + 3
      /\ Span(k, 2, c) /\ Span(k, u, d)
  BY <1>4 DEF HandlerKeyLayout
<1>7. ASSUME NEW e \in Nat, e > 2, e <= Len(k), k[e] = Colon PROVE e = i
  <2>1. ~(e > 2 /\ e <= 2 + Len(a))
    BY <1>1, <1>5, <1>7, NoColonInSpan
  <2>2. ~(e > i /\ e <= i + Len(b))
    BY <1>1, <1>5, <1>7, NoColonInSpan
  <2> QED
    BY <1>1, <1>5, <1>7, <2>1, <2>2
<1>8. u > 2 /\ u <= Len(k)
  BY <1>1, <1>6
<1>9. u = i
  BY <1>6, <1>7, <1>8
<1>10. u = i
  BY <1>1, <1>5, <1>6, <1>9
<1>11. Len(c) = Len(a) /\ Len(d) = Len(b)
  BY <1>1, <1>5, <1>6, <1>10
<1>12. a = c
  BY <1>1, <1>5, <1>6, <1>10, <1>11, SameSpan
<1>13. b = d
  BY <1>1, <1>5, <1>6, <1>10, <1>11, SameSpan
<1> QED
  BY <1>12, <1>13

SendKeyLayout(k, i, j, a, m, b) ==
  /\ k \in Seq(Token) /\ Len(k) = j + Len(b) /\ k[1] = "send"
  /\ i = Len(a) + 3 /\ j = i + Len(m) + 1
  /\ k[i] = Colon /\ k[j] = Colon
  /\ Span(k, 2, a) /\ Span(k, i, m) /\ Span(k, j, b)

LEMMA SendKeySpans ==
  ASSUME NEW a \in Kinds, NEW m \in Kinds, NEW b \in Kinds
  PROVE  \E i, j \in Nat : SendKeyLayout(SendKey(a, m, b), i, j, a, m, b)
<1>1. /\ "send" \in Token /\ a \in Seq(Token) /\ m \in Seq(Token) /\ b \in Seq(Token)
      /\ Len(a) \in Nat /\ Len(m) \in Nat /\ Len(b) \in Nat
  BY KindIsTokens DEF Token
<1>2. PICK x : x = <<"send", Colon>> \o a
  OBVIOUS
<1>3. PICK y : y = x \o <<Colon>> \o m
  OBVIOUS
<1>4. PICK k : k = SendKey(a, m, b) /\ k = y \o <<Colon>> \o b
  BY <1>2, <1>3 DEF SendKey
<1>5. PICK i \in Nat : i = Len(a) + 3
  BY <1>1
<1>6. PICK j \in Nat : j = i + Len(m) + 1
  BY <1>1
<1>7. x \in Seq(Token) /\ Len(x) = Len(a) + 2 /\ x[1] = "send" /\ Span(x, 2, a)
  BY <1>1, <1>2, FirstSpan
<1>8. /\ y \in Seq(Token) /\ Len(y) = i + Len(m)
      /\ y[i] = Colon /\ Span(y, i, m) /\ Starts(y, x)
  <2>1. i = Len(x) + 1
    BY <1>1, <1>5, <1>6, <1>7
  <2>2. /\ y \in Seq(Token) /\ Len(y) = Len(x) + 1 + Len(m)
        /\ y[Len(x) + 1] = Colon /\ Span(y, Len(x) + 1, m) /\ Starts(y, x)
    BY <1>1, <1>3, <1>7, NextSpan
  <2> QED
    BY <2>1, <2>2
<1>9. /\ k \in Seq(Token) /\ Len(k) = j + Len(b)
      /\ k[j] = Colon /\ Span(k, j, b) /\ Starts(k, y)
  <2>1. j = Len(y) + 1
    BY <1>1, <1>5, <1>6, <1>8
  <2>2. /\ k \in Seq(Token) /\ Len(k) = Len(y) + 1 + Len(b)
        /\ k[Len(y) + 1] = Colon /\ Span(k, Len(y) + 1, b) /\ Starts(k, y)
    BY <1>1, <1>4, <1>8, NextSpan
  <2> QED
    BY <2>1, <2>2
<1>10. k[1] = "send" /\ k[i] = Colon
  <2>1. /\ 1 \in 1..Len(x)
        /\ 1 \in 1..Len(y) /\ i \in 1..Len(y)
    BY <1>1, <1>5, <1>6, <1>7, <1>8, <1>9
  <2> QED
    BY <1>5, <1>6, <1>7, <1>8, <1>9, <2>1 DEF Starts
<1>11. Span(k, 2, a)
  <2>1. 2 + Len(a) <= Len(x) /\ 2 + Len(a) <= Len(y)
    BY <1>1, <1>5, <1>6, <1>7, <1>8, <1>9
  <2>2. Span(y, 2, a)
    BY <1>1, <1>7, <1>8, <2>1, SpanKept
  <2> QED
    BY <1>1, <1>8, <1>9, <2>1, <2>2, SpanKept
<1>12. Span(k, i, m)
  <2>1. i + Len(m) <= Len(y)
    BY <1>1, <1>5, <1>6, <1>7, <1>8, <1>9
  <2> QED
    BY <1>1, <1>8, <1>9, <2>1, SpanKept
<1>13. SendKeyLayout(k, i, j, a, m, b)
  BY <1>5, <1>6, <1>9, <1>10, <1>11, <1>12 DEF SendKeyLayout
<1> QED
  BY <1>4, <1>13

LEMMA SendKeyInjective ==
  ASSUME NEW a \in Kinds, NEW m \in Kinds, NEW b \in Kinds,
         NEW c \in Kinds, NEW n \in Kinds, NEW d \in Kinds,
         Free(a), Free(m), Free(b),
         SendKey(a, m, b) = SendKey(c, n, d)
  PROVE  a = c /\ m = n /\ b = d
<1>1. /\ a \in Seq(Token) /\ m \in Seq(Token) /\ b \in Seq(Token)
      /\ Len(a) \in Nat /\ Len(m) \in Nat /\ Len(b) \in Nat
      /\ c \in Seq(Token) /\ n \in Seq(Token) /\ d \in Seq(Token)
      /\ Len(c) \in Nat /\ Len(n) \in Nat /\ Len(d) \in Nat
  BY KindIsTokens
<1>2. PICK k : k = SendKey(a, m, b) /\ k = SendKey(c, n, d)
  OBVIOUS
<1>3. PICK i, j \in Nat : SendKeyLayout(k, i, j, a, m, b)
  BY <1>2, SendKeySpans
<1>4. PICK u, v \in Nat : SendKeyLayout(k, u, v, c, n, d)
  BY <1>2, SendKeySpans
<1>5. /\ Len(k) = j + Len(b) /\ k[i] = Colon /\ k[j] = Colon
      /\ i = Len(a) + 3 /\ j = i + Len(m) + 1
      /\ Span(k, 2, a) /\ Span(k, i, m) /\ Span(k, j, b)
  BY <1>3 DEF SendKeyLayout
<1>6. /\ Len(k) = v + Len(d) /\ k[u] = Colon /\ k[v] = Colon
      /\ u = Len(c) + 3 /\ v = u + Len(n) + 1
      /\ Span(k, 2, c) /\ Span(k, u, n) /\ Span(k, v, d)
  BY <1>4 DEF SendKeyLayout
<1>7. ASSUME NEW e \in Nat, e > 2, e <= Len(k), k[e] = Colon PROVE e = i \/ e = j
  <2>1. ~(e > 2 /\ e <= 2 + Len(a))
    BY <1>1, <1>5, <1>7, NoColonInSpan
  <2>2. ~(e > i /\ e <= i + Len(m))
    BY <1>1, <1>5, <1>7, NoColonInSpan
  <2>3. ~(e > j /\ e <= j + Len(b))
    BY <1>1, <1>5, <1>7, NoColonInSpan
  <2> QED
    BY <1>1, <1>5, <1>7, <2>1, <2>2, <2>3
<1>8. u > 2 /\ u <= Len(k) /\ v > 2 /\ v <= Len(k)
  BY <1>1, <1>6
<1>9. u = i \/ u = j
  BY <1>6, <1>7, <1>8
<1>10. v = i \/ v = j
  BY <1>6, <1>7, <1>8
<1>11. u = i /\ v = j
  BY <1>1, <1>5, <1>6, <1>9, <1>10
<1>12. Len(c) = Len(a) /\ Len(n) = Len(m) /\ Len(d) = Len(b)
  BY <1>1, <1>5, <1>6, <1>11
<1>13. a = c
  BY <1>1, <1>5, <1>6, <1>11, <1>12, SameSpan
<1>14. m = n
  BY <1>1, <1>5, <1>6, <1>11, <1>12, SameSpan
<1>15. b = d
  BY <1>1, <1>5, <1>6, <1>11, <1>12, SameSpan
<1> QED
  BY <1>13, <1>14, <1>15

CallKeyLayout(k, i, j, l, a, m, r, b) ==
  /\ k \in Seq(Token) /\ Len(k) = l + Len(b) /\ k[1] = "call"
  /\ i = Len(a) + 3 /\ j = i + Len(m) + 1 /\ l = j + Len(r) + 1
  /\ k[i] = Colon /\ k[j] = Colon /\ k[l] = Colon
  /\ Span(k, 2, a) /\ Span(k, i, m) /\ Span(k, j, r) /\ Span(k, l, b)

LEMMA CallKeySpans ==
  ASSUME NEW a \in Kinds, NEW m \in Kinds, NEW r \in Kinds, NEW b \in Kinds
  PROVE  \E i, j, l \in Nat : CallKeyLayout(CallKey(a, m, r, b), i, j, l, a, m, r, b)
<1>1. /\ "call" \in Token /\ a \in Seq(Token) /\ m \in Seq(Token) /\ r \in Seq(Token) /\ b \in Seq(Token)
      /\ Len(a) \in Nat /\ Len(m) \in Nat /\ Len(r) \in Nat /\ Len(b) \in Nat
  BY KindIsTokens DEF Token
<1>2. PICK x : x = <<"call", Colon>> \o a
  OBVIOUS
<1>3. PICK y : y = x \o <<Colon>> \o m
  OBVIOUS
<1>4. PICK z : z = y \o <<Colon>> \o r
  OBVIOUS
<1>5. PICK k : k = CallKey(a, m, r, b) /\ k = z \o <<Colon>> \o b
  BY <1>2, <1>3, <1>4 DEF CallKey
<1>6. PICK i \in Nat : i = Len(a) + 3
  BY <1>1
<1>7. PICK j \in Nat : j = i + Len(m) + 1
  BY <1>1
<1>8. PICK l \in Nat : l = j + Len(r) + 1
  BY <1>1
<1>9. x \in Seq(Token) /\ Len(x) = Len(a) + 2 /\ x[1] = "call" /\ Span(x, 2, a)
  BY <1>1, <1>2, FirstSpan
<1>10. /\ y \in Seq(Token) /\ Len(y) = i + Len(m)
      /\ y[i] = Colon /\ Span(y, i, m) /\ Starts(y, x)
  <2>1. i = Len(x) + 1
    BY <1>1, <1>6, <1>7, <1>8, <1>9
  <2>2. /\ y \in Seq(Token) /\ Len(y) = Len(x) + 1 + Len(m)
        /\ y[Len(x) + 1] = Colon /\ Span(y, Len(x) + 1, m) /\ Starts(y, x)
    BY <1>1, <1>3, <1>9, NextSpan
  <2> QED
    BY <2>1, <2>2
<1>11. /\ z \in Seq(Token) /\ Len(z) = j + Len(r)
      /\ z[j] = Colon /\ Span(z, j, r) /\ Starts(z, y)
  <2>1. j = Len(y) + 1
    BY <1>1, <1>6, <1>7, <1>8, <1>10
  <2>2. /\ z \in Seq(Token) /\ Len(z) = Len(y) + 1 + Len(r)
        /\ z[Len(y) + 1] = Colon /\ Span(z, Len(y) + 1, r) /\ Starts(z, y)
    BY <1>1, <1>4, <1>10, NextSpan
  <2> QED
    BY <2>1, <2>2
<1>12. /\ k \in Seq(Token) /\ Len(k) = l + Len(b)
      /\ k[l] = Colon /\ Span(k, l, b) /\ Starts(k, z)
  <2>1. l = Len(z) + 1
    BY <1>1, <1>6, <1>7, <1>8, <1>11
  <2>2. /\ k \in Seq(Token) /\ Len(k) = Len(z) + 1 + Len(b)
        /\ k[Len(z) + 1] = Colon /\ Span(k, Len(z) + 1, b) /\ Starts(k, z)
    BY <1>1, <1>5, <1>11, NextSpan
  <2> QED
    BY <2>1, <2>2
<1>13. k[1] = "call" /\ k[i] = Colon /\ k[j] = Colon
  <2>1. /\ 1 \in 1..Len(x)
        /\ 1 \in 1..Len(y) /\ i \in 1..Len(y)
        /\ 1 \in 1..Len(z) /\ i \in 1..Len(z) /\ j \in 1..Len(z)
    BY <1>1, <1>6, <1>7, <1>8, <1>9, <1>10, <1>11, <1>12
  <2> QED
    BY <1>6, <1>7, <1>8, <1>9, <1>10, <1>11, <1>12, <2>1 DEF Starts
<1>14. Span(k, 2, a)
  <2>1. 2 + Len(a) <= Len(x) /\ 2 + Len(a) <= Len(y) /\ 2 + Len(a) <= Len(z)
    BY <1>1, <1>6, <1>7, <1>8, <1>9, <1>10, <1>11, <1>12
  <2>2. Span(y, 2, a)
    BY <1>1, <1>9, <1>10, <2>1, SpanKept
  <2>3. Span(z, 2, a)
    BY <1>1, <1>10, <1>11, <2>1, <2>2, SpanKept
  <2> QED
    BY <1>1, <1>11, <1>12, <2>1, <2>3, SpanKept
<1>15. Span(k, i, m)
  <2>1. i + Len(m) <= Len(y) /\ i + Len(m) <= Len(z)
    BY <1>1, <1>6, <1>7, <1>8, <1>9, <1>10, <1>11, <1>12
  <2>2. Span(z, i, m)
    BY <1>1, <1>10, <1>11, <2>1, SpanKept
  <2> QED
    BY <1>1, <1>11, <1>12, <2>1, <2>2, SpanKept
<1>16. Span(k, j, r)
  <2>1. j + Len(r) <= Len(z)
    BY <1>1, <1>6, <1>7, <1>8, <1>9, <1>10, <1>11, <1>12
  <2> QED
    BY <1>1, <1>11, <1>12, <2>1, SpanKept
<1>17. CallKeyLayout(k, i, j, l, a, m, r, b)
  BY <1>6, <1>7, <1>8, <1>12, <1>13, <1>14, <1>15, <1>16 DEF CallKeyLayout
<1> QED
  BY <1>5, <1>17

CallParts(k, a, m, r, b) ==
  /\ a \in Kinds /\ m \in Kinds /\ r \in Kinds /\ b \in Kinds
  /\ k = CallKey(a, m, r, b)

FreeParts(a, m, r, b) == Free(a) /\ Free(m) /\ Free(r) /\ Free(b)

LEMMA CallKeyInjective ==
  ASSUME NEW k, NEW a, NEW m, NEW r, NEW b, NEW c, NEW n, NEW q, NEW d,
         CallParts(k, a, m, r, b), FreeParts(a, m, r, b), CallParts(k, c, n, q, d)
  PROVE  a = c /\ m = n /\ r = q /\ b = d
<1>0. /\ a \in Kinds /\ m \in Kinds /\ r \in Kinds /\ b \in Kinds
      /\ c \in Kinds /\ n \in Kinds /\ q \in Kinds /\ d \in Kinds
  BY DEF CallParts
<1>1. /\ a \in Seq(Token) /\ m \in Seq(Token) /\ r \in Seq(Token) /\ b \in Seq(Token)
      /\ Len(a) \in Nat /\ Len(m) \in Nat /\ Len(r) \in Nat /\ Len(b) \in Nat
      /\ c \in Seq(Token) /\ n \in Seq(Token) /\ q \in Seq(Token) /\ d \in Seq(Token)
      /\ Len(c) \in Nat /\ Len(n) \in Nat /\ Len(q) \in Nat /\ Len(d) \in Nat
  BY <1>0, KindIsTokens
<1>2. k = CallKey(a, m, r, b) /\ k = CallKey(c, n, q, d)
  BY DEF CallParts
<1>3. PICK i, j, l \in Nat : CallKeyLayout(k, i, j, l, a, m, r, b)
  <2>1. \E i, j, l \in Nat : CallKeyLayout(CallKey(a, m, r, b), i, j, l, a, m, r, b)
    BY <1>0, CallKeySpans
  <2> QED
    BY <1>2, <2>1
<1>4. PICK u, v, w \in Nat : CallKeyLayout(k, u, v, w, c, n, q, d)
  <2>1. \E u, v, w \in Nat : CallKeyLayout(CallKey(c, n, q, d), u, v, w, c, n, q, d)
    BY <1>0, CallKeySpans
  <2> QED
    BY <1>2, <2>1
<1>5. /\ Len(k) = l + Len(b) /\ k[i] = Colon /\ k[j] = Colon /\ k[l] = Colon
      /\ i = Len(a) + 3 /\ j = i + Len(m) + 1 /\ l = j + Len(r) + 1
      /\ Span(k, 2, a) /\ Span(k, i, m) /\ Span(k, j, r) /\ Span(k, l, b)
  BY <1>3 DEF CallKeyLayout
<1>6. /\ Len(k) = w + Len(d) /\ k[u] = Colon /\ k[v] = Colon /\ k[w] = Colon
      /\ u = Len(c) + 3 /\ v = u + Len(n) + 1 /\ w = v + Len(q) + 1
      /\ Span(k, 2, c) /\ Span(k, u, n) /\ Span(k, v, q) /\ Span(k, w, d)
  BY <1>4 DEF CallKeyLayout
<1>7. ASSUME NEW e \in Nat, e > 2, e <= Len(k), k[e] = Colon PROVE e = i \/ e = j \/ e = l
  <2>0. Free(a) /\ Free(m) /\ Free(r) /\ Free(b)
    BY DEF FreeParts
  <2>1. ~(e > 2 /\ e <= 2 + Len(a))
    BY <1>1, <1>5, <1>7, <2>0, NoColonInSpan
  <2>2. ~(e > i /\ e <= i + Len(m))
    BY <1>1, <1>5, <1>7, <2>0, NoColonInSpan
  <2>3. ~(e > j /\ e <= j + Len(r))
    BY <1>1, <1>5, <1>7, <2>0, NoColonInSpan
  <2>4. ~(e > l /\ e <= l + Len(b))
    BY <1>1, <1>5, <1>7, <2>0, NoColonInSpan
  <2>5. /\ i = Len(a) + 3 /\ j = i + Len(m) + 1 /\ l = j + Len(r) + 1
        /\ e \in Nat /\ e > 2 /\ e <= l + Len(b)
    BY <1>5, <1>7
  <2>6. Len(a) \in Nat /\ Len(m) \in Nat /\ Len(r) \in Nat /\ Len(b) \in Nat
    BY <1>1
  <2> QED
    BY <2>1, <2>2, <2>3, <2>4, <2>5, <2>6
<1>8. u > 2 /\ u <= Len(k) /\ v > 2 /\ v <= Len(k) /\ w > 2 /\ w <= Len(k)
  BY <1>1, <1>6
<1>9. u = i \/ u = j \/ u = l
  BY <1>6, <1>7, <1>8
<1>10. v = i \/ v = j \/ v = l
  BY <1>6, <1>7, <1>8
<1>11. w = i \/ w = j \/ w = l
  BY <1>6, <1>7, <1>8
<1>12. u = i /\ v = j /\ w = l
  <2>1. i < j /\ j < l
    BY <1>1, <1>5
  <2>2. u < v /\ v < w
    BY <1>1, <1>6
  <2> QED
    BY <1>9, <1>10, <1>11, <2>1, <2>2
<1>13. Len(c) = Len(a) /\ Len(n) = Len(m) /\ Len(q) = Len(r) /\ Len(d) = Len(b)
  <2>1. /\ i = Len(a) + 3 /\ j = i + Len(m) + 1 /\ l = j + Len(r) + 1 /\ Len(k) = l + Len(b)
        /\ i = Len(c) + 3 /\ j = i + Len(n) + 1 /\ l = j + Len(q) + 1 /\ Len(k) = l + Len(d)
    BY <1>5, <1>6, <1>12
  <2> QED
    BY <1>1, <2>1
<1>14. a = c
  BY <1>1, <1>5, <1>6, <1>12, <1>13, SameSpan
<1>15. m = n
  BY <1>1, <1>5, <1>6, <1>12, <1>13, SameSpan
<1>16. r = q
  BY <1>1, <1>5, <1>6, <1>12, <1>13, SameSpan
<1>17. b = d
  BY <1>1, <1>5, <1>6, <1>12, <1>13, SameSpan
<1> QED
  BY <1>14, <1>15, <1>16, <1>17

LEMMA HandlerKeyLength ==
  ASSUME NEW k, NEW i \in Nat, NEW a \in Kinds, NEW b \in Kinds,
         HandlerKeyLayout(k, i, a, b)
  PROVE  k \in Seq(Token) /\ Len(k) \in Nat \ {0}
<1>1. Len(a) \in Nat /\ Len(b) \in Nat
  BY KindIsTokens
<1> QED
  BY <1>1 DEF HandlerKeyLayout

LEMMA SendKeyLength ==
  ASSUME NEW k, NEW i \in Nat, NEW j \in Nat, NEW a \in Kinds, NEW m \in Kinds, NEW b \in Kinds,
         SendKeyLayout(k, i, j, a, m, b)
  PROVE  k \in Seq(Token) /\ Len(k) \in Nat \ {0}
<1>1. Len(a) \in Nat /\ Len(m) \in Nat /\ Len(b) \in Nat
  BY KindIsTokens
<1> QED
  BY <1>1 DEF SendKeyLayout

LEMMA CallKeyLength ==
  ASSUME NEW k, NEW i \in Nat, NEW j \in Nat, NEW l \in Nat, NEW a \in Kinds, NEW m \in Kinds, NEW r \in Kinds, NEW b \in Kinds,
         CallKeyLayout(k, i, j, l, a, m, r, b)
  PROVE  k \in Seq(Token) /\ Len(k) \in Nat \ {0}
<1>1. Len(a) \in Nat /\ Len(m) \in Nat /\ Len(r) \in Nat /\ Len(b) \in Nat
  BY KindIsTokens
<1> QED
  BY <1>1 DEF CallKeyLayout

LEMMA KeyOfForms ==
  ASSUME NEW t \in Type
  PROVE  /\ t.form = "handler" => t \in HandlerType /\ KeyOf(t) = HandlerKey(t.input, t.result)
         /\ t.form = "send" => t \in SendType /\ KeyOf(t) = SendKey(t.input, t.msg, t.result)
         /\ t.form = "call" => t \in CallType /\ KeyOf(t) = CallKey(t.input, t.msg, t.resp, t.result)
         /\ t.form \in {"handler", "send", "call"}
<1>1. t \in HandlerType \/ t \in SendType \/ t \in CallType
  BY DEF Type
<1>2. CASE t \in HandlerType
  <2>1. t.form = "handler"
    BY <1>2 DEF HandlerType
  <2> QED
    BY <1>2, <2>1 DEF KeyOf
<1>3. CASE t \in SendType
  <2>1. t.form = "send"
    BY <1>3 DEF SendType
  <2> QED
    BY <1>3, <2>1 DEF KeyOf
<1>4. CASE t \in CallType
  <2>1. t.form = "call"
    BY <1>4 DEF CallType
  <2> QED
    BY <1>4, <2>1 DEF KeyOf
<1> QED
  BY <1>1, <1>2, <1>3, <1>4

LEMMA KeyOfStarts ==
  ASSUME NEW t \in Type
  PROVE  KeyOf(t) \in Seq(Token) /\ Len(KeyOf(t)) \in Nat \ {0} /\ KeyOf(t)[1] = t.form
<1>1. CASE t.form = "handler"
  <2>1. t.input \in Kinds /\ t.result \in Kinds /\ KeyOf(t) = HandlerKey(t.input, t.result)
    BY <1>1, KeyOfForms DEF HandlerType
  <2>2. \E i \in Nat : HandlerKeyLayout(HandlerKey(t.input, t.result), i, t.input, t.result)
    BY <2>1, HandlerKeySpans
  <2>3. PICK i \in Nat : HandlerKeyLayout(HandlerKey(t.input, t.result), i, t.input, t.result)
    BY <2>2
  <2>4. KeyOf(t) \in Seq(Token) /\ KeyOf(t)[1] = t.form
    BY <1>1, <2>1, <2>3 DEF HandlerKeyLayout
  <2>5. Len(KeyOf(t)) \in Nat \ {0}
    BY <2>1, <2>3, HandlerKeyLength
  <2> QED
    BY <2>4, <2>5
<1>2. CASE t.form = "send"
  <2>1. /\ t.input \in Kinds /\ t.msg \in Kinds /\ t.result \in Kinds
        /\ KeyOf(t) = SendKey(t.input, t.msg, t.result)
    BY <1>2, KeyOfForms DEF SendType
  <2>2. \E i, j \in Nat : SendKeyLayout(SendKey(t.input, t.msg, t.result), i, j, t.input, t.msg, t.result)
    BY <2>1, SendKeySpans
  <2>3. PICK i, j \in Nat : SendKeyLayout(SendKey(t.input, t.msg, t.result), i, j, t.input, t.msg, t.result)
    BY <2>2
  <2>4. KeyOf(t) \in Seq(Token) /\ KeyOf(t)[1] = t.form
    BY <1>2, <2>1, <2>3 DEF SendKeyLayout
  <2>5. Len(KeyOf(t)) \in Nat \ {0}
    BY <2>1, <2>3, SendKeyLength
  <2> QED
    BY <2>4, <2>5
<1>3. CASE t.form = "call"
  <2>1. /\ t.input \in Kinds /\ t.msg \in Kinds /\ t.resp \in Kinds /\ t.result \in Kinds
        /\ KeyOf(t) = CallKey(t.input, t.msg, t.resp, t.result)
    BY <1>3, KeyOfForms DEF CallType
  <2>2. \E i, j, l \in Nat :
          CallKeyLayout(CallKey(t.input, t.msg, t.resp, t.result), i, j, l,
                        t.input, t.msg, t.resp, t.result)
    BY <2>1, CallKeySpans
  <2>3. PICK i, j, l \in Nat : CallKeyLayout(CallKey(t.input, t.msg, t.resp, t.result), i, j, l, t.input, t.msg, t.resp, t.result)
    BY <2>2
  <2>4. KeyOf(t) \in Seq(Token) /\ KeyOf(t)[1] = t.form
    BY <1>3, <2>1, <2>3 DEF CallKeyLayout
  <2>5. Len(KeyOf(t)) \in Nat \ {0}
    BY <2>1, <2>3, CallKeyLength
  <2> QED
    BY <2>4, <2>5
<1> QED
  BY <1>1, <1>2, <1>3, KeyOfForms

\* A type asked for by kinds without colons is the only one with its key.
LEMMA KeyTellsType ==
  ASSUME NEW t \in Type, NEW w \in Type, ColonFree(t), KeyOf(t) = KeyOf(w)
  PROVE  t = w
<1>1. t.form = w.form
  BY KeyOfStarts
<1>2. \A k \in Kinds : k \in KindsOf(t) => Free(k)
  BY KindIsTokens DEF ColonFree, Free
<1>3. CASE t.form = "handler"
  <2>1. t \in HandlerType /\ w \in HandlerType
    BY <1>1, <1>3, KeyOfForms
  <2>2. HandlerKey(t.input, t.result) = HandlerKey(w.input, w.result)
    BY <1>1, <1>3, KeyOfForms
  <2>3. Free(t.input) /\ Free(t.result)
    BY <1>2, <1>3, <2>1 DEF KindsOf, HandlerType
  <2>4. t.input = w.input /\ t.result = w.result
    BY <2>1, <2>2, <2>3, HandlerKeyInjective DEF HandlerType
  <2> QED
    BY <2>1, <2>4 DEF HandlerType
<1>4. CASE t.form = "send"
  <2>1. t \in SendType /\ w \in SendType
    BY <1>1, <1>4, KeyOfForms
  <2>2. SendKey(t.input, t.msg, t.result) = SendKey(w.input, w.msg, w.result)
    BY <1>1, <1>4, KeyOfForms
  <2>3. Free(t.input) /\ Free(t.msg) /\ Free(t.result)
    BY <1>2, <1>4, <2>1 DEF KindsOf, SendType
  <2>4. t.input = w.input /\ t.msg = w.msg /\ t.result = w.result
    BY <2>1, <2>2, <2>3, SendKeyInjective DEF SendType
  <2> QED
    BY <2>1, <2>4 DEF SendType
<1>5. CASE t.form = "call"
  <2>1. t \in CallType /\ w \in CallType
    BY <1>1, <1>5, KeyOfForms
  <2>2. CallKey(t.input, t.msg, t.resp, t.result) = CallKey(w.input, w.msg, w.resp, w.result)
    BY <1>1, <1>5, KeyOfForms
  <2>3. Free(t.input) /\ Free(t.msg) /\ Free(t.resp) /\ Free(t.result)
    BY <1>2, <1>5, <2>1 DEF KindsOf, CallType
  <2>4. /\ t.input \in Kinds /\ t.msg \in Kinds /\ t.resp \in Kinds /\ t.result \in Kinds
        /\ w.input \in Kinds /\ w.msg \in Kinds /\ w.resp \in Kinds /\ w.result \in Kinds
    BY <2>1 DEF CallType
  <2>5. CallParts(KeyOf(t), t.input, t.msg, t.resp, t.result)
    BY <1>5, <2>4, KeyOfForms DEF CallParts
  <2>6. CallParts(KeyOf(t), w.input, w.msg, w.resp, w.result)
    BY <1>1, <1>5, <2>4, KeyOfForms DEF CallParts
  <2>7. FreeParts(t.input, t.msg, t.resp, t.result)
    BY <2>3 DEF FreeParts
  <2>8. t.input = w.input /\ t.msg = w.msg /\ t.resp = w.resp /\ t.result = w.result
    BY <2>5, <2>6, <2>7, CallKeyInjective
  <2> QED
    BY <1>1, <2>1, <2>8 DEF CallType
<1> QED
  BY <1>3, <1>4, <1>5, KeyOfForms

\* Recovery handlers have keys of their own.
LEMMA ErrorKeys ==
  ASSUME NEW t \in Type, NEW w \in Type
  PROVE  /\ ErrorKey(KeyOf(t)) # <<>> /\ ErrorKey(KeyOf(t)) # KeyOf(w)
         /\ ErrorKey(KeyOf(t)) = ErrorKey(KeyOf(w)) => KeyOf(t) = KeyOf(w)
<1>1. KeyOf(t) \in Seq(Token) /\ KeyOf(w) \in Seq(Token) /\ KeyOf(w)[1] # "error"
  BY KeyOfStarts, KindsAreTokens
<1>2. "error" \in Token
  BY DEF Token
<1>3. PICK x : x = ErrorKey(KeyOf(t))
  OBVIOUS
<1>4. x \in Seq(Token) /\ Len(x) = Len(KeyOf(t)) + 2 /\ Len(KeyOf(t)) \in Nat /\ x[1] = "error"
  BY <1>1, <1>2, <1>3, PrefixElements DEF ErrorKey
<1>5. x # <<>>
  BY <1>4
<1>6. ErrorKey(KeyOf(t)) = ErrorKey(KeyOf(w)) => KeyOf(t) = KeyOf(w)
  <2>1. <<"error", Colon>> \in Seq(Token)
    BY <1>2, RegistryAssumption DEF Token
  <2>2. <<"error", Colon>> \o KeyOf(t) = <<"error", Colon>> \o KeyOf(w) => KeyOf(t) = KeyOf(w)
    BY <1>1, <2>1, ConcatSimplifications
  <2> QED
    BY <2>2 DEF ErrorKey
<1> QED
  BY <1>1, <1>3, <1>4, <1>5, <1>6

-----------------------------------------------------------------------------
(* The invariant.  The map a Worker holds, and the copy a backend serves,  *)
(* have an entry for each registration and no other: under the key of its  *)
(* type, the handler itself and the key of its recovery handler, under     *)
(* which is the recovery handler last given to it, of the same type.       *)

K(f) == KeyOf(TypeOf[f])

EntryOfRegistration(h, g, k) ==
  \E f \in DOMAIN g : k = K(f) \/ (g[f] # Nil /\ k = ErrorKey(K(f)))

HandlerEntry(h, g, f) ==
  /\ f \in Handlers /\ K(f) \in DOMAIN h /\ h[K(f)].fn = f
  /\ h[K(f)].recovery = IF g[f] = Nil THEN <<>> ELSE ErrorKey(K(f))

RecoveryEntry(h, g, f) ==
  g[f] # Nil =>
    /\ g[f] \in Recoverers /\ TypeOf[g[f]] = TypeOf[f]
    /\ ErrorKey(K(f)) \in DOMAIN h /\ h[ErrorKey(K(f))].fn = g[f]

Keyed(h, g) ==
  /\ \A k \in DOMAIN h : EntryOfRegistration(h, g, k)
  /\ \A f \in DOMAIN g : HandlerEntry(h, g, f) /\ RecoveryEntry(h, g, f)

RegInv ==
  /\ Keyed(handlers, regs)
  /\ served # Nil => Keyed(served, promised)
  /\ served = Nil => last = Nil
  /\ DispatchMatchesTypes
  /\ RegisteredIsServed

LEMMA TypesOfFunctions ==
  ASSUME NEW f \in Handlers \cup Recoverers
  PROVE  TypeOf[f] \in Type
BY RegistryAssumption

\* Registering a handler adds its entry and leaves the others alone.
LEMMA KeyedAfterRegister ==
  ASSUME NEW h, NEW g, NEW f \in Handlers, Keyed(h, g), K(f) \notin DOMAIN h
  PROVE  Keyed(With(h, K(f), [fn |-> f, recovery |-> <<>>]), With(g, f, Nil))
<1> DEFINE h2 == With(h, K(f), [fn |-> f, recovery |-> <<>>])
           g2 == With(g, f, Nil)
<1>1. f \notin DOMAIN g
  BY DEF Keyed, HandlerEntry
<1>2. /\ DOMAIN h2 = DOMAIN h \cup {K(f)} /\ h2[K(f)] = [fn |-> f, recovery |-> <<>>]
      /\ \A k \in DOMAIN h : h2[k] = h[k]
  BY DEF With
<1>3. DOMAIN g2 = DOMAIN g \cup {f} /\ g2[f] = Nil /\ \A x \in DOMAIN g : g2[x] = g[x]
  BY <1>1 DEF With
<1> HIDE DEF h2, g2
<1>4. ASSUME NEW k \in DOMAIN h2 PROVE EntryOfRegistration(h2, g2, k)
  <2>1. CASE k = K(f)
    BY <2>1, <1>3 DEF EntryOfRegistration
  <2>2. CASE k \in DOMAIN h
    <3>1. PICK x \in DOMAIN g : k = K(x) \/ (g[x] # Nil /\ k = ErrorKey(K(x)))
      BY <2>2 DEF Keyed, EntryOfRegistration
    <3> QED
      BY <3>1, <1>3 DEF EntryOfRegistration
  <2> QED
    BY <1>2, <2>1, <2>2
<1>5. ASSUME NEW x \in DOMAIN g2 PROVE HandlerEntry(h2, g2, x) /\ RecoveryEntry(h2, g2, x)
  <2>1. CASE x = f
    BY <2>1, <1>2, <1>3 DEF HandlerEntry, RecoveryEntry
  <2>2. CASE x \in DOMAIN g
    <3>1. HandlerEntry(h, g, x) /\ RecoveryEntry(h, g, x) /\ g2[x] = g[x]
      BY <2>2, <1>3 DEF Keyed
    <3>2. HandlerEntry(h2, g2, x)
      BY <3>1, <1>2 DEF HandlerEntry
    <3>3. RecoveryEntry(h2, g2, x)
      BY <3>1, <1>2 DEF RecoveryEntry
    <3> QED
      BY <3>2, <3>3
  <2> QED
    BY <1>3, <2>1, <2>2
<1>6. Keyed(h2, g2)
  BY <1>4, <1>5 DEF Keyed
<1> QED
  BY <1>6 DEF h2, g2

\* Giving a handler a recovery handler changes its two entries together.
LEMMA KeyedAfterRecovery ==
  ASSUME NEW h, NEW g, NEW f \in DOMAIN g, NEW te \in Recoverers,
         Keyed(h, g), TypeOf[te] = TypeOf[f]
  PROVE  Keyed(With(With(h, ErrorKey(K(f)), [fn |-> te, recovery |-> <<>>]),
                    K(f), [h[K(f)] EXCEPT !.recovery = ErrorKey(K(f))]),
               [g EXCEPT ![f] = te])
<1> DEFINE e == ErrorKey(K(f))
           h1 == With(h, e, [fn |-> te, recovery |-> <<>>])
           h2 == With(h1, K(f), [h[K(f)] EXCEPT !.recovery = e])
           g2 == [g EXCEPT ![f] = te]
<1>1. f \in Handlers /\ K(f) \in DOMAIN h /\ h[K(f)].fn = f
  BY DEF Keyed, HandlerEntry
<1>2. \A x \in DOMAIN g : x \in Handlers /\ h[K(x)].fn = x
  BY DEF Keyed, HandlerEntry
<1>3. \A x \in DOMAIN g : TypeOf[x] \in Type
  BY <1>2, TypesOfFunctions
<1>4. \A x, y \in DOMAIN g :
        /\ ErrorKey(K(x)) # <<>> /\ ErrorKey(K(x)) # K(y)
        /\ ErrorKey(K(x)) = ErrorKey(K(y)) => x = y
        /\ K(x) = K(y) => x = y
  BY <1>2, <1>3, ErrorKeys DEF K
<1>5. te # Nil
  BY RegistryAssumption
<1>6. DOMAIN h1 = DOMAIN h \cup {e} /\ h1[e].fn = te /\ \A k \in DOMAIN h : k # e => h1[k] = h[k]
  BY DEF With
<1>7. /\ DOMAIN h2 = DOMAIN h \cup {e} /\ h2[e].fn = te
      /\ h2[K(f)] = [h[K(f)] EXCEPT !.recovery = e]
      /\ \A k \in DOMAIN h : k # e /\ k # K(f) => h2[k] = h[k]
  <2>1. /\ DOMAIN h2 = DOMAIN h1 \cup {K(f)} /\ h2[K(f)] = [h[K(f)] EXCEPT !.recovery = e]
        /\ \A k \in DOMAIN h1 : k # K(f) => h2[k] = h1[k]
    BY DEF With
  <2>2. e # K(f)
    BY <1>4
  <2> HIDE DEF e, h1, h2
  <2> QED
    BY <1>1, <1>6, <2>1, <2>2
<1>8. DOMAIN g2 = DOMAIN g /\ g2[f] = te /\ \A x \in DOMAIN g : x # f => g2[x] = g[x]
  OBVIOUS
<1> HIDE DEF h1, h2, g2
<1>9. ASSUME NEW k \in DOMAIN h2 PROVE EntryOfRegistration(h2, g2, k)
  <2>1. CASE k = e
    BY <2>1, <1>5, <1>8 DEF EntryOfRegistration
  <2>2. CASE k \in DOMAIN h
    <3>1. PICK x \in DOMAIN g : k = K(x) \/ (g[x] # Nil /\ k = ErrorKey(K(x)))
      BY <2>2 DEF Keyed, EntryOfRegistration
    <3>2. g[x] # Nil => g2[x] # Nil
      BY <1>5, <1>8
    <3> QED
      BY <3>1, <3>2, <1>8 DEF EntryOfRegistration
  <2> QED
    BY <1>7, <2>1, <2>2
<1>10. ASSUME NEW x \in DOMAIN g2 PROVE HandlerEntry(h2, g2, x) /\ RecoveryEntry(h2, g2, x)
  <2>1. x \in DOMAIN g /\ HandlerEntry(h, g, x) /\ RecoveryEntry(h, g, x)
    BY <1>8 DEF Keyed
  <2>2. CASE x = f
    <3>1. HandlerEntry(h, g, f)
      BY <2>1, <2>2
    <3>2. h2[K(f)].recovery = e
      BY <1>7
    <3> QED
      BY <2>2, <1>1, <1>5, <1>7, <1>8 DEF HandlerEntry, RecoveryEntry
  <2>3. CASE x # f
    <3>1. K(x) # e /\ K(x) # K(f) /\ ErrorKey(K(x)) # e /\ ErrorKey(K(x)) # K(f)
      BY <1>4, <2>1, <2>3
    <3>2. g2[x] = g[x]
      BY <1>8, <2>1, <2>3
    <3> HIDE DEF e
    <3>3. HandlerEntry(h2, g2, x)
      BY <1>7, <2>1, <3>1, <3>2 DEF HandlerEntry
    <3>4. RecoveryEntry(h2, g2, x)
      BY <1>7, <2>1, <3>1, <3>2 DEF RecoveryEntry
    <3> QED
      BY <3>3, <3>4
  <2> QED
    BY <2>2, <2>3
<1>11. Keyed(h2, g2)
  BY <1>9, <1>10 DEF Keyed
<1> QED
  BY <1>11 DEF e, h1, h2, g2

-----------------------------------------------------------------------------
(* What runs.                                                              *)

\* With the entries kept so, what is asked for runs the handlers of its type.
LEMMA ChainMatches ==
  ASSUME NEW t \in Type, NEW failed \in BOOLEAN, Keyed(served, promised), ColonFree(t),
         NEW p \in DOMAIN Chain(KeyOf(t), failed)
  PROVE  TypeOf[Chain(KeyOf(t), failed)[p]] = t
<1> DEFINE k == KeyOf(t)
<1>1. k \in DOMAIN served
  BY DEF Chain
<1>2. PICK f \in DOMAIN promised : k = K(f) \/ (promised[f] # Nil /\ k = ErrorKey(K(f)))
  BY <1>1 DEF Keyed, EntryOfRegistration
<1>3. f \in Handlers /\ TypeOf[f] \in Type /\ HandlerEntry(served, promised, f) /\ RecoveryEntry(served, promised, f)
  BY TypesOfFunctions DEF Keyed, HandlerEntry
<1>4. k = K(f)
  BY <1>2, <1>3, ErrorKeys DEF K
<1>5. TypeOf[f] = t
  BY <1>3, <1>4, KeyTellsType DEF K
<1>6. served[k].fn = f
  BY <1>3, <1>4 DEF HandlerEntry
<1> HIDE DEF k
<1>7. CASE ~(failed /\ served[k].recovery # <<>> /\ served[k].recovery \in DOMAIN served)
  <2>1. Chain(k, failed) = <<f>>
    BY <1>1, <1>6, <1>7 DEF Chain
  <2> QED
    BY <1>5, <2>1 DEF k
<1>8. CASE failed /\ served[k].recovery # <<>> /\ served[k].recovery \in DOMAIN served
  <2>1. promised[f] # Nil /\ served[k].recovery = ErrorKey(k)
    BY <1>3, <1>4, <1>8 DEF HandlerEntry
  <2>2. served[ErrorKey(k)].fn = promised[f] /\ TypeOf[promised[f]] = t
    BY <1>3, <1>4, <1>5, <2>1 DEF RecoveryEntry
  <2>3. Chain(k, failed) = <<f, promised[f]>>
    BY <1>1, <1>6, <1>8, <2>1, <2>2 DEF Chain
  <2> QED
    BY <1>5, <2>2, <2>3 DEF k
<1> QED
  BY <1>7, <1>8

LEMMA ChainServes ==
  ASSUME NEW t \in Type, NEW failed \in BOOLEAN, Keyed(served, promised),
         NEW f \in DOMAIN promised, TypeOf[f] = t
  PROVE  /\ Chain(KeyOf(t), failed) # <<>> /\ Chain(KeyOf(t), failed)[1] = f
         /\ failed /\ promised[f] # Nil =>
              Len(Chain(KeyOf(t), failed)) = 2 /\ Chain(KeyOf(t), failed)[2] = promised[f]
<1> DEFINE k == KeyOf(t)
<1>1. HandlerEntry(served, promised, f) /\ RecoveryEntry(served, promised, f) /\ k = K(f)
  BY DEF Keyed, K
<1>2. ErrorKey(k) # <<>>
  BY ErrorKeys
<1> HIDE DEF k
<1>3. k \in DOMAIN served /\ served[k].fn = f
  BY <1>1 DEF HandlerEntry
<1>4. CASE failed /\ promised[f] # Nil
  <2>1. served[k].recovery = ErrorKey(k)
    BY <1>1, <1>4 DEF HandlerEntry
  <2>2. ErrorKey(k) \in DOMAIN served /\ served[ErrorKey(k)].fn = promised[f]
    BY <1>1, <1>4 DEF RecoveryEntry
  <2>3. Chain(k, failed) = <<f, promised[f]>>
    BY <1>2, <1>3, <1>4, <2>1, <2>2 DEF Chain
  <2> QED
    BY <2>3 DEF k
<1>5. CASE ~(failed /\ promised[f] # Nil)
  <2>1. Chain(k, failed) # <<>> /\ Chain(k, failed)[1] = f
    BY <1>3 DEF Chain
  <2> QED
    BY <1>5, <2>1 DEF k
<1> QED
  BY <1>4, <1>5

LEMMA InitRegInv == Init => RegInv
BY DEF Init, RegInv, Keyed, DispatchMatchesTypes, RegisteredIsServed

LEMMA StepRegInv == RegInv /\ [Next]_vars => RegInv'
<1> SUFFICES ASSUME RegInv, [Next]_vars PROVE RegInv'
  OBVIOUS
<1>1. ASSUME NEW f \in Handlers, Register(f) PROVE RegInv'
  <2>1. Keyed(handlers, regs)'
    <3>1. CASE K(f) \in DOMAIN handlers
      BY <1>1, <3>1 DEF RegInv, Register, addEntry, K, Keyed, EntryOfRegistration, HandlerEntry, RecoveryEntry
    <3>2. CASE K(f) \notin DOMAIN handlers
      <4>1. /\ handlers' = With(handlers, K(f), [fn |-> f, recovery |-> <<>>])
            /\ regs' = With(regs, f, Nil)
        BY <1>1, <3>2 DEF Register, addEntry, K
      <4>2. Keyed(handlers', regs')
        BY <3>2, <4>1, KeyedAfterRegister DEF RegInv
      <4> QED
        BY <4>2
    <3> QED
      BY <3>1, <3>2
  <2>2. UNCHANGED <<served, promised, last>>
    BY <1>1 DEF Register
  <2> QED
    BY <2>1, <2>2 DEF RegInv, DispatchMatchesTypes, RegisteredIsServed
<1>2. ASSUME NEW f \in Handlers, NEW te \in Recoverers, WithRecoveryHandler(f, te) PROVE RegInv'
  <2>1. Keyed(handlers, regs)'
    <3>1. f \in DOMAIN regs /\ TypeOf[te] = TypeOf[f]
      BY <1>2 DEF WithRecoveryHandler
    <3>2. /\ handlers' = With(With(handlers, ErrorKey(K(f)), [fn |-> te, recovery |-> <<>>]),
                              K(f), [handlers[K(f)] EXCEPT !.recovery = ErrorKey(K(f))])
          /\ regs' = [regs EXCEPT ![f] = te]
      BY <1>2 DEF WithRecoveryHandler, registerRecoveryHandler, K
    <3>3. Keyed(handlers', regs')
      BY <3>1, <3>2, KeyedAfterRecovery DEF RegInv
    <3> QED
      BY <3>3
  <2>2. UNCHANGED <<served, promised, last>>
    BY <1>2 DEF WithRecoveryHandler
  <2> QED
    BY <2>1, <2>2 DEF RegInv, DispatchMatchesTypes, RegisteredIsServed
<1>3. CASE NewBackend
  <2>1. /\ served = Nil /\ served' = handlers /\ promised' = regs
        /\ UNCHANGED <<handlers, regs, last>> /\ last = Nil
    BY <1>3 DEF NewBackend, RegInv
  <2>2. Keyed(handlers', regs') /\ Keyed(served', promised')
    BY <2>1 DEF RegInv
  <2> QED
    BY <2>1, <2>2 DEF RegInv, DispatchMatchesTypes, RegisteredIsServed
<1>4. ASSUME NEW t \in Asks, RunHandler(t) PROVE RegInv'
  <2>1. PICK failed \in BOOLEAN :
          last' = [asked |-> t, failed |-> failed, by |-> Chain(KeyOf(t), failed)]
    BY <1>4 DEF RunHandler
  <2>2. served # Nil /\ UNCHANGED <<handlers, regs, served, promised>> /\ t \in Type
    BY <1>4, RegistryAssumption DEF RunHandler
  <2>3. Keyed(served, promised)
    BY <2>2 DEF RegInv
  <2>4. last'.asked = t /\ last'.failed = failed /\ last'.by = Chain(KeyOf(t), failed)
    BY <2>1
  <2>5. DispatchMatchesTypes'
    BY <2>2, <2>3, <2>4, ChainMatches DEF DispatchMatchesTypes
  <2>6. RegisteredIsServed'
    BY <2>2, <2>3, <2>4, ChainServes DEF RegisteredIsServed
  <2>7. (Keyed(handlers, regs) /\ (served # Nil => Keyed(served, promised)) /\ (served = Nil => last = Nil))'
    BY <2>2 DEF RegInv
  <2> QED
    BY <2>5, <2>6, <2>7 DEF RegInv
<1>5. CASE UNCHANGED vars
  BY <1>5 DEF vars, RegInv, DispatchMatchesTypes, RegisteredIsServed
<1> QED
  BY <1>1, <1>2, <1>3, <1>4, <1>5 DEF Next

LEMMA SpecRegInv == Spec => []RegInv
<1> QED
  BY InitRegInv, StepRegInv, PTL DEF Spec

\* For any handlers, kinds and order of registration: what is asked for by
\* kinds without colons is run, and recovered, by handlers of these types
\* only (runtime.go and activities.go look handlers up by key alone).
THEOREM DispatchMatches == Spec => []DispatchMatchesTypes
<1>1. RegInv => DispatchMatchesTypes
  BY DEF RegInv
<1> QED
  BY <1>1, SpecRegInv, PTL

\* For any handlers, kinds and order of registration: the handlers registered
\* before a backend was built are the ones it runs for their types, with the
\* recovery handlers last given to them (addEntry, registerRecoveryHandler).
THEOREM RegistrationKept == Spec => []RegisteredIsServed
<1>1. RegInv => RegisteredIsServed
  BY DEF RegInv
<1> QED
  BY <1>1, SpecRegInv, PTL

=============================================================================
