---------------------------- MODULE DecoderProofs ----------------------------
(***************************************************************************)
(* What holds of feed() for every buffer, packet and limit.  Its loop is a  *)
(* recursion on what is left of the buffer, its text a fold over the bytes: *)
(* both are shown to have a solution, which nothing in a recursive         *)
(* definition says by itself, and both come with a rule for invariants.     *)
(* The provers have no induction over data; each induction here is on a    *)
(* minimal counterexample in a set of numbers.                              *)
(***************************************************************************)
EXTENDS KeyStrokes, TLAPS, WellFoundedInduction, SequenceTheorems

-----------------------------------------------------------------------------
(* Recursion over data, by minimal counterexamples *)

\* A set of numbers has a least one: a minimal counterexample, for well-
\* founded induction without an operator parameter.
LEMMA LeastNat ==
  ASSUME NEW T, T \subseteq Nat, T # {}
  PROVE  \E n \in T : \A m \in T : n <= m
<1>1. IsWellFoundedOn(OpToRel(<, Nat), Nat)
  BY NatLessThanWellFounded
<1>2. PICK n \in T : \A m \in T : ~ (<<m, n>> \in OpToRel(<, Nat))
  BY <1>1, WFMin
<1>3. \A m \in T : ~(m < n)
  BY <1>2 DEF OpToRel
<1> QED
  BY <1>3

Below(S, mu, n) == {s \in S : mu[s] < n}

Value(g, Stop, Base, Op, Pred, s) == IF s \in Stop THEN Base[s] ELSE Op[s][g[Pred[s]]]

Approximates(g, S, V, Stop, Base, Op, Pred, mu, n) ==
    /\ g \in [Below(S, mu, n) -> V]
    /\ \A s \in Below(S, mu, n) : g[s] = Value(g, Stop, Base, Op, Pred, s)

Decreases(S, Stop, Pred, mu) ==
    /\ Pred \in [S -> S]
    /\ mu \in [S -> Nat]
    /\ \A s \in S \ Stop : mu[Pred[s]] < mu[s]

Computes(f, S, V, Stop, Base, Op, Pred) ==
    /\ f \in [S -> V]
    /\ \A s \in S : f[s] = Value(f, Stop, Base, Op, Pred, s)

\* A recursion whose argument decreases has a solution.
LEMMA RecursionExists ==
  ASSUME NEW S, NEW V, NEW Stop, NEW Base \in [S -> V], NEW Op \in [S -> [V -> V]],
         NEW Pred, NEW mu, Decreases(S, Stop, Pred, mu)
  PROVE  \E f : Computes(f, S, V, Stop, Base, Op, Pred)
<1> USE DEF Decreases
<1> DEFINE B(n) == Below(S, mu, n)
           A(g, n) == Approximates(g, S, V, Stop, Base, Op, Pred, mu, n)
           Val(g, s) == Value(g, Stop, Base, Op, Pred, s)
<1>1. ASSUME NEW n \in Nat PROVE \E g : A(g, n)
  <2> DEFINE Wrong == {m \in Nat : ~ \E g : A(g, m)}
  <2>1. SUFFICES ASSUME Wrong # {} PROVE FALSE
    OBVIOUS
  <2>2. PICK m \in Wrong : \A k \in Wrong : m <= k
    BY <2>1, LeastNat
  <2>3. CASE m = 0
    <3>1. B(0) = {}
      BY DEF Below
    <3>2. A([s \in {} |-> s], 0)
      BY <3>1 DEF Approximates
    <3> QED
      BY <2>2, <2>3, <3>2
  <2>4. CASE m # 0
    <3>1. m - 1 \in Nat /\ m - 1 \notin Wrong
      BY <2>2, <2>4
    <3>2. PICK g : A(g, m - 1)
      BY <3>1
    <3> DEFINE h == [s \in B(m) |-> Val(g, s)]
    <3>3. ASSUME NEW s \in B(m), s \notin Stop PROVE Pred[s] \in B(m - 1) /\ Pred[s] \in B(m)
      BY <3>3, <2>2, <2>4 DEF Below
    <3>4. ASSUME NEW s \in B(m - 1) PROVE g[s] = Val(g, s) /\ g[s] \in V
      BY <3>2 DEF Approximates
    <3>5. ASSUME NEW s \in B(m) PROVE h[s] \in V /\ h[s] = Val(h, s)
      <4>1. CASE s \in Stop
        BY <4>1 DEF Value, Below
      <4>2. CASE s \notin Stop
        <5>1. Pred[s] \in B(m - 1) /\ Pred[s] \in B(m)
          BY <4>2, <3>3
        <5>2. g[Pred[s]] = Val(g, Pred[s]) /\ g[Pred[s]] \in V
          BY <5>1, <3>4
        <5>3. h[Pred[s]] = g[Pred[s]]
          BY <5>1, <5>2
        <5>4. h[s] = Op[s][g[Pred[s]]] /\ s \in S
          BY <4>2 DEF Value, Below
        <5> QED
          BY <4>2, <5>2, <5>3, <5>4 DEF Value
      <4> QED
        BY <4>1, <4>2
    <3>6. A(h, m)
      BY <3>5 DEF Approximates
    <3> QED
      BY <2>2, <3>6
  <2> QED
    BY <2>3, <2>4
<1>2. ASSUME NEW n \in Nat, NEW m \in Nat, NEW g, NEW h, A(g, n), A(h, m),
             NEW s \in B(n), s \in B(m)
      PROVE  g[s] = h[s]
  <2> DEFINE Wrong == {k \in Nat : \E t \in S : mu[t] = k /\ t \in B(n) /\ t \in B(m) /\ g[t] # h[t]}
  <2>1. SUFFICES ASSUME Wrong # {} PROVE FALSE
    BY <1>2 DEF Below
  <2>2. Wrong \subseteq Nat
    OBVIOUS
  <2>3. PICK k \in Wrong : \A j \in Wrong : k <= j
    BY <2>1, <2>2, LeastNat
  <2>4. PICK t \in S : t \in B(n) /\ t \in B(m) /\ g[t] # h[t] /\ mu[t] = k
    BY <2>3
  <2>5. g[t] = Val(g, t) /\ h[t] = Val(h, t)
    BY <2>4, <1>2 DEF Approximates
  <2>6. t \notin Stop
    BY <2>4, <2>5 DEF Value
  <2>7. Pred[t] \in S /\ Pred[t] \in B(n) /\ Pred[t] \in B(m) /\ mu[Pred[t]] < k /\ k \in Nat
    BY <2>4, <2>6, <2>2 DEF Below
  <2>8. g[Pred[t]] = h[Pred[t]]
    <3>1. SUFFICES ASSUME g[Pred[t]] # h[Pred[t]] PROVE FALSE
      OBVIOUS
    <3>2. mu[Pred[t]] \in Wrong
      BY <2>7, <3>1
    <3> QED
      BY <2>7, <3>2, <2>3
  <2> QED
    BY <2>4, <2>5, <2>6, <2>8 DEF Value
<1> DEFINE G(s) == CHOOSE g : A(g, mu[s] + 1)
           f == [s \in S |-> G(s)[s]]
<1>3. ASSUME NEW s \in S PROVE A(G(s), mu[s] + 1) /\ s \in B(mu[s] + 1)
  <2>1. mu[s] + 1 \in Nat
    OBVIOUS
  <2>2. \E g : A(g, mu[s] + 1)
    BY <2>1, <1>1
  <2>3. s \in B(mu[s] + 1)
    BY DEF Below
  <2> QED
    BY <2>2, <2>3
<1>4. ASSUME NEW s \in S PROVE f[s] \in V /\ f[s] = Val(f, s)
  <2>1. f[s] = G(s)[s]
    OBVIOUS
  <2>2. G(s)[s] \in V /\ G(s)[s] = Val(G(s), s)
    BY <1>3 DEF Approximates
  <2>3. CASE s \in Stop
    BY <2>1, <2>2, <2>3 DEF Value
  <2>4. CASE s \notin Stop
    <3> DEFINE p == Pred[s]
    <3>1. p \in S /\ mu[p] < mu[s]
      BY <2>4
    <3>2. p \in B(mu[s] + 1) /\ p \in B(mu[p] + 1)
      BY <3>1 DEF Below
    <3>3. G(s)[p] = G(p)[p]
      <4>1. A(G(s), mu[s] + 1) /\ A(G(p), mu[p] + 1)
        BY <1>3, <3>1
      <4>2. mu[s] + 1 \in Nat /\ mu[p] + 1 \in Nat
        BY <3>1
      <4> HIDE DEF A, B, G, p
      <4> QED
        BY <4>1, <4>2, <3>2, <1>2
    <3>4. f[p] = G(p)[p]
      BY <3>1
    <3> QED
      BY <2>1, <2>2, <2>4, <3>3, <3>4 DEF Value
  <2> QED
    BY <2>3, <2>4
<1> HIDE DEF f
<1>5. f \in [S -> V]
  BY <1>4 DEF f
<1> QED
  BY <1>4, <1>5 DEF Computes

\* A loop whose measure decreases on every turn has a result.
LEMMA LoopExists ==
  ASSUME NEW S, NEW Stop, NEW Turn, NEW mu, Decreases(S, Stop, Turn, mu)
  PROVE  \E f : f = [s \in S |-> IF s \in Stop THEN s ELSE f[Turn[s]]]
<1> DEFINE Id == [s \in S |-> s]
           Op == [s \in S |-> Id]
<1>1. Id \in [S -> S] /\ Op \in [S -> [S -> S]]
  OBVIOUS
<1> HIDE DEF Id, Op
<1>2. PICK f : Computes(f, S, S, Stop, Id, Op, Turn)
  BY <1>1, RecursionExists
<1>3. ASSUME NEW s \in S PROVE f[s] = IF s \in Stop THEN s ELSE f[Turn[s]]
  <2>1. Turn[s] \in S /\ f[Turn[s]] \in S
    BY <1>2 DEF Decreases, Computes
  <2> QED
    BY <2>1, <1>2 DEF Computes, Decreases, Value, Id, Op
<1>4. f = [s \in S |-> IF s \in Stop THEN s ELSE f[Turn[s]]]
  <2>1. f \in [S -> S]
    BY <1>2 DEF Computes
  <2> QED
    BY <2>1, <1>3
<1> QED
  BY <1>4

\* What every turn of such a loop keeps holds of its result, and the loop has
\* stopped there.
LEMMA LoopInvariant ==
  ASSUME NEW S, NEW Stop, NEW Turn, NEW mu, Decreases(S, Stop, Turn, mu),
         NEW f, \A s \in S : f[s] = IF s \in Stop THEN s ELSE f[Turn[s]],
         NEW I \in SUBSET S, \A s \in I \ Stop : Turn[s] \in I
  PROVE  \A s \in I : f[s] \in I \cap Stop
<1> USE DEF Decreases
<1> DEFINE Wrong == {k \in Nat : \E s \in I : mu[s] = k /\ f[s] \notin I \cap Stop}
<1>1. SUFFICES ASSUME Wrong # {} PROVE FALSE
  OBVIOUS
<1>2. Wrong \subseteq Nat
  OBVIOUS
<1>3. PICK k \in Wrong : \A j \in Wrong : k <= j
  BY <1>1, <1>2, LeastNat
<1>4. PICK s \in I : f[s] \notin I \cap Stop /\ mu[s] = k
  BY <1>3
<1>5. s \in S /\ f[s] = IF s \in Stop THEN s ELSE f[Turn[s]]
  OBVIOUS
<1>6. s \notin Stop
  BY <1>4, <1>5
<1>7. Turn[s] \in I /\ mu[Turn[s]] < k /\ mu[Turn[s]] \in Nat /\ k \in Nat
  BY <1>2, <1>4, <1>5, <1>6
<1>8. f[Turn[s]] \notin I \cap Stop
  BY <1>4, <1>5, <1>6
<1>9. mu[Turn[s]] \in Wrong
  BY <1>7, <1>8
<1> QED
  BY <1>3, <1>7, <1>9

-----------------------------------------------------------------------------
(* The decoder's folds and scans *)

\* Max is the largest member.
LEMMA MaxInterval ==
  ASSUME NEW n \in Nat, NEW T \in SUBSET (1..n), T # {}
  PROVE  Max(T) \in T /\ \A y \in T : Max(T) >= y
<1> DEFINE U == {k \in Nat : \E x \in T : k = n - x}
<1>1. U # {} /\ U \subseteq Nat
  <2>1. PICK x \in T : TRUE
    OBVIOUS
  <2>2. x \in 1..n
    BY <2>1
  <2>3. n - x \in Nat
    BY <2>2
  <2>4. n - x \in U
    BY <2>1, <2>3
  <2> QED
    BY <2>4
<1>2. PICK k \in U : \A j \in U : k <= j
  BY <1>1, LeastNat
<1>3. PICK x \in T : k = n - x
  BY <1>2
<1>4. \A y \in T : x >= y
  <2> TAKE y \in T
  <2>1. y \in 1..n /\ x \in 1..n
    BY <1>3
  <2>2. n - y \in Nat
    BY <2>1
  <2>3. n - y \in U
    BY <2>2
  <2>4. n - x <= n - y
    BY <1>2, <1>3, <2>3
  <2> QED
    BY <2>1, <2>4
<1> QED
  BY <1>3, <1>4 DEF Max

\* Min is the smallest member.
LEMMA MinNat ==
  ASSUME NEW T \in SUBSET Nat, T # {}
  PROVE  Min(T) \in T /\ \A y \in T : Min(T) <= y
BY LeastNat DEF Min

TextState == [held : Seq({"L"}), out : Seq(Event)]

\* The characters the UTF-8 decoder returns are events.
LEMMA ByteCharType ==
  ASSUME NEW b \in Byte
  PROVE  Ev("char", <<b>>) \in Event /\ Bad \in Event /\ Ev("char", <<"L", "K">>) \in Event
<1>1. "L" \in Byte /\ "K" \in Byte
  BY DEF Byte, Text
<1>2. <<b>> \in Seq(Byte) /\ <<>> \in Seq(Byte) /\ <<"L", "K">> \in Seq(Byte)
  BY <1>1
<1> QED
  BY <1>2 DEF Ev, Event, Bad

\* A byte keeps the UTF-8 decoder in its states, with at most one byte held.
LEMMA DecodeByteType ==
  ASSUME NEW t \in TextState, NEW b \in Byte
  PROVE  DecodeByte(t, b) \in TextState /\ Len(DecodeByte(t, b).held) <= 1
<1> DEFINE out == IF t.held # <<>> /\ b # "K" THEN Append(t.out, Bad) ELSE t.out
<1>1. t.held \in Seq({"L"}) /\ t.out \in Seq(Event)
  BY DEF TextState
<1>2. out \in Seq(Event)
  <2>1. Bad \in Event
    BY ByteCharType
  <2>2. Append(t.out, Bad) \in Seq(Event)
    BY <1>1, <2>1
  <2> QED
    BY <1>1, <2>2
<1>3. DecodeByte(t, b) = CASE b = "L" -> [held |-> <<"L">>, out |-> out]
         [] b = "K" /\ t.held # <<>> -> [held |-> <<>>, out |-> Append(out, Ev("char", <<"L", "K">>))]
         [] b = "K" /\ t.held = <<>> -> [held |-> <<>>, out |-> Append(out, Bad)]
         [] OTHER -> [held |-> <<>>, out |-> Append(out, Ev("char", <<b>>))]
  BY DEF DecodeByte
<1> HIDE DEF out
<1>4. /\ Append(out, Bad) \in Seq(Event)
      /\ Append(out, Ev("char", <<"L", "K">>)) \in Seq(Event)
      /\ Append(out, Ev("char", <<b>>)) \in Seq(Event)
  BY <1>2, ByteCharType
<1>5. <<>> \in Seq({"L"}) /\ Len(<<>>) = 0 /\ <<"L">> \in Seq({"L"}) /\ Len(<<"L">>) = 1
  OBVIOUS
<1>6. CASE b = "L"
  <2>1. DecodeByte(t, b) = [held |-> <<"L">>, out |-> out]
    BY <1>3, <1>6
  <2> QED
    BY <2>1, <1>2, <1>5 DEF TextState
<1>7. CASE b = "K" /\ t.held # <<>>
  BY <1>3, <1>4, <1>5, <1>7 DEF TextState
<1>8. CASE b = "K" /\ t.held = <<>>
  BY <1>3, <1>4, <1>5, <1>8 DEF TextState
<1>9. CASE b # "K" /\ b # "L"
  BY <1>3, <1>4, <1>5, <1>9 DEF TextState
<1> QED
  BY <1>6, <1>7, <1>8, <1>9

FoldRule(G, base, s) ==
    G = [T \in SUBSET (DOMAIN s) |-> IF T = {} THEN base ELSE DecodeByte(G[T \ {Max(T)}], s[Max(T)])]

\* FoldLeft over the bytes is the recursion on how many of them are taken.
LEMMA FoldDecode ==
  ASSUME NEW base, NEW s \in Seq(Byte), NEW F, FoldRule(F, base, s)
  PROVE  \E G : FoldRule(G, base, s) /\ FoldLeft(DecodeByte, base, s) = G[DOMAIN s]
BY DEF FoldLeft, MapThenFoldSet, FoldRule

\* That recursion has a solution.
LEMMA FoldExists ==
  ASSUME NEW base \in TextState, NEW s \in Seq(Byte)
  PROVE  \E F : FoldRule(F, base, s)
<1> DEFINE n == Len(s)
           S == SUBSET (DOMAIN s)
           Base == [T \in S |-> base]
           Op == [T \in S |-> [t \in TextState |-> IF T = {} THEN t ELSE DecodeByte(t, s[Max(T)])]]
           Pred == [T \in S |-> T \ {Max(T)}]
           mu == [T \in S |-> IF T = {} THEN 0 ELSE Max(T)]
<1>1. n \in Nat /\ DOMAIN s = 1..n
  OBVIOUS
<1>2. ASSUME NEW T \in S, T # {}
      PROVE  Max(T) \in T /\ (\A y \in T : Max(T) >= y) /\ s[Max(T)] \in Byte /\ Max(T) \in 1..n
  <2>1. T \in SUBSET (1..n)
    BY <1>1
  <2>2. Max(T) \in T /\ \A y \in T : Max(T) >= y
    BY <1>1, <1>2, <2>1, MaxInterval
  <2> QED
    BY <1>1, <2>1, <2>2
<1>3. Decreases(S, {{}}, Pred, mu)
  <2>1. Pred \in [S -> S]
    OBVIOUS
  <2>2. mu \in [S -> Nat]
    BY <1>1, <1>2
  <2>3. ASSUME NEW T \in S, T # {} PROVE mu[Pred[T]] < mu[T]
    <3>1. Max(T) \in 1..n /\ \A y \in T : Max(T) >= y
      BY <1>2, <2>3
    <3>2. Pred[T] = T \ {Max(T)} /\ Pred[T] \in S /\ mu[T] = Max(T)
      BY <2>3
    <3>3. CASE Pred[T] = {}
      BY <3>1, <3>2, <3>3
    <3>4. CASE Pred[T] # {}
      <4>1. Max(Pred[T]) \in Pred[T] /\ mu[Pred[T]] = Max(Pred[T]) /\ Max(Pred[T]) \in 1..n
        BY <3>2, <3>4, <1>2
      <4> QED
        BY <3>1, <3>2, <4>1
    <3> QED
      BY <3>3, <3>4
  <2> QED
    BY <2>1, <2>2, <2>3 DEF Decreases
<1>4. Base \in [S -> TextState]
  OBVIOUS
<1>5. Op \in [S -> [TextState -> TextState]]
  BY <1>2, DecodeByteType
<1> HIDE DEF Base, Op, Pred, mu
<1>6. PICK G : Computes(G, S, TextState, {{}}, Base, Op, Pred)
  BY <1>3, <1>4, <1>5, RecursionExists
<1>7. G \in [S -> TextState]
  BY <1>6 DEF Computes
<1>8. ASSUME NEW T \in S
      PROVE  G[T] = IF T = {} THEN base ELSE DecodeByte(G[T \ {Max(T)}], s[Max(T)])
  <2>1. T \ {Max(T)} \in S
    OBVIOUS
  <2>2. G[T \ {Max(T)}] \in TextState
    BY <1>7, <2>1
  <2>3. G[T] = Value(G, {{}}, Base, Op, Pred, T)
    BY <1>6 DEF Computes
  <2>4. Pred[T] = T \ {Max(T)}
    BY DEF Pred
  <2> QED
    BY <2>2, <2>3, <2>4 DEF Value, Base, Op
<1> QED
  BY <1>7, <1>8 DEF FoldRule

\* What each byte of a text keeps, from the first on, holds of the whole text
\* decoded.
LEMMA FoldInvariant ==
  ASSUME NEW base, NEW s \in Seq(Byte), NEW J,
         \A i \in 0..Len(s) : J[i] \subseteq TextState,
         base \in J[0],
         \A i \in 1..Len(s) : \A t \in J[i - 1] : DecodeByte(t, s[i]) \in J[i]
  PROVE  FoldLeft(DecodeByte, base, s) \in J[Len(s)]
<1> DEFINE n == Len(s)
<1>1. n \in Nat /\ DOMAIN s = 1..n
  OBVIOUS
<1>2. base \in TextState
  BY <1>1
<1>3. PICK G : FoldRule(G, base, s) /\ FoldLeft(DecodeByte, base, s) = G[DOMAIN s]
  BY <1>2, FoldExists, FoldDecode
<1>4. \A T \in SUBSET (1..n) : G[T] = IF T = {} THEN base ELSE DecodeByte(G[T \ {Max(T)}], s[Max(T)])
  BY <1>1, <1>3 DEF FoldRule
<1> DEFINE Wrong == {i \in 0..n : G[1..i] \notin J[i]}
<1>5. SUFFICES ASSUME Wrong # {} PROVE FALSE
  BY <1>1, <1>3
<1>6. PICK i \in Wrong : \A j \in Wrong : i <= j
  <2>1. Wrong \subseteq Nat
    BY <1>1
  <2> QED
    BY <2>1, <1>5, LeastNat
<1>7. i # 0
  <2>1. 1..0 = {}
    OBVIOUS
  <2>2. G[1..0] = base
    BY <2>1, <1>4
  <2> QED
    BY <2>2, <1>6
<1>8. i \in 1..n /\ i - 1 \in 0..n
  BY <1>1, <1>6, <1>7
<1>9. Max(1..i) = i /\ (1..i) \ {i} = 1..(i - 1) /\ 1..i # {} /\ 1..i \in SUBSET (1..n)
  <2>1. 1..i # {} /\ 1..i \in SUBSET (1..n) /\ (1..i) \ {i} = 1..(i - 1)
    <3>1. i \in 1..i /\ \A x \in 1..i : x \in 1..n
      BY <1>1, <1>8
    <3>2. \A x : x \in (1..i) \ {i} <=> x \in 1..(i - 1)
      BY <1>1, <1>8
    <3> QED
      BY <3>1, <3>2
  <2>2. Max(1..i) \in 1..i /\ \A y \in 1..i : Max(1..i) >= y
    BY <1>1, <2>1, MaxInterval
  <2> QED
    BY <2>1, <2>2, <1>8
<1>10. G[1..i] = DecodeByte(G[1..(i - 1)], s[i])
  BY <1>4, <1>9
<1>11. G[1..(i - 1)] \in J[i - 1]
  <2>1. ~(i <= i - 1)
    BY <1>1, <1>8
  <2> QED
    BY <1>6, <1>8, <2>1
<1> QED
  BY <1>6, <1>8, <1>10, <1>11

Kinds == {"char", "bad", "ctrl", "alt", "special", "escape", "mouse", "paste"}

\* An event of any kind is an event, alone or in a sequence.
LEMMA EvType ==
  ASSUME NEW kind \in Kinds, NEW bytes \in Seq(Byte)
  PROVE  Ev(kind, bytes) \in Event /\ <<Ev(kind, bytes)>> \in Seq(Event)
BY DEF Kinds, Ev, Event

\* The kinds of events the decoder returns.
LEMMA KindNames ==
    /\ "char" \in Kinds /\ "bad" \in Kinds /\ "ctrl" \in Kinds /\ "alt" \in Kinds
    /\ "special" \in Kinds /\ "escape" \in Kinds /\ "mouse" \in Kinds /\ "paste" \in Kinds
BY DEF Kinds

\* The sequences the decoder starts from or returns whole.
LEMMA NoEvents == <<>> \in Seq(Event) /\ <<EscapeKey>> \in Seq(Event) /\ <<>> \in Seq(Byte)
<1>1. <<>> \in Seq(Event) /\ <<>> \in Seq(Byte)
  OBVIOUS
<1>2. EscapeKey \in Event
  BY <1>1, KindNames, EvType DEF EscapeKey
<1> QED
  BY <1>1, <1>2

\* A part of a byte sequence: its type, length and bytes.
LEMMA SubSeqBytes ==
  ASSUME NEW s \in Seq(Byte), NEW m \in 1..Len(s) + 1, NEW n \in 0..Len(s)
  PROVE  /\ SubSeq(s, m, n) \in Seq(Byte)
         /\ Len(SubSeq(s, m, n)) = IF m <= n THEN n - m + 1 ELSE 0
         /\ \A i \in 1..(n - m + 1) : SubSeq(s, m, n)[i] = s[m + i - 1]
<1>1. \A i \in m..n : s[i] \in Byte
  OBVIOUS
<1>2. SubSeq(s, m, n) \in Seq(Byte) /\ Len(SubSeq(s, m, n)) = IF m <= n THEN n - m + 1 ELSE 0
  BY <1>1, SubSeqProperties
<1>3. \A i \in 1..(n - m + 1) : SubSeq(s, m, n)[i] = s[m + i - 1]
  BY <1>1, SubSeqProperties
<1> QED
  BY <1>2, <1>3

\* The first n bytes.
LEMMA PrefixBytes ==
  ASSUME NEW s \in Seq(Byte), NEW n \in 0..Len(s)
  PROVE  /\ SubSeq(s, 1, n) \in Seq(Byte)
         /\ Len(SubSeq(s, 1, n)) = n
         /\ \A i \in 1..n : SubSeq(s, 1, n)[i] = s[i]
<1>1. 1 \in 1..Len(s) + 1 /\ n \in Nat /\ n - 1 + 1 = n
  OBVIOUS
<1>2. /\ SubSeq(s, 1, n) \in Seq(Byte)
      /\ Len(SubSeq(s, 1, n)) = IF 1 <= n THEN n - 1 + 1 ELSE 0
      /\ \A i \in 1..(n - 1 + 1) : SubSeq(s, 1, n)[i] = s[1 + i - 1]
  BY <1>1, SubSeqBytes
<1>3. ASSUME NEW i \in 1..n PROVE SubSeq(s, 1, n)[i] = s[i]
  <2>1. i \in 1..(n - 1 + 1) /\ 1 + i - 1 = i
    BY <1>1
  <2> QED
    BY <1>2, <2>1
<1>4. Len(SubSeq(s, 1, n)) = n
  BY <1>1, <1>2
<1> QED
  BY <1>2, <1>3, <1>4

\* All but the first n bytes.
LEMMA SuffixBytes ==
  ASSUME NEW s \in Seq(Byte), NEW n \in 0..Len(s)
  PROVE  /\ SubSeq(s, n + 1, Len(s)) \in Seq(Byte)
         /\ Len(SubSeq(s, n + 1, Len(s))) = Len(s) - n
         /\ \A i \in 1..Len(s) - n : SubSeq(s, n + 1, Len(s))[i] = s[n + i]
<1>1. n + 1 \in 1..Len(s) + 1 /\ Len(s) \in 0..Len(s) /\ n \in Nat /\ Len(s) \in Nat
  OBVIOUS
<1>2. /\ SubSeq(s, n + 1, Len(s)) \in Seq(Byte)
      /\ Len(SubSeq(s, n + 1, Len(s))) = IF n + 1 <= Len(s) THEN Len(s) - (n + 1) + 1 ELSE 0
      /\ \A i \in 1..(Len(s) - (n + 1) + 1) : SubSeq(s, n + 1, Len(s))[i] = s[(n + 1) + i - 1]
  BY <1>1, SubSeqBytes
<1>3. ASSUME NEW i \in 1..Len(s) - n PROVE SubSeq(s, n + 1, Len(s))[i] = s[n + i]
  <2>1. i \in 1..(Len(s) - (n + 1) + 1) /\ (n + 1) + i - 1 = n + i
    BY <1>1
  <2> QED
    BY <1>2, <2>1
<1>4. Len(SubSeq(s, n + 1, Len(s))) = Len(s) - n
  BY <1>1, <1>2
<1> QED
  BY <1>2, <1>3, <1>4

\* SkipOver stops at the first byte, from i on, that is not in S.
LEMMA SkipOverFinds ==
  ASSUME NEW s \in Seq(Byte), NEW i \in 1..Len(s) + 1, NEW S
  PROVE  /\ SkipOver(s, i, S) \in i..Len(s) + 1
         /\ SkipOver(s, i, S) = Len(s) + 1 \/ s[SkipOver(s, i, S)] \notin S
         /\ \A j \in i..SkipOver(s, i, S) - 1 : s[j] \in S
<1> DEFINE E == {j \in i..Len(s) + 1 : j = Len(s) + 1 \/ s[j] \notin S}
<1>1. Len(s) \in Nat /\ Len(s) + 1 \in E /\ E \in SUBSET Nat
  OBVIOUS
<1>2. Min(E) \in E /\ \A y \in E : Min(E) <= y
  BY <1>1, MinNat
<1>3. SkipOver(s, i, S) = Min(E)
  BY DEF SkipOver
<1> HIDE DEF E
<1>4. ASSUME NEW j \in i..Min(E) - 1 PROVE s[j] \in S
  <2>1. Min(E) \in i..Len(s) + 1
    BY <1>2 DEF E
  <2>2. j \in i..Len(s) + 1 /\ j # Len(s) + 1 /\ ~(Min(E) <= j)
    BY <1>1, <2>1
  <2>3. j \notin E
    BY <1>2, <2>2
  <2> QED
    BY <2>2, <2>3 DEF E
<1> QED
  BY <1>2, <1>3, <1>4 DEF E

Turned(d, s) ==
    /\ s \in Progress
    /\ s.again => Len(s.dec.buf) < Len(d.buf)
    /\ ~s.again => Len(s.dec.buf) <= Max({MaxSequence, 5})
    /\ Len(d.held) <= 1 => Len(s.dec.held) <= 1
    /\ Len(d.paste) <= MaxPaste => Len(s.dec.paste) <= MaxPaste

\* How much of a sequence the decoder waits for is a number.
LEMMA WaitLimit == Max({MaxSequence, 5}) \in Nat /\ Max({MaxSequence, 5}) >= MaxSequence /\ Max({MaxSequence, 5}) >= 5
<1>1. \E x \in {MaxSequence, 5} : \A y \in {MaxSequence, 5} : x >= y
  <2>1. CASE MaxSequence >= 5
    BY <2>1, LimitsAssumption
  <2>2. CASE ~(MaxSequence >= 5)
    BY <2>2, LimitsAssumption
  <2> QED
    BY <2>1, <2>2
<1>2. Max({MaxSequence, 5}) \in {MaxSequence, 5} /\ \A y \in {MaxSequence, 5} : Max({MaxSequence, 5}) >= y
  BY <1>1 DEF Max
<1> QED
  BY <1>2, LimitsAssumption

\* The types of the decoder's fields.
LEMMA DecoderFields ==
  ASSUME NEW d \in Decoder
  PROVE  /\ d.buf \in Seq(Byte) /\ d.held \in Seq({"L"}) /\ d.open \in BOOLEAN /\ d.paste \in Seq(Byte)
         /\ Len(d.buf) \in Nat /\ Len(d.held) \in Nat /\ Len(d.paste) \in Nat
BY DEF Decoder

\* Consume takes n bytes off the buffer, returns out, and touches nothing
\* else.
LEMMA ConsumeIs ==
  ASSUME NEW d \in Decoder, NEW n \in 0..Len(d.buf), NEW out \in Seq(Event)
  PROVE  /\ Consume(d, n, out) \in Progress
         /\ Consume(d, n, out).again
         /\ Consume(d, n, out).out = out
         /\ Consume(d, n, out).dec.buf = SubSeq(d.buf, n + 1, Len(d.buf))
         /\ Len(Consume(d, n, out).dec.buf) = Len(d.buf) - n
         /\ Consume(d, n, out).dec.held = d.held
         /\ Consume(d, n, out).dec.open = d.open
         /\ Consume(d, n, out).dec.paste = d.paste
<1> DEFINE rest == SubSeq(d.buf, n + 1, Len(d.buf))
           e == [d EXCEPT !.buf = rest]
<1>1. rest \in Seq(Byte) /\ Len(rest) = Len(d.buf) - n
  <2>1. n + 1 \in 1..Len(d.buf) + 1 /\ Len(d.buf) \in 0..Len(d.buf)
    BY DecoderFields
  <2> QED
    BY <2>1, SubSeqBytes, DecoderFields
<1> HIDE DEF rest
<1>2. e \in Decoder /\ e.buf = rest /\ e.held = d.held /\ e.open = d.open /\ e.paste = d.paste
  BY <1>1 DEF Decoder
<1>3. Consume(d, n, out) = [dec |-> e, out |-> out, again |-> TRUE]
  BY DEF Consume, rest
<1> HIDE DEF e
<1>4. Consume(d, n, out) \in Progress
  BY <1>2, <1>3 DEF Progress
<1>5. Consume(d, n, out).dec = e /\ Consume(d, n, out).out = out /\ Consume(d, n, out).again
  BY <1>3
<1> QED
  BY <1>1, <1>2, <1>4, <1>5 DEF rest

\* To consume at least a byte is a turn of the loop that gets on.
LEMMA ConsumeTurned ==
  ASSUME NEW d \in Decoder, NEW n \in 1..Len(d.buf), NEW out \in Seq(Event)
  PROVE  Turned(d, Consume(d, n, out))
<1>1. n \in 0..Len(d.buf) /\ Len(d.buf) - n < Len(d.buf)
  BY DecoderFields
<1> QED
  BY <1>1, ConsumeIs DEF Turned

\* To wait with a short buffer is a turn of the loop.
LEMMA WaitTurned ==
  ASSUME NEW d \in Decoder, Len(d.buf) <= Max({MaxSequence, 5})
  PROVE  Turned(d, Incomplete(d))
BY DEF Turned, Incomplete, Progress

-----------------------------------------------------------------------------
(* Every turn of feed()'s loop gets on *)

\* _resync_if_overlong: an overlong buffer loses its ESC, a short one waits.
LEMMA ResyncTurned ==
  ASSUME NEW d \in Decoder, d.buf # <<>>
  PROVE  Turned(d, ResyncIfOverlong(d))
<1>1. <<>> \in Seq(Event) /\ 1 \in 1..Len(d.buf)
  BY DecoderFields
<1>2. Turned(d, Consume(d, 1, <<>>))
  BY <1>1, ConsumeTurned
<1>3. CASE Len(d.buf) > MaxSequence
  BY <1>2, <1>3 DEF ResyncIfOverlong
<1>4. CASE ~(Len(d.buf) > MaxSequence)
  <2>1. Len(d.buf) <= Max({MaxSequence, 5})
    BY <1>4, WaitLimit, LimitsAssumption, DecoderFields
  <2> QED
    BY <2>1, <1>4, WaitTurned DEF ResyncIfOverlong
<1> QED
  BY <1>3, <1>4

\* To wait for a legacy mouse report is to wait with a short buffer.
LEMMA ShortTurned ==
  ASSUME NEW d \in Decoder, Len(d.buf) < 6
  PROVE  Turned(d, Incomplete(d))
<1>1. Len(d.buf) <= Max({MaxSequence, 5})
  BY WaitLimit, DecoderFields
<1> QED
  BY <1>1, WaitTurned

\* _consume_normal_mouse is a turn of the loop.
LEMMA NormalMouseTurned ==
  ASSUME NEW d \in Decoder
  PROVE  Turned(d, ConsumeNormalMouse(d))
<1>1. CASE Len(d.buf) < 6
  BY <1>1, ShortTurned DEF ConsumeNormalMouse
<1>2. CASE ~(Len(d.buf) < 6)
  <2>1. 6 \in 1..Len(d.buf) /\ 6 \in 0..Len(d.buf) /\ 1 \in 1..Len(d.buf) + 1
    BY <1>2, DecoderFields
  <2>2. SubSeq(d.buf, 1, 6) \in Seq(Byte)
    BY <2>1, SubSeqBytes, DecoderFields
  <2>3. <<Ev("mouse", SubSeq(d.buf, 1, 6))>> \in Seq(Event)
    BY <2>2, EvType, KindNames, NoEvents
  <2> QED
    BY <1>2, <2>1, <2>3, ConsumeTurned DEF ConsumeNormalMouse
<1> QED
  BY <1>1, <1>2

\* _consume_sgr_mouse is a turn of the loop.
LEMMA SgrMouseTurned ==
  ASSUME NEW d \in Decoder, Len(d.buf) >= 3
  PROVE  Turned(d, ConsumeSgrMouse(d))
<1> DEFINE end == SkipOver(d.buf, 4, Byte \ {"M"})
           report == SubSeq(d.buf, 1, end)
<1>1. 4 \in 1..Len(d.buf) + 1 /\ 1 \in 1..Len(d.buf) + 1 /\ d.buf \in Seq(Byte) /\ d.buf # <<>>
  BY DecoderFields
<1>2. end \in 4..Len(d.buf) + 1
  BY <1>1, SkipOverFinds
<1> HIDE DEF end
<1>3. CASE end > Len(d.buf)
  <2>1. ConsumeSgrMouse(d) = ResyncIfOverlong(d)
    BY <1>1, <1>2, <1>3, DecoderFields DEF ConsumeSgrMouse, end
  <2> QED
    BY <1>1, <2>1, ResyncTurned
<1>4. CASE end <= Len(d.buf)
  <2>1. end \in 1..Len(d.buf) /\ end \in 0..Len(d.buf) /\ ~(end > Len(d.buf))
    BY <1>2, <1>4, DecoderFields
  <2>2. report \in Seq(Byte)
    BY <2>1, <1>1, SubSeqBytes
  <2> HIDE DEF report
  <2>3. <<Ev("mouse", report)>> \in Seq(Event) /\ <<>> \in Seq(Event)
    BY <2>2, EvType, KindNames, NoEvents
  <2>4. \/ ConsumeSgrMouse(d) = Consume(d, end, <<Ev("mouse", report)>>)
        \/ ConsumeSgrMouse(d) = Consume(d, end, <<>>)
    BY <1>4, <2>1 DEF ConsumeSgrMouse, end, report
  <2> QED
    BY <2>1, <2>3, <2>4, ConsumeTurned
<1> QED
  BY <1>2, <1>3, <1>4, DecoderFields

\* A CSI sequence means events, or none.
LEMMA CsiKeyType ==
  ASSUME NEW params \in Seq(Byte), NEW final \in Byte
  PROVE  CsiKey(params, final) \in Seq(Event)
<1>1. Append(params, final) \in Seq(Byte)
  OBVIOUS
<1>2. <<Ev("special", Append(params, final))>> \in Seq(Event) /\ <<>> \in Seq(Event)
  BY <1>1, EvType, KindNames, NoEvents
<1> QED
  BY <1>2 DEF CsiKey

\* _consume_general_csi is a turn of the loop.
LEMMA GeneralCsiTurned ==
  ASSUME NEW d \in Decoder, Len(d.buf) >= 3
  PROVE  Turned(d, ConsumeGeneralCsi(d))
<1> DEFINE mid == SkipOver(d.buf, 3, Param)
           end == SkipOver(d.buf, mid, Intermediate)
           params == SubSeq(d.buf, 3, end - 1)
           opened == [d EXCEPT !.open = TRUE, !.paste = <<>>]
<1>1. 3 \in 1..Len(d.buf) + 1 /\ d.buf \in Seq(Byte) /\ d.buf # <<>> /\ Len(d.buf) \in Nat
  BY DecoderFields
<1>2. mid \in 3..Len(d.buf) + 1
  BY <1>1, SkipOverFinds
<1>3. end \in mid..Len(d.buf) + 1
  <2>1. mid \in 1..Len(d.buf) + 1
    BY <1>1, <1>2
  <2> HIDE DEF mid
  <2> QED
    BY <2>1, <1>1, SkipOverFinds
<1>4. end \in 3..Len(d.buf) + 1
  BY <1>1, <1>2, <1>3
<1> HIDE DEF mid, end, params, opened
<1>5. CASE end > Len(d.buf)
  <2>1. ConsumeGeneralCsi(d) = ResyncIfOverlong(d)
    BY <1>1, <1>4, <1>5 DEF ConsumeGeneralCsi, mid, end
  <2> QED
    BY <1>1, <2>1, ResyncTurned
<1>6. CASE end <= Len(d.buf)
  <2>1. end \in 1..Len(d.buf) /\ end - 1 \in 0..Len(d.buf) /\ ~(end > Len(d.buf)) /\ 1 \in 1..Len(d.buf)
    BY <1>1, <1>4, <1>6
  <2>2. params \in Seq(Byte) /\ d.buf[end] \in Byte
    BY <2>1, <1>1, SubSeqBytes DEF params
  <2>3. CsiKey(params, d.buf[end]) \in Seq(Event) /\ <<>> \in Seq(Event)
    BY <2>2, CsiKeyType, NoEvents
  <2>4. opened \in Decoder /\ opened.buf = d.buf /\ opened.held = d.held /\ opened.paste = <<>>
    BY NoEvents DEF Decoder, opened
  <2>5. \/ ConsumeGeneralCsi(d) = Consume(d, 1, <<>>)
        \/ ConsumeGeneralCsi(d) = Consume(opened, end, <<>>)
        \/ ConsumeGeneralCsi(d) = Consume(d, end, CsiKey(params, d.buf[end]))
    BY <1>6, <2>1 DEF ConsumeGeneralCsi, mid, end, params, opened
  <2>6. Turned(opened, Consume(opened, end, <<>>))
    BY <2>1, <2>3, <2>4, ConsumeTurned
  <2>7. Consume(opened, end, <<>>).dec.paste = <<>>
    <3>1. end \in 0..Len(opened.buf)
      BY <2>1, <2>4
    <3>2. opened \in Decoder /\ <<>> \in Seq(Event)
      BY <2>3, <2>4
    <3>3. Consume(opened, end, <<>>).dec.paste = opened.paste
      BY <3>1, <3>2, ConsumeIs
    <3> QED
      BY <2>4, <3>3
  <2>8. Turned(d, Consume(opened, end, <<>>))
    BY <2>4, <2>6, <2>7, LimitsAssumption DEF Turned
  <2> QED
    BY <2>1, <2>3, <2>5, <2>8, ConsumeTurned
<1> QED
  BY <1>1, <1>4, <1>5, <1>6

\* _consume_escape is a turn of the loop, whatever follows the ESC.
LEMMA EscapeTurned ==
  ASSUME NEW d \in Decoder, d.buf # <<>>
  PROVE  Turned(d, ConsumeEscape(d))
<1> USE DecoderFields
<1>1. CASE Len(d.buf) < 2
  <2>1. Len(d.buf) < 6
    BY <1>1
  <2> QED
    BY <2>1, <1>1, ShortTurned DEF ConsumeEscape
<1>2. CASE ~(Len(d.buf) < 2) /\ Len(d.buf) < 3
  <2>1. Len(d.buf) < 6
    BY <1>2
  <2>2. Turned(d, Incomplete(d))
    BY <2>1, ShortTurned
  <2>3. d.buf[2] \in Byte /\ 2 \in 1..Len(d.buf) /\ 1 \in 1..Len(d.buf)
    BY <1>2
  <2>4. <<Ev("alt", <<d.buf[2]>>)>> \in Seq(Event) /\ <<EscapeKey>> \in Seq(Event)
    <3>1. <<d.buf[2]>> \in Seq(Byte)
      BY <2>3
    <3> QED
      BY <3>1, EvType, KindNames, NoEvents
  <2>5. Turned(d, Consume(d, 2, <<Ev("alt", <<d.buf[2]>>)>>)) /\ Turned(d, Consume(d, 1, <<EscapeKey>>))
    BY <2>3, <2>4, ConsumeTurned
  <2> QED
    BY <1>2, <2>2, <2>5 DEF ConsumeEscape, ConsumeCsi, ConsumeSs3
<1>3. CASE Len(d.buf) >= 3
  <2>1. /\ d.buf[2] \in Byte /\ 2 \in 1..Len(d.buf) /\ 1 \in 1..Len(d.buf) /\ 3 \in 1..Len(d.buf)
        /\ ~(Len(d.buf) < 2) /\ ~(Len(d.buf) < 3)
    BY <1>3
  <2>2. <<Ev("alt", <<d.buf[2]>>)>> \in Seq(Event) /\ <<EscapeKey>> \in Seq(Event)
    <3>1. <<d.buf[2]>> \in Seq(Byte)
      BY <2>1
    <3> QED
      BY <3>1, EvType, KindNames, NoEvents
  <2>3. Turned(d, Consume(d, 2, <<Ev("alt", <<d.buf[2]>>)>>)) /\ Turned(d, Consume(d, 1, <<EscapeKey>>))
    BY <2>1, <2>2, ConsumeTurned
  <2>4. Turned(d, ConsumeCsi(d))
    BY <1>3, <2>1, NormalMouseTurned, SgrMouseTurned, GeneralCsiTurned DEF ConsumeCsi
  <2>5. Turned(d, ConsumeSs3(d))
    <3>1. <<"A">> \in Seq(Byte)
      BY DEF Byte, Text, Final, Letter
    <3>2. <<Ev("special", <<"A">>)>> \in Seq(Event) /\ <<>> \in Seq(Event)
      BY <3>1, EvType, KindNames, NoEvents
    <3> QED
      BY <2>1, <3>2, ConsumeTurned DEF ConsumeSs3
  <2> QED
    BY <2>1, <2>3, <2>4, <2>5 DEF ConsumeEscape
<1> QED
  BY <1>1, <1>2, <1>3

\* The run of text bytes a buffer begins with.
LEMMA TextRun ==
  ASSUME NEW d \in Decoder, d.buf # <<>>, d.buf[1] \in Text
  PROVE  LET end == SkipOver(d.buf, 1, Text) - 1
         IN  /\ end \in 1..Len(d.buf)
             /\ \A j \in 1..end : d.buf[j] \in Text
             /\ end < Len(d.buf) => d.buf[end + 1] \notin Text
             /\ SubSeq(d.buf, 1, end) \in Seq(Byte)
             /\ Len(SubSeq(d.buf, 1, end)) = end
             /\ \A j \in 1..end : SubSeq(d.buf, 1, end)[j] = d.buf[j]
<1> DEFINE skip == SkipOver(d.buf, 1, Text)
           end == skip - 1
<1>1. d.buf \in Seq(Byte) /\ Len(d.buf) \in Nat /\ Len(d.buf) >= 1 /\ 1 \in 1..Len(d.buf) + 1
  BY DecoderFields
<1>2. /\ skip \in 1..Len(d.buf) + 1
      /\ skip = Len(d.buf) + 1 \/ d.buf[skip] \notin Text
      /\ \A j \in 1..skip - 1 : d.buf[j] \in Text
  BY <1>1, SkipOverFinds
<1> HIDE DEF skip
<1>3. skip # 1
  BY <1>1, <1>2
<1>4. end \in 1..Len(d.buf) /\ end \in 0..Len(d.buf) /\ 1 \in 1..Len(d.buf) + 1
  BY <1>1, <1>2, <1>3
<1>5. /\ SubSeq(d.buf, 1, end) \in Seq(Byte)
      /\ Len(SubSeq(d.buf, 1, end)) = end
      /\ \A j \in 1..end : SubSeq(d.buf, 1, end)[j] = d.buf[j]
  BY <1>1, <1>4, PrefixBytes
<1>6. end < Len(d.buf) => d.buf[end + 1] \notin Text
  BY <1>1, <1>2
<1> QED
  BY <1>2, <1>4, <1>5, <1>6 DEF skip

\* _consume_text is a turn of the loop.
LEMMA TextTurned ==
  ASSUME NEW d \in Decoder, d.buf # <<>>, d.buf[1] \in Text
  PROVE  Turned(d, ConsumeText(d))
<1> DEFINE end == SkipOver(d.buf, 1, Text) - 1
           run == SubSeq(d.buf, 1, end)
           start == [held |-> d.held, out |-> <<>>]
           t == FoldLeft(DecodeByte, start, run)
           closed == end < Len(d.buf)
           out == IF closed /\ t.held # <<>> THEN Append(t.out, Bad) ELSE t.out
           e == [d EXCEPT !.held = IF closed THEN <<>> ELSE t.held]
           Short == {u \in TextState : Len(u.held) <= 1}
           J == [i \in 0..Len(run) |-> IF i = 0 THEN TextState ELSE Short]
<1>1. end \in 1..Len(d.buf) /\ run \in Seq(Byte) /\ Len(run) = end /\ Len(d.buf) \in Nat
  BY TextRun, DecoderFields
<1>2. start \in TextState
  BY DecoderFields, NoEvents DEF TextState
<1> HIDE DEF start
<1>3. t \in Short
  <2>1. \A i \in 0..Len(run) : J[i] \subseteq TextState
    OBVIOUS
  <2>2. start \in J[0]
    BY <1>1, <1>2
  <2>3. ASSUME NEW i \in 1..Len(run), NEW u \in J[i - 1] PROVE DecodeByte(u, run[i]) \in J[i]
    <3>1. run[i] \in Byte /\ u \in TextState /\ i \in 0..Len(run) /\ i # 0
      BY <1>1, <2>1
    <3>2. DecodeByte(u, run[i]) \in Short
      BY <3>1, DecodeByteType
    <3> QED
      BY <3>1, <3>2
  <2> HIDE DEF J, end, run
  <2>4. t \in J[Len(run)]
    BY <1>1, <2>1, <2>2, <2>3, FoldInvariant
  <2> QED
    BY <1>1, <2>4 DEF J
<1> HIDE DEF t
<1>4. t.held \in Seq({"L"}) /\ Len(t.held) <= 1 /\ t.out \in Seq(Event)
  BY <1>3 DEF TextState
<1>5. out \in Seq(Event)
  <2>1. Bad \in Event
    BY NoEvents, EvType, KindNames DEF Bad
  <2>2. Append(t.out, Bad) \in Seq(Event)
    BY <1>4, <2>1
  <2> QED
    BY <1>4, <2>2
<1>6. e \in Decoder /\ e.buf = d.buf /\ Len(e.held) <= 1 /\ e.paste = d.paste
  <2>1. <<>> \in Seq({"L"}) /\ Len(<<>>) <= 1
    OBVIOUS
  <2> DEFINE h == IF closed THEN <<>> ELSE t.held
  <2>2. h \in Seq({"L"}) /\ Len(h) <= 1
    BY <1>4, <2>1
  <2> HIDE DEF h
  <2>3. [d EXCEPT !.held = h] \in Decoder
    BY <2>2 DEF Decoder
  <2>4. /\ [d EXCEPT !.held = h].held = h
        /\ [d EXCEPT !.held = h].buf = d.buf
        /\ [d EXCEPT !.held = h].paste = d.paste
    BY DEF Decoder
  <2> QED
    BY <2>2, <2>3, <2>4 DEF h
<1>7. ConsumeText(d) = Consume(e, end, out)
  BY DEF ConsumeText, t, start
<1> HIDE DEF e, out, end
<1>8. end \in 1..Len(e.buf)
  BY <1>1, <1>6
<1>9. Turned(e, Consume(e, end, out))
  BY <1>5, <1>6, <1>8, ConsumeTurned
<1> QED
  BY <1>6, <1>7, <1>9 DEF Turned

\* _consume_one is a turn of the loop.
LEMMA OneTurned ==
  ASSUME NEW d \in Decoder, d.buf # <<>>
  PROVE  Turned(d, ConsumeOne(d))
<1>1. d.buf[1] \in Byte /\ 1 \in 1..Len(d.buf)
  BY DecoderFields
<1>2. CASE d.buf[1] = "esc"
  <2>1. ConsumeOne(d) = ConsumeEscape(d)
    BY <1>2 DEF ConsumeOne, Control
  <2> QED
    BY <2>1, EscapeTurned
<1>3. CASE d.buf[1] # "esc" /\ d.buf[1] \in Control
  <2>1. <<d.buf[1]>> \in Seq(Byte)
    BY <1>1
  <2>2. <<Ev("ctrl", <<d.buf[1]>>)>> \in Seq(Event)
    BY <2>1, EvType, KindNames
  <2>3. ConsumeOne(d) = Consume(d, 1, <<Ev("ctrl", <<d.buf[1]>>)>>)
    BY <1>3 DEF ConsumeOne
  <2> QED
    BY <1>1, <2>2, <2>3, ConsumeTurned
<1>4. CASE d.buf[1] # "esc" /\ d.buf[1] \notin Control
  <2>1. d.buf[1] \in Text
    BY <1>1, <1>4 DEF Byte
  <2>2. ConsumeOne(d) = ConsumeText(d)
    BY <1>4 DEF ConsumeOne
  <2> QED
    BY <2>1, <2>2, TextTurned
<1> QED
  BY <1>2, <1>3, <1>4

\* The smaller of two numbers.
LEMMA MinPair ==
  ASSUME NEW a \in Nat, NEW b \in Nat
  PROVE  Min({a, b}) = IF a <= b THEN a ELSE b
<1>1. {a, b} \in SUBSET Nat /\ {a, b} # {}
  OBVIOUS
<1>2. Min({a, b}) \in {a, b} /\ \A y \in {a, b} : Min({a, b}) <= y
  BY <1>1, MinNat
<1> QED
  BY <1>2

\* A number, or 0 when it is negative.
LEMMA MaxZero ==
  ASSUME NEW b \in Int
  PROVE  Max({0, b}) = IF b <= 0 THEN 0 ELSE b
<1>1. \E x \in {0, b} : \A y \in {0, b} : x >= y
  <2>1. CASE b <= 0
    BY <2>1
  <2>2. CASE ~(b <= 0)
    BY <2>2
  <2> QED
    BY <2>1, <2>2
<1>2. Max({0, b}) \in {0, b} /\ \A y \in {0, b} : Max({0, b}) >= y
  BY <1>1 DEF Max
<1> QED
  BY <1>2

\* The terminator of a paste is four bytes.
LEMMA PasteEndIs ==
  /\ PasteEnd \in Seq(Byte) /\ Len(PasteEnd) = 4
  /\ PasteEnd[1] = "esc" /\ PasteEnd[2] = "[" /\ PasteEnd[3] = "201" /\ PasteEnd[4] = "~"
<1>1. "esc" \in Byte /\ "[" \in Byte /\ "201" \in Byte /\ "~" \in Byte
  BY DEF Byte, Text, Param, Final
<1> QED
  BY <1>1 DEF PasteEnd

\* What is kept of a paste is no more than MAX_PASTE_SIZE.
LEMMA KeptType ==
  ASSUME NEW s \in Seq(Byte)
  PROVE  Kept(s) \in Seq(Byte) /\ Len(Kept(s)) <= MaxPaste
<1> DEFINE n == Min({MaxPaste, Len(s)})
<1>1. n \in 0..Len(s) /\ n <= MaxPaste
  <2>1. Len(s) \in Nat /\ MaxPaste \in Nat
    BY LimitsAssumption
  <2>2. n = IF MaxPaste <= Len(s) THEN MaxPaste ELSE Len(s)
    BY <2>1, MinPair
  <2> HIDE DEF n
  <2> QED
    BY <2>1, <2>2
<1> HIDE DEF n
<1>2. SubSeq(s, 1, n) \in Seq(Byte) /\ Len(SubSeq(s, 1, n)) = n
  BY <1>1, PrefixBytes
<1> QED
  BY <1>1, <1>2 DEF Kept, n

\* A paste grows by what the buffer begins with, as far as there is room.
LEMMA GrowIs ==
  ASSUME NEW d \in Decoder, NEW n \in 0..Len(d.buf)
  PROVE  /\ d.paste \o SubSeq(d.buf, 1, n) \in Seq(Byte)
         /\ Grow(d, n) = Kept(d.paste \o SubSeq(d.buf, 1, n))
         /\ Grow(d, n) \in Seq(Byte) /\ Len(Grow(d, n)) <= MaxPaste
<1> DEFINE taken == SubSeq(d.buf, 1, n)
           s == d.paste \o taken
<1>1. d.paste \in Seq(Byte) /\ taken \in Seq(Byte) /\ Len(taken) = n
  BY DecoderFields, PrefixBytes
<1> HIDE DEF taken
<1>2. s \in Seq(Byte) /\ Len(s) = Len(d.paste) + n
  BY <1>1
<1>3. Grow(d, n) = Kept(s)
  BY <1>2 DEF Grow, Kept, taken
<1> QED
  BY <1>2, <1>3, KeptType DEF taken

\* Where the terminator is found.
LEMMA EndsAtIs ==
  ASSUME NEW buf \in Seq(Byte)
  PROVE  /\ EndsAt(buf) \in SUBSET (1..Len(buf) - 3)
         /\ \A i \in 1..Len(buf) - 3 : i \in EndsAt(buf) <=> SubSeq(buf, i, i + 3) = PasteEnd
<1>1. Len(buf) \in Nat /\ Len(buf) - Len(PasteEnd) + 1 = Len(buf) - 3
  BY PasteEndIs
<1>2. \A i \in Nat : i + Len(PasteEnd) - 1 = i + 3
  BY PasteEndIs
<1>3. EndsAt(buf) = {i \in 1..Len(buf) - 3 : SubSeq(buf, i, i + Len(PasteEnd) - 1) = PasteEnd}
  BY <1>1 DEF EndsAt
<1>4. ASSUME NEW i \in 1..Len(buf) - 3
      PROVE  i \in EndsAt(buf) <=> SubSeq(buf, i, i + 3) = PasteEnd
  <2>1. i + Len(PasteEnd) - 1 = i + 3
    BY <1>1, <1>2
  <2> QED
    BY <1>3, <2>1
<1> QED
  BY <1>3, <1>4

\* _consume_paste is a turn of the loop.
LEMMA PasteTurned ==
  ASSUME NEW d \in Decoder, d.buf # <<>>
  PROVE  Turned(d, ConsumePaste(d))
<1>1. d.buf \in Seq(Byte) /\ Len(d.buf) \in Nat
  BY DecoderFields
<1>2. CASE EndsAt(d.buf) = {}
  <2> DEFINE take == Max({0, Len(d.buf) - (Len(PasteEnd) - 1)})
             e == [d EXCEPT !.paste = Grow(d, take)]
             c == Consume(e, take, <<>>)
  <2>1. take \in 0..Len(d.buf) /\ Len(d.buf) - take <= 3
    <3>1. Len(d.buf) - (Len(PasteEnd) - 1) = Len(d.buf) - 3 /\ Len(d.buf) - 3 \in Int
      BY <1>1, PasteEndIs
    <3>2. take = IF Len(d.buf) - 3 <= 0 THEN 0 ELSE Len(d.buf) - 3
      BY <3>1, MaxZero
    <3> HIDE DEF take
    <3> QED
      BY <1>1, <3>2
  <2> HIDE DEF take
  <2>2. Grow(d, take) \in Seq(Byte) /\ Len(Grow(d, take)) <= MaxPaste
    BY <2>1, GrowIs
  <2>3. e \in Decoder /\ e.buf = d.buf /\ e.held = d.held /\ e.paste = Grow(d, take)
    BY <2>2 DEF Decoder
  <2> HIDE DEF e
  <2>4. take \in 0..Len(e.buf) /\ <<>> \in Seq(Event)
    BY <2>1, <2>3, NoEvents
  <2>5. /\ c \in Progress
        /\ Len(c.dec.buf) = Len(e.buf) - take
        /\ c.dec.held = e.held
        /\ c.dec.paste = e.paste
    <3>1. e \in Decoder
      BY <2>3
    <3>2. Len(e.buf) \in Nat /\ take \in Nat
      BY <2>1, <2>3, <1>1
    <3>3. c \in Progress
      BY <3>1, <2>4, ConsumeIs
    <3>4. c.dec.held = e.held
      BY <3>1, <2>4, ConsumeIs
    <3>5. Consume(e, take, <<>>).dec.paste = e.paste
      BY <3>1 DEF Consume, Decoder
    <3>6. c \in Progress /\ c.dec.held = e.held /\ c.dec.paste = e.paste
      BY <3>3, <3>4, <3>5
    <3>7. c.dec.buf = SubSeq(e.buf, take + 1, Len(e.buf))
      BY <3>1, <2>4, ConsumeIs
    <3>8. Len(SubSeq(e.buf, take + 1, Len(e.buf))) = Len(e.buf) - take
      BY <3>1, <2>4, SuffixBytes, DecoderFields
    <3> QED
      BY <3>6, <3>7, <3>8
  <2> HIDE DEF c
  <2>6. ConsumePaste(d) = [c EXCEPT !.again = FALSE]
    BY <1>2 DEF ConsumePaste, take, e, c
  <2>7. /\ ConsumePaste(d) \in Progress
        /\ ConsumePaste(d).dec = c.dec
        /\ ~ConsumePaste(d).again
    BY <2>5, <2>6 DEF Progress
  <2>8. Len(c.dec.buf) <= Max({MaxSequence, 5})
    BY <1>1, <2>1, <2>3, <2>5, WaitLimit
  <2> QED
    BY <2>2, <2>3, <2>5, <2>7, <2>8 DEF Turned
<1>3. CASE EndsAt(d.buf) # {}
  <2> DEFINE found == Min(EndsAt(d.buf)) - 1
             payload == Grow(d, found)
             n == found + Len(PasteEnd)
             e == [d EXCEPT !.open = FALSE, !.paste = <<>>]
             out == IF payload = <<>> THEN <<>> ELSE <<Ev("paste", payload)>>
  <2>1. found \in 0..Len(d.buf) /\ n \in 1..Len(d.buf)
    <3>1. EndsAt(d.buf) \in SUBSET (1..Len(d.buf) - 3) /\ EndsAt(d.buf) \in SUBSET Nat
      BY <1>1, EndsAtIs
    <3>2. Min(EndsAt(d.buf)) \in EndsAt(d.buf)
      BY <1>3, <3>1, MinNat
    <3>3. Min(EndsAt(d.buf)) \in 1..Len(d.buf) - 3
      BY <3>1, <3>2
    <3> QED
      BY <1>1, <3>3, PasteEndIs
  <2> HIDE DEF found, n
  <2>2. payload \in Seq(Byte)
    BY <2>1, GrowIs
  <2>3. out \in Seq(Event)
    <3> HIDE DEF payload
    <3>1. <<Ev("paste", payload)>> \in Seq(Event) /\ <<>> \in Seq(Event)
      BY <2>2, EvType, KindNames, NoEvents
    <3> QED
      BY <3>1
  <2>4. e \in Decoder /\ e.buf = d.buf /\ e.held = d.held /\ e.paste = <<>>
    BY NoEvents DEF Decoder
  <2>5. ConsumePaste(d) = Consume(e, n, out)
    BY <1>3 DEF ConsumePaste, found, n
  <2> HIDE DEF e, out
  <2>6. n \in 1..Len(e.buf) /\ n \in 0..Len(e.buf)
    BY <2>1, <2>4, DecoderFields
  <2>7. Turned(e, Consume(e, n, out)) /\ Consume(e, n, out).dec.paste = e.paste
    BY <2>3, <2>4, <2>6, ConsumeTurned, ConsumeIs
  <2> QED
    BY <2>4, <2>5, <2>7, LimitsAssumption DEF Turned
<1> QED
  BY <1>2, <1>3

-----------------------------------------------------------------------------
(* feed() *)

Step(d) == IF d.open THEN ConsumePaste(d) ELSE ConsumeOne(d)
TurnOf(r) == [Step(r.dec) EXCEPT !.out = r.out \o @]
Over(r) == ~r.again \/ r.dec.buf = <<>>

\* Every turn of the loop takes bytes or stops, and stops only with a buffer
\* that is short.
LEMMA StepTurned ==
  ASSUME NEW d \in Decoder, d.buf # <<>>
  PROVE  Turned(d, Step(d))
BY PasteTurned, OneTurned DEF Step

\* What a turn makes of the decoder and of the events returned so far.
LEMMA TurnIs ==
  ASSUME NEW r \in Progress, ~Over(r)
  PROVE  /\ r.dec \in Decoder /\ r.dec.buf # <<>> /\ Turned(r.dec, Step(r.dec))
         /\ TurnOf(r) \in Progress
         /\ TurnOf(r).dec = Step(r.dec).dec
         /\ TurnOf(r).out = r.out \o Step(r.dec).out
         /\ TurnOf(r).again = Step(r.dec).again
<1>1. r.dec \in Decoder /\ r.dec.buf # <<>> /\ r.out \in Seq(Event)
  BY DEF Progress, Over
<1>2. Turned(r.dec, Step(r.dec))
  BY <1>1, StepTurned
<1>3. Step(r.dec) \in Progress /\ Step(r.dec).out \in Seq(Event)
  BY <1>2 DEF Turned, Progress
<1>4. r.out \o Step(r.dec).out \in Seq(Event)
  BY <1>1, <1>3
<1>5. /\ TurnOf(r) \in Progress
      /\ TurnOf(r).dec = Step(r.dec).dec
      /\ TurnOf(r).out = r.out \o Step(r.dec).out
      /\ TurnOf(r).again = Step(r.dec).again
  BY <1>3, <1>4 DEF TurnOf, Progress
<1> QED
  BY <1>1, <1>2, <1>5

Turns == [r \in Progress |-> IF Over(r) THEN r ELSE TurnOf(r)]
Work == [r \in Progress |-> IF r.again THEN Len(r.dec.buf) ELSE 0]
Finished == {r \in Progress : Over(r)}

\* Every turn of the loop that does not end it leaves fewer bytes.
LEMMA TurnsDecrease == Decreases(Progress, Finished, Turns, Work)
<1>1. Turns \in [Progress -> Progress]
  BY TurnIs DEF Turns
<1>2. Work \in [Progress -> Nat]
  <2>1. ASSUME NEW r \in Progress PROVE Len(r.dec.buf) \in Nat
    BY DecoderFields DEF Progress
  <2> QED
    BY <2>1 DEF Work
<1>3. ASSUME NEW r \in Progress \ Finished PROVE Work[Turns[r]] < Work[r]
  <2>1. ~Over(r) /\ Turns[r] = TurnOf(r) /\ r.again
    BY <1>3 DEF Finished, Turns, Over, Progress
  <2>2. Work[r] = Len(r.dec.buf) /\ Len(r.dec.buf) > 0
    <3>1. r.dec.buf \in Seq(Byte) /\ r.dec.buf # <<>>
      BY <2>1, TurnIs, DecoderFields
    <3> QED
      BY <2>1, <3>1 DEF Work
  <2>3. TurnOf(r) \in Progress /\ TurnOf(r).again => Len(TurnOf(r).dec.buf) < Len(r.dec.buf)
    BY <2>1, TurnIs DEF Turned
  <2>4. TurnOf(r) \in Progress
    BY <2>1, TurnIs
  <2> QED
    BY <2>1, <2>2, <2>3, <2>4 DEF Work
<1> QED
  BY <1>1, <1>2, <1>3 DEF Decreases

\* The loop's recursion has a solution, so that its result is what its
\* definition says.
LEMMA DrainedRule ==
  \A r \in Progress : Drained[r] = IF r \in Finished THEN r ELSE Drained[Turns[r]]
<1> DEFINE Rule(F) == F = [r \in Progress |->
               IF ~r.again \/ r.dec.buf = <<>> THEN r
               ELSE LET s == IF r.dec.open THEN ConsumePaste(r.dec) ELSE ConsumeOne(r.dec)
                    IN F[[s EXCEPT !.out = r.out \o @]]]
<1>1. ASSUME NEW F PROVE Rule(F) <=> F = [r \in Progress |-> IF Over(r) THEN r ELSE F[TurnOf(r)]]
  BY DEF Over, TurnOf, Step
<1>2. ASSUME NEW F, F = [r \in Progress |-> IF r \in Finished THEN r ELSE F[Turns[r]]]
      PROVE  Rule(F)
  <2>1. ASSUME NEW r \in Progress
        PROVE  (IF r \in Finished THEN r ELSE F[Turns[r]]) = (IF Over(r) THEN r ELSE F[TurnOf(r)])
    BY DEF Finished, Turns
  <2>2. F = [r \in Progress |-> IF Over(r) THEN r ELSE F[TurnOf(r)]]
    BY <1>2, <2>1
  <2> QED
    BY <1>1, <2>2
<1>3. \E F : Rule(F)
  <2>1. PICK F : F = [r \in Progress |-> IF r \in Finished THEN r ELSE F[Turns[r]]]
    BY TurnsDecrease, LoopExists
  <2>2. Rule(F)
    BY <1>2, <2>1
  <2> HIDE DEF Rule
  <2> QED
    BY <2>2
<1>4. Rule(Drained)
  BY <1>3 DEF Drained
<1> HIDE DEF Rule
<1>5. Drained = [r \in Progress |-> IF Over(r) THEN r ELSE Drained[TurnOf(r)]]
  BY <1>1, <1>4
<1>6. \A r \in Progress : Drained[r] = IF Over(r) THEN r ELSE Drained[TurnOf(r)]
  BY <1>5
<1> QED
  BY <1>6 DEF Finished, Turns

\* What every turn keeps holds when the loop ends, and it ends.
LEMMA DrainedInvariant ==
  ASSUME NEW I \in SUBSET Progress,
         \A r \in I : ~Over(r) => TurnOf(r) \in I
  PROVE  \A r \in I : Drained[r] \in I /\ Over(Drained[r])
<1>1. \A r \in I \ Finished : Turns[r] \in I
  BY DEF Finished, Turns
<1>2. \A r \in I : Drained[r] \in I \cap Finished
  BY <1>1, TurnsDecrease, DrainedRule, LoopInvariant
<1> QED
  BY <1>2 DEF Finished

Tame(d) == d \in Decoder /\ Len(d.paste) <= MaxPaste /\ Len(d.held) <= 1

FeedStart(d, data) == [dec |-> [d EXCEPT !.buf = @ \o data], out |-> <<>>, again |-> TRUE]

\* The loop starts with the packet at the end of the buffer.
LEMMA FeedStartIs ==
  ASSUME NEW d \in Decoder, NEW data \in Seq(Byte)
  PROVE  /\ FeedStart(d, data) \in Progress
         /\ Feed(d, data) = Drained[FeedStart(d, data)]
         /\ FeedStart(d, data).dec.buf = d.buf \o data
         /\ FeedStart(d, data).dec.held = d.held
         /\ FeedStart(d, data).dec.open = d.open
         /\ FeedStart(d, data).dec.paste = d.paste
         /\ FeedStart(d, data).out = <<>>
         /\ FeedStart(d, data).again
<1> DEFINE buf == d.buf \o data
           e == [d EXCEPT !.buf = buf]
<1>1. buf \in Seq(Byte)
  BY DecoderFields
<1> HIDE DEF buf
<1>2. e \in Decoder /\ e.buf = buf /\ e.held = d.held /\ e.open = d.open /\ e.paste = d.paste
  BY <1>1 DEF Decoder
<1>3. FeedStart(d, data) = [dec |-> e, out |-> <<>>, again |-> TRUE]
  BY DEF FeedStart, buf
<1> HIDE DEF e
<1>4. FeedStart(d, data) \in Progress
  BY <1>2, <1>3, NoEvents DEF Progress
<1>5. FeedStart(d, data).dec = e /\ FeedStart(d, data).out = <<>> /\ FeedStart(d, data).again
  BY <1>3
<1>6. Feed(d, data) = Drained[FeedStart(d, data)]
  BY DEF Feed, FeedStart
<1> QED
  BY <1>2, <1>4, <1>5, <1>6 DEF buf

\* feed() leaves a short buffer, a paste within MAX_PASTE_SIZE and at most
\* one byte of a character.
THEOREM FeedBounded ==
  ASSUME NEW d, Tame(d), NEW data \in Seq(Byte)
  PROVE  /\ Feed(d, data) \in Progress
         /\ Tame(Feed(d, data).dec)
         /\ Len(Feed(d, data).dec.buf) <= Max({MaxSequence, 5})
<1> DEFINE I == {r \in Progress : Tame(r.dec) /\ (~r.again => Len(r.dec.buf) <= Max({MaxSequence, 5}))}
           start == FeedStart(d, data)
<1>1. d \in Decoder
  BY DEF Tame
<1>2. start \in I
  <2>1. start \in Progress /\ start.dec.held = d.held /\ start.dec.paste = d.paste /\ start.again
    BY <1>1, FeedStartIs
  <2>2. start.dec \in Decoder
    BY <2>1 DEF Progress
  <2> QED
    BY <2>1, <2>2 DEF Tame
<1>3. ASSUME NEW r \in I, ~Over(r) PROVE TurnOf(r) \in I
  <2>1. /\ TurnOf(r) \in Progress /\ TurnOf(r).dec \in Decoder
        /\ TurnOf(r).dec = Step(r.dec).dec
        /\ TurnOf(r).again = Step(r.dec).again
        /\ Turned(r.dec, Step(r.dec))
    <3>1. r \in Progress
      OBVIOUS
    <3> QED
      BY <3>1, <1>3, TurnIs DEF Progress
  <2> QED
    BY <2>1 DEF Turned, Tame
<1>4. Drained[start] \in I /\ Over(Drained[start])
  <2>1. I \in SUBSET Progress
    OBVIOUS
  <2> HIDE DEF I, start
  <2> QED
    BY <2>1, <1>2, <1>3, DrainedInvariant
<1>5. Feed(d, data) = Drained[start]
  BY <1>1, FeedStartIs
<1>6. Len(Feed(d, data).dec.buf) <= Max({MaxSequence, 5})
  <2>1. CASE ~Feed(d, data).again
    BY <2>1, <1>4, <1>5
  <2>2. CASE Feed(d, data).dec.buf = <<>>
    BY <2>2, WaitLimit
  <2>3. Feed(d, data).again \in BOOLEAN
    BY <1>4, <1>5 DEF Progress
  <2> QED
    BY <2>1, <2>2, <2>3, <1>4, <1>5 DEF Over
<1> QED
  BY <1>4, <1>5, <1>6

\* feed() returns a decoder and events.
LEMMA FeedType ==
  ASSUME NEW d \in Decoder, NEW data \in Seq(Byte)
  PROVE  Feed(d, data) \in Progress
<1>1. FeedStart(d, data) \in Progress /\ Feed(d, data) = Drained[FeedStart(d, data)]
  BY FeedStartIs
<1>2. Progress \in SUBSET Progress /\ \A r \in Progress : ~Over(r) => TurnOf(r) \in Progress
  BY TurnIs
<1> QED
  BY <1>1, <1>2, DrainedInvariant

\* feed() ends, whatever the bytes: the loop stops with an empty buffer or
\* with a sequence it has to wait for.
THEOREM FeedEnds ==
  ASSUME NEW d \in Decoder, NEW data \in Seq(Byte)
  PROVE  Feed(d, data) \in Progress /\ (~Feed(d, data).again \/ Feed(d, data).dec.buf = <<>>)
<1>1. FeedStart(d, data) \in Progress /\ Feed(d, data) = Drained[FeedStart(d, data)]
  BY FeedStartIs
<1>2. Progress \in SUBSET Progress /\ \A r \in Progress : ~Over(r) => TurnOf(r) \in Progress
  BY TurnIs
<1>3. Over(Feed(d, data)) /\ Feed(d, data) \in Progress
  BY <1>1, <1>2, DrainedInvariant
<1> QED
  BY <1>3 DEF Over

-----------------------------------------------------------------------------
(* Buffers that hold a part of what is sent *)

\* Two byte sequences, one after the other.
LEMMA ConcatBytes ==
  ASSUME NEW s \in Seq(Byte), NEW t \in Seq(Byte)
  PROVE  /\ s \o t \in Seq(Byte)
         /\ Len(s \o t) = Len(s) + Len(t)
         /\ Len(s) \in Nat /\ Len(t) \in Nat
         /\ \A i \in 1..Len(s) : (s \o t)[i] = s[i]
         /\ \A i \in 1..Len(t) : (s \o t)[Len(s) + i] = t[i]
<1>1. \A i \in 1..Len(t) : (s \o t)[Len(s) + i] = t[i]
  <2> TAKE i \in 1..Len(t)
  <2> QED
    OBVIOUS
<1> QED
  BY <1>1

\* Sequences with the same bytes are the same.
LEMMA SameBytes ==
  ASSUME NEW s \in Seq(Byte), NEW t \in Seq(Byte), Len(s) = Len(t),
         \A i \in 1..Len(s) : s[i] = t[i]
  PROVE  s = t
BY SeqEqual

\* The same bytes, cut in two places.
SameStream(buf, w, x, y) ==
    /\ buf \in Seq(Byte) /\ w \in Seq(Byte) /\ x \in Seq(Byte) /\ y \in Seq(Byte)
    /\ buf \o w = x \o y

\* What is taken of a buffer is taken of the bytes it begins.
LEMMA SplitStream ==
  ASSUME NEW buf, NEW w, NEW x, NEW y, SameStream(buf, w, x, y)
  PROVE  /\ \A i \in 1..Len(buf) : i <= Len(x) => buf[i] = x[i]
         /\ \A i \in 1..Len(buf) : i > Len(x) => buf[i] = y[i - Len(x)]
         /\ Len(buf) + Len(w) = Len(x) + Len(y)
         /\ Len(x) <= Len(buf) =>
                /\ SubSeq(buf, 1, Len(x)) = x
                /\ SubSeq(buf, Len(x) + 1, Len(buf)) \o w = y
<1> USE DEF SameStream
<1>1. /\ Len(buf) \in Nat /\ Len(w) \in Nat /\ Len(x) \in Nat /\ Len(y) \in Nat
      /\ Len(buf) + Len(w) = Len(x) + Len(y)
  BY ConcatBytes
<1>2. ASSUME NEW i \in 1..Len(buf), i <= Len(x) PROVE buf[i] = x[i]
  <2>1. i \in 1..Len(x)
    BY <1>1, <1>2
  <2>2. (buf \o w)[i] = buf[i] /\ (x \o y)[i] = x[i]
    BY <2>1, ConcatBytes
  <2> QED
    BY <2>2
<1>3. ASSUME NEW i \in 1..Len(buf), i > Len(x) PROVE buf[i] = y[i - Len(x)]
  <2>1. i - Len(x) \in 1..Len(y) /\ Len(x) + (i - Len(x)) = i
    BY <1>1, <1>3
  <2>2. (buf \o w)[i] = buf[i] /\ (x \o y)[Len(x) + (i - Len(x))] = y[i - Len(x)]
    BY <2>1, ConcatBytes
  <2> QED
    BY <2>1, <2>2
<1>4. ASSUME Len(x) <= Len(buf)
      PROVE  SubSeq(buf, 1, Len(x)) = x /\ SubSeq(buf, Len(x) + 1, Len(buf)) \o w = y
  <2> DEFINE rest == SubSeq(buf, Len(x) + 1, Len(buf))
  <2>1. Len(x) \in 0..Len(buf)
    BY <1>1, <1>4
  <2>2. /\ SubSeq(buf, 1, Len(x)) \in Seq(Byte) /\ Len(SubSeq(buf, 1, Len(x))) = Len(x)
        /\ \A i \in 1..Len(x) : SubSeq(buf, 1, Len(x))[i] = buf[i]
    BY <2>1, PrefixBytes
  <2>3. \A i \in 1..Len(x) : SubSeq(buf, 1, Len(x))[i] = x[i]
    <3> TAKE i \in 1..Len(x)
    <3>1. i \in 1..Len(buf) /\ i <= Len(x)
      BY <1>1, <1>4
    <3> QED
      BY <3>1, <2>2, <1>2
  <2>4. SubSeq(buf, 1, Len(x)) = x
    BY <2>2, <2>3, SameBytes
  <2>5. /\ rest \in Seq(Byte) /\ Len(rest) = Len(buf) - Len(x)
        /\ \A i \in 1..Len(buf) - Len(x) : rest[i] = buf[Len(x) + i]
    BY <2>1, SuffixBytes
  <2> HIDE DEF rest
  <2>6. rest \o w \in Seq(Byte) /\ Len(rest \o w) = Len(y)
    BY <1>1, <2>5, ConcatBytes
  <2>7. ASSUME NEW i \in 1..Len(y) PROVE (rest \o w)[i] = y[i]
    <3>1. CASE i <= Len(rest)
      <4>1. i \in 1..Len(rest) /\ Len(x) + i \in 1..Len(buf) /\ Len(x) + i > Len(x) /\ Len(x) + i - Len(x) = i
        BY <1>1, <2>5, <3>1
      <4>2. (rest \o w)[i] = rest[i]
        BY <4>1, <2>5, ConcatBytes
      <4>3. rest[i] = buf[Len(x) + i]
        BY <2>5, <4>1
      <4>4. buf[Len(x) + i] = y[i]
        BY <4>1, <1>3
      <4> QED
        BY <4>2, <4>3, <4>4
    <3>2. CASE ~(i <= Len(rest))
      <4> DEFINE j == i - Len(rest)
      <4>1. j \in 1..Len(w) /\ Len(rest) + j = i /\ Len(buf) + j = Len(x) + i
        BY <1>1, <2>5, <3>2
      <4>2. (rest \o w)[Len(rest) + j] = w[j] /\ (buf \o w)[Len(buf) + j] = w[j]
        BY <4>1, <2>5, ConcatBytes
      <4>3. (x \o y)[Len(x) + i] = y[i]
        BY ConcatBytes
      <4> HIDE DEF j
      <4> QED
        BY <4>1, <4>2, <4>3
    <3> QED
      BY <3>1, <3>2
  <2>8. rest \o w = y
    BY <2>6, <2>7, SameBytes
  <2> QED
    BY <2>4, <2>8 DEF rest
<1> QED
  BY <1>1, <1>2, <1>3, <1>4

Dropped(buf, n) == SubSeq(buf, n + 1, Len(buf))

\* A buffer that holds all of x begins with it, and what is left goes on with
\* y.
LEMMA SplitRest ==
  ASSUME NEW buf, NEW w, NEW x, NEW y, SameStream(buf, w, x, y), Len(x) <= Len(buf)
  PROVE  SubSeq(buf, 1, Len(x)) = x /\ Dropped(buf, Len(x)) \o w = y
BY SplitStream DEF Dropped

Takes(d, n, out) == d \in Decoder /\ n \in 0..Len(d.buf) /\ out \in Seq(Event)

Took(t, d, n, out) ==
    /\ t.again /\ t.out = out
    /\ t.dec.buf = Dropped(d.buf, n)
    /\ t.dec.held = d.held /\ t.dec.open = d.open /\ t.dec.paste = d.paste

\* What Consume takes and leaves.
LEMMA TakesIs ==
  ASSUME NEW d, NEW n, NEW out, Takes(d, n, out)
  PROVE  Took(Consume(d, n, out), d, n, out)
BY ConsumeIs DEF Takes, Took, Dropped

\* The two cuts of a stream have the same length.
LEMMA SplitLen ==
  ASSUME NEW buf, NEW w, NEW x, NEW y, SameStream(buf, w, x, y)
  PROVE  /\ Len(buf) \in Nat /\ Len(w) \in Nat /\ Len(x) \in Nat /\ Len(y) \in Nat
         /\ Len(buf) + Len(w) = Len(x) + Len(y)
BY SplitStream DEF SameStream

\* SkipOver is the place before which every byte, and at which none, is in S.
LEMMA SkipOverIs ==
  ASSUME NEW s \in Seq(Byte), NEW i \in 1..Len(s) + 1, NEW S, NEW e \in i..Len(s) + 1,
         e = Len(s) + 1 \/ s[e] \notin S,
         \A j \in i..e - 1 : s[j] \in S
  PROVE  SkipOver(s, i, S) = e
<1> DEFINE k == SkipOver(s, i, S)
<1>1. /\ k \in i..Len(s) + 1
      /\ k = Len(s) + 1 \/ s[k] \notin S
      /\ \A j \in i..k - 1 : s[j] \in S
  BY SkipOverFinds
<1> HIDE DEF k
<1>2. Len(s) \in Nat
  OBVIOUS
<1>3. ~(k < e)
  <2>1. SUFFICES ASSUME k < e PROVE FALSE
    OBVIOUS
  <2>2. k \in i..e - 1 /\ k # Len(s) + 1
    BY <1>1, <1>2, <2>1
  <2> QED
    BY <2>2, <1>1
<1>4. ~(e < k)
  <2>1. SUFFICES ASSUME e < k PROVE FALSE
    OBVIOUS
  <2>2. e \in i..k - 1 /\ e # Len(s) + 1
    BY <1>1, <1>2, <2>1
  <2> QED
    BY <2>2, <1>1
<1>5. k = e
  BY <1>1, <1>2, <1>3, <1>4
<1> QED
  BY <1>5 DEF k

-----------------------------------------------------------------------------
(* Strokes, decoded whole or waited for *)

Agrees(d, s) ==
    /\ d \in Decoder /\ d.buf # <<>>
    /\ s.bytes \in Seq(Byte)
    /\ \A i \in 1..Len(d.buf) : i <= Len(s.bytes) => d.buf[i] = s.bytes[i]

\* One turn of the loop takes the stroke as a whole, or waits for the rest of it.
DecodesTo(d, s, keys) ==
    /\ Len(s.bytes) <= Len(d.buf) => ConsumeOne(d) = Consume(d, Len(s.bytes), keys)
    /\ Len(d.buf) < Len(s.bytes) => ConsumeOne(d) = Incomplete(d)

\* The types of a buffer that agrees with a stroke.
LEMMA AgreesIs ==
  ASSUME NEW d, NEW s, Agrees(d, s)
  PROVE  /\ d \in Decoder /\ d.buf \in Seq(Byte) /\ Len(d.buf) \in Nat /\ Len(d.buf) >= 1
         /\ s.bytes \in Seq(Byte) /\ Len(s.bytes) \in Nat
         /\ \A i \in 1..Len(d.buf) : i <= Len(s.bytes) => d.buf[i] = s.bytes[i]
BY DecoderFields DEF Agrees

\* A control byte is decoded as soon as it is there.
LEMMA ControlDecodes ==
  ASSUME NEW d, NEW s, Agrees(d, s), IsControl(s)
  PROVE  DecodesTo(d, s, s.keys)
<1>1. PICK b \in Control : s = Stroke(<<b>>, <<Ev("ctrl", <<b>>)>>)
  BY DEF IsControl
<1>2. s.bytes = <<b>> /\ s.keys = <<Ev("ctrl", <<b>>)>> /\ Len(s.bytes) = 1 /\ s.bytes[1] = b
  BY <1>1 DEF Stroke
<1>3. d.buf[1] = b /\ ~(Len(d.buf) < 1)
  BY <1>2, AgreesIs
<1>4. b # "esc"
  BY DEF Control
<1>5. ConsumeOne(d) = Consume(d, 1, <<Ev("ctrl", <<b>>)>>)
  BY <1>3, <1>4 DEF ConsumeOne
<1> QED
  BY <1>2, <1>3, <1>5, AgreesIs DEF DecodesTo

\* A stroke that begins with ESC is left to _consume_escape.
LEMMA EscapeFirst ==
  ASSUME NEW d, NEW s, Agrees(d, s), Len(s.bytes) >= 1, s.bytes[1] = "esc"
  PROVE  ConsumeOne(d) = ConsumeEscape(d)
<1>1. d.buf[1] = "esc"
  BY AgreesIs
<1> QED
  BY <1>1 DEF ConsumeOne, Control

\* ESC and a letter are Alt and the letter, once both are there.
LEMMA AltDecodes ==
  ASSUME NEW d, NEW s, Agrees(d, s), IsAlt(s)
  PROVE  DecodesTo(d, s, s.keys)
<1>1. PICK b \in Letter \ {"O"} : s = Stroke(<<"esc", b>>, <<Ev("alt", <<b>>)>>)
  BY DEF IsAlt
<1>2. s.keys = <<Ev("alt", <<b>>)>> /\ Len(s.bytes) = 2 /\ s.bytes[1] = "esc" /\ s.bytes[2] = b
  BY <1>1 DEF Stroke
<1>3. ConsumeOne(d) = ConsumeEscape(d)
  BY <1>2, EscapeFirst
<1>4. CASE Len(d.buf) < 2
  BY <1>2, <1>3, <1>4, AgreesIs DEF ConsumeEscape, DecodesTo
<1>5. CASE ~(Len(d.buf) < 2)
  <2>1. d.buf[2] = b
    BY <1>2, <1>5, AgreesIs
  <2>2. b \in Letter \ {"O"} /\ b # "[" /\ b # "O"
    BY DEF Letter
  <2>3. ConsumeEscape(d) = Consume(d, 2, <<Ev("alt", <<b>>)>>)
    BY <1>5, <2>1, <2>2 DEF ConsumeEscape
  <2> QED
    BY <1>2, <1>3, <1>5, <2>3, AgreesIs DEF DecodesTo
<1> QED
  BY <1>4, <1>5

\* ESC O and a final byte are an SS3 key, once all three are there.
LEMMA Ss3Decodes ==
  ASSUME NEW d, NEW s, Agrees(d, s), IsSs3(s)
  PROVE  DecodesTo(d, s, s.keys)
<1>1. PICK b \in Final :
        s = Stroke(<<"esc", "O", b>>, IF b = "A" THEN <<Ev("special", <<"A">>)>> ELSE <<>>)
  BY DEF IsSs3
<1>2. /\ s.keys = IF b = "A" THEN <<Ev("special", <<"A">>)>> ELSE <<>>
      /\ Len(s.bytes) = 3 /\ s.bytes[1] = "esc" /\ s.bytes[2] = "O" /\ s.bytes[3] = b
  BY <1>1 DEF Stroke
<1>3. ConsumeOne(d) = ConsumeEscape(d)
  BY <1>2, EscapeFirst
<1>4. CASE Len(d.buf) < 2
  BY <1>2, <1>3, <1>4, AgreesIs DEF ConsumeEscape, DecodesTo
<1>5. CASE ~(Len(d.buf) < 2)
  <2>1. d.buf[2] = "O"
    BY <1>2, <1>5, AgreesIs
  <2>2. ConsumeEscape(d) = ConsumeSs3(d)
    BY <1>5, <2>1 DEF ConsumeEscape
  <2>3. CASE Len(d.buf) < 3
    BY <1>2, <1>3, <2>2, <2>3, AgreesIs DEF ConsumeSs3, DecodesTo
  <2>4. CASE ~(Len(d.buf) < 3)
    <3>1. d.buf[3] = b
      <4>1. 3 \in 1..Len(d.buf) /\ 3 <= Len(s.bytes)
        BY <1>2, <2>4, AgreesIs
      <4> QED
        BY <1>2, <4>1, AgreesIs
    <3>2. ConsumeSs3(d) = Consume(d, 3, s.keys)
      BY <1>2, <2>4, <3>1 DEF ConsumeSs3
    <3> QED
      BY <1>2, <1>3, <2>2, <2>4, <3>2, AgreesIs DEF DecodesTo
  <2> QED
    BY <2>3, <2>4
<1> QED
  BY <1>4, <1>5

\* The three openings of a CSI sequence.
LEMMA CsiFirst ==
  ASSUME NEW d, NEW s, Agrees(d, s), Len(s.bytes) >= 3, s.bytes[1] = "esc", s.bytes[2] = "["
  PROVE  /\ Len(d.buf) < 3 => ConsumeOne(d) = Incomplete(d)
         /\ Len(d.buf) >= 3 =>
               /\ d.buf[3] = s.bytes[3]
               /\ ConsumeOne(d) = CASE s.bytes[3] = "M" -> ConsumeNormalMouse(d)
                                    [] s.bytes[3] = "<" -> ConsumeSgrMouse(d)
                                    [] OTHER -> ConsumeGeneralCsi(d)
<1>1. ConsumeOne(d) = ConsumeEscape(d)
  BY EscapeFirst, AgreesIs
<1>2. CASE Len(d.buf) < 2
  BY <1>1, <1>2, AgreesIs DEF ConsumeEscape
<1>3. CASE ~(Len(d.buf) < 2)
  <2>1. d.buf[2] = "["
    BY <1>3, AgreesIs
  <2>2. ConsumeEscape(d) = ConsumeCsi(d)
    BY <1>3, <2>1 DEF ConsumeEscape, Letter
  <2>3. CASE Len(d.buf) < 3
    BY <1>1, <2>2, <2>3, AgreesIs DEF ConsumeCsi
  <2>4. CASE ~(Len(d.buf) < 3)
    <3>1. d.buf[3] = s.bytes[3]
      BY <2>4, AgreesIs
    <3>2. ConsumeCsi(d) = CASE s.bytes[3] = "M" -> ConsumeNormalMouse(d)
                                    [] s.bytes[3] = "<" -> ConsumeSgrMouse(d)
                                    [] OTHER -> ConsumeGeneralCsi(d)
      BY <2>4, <3>1 DEF ConsumeCsi
    <3> QED
      BY <1>1, <2>2, <2>4, <3>1, <3>2
  <2> QED
    BY <2>3, <2>4
<1> QED
  BY <1>2, <1>3

\* ESC [ M and three bytes are a mouse report, taken by its length.
LEMMA LegacyMouseDecodes ==
  ASSUME NEW d, NEW s, Agrees(d, s), IsLegacyMouse(s)
  PROVE  DecodesTo(d, s, s.keys)
<1>1. /\ Len(s.bytes) = 6 /\ s.bytes[1] = "esc" /\ s.bytes[2] = "[" /\ s.bytes[3] = "M"
      /\ s.keys = <<Ev("mouse", s.bytes)>>
  BY DEF IsLegacyMouse
<1>2. CASE Len(d.buf) < 3
  BY <1>1, <1>2, CsiFirst, AgreesIs DEF DecodesTo
<1>3. CASE Len(d.buf) >= 3
  <2>1. ConsumeOne(d) = ConsumeNormalMouse(d)
    BY <1>1, <1>3, CsiFirst
  <2>2. CASE Len(d.buf) < 6
    BY <1>1, <2>1, <2>2, AgreesIs DEF ConsumeNormalMouse, DecodesTo
  <2>3. CASE ~(Len(d.buf) < 6)
    <3>1. 6 \in 0..Len(d.buf)
      BY <2>3, AgreesIs
    <3>2. /\ SubSeq(d.buf, 1, 6) \in Seq(Byte) /\ Len(SubSeq(d.buf, 1, 6)) = 6
          /\ \A i \in 1..6 : SubSeq(d.buf, 1, 6)[i] = d.buf[i]
      BY <3>1, PrefixBytes, AgreesIs
    <3>3. ASSUME NEW i \in 1..6 PROVE d.buf[i] = s.bytes[i]
      <4>1. i \in 1..Len(d.buf) /\ i <= Len(s.bytes)
        BY <1>1, <3>1
      <4> QED
        BY <4>1, AgreesIs
    <3>4. SubSeq(d.buf, 1, 6) = s.bytes
      BY <1>1, <3>2, <3>3, SameBytes, AgreesIs
    <3>5. ConsumeNormalMouse(d) = Consume(d, 6, s.keys)
      BY <1>1, <2>3, <3>4 DEF ConsumeNormalMouse
    <3> QED
      BY <1>1, <2>1, <2>3, <3>5, AgreesIs DEF DecodesTo
  <2> QED
    BY <2>2, <2>3
<1> QED
  BY <1>2, <1>3, AgreesIs

\* A part of a stroke is that part of a buffer that holds the stroke.
LEMMA AgreesSubSeq ==
  ASSUME NEW d, NEW s, Agrees(d, s), NEW m \in 1..Len(s.bytes), NEW n \in 0..Len(s.bytes), Len(s.bytes) <= Len(d.buf)
  PROVE  SubSeq(d.buf, m, n) = SubSeq(s.bytes, m, n)
<1>1. m \in 1..Len(d.buf) + 1 /\ m \in 1..Len(s.bytes) + 1 /\ n \in 0..Len(d.buf) /\ m \in Nat /\ n \in Nat
  BY AgreesIs
<1>2. /\ SubSeq(d.buf, m, n) \in Seq(Byte)
      /\ Len(SubSeq(d.buf, m, n)) = IF m <= n THEN n - m + 1 ELSE 0
      /\ \A i \in 1..(n - m + 1) : SubSeq(d.buf, m, n)[i] = d.buf[m + i - 1]
  BY <1>1, SubSeqBytes, AgreesIs
<1>3. /\ SubSeq(s.bytes, m, n) \in Seq(Byte)
      /\ Len(SubSeq(s.bytes, m, n)) = IF m <= n THEN n - m + 1 ELSE 0
      /\ \A i \in 1..(n - m + 1) : SubSeq(s.bytes, m, n)[i] = s.bytes[m + i - 1]
  BY <1>1, SubSeqBytes, AgreesIs
<1>4. ASSUME NEW i \in 1..Len(SubSeq(d.buf, m, n)) PROVE SubSeq(d.buf, m, n)[i] = SubSeq(s.bytes, m, n)[i]
  <2>1. i \in 1..(n - m + 1) /\ m + i - 1 \in 1..Len(d.buf) /\ m + i - 1 <= Len(s.bytes)
    BY <1>1, <1>2, AgreesIs
  <2> QED
    BY <2>1, <1>2, <1>3, AgreesIs
<1> QED
  BY <1>2, <1>3, <1>4, SameBytes

\* ESC [ < up to the M is a mouse report, once the M is there.
LEMMA SgrMouseDecodes ==
  ASSUME NEW d, NEW s, Agrees(d, s), IsSgrMouse(s)
  PROVE  DecodesTo(d, s, s.keys)
<1> DEFINE n == Len(s.bytes)
           end == SkipOver(d.buf, 4, Byte \ {"M"})
<1>1. /\ n \in 4..MaxSequence + 1 /\ n \in Nat
      /\ s.bytes[1] = "esc" /\ s.bytes[2] = "[" /\ s.bytes[3] = "<" /\ s.bytes[n] = "M"
      /\ \A i \in 4..n - 1 : s.bytes[i] # "M"
      /\ s.keys = IF SubSeq(s.bytes, 4, n - 1) = <<"3">> THEN <<Ev("mouse", s.bytes)>> ELSE <<>>
  BY AgreesIs DEF IsSgrMouse
<1> HIDE DEF n
<1>2. CASE Len(d.buf) < 3
  BY <1>1, <1>2, CsiFirst, AgreesIs DEF DecodesTo, n
<1>3. CASE Len(d.buf) >= 3
  <2>1. ConsumeOne(d) = ConsumeSgrMouse(d)
    BY <1>1, <1>3, CsiFirst DEF n
  <2>2. d.buf \in Seq(Byte) /\ Len(d.buf) \in Nat /\ 4 \in 1..Len(d.buf) + 1
    BY <1>3, AgreesIs
  <2>3. \A i \in 1..Len(d.buf) : i <= n => d.buf[i] = s.bytes[i] /\ d.buf[i] \in Byte
    BY AgreesIs, <2>2 DEF n
  <2>4. CASE Len(d.buf) < n
    <3>1. Len(d.buf) + 1 \in 4..Len(d.buf) + 1
      BY <1>3, <2>2
    <3> DEFINE other == Byte \ {"M"}
               e == Len(d.buf) + 1
    <3>2. \A j \in 4..e - 1 : d.buf[j] \in other
      BY <1>1, <2>2, <2>3, <2>4
    <3>3. end = Len(d.buf) + 1
      <4>1. e = Len(d.buf) + 1 /\ e \in 4..Len(d.buf) + 1
        BY <3>1
      <4> HIDE DEF other, e
      <4>2. SkipOver(d.buf, 4, other) = e
        BY <2>2, <3>2, <4>1, SkipOverIs
      <4> QED
        BY <4>1, <4>2 DEF other
    <3>4. ConsumeSgrMouse(d) = ResyncIfOverlong(d)
      BY <2>2, <3>3 DEF ConsumeSgrMouse
    <3>5. ~(Len(d.buf) > MaxSequence)
      BY <1>1, <2>2, <2>4, LimitsAssumption
    <3> QED
      BY <2>1, <2>4, <2>2, <1>1, <3>4, <3>5 DEF ResyncIfOverlong, DecodesTo, n
  <2>5. CASE ~(Len(d.buf) < n)
    <3>1. n \in 4..Len(d.buf) + 1 /\ n \in 1..Len(d.buf) /\ n <= Len(d.buf) /\ ~(n > Len(d.buf)) /\ n - 1 \in 0..n /\ n \in 0..n
      BY <1>1, <2>2, <2>5
    <3>2. d.buf[n] \notin Byte \ {"M"}
      BY <1>1, <2>3, <3>1
    <3>3. \A j \in 4..n - 1 : d.buf[j] \in Byte \ {"M"}
      BY <1>1, <2>2, <2>3, <3>1
    <3>4. end = n
      BY <2>2, <3>1, <3>2, <3>3, SkipOverIs
    <3>5. SubSeq(d.buf, 1, n) = s.bytes
      <4>1. SubSeq(d.buf, 1, n) = SubSeq(s.bytes, 1, n)
        BY <1>1, <3>1, AgreesSubSeq DEF n
      <4>2. SubSeq(s.bytes, 1, n) = s.bytes
        BY AgreesIs, SubSeqFull DEF n
      <4> QED
        BY <4>1, <4>2
    <3>6. ConsumeSgrMouse(d) = Consume(d, n, s.keys)
      BY <1>1, <3>1, <3>4, <3>5 DEF ConsumeSgrMouse
    <3> QED
      BY <2>1, <2>2, <2>5, <3>6, <1>1 DEF DecodesTo, n
  <2> QED
    BY <2>4, <2>5
<1> QED
  BY <1>2, <1>3, AgreesIs

\* A control sequence of parameters, intermediates and a final byte, no longer
\* than the decoder waits for.
IsSequence(t, m) ==
    LET n == Len(t)
    IN  /\ n \in 3..MaxSequence + 1
        /\ t[1] = "esc" /\ t[2] = "[" /\ t[3] \notin {"M", "<"}
        /\ m \in 3..n
        /\ \A i \in 3..m - 1 : t[i] \in Param
        /\ \A i \in m..n - 1 : t[i] \in Intermediate
        /\ t[n] \in Final

\* Parameters, intermediates and final bytes are different bytes.
LEMMA ByteClasses ==
  /\ \A b \in Final : b \notin Intermediate /\ b \notin Param
  /\ \A b \in Intermediate : b \notin Param
BY DEF Final, Letter, Intermediate, Param

\* The scan of _consume_general_csi ends at the final byte, or where the
\* buffer does.
LEMMA SequenceScan ==
  ASSUME NEW d, NEW s, Agrees(d, s), NEW m, IsSequence(s.bytes, m), Len(d.buf) >= 3
  PROVE  SkipOver(d.buf, SkipOver(d.buf, 3, Param), Intermediate)
            = IF Len(s.bytes) <= Len(d.buf) THEN Len(s.bytes) ELSE Len(d.buf) + 1
<1> DEFINE n == Len(s.bytes)
           l == Len(d.buf)
           mid == IF m <= l THEN m ELSE l + 1
           end == IF n <= l THEN n ELSE l + 1
<1>1. /\ n \in Nat /\ l \in Nat /\ l >= 3 /\ m \in 3..n /\ d.buf \in Seq(Byte)
      /\ \A i \in 1..l : i <= n => d.buf[i] = s.bytes[i]
  BY AgreesIs DEF IsSequence
<1>2. /\ \A i \in 3..m - 1 : s.bytes[i] \in Param
      /\ \A i \in m..n - 1 : s.bytes[i] \in Intermediate
      /\ s.bytes[n] \in Final
  BY DEF IsSequence
<1>3. mid \in 3..l + 1 /\ end \in mid..l + 1 /\ mid \in 1..l + 1 /\ 3 \in 1..l + 1
  BY <1>1
<1>4. mid = l + 1 \/ d.buf[mid] \notin Param
  <2>1. CASE m <= l /\ m < n
    <3>1. d.buf[m] = s.bytes[m] /\ m \in m..n - 1
      BY <1>1, <2>1
    <3> QED
      BY <3>1, <1>2, <2>1, ByteClasses
  <2>2. CASE m <= l /\ m = n
    <3>1. d.buf[m] = s.bytes[n]
      BY <1>1, <2>2
    <3> QED
      BY <3>1, <1>2, <2>2, ByteClasses
  <2>3. CASE ~(m <= l)
    BY <2>3
  <2> QED
    BY <1>1, <2>1, <2>2, <2>3
<1>5. ASSUME NEW j \in 3..mid - 1 PROVE d.buf[j] \in Param
  <2>1. j \in 3..m - 1 /\ j \in 1..l /\ j <= n
    BY <1>1
  <2> QED
    BY <2>1, <1>1, <1>2
<1>6. end = l + 1 \/ d.buf[end] \notin Intermediate
  <2>1. CASE n <= l
    <3>1. d.buf[n] = s.bytes[n]
      BY <1>1, <2>1
    <3> QED
      BY <3>1, <1>2, <2>1, ByteClasses
  <2>2. CASE ~(n <= l)
    BY <2>2
  <2> QED
    BY <2>1, <2>2
<1>7. ASSUME NEW j \in mid..end - 1 PROVE d.buf[j] \in Intermediate
  <2>1. j \in m..n - 1 /\ j \in 1..l /\ j <= n
    BY <1>1
  <2> QED
    BY <2>1, <1>1, <1>2
<1> HIDE DEF mid, end
<1>8. SkipOver(d.buf, 3, Param) = mid
  BY <1>1, <1>3, <1>4, <1>5, SkipOverIs DEF l
<1>9. SkipOver(d.buf, mid, Intermediate) = end
  BY <1>1, <1>3, <1>6, <1>7, SkipOverIs DEF l
<1> QED
  BY <1>8, <1>9 DEF end

\* A control sequence waits for its final byte and is then the opening of a
\* paste or a key.
LEMMA SequenceDecodes ==
  ASSUME NEW d, NEW s, Agrees(d, s), NEW m, IsSequence(s.bytes, m)
  PROVE  LET n == Len(s.bytes)
             params == SubSeq(s.bytes, 3, n - 1)
         IN  /\ Len(d.buf) < n => ConsumeOne(d) = Incomplete(d)
             /\ n <= Len(d.buf) =>
                  ConsumeOne(d) = IF s.bytes[n] = "~" /\ params = <<"200">>
                                  THEN Consume([d EXCEPT !.open = TRUE, !.paste = <<>>], n, <<>>)
                                  ELSE Consume(d, n, CsiKey(params, s.bytes[n]))
<1> DEFINE n == Len(s.bytes)
           l == Len(d.buf)
           params == SubSeq(s.bytes, 3, n - 1)
           mid == SkipOver(d.buf, 3, Param)
           end == SkipOver(d.buf, mid, Intermediate)
<1>1. /\ n \in Nat /\ l \in Nat /\ n >= 3 /\ n <= MaxSequence + 1
      /\ s.bytes[1] = "esc" /\ s.bytes[2] = "[" /\ s.bytes[3] # "M" /\ s.bytes[3] # "<"
      /\ s.bytes[n] \in Final
  BY AgreesIs DEF IsSequence
<1>2. CASE l < 3
  BY <1>1, <1>2, CsiFirst
<1>3. CASE l >= 3
  <2>1. ConsumeOne(d) = ConsumeGeneralCsi(d)
    BY <1>1, <1>3, CsiFirst
  <2>2. end = IF n <= l THEN n ELSE l + 1
    BY <1>3, SequenceScan
  <2>3. CASE l < n
    <3>1. end > l /\ ~(end <= l)
      BY <1>1, <2>2, <2>3
    <3>2. ConsumeGeneralCsi(d) = ResyncIfOverlong(d)
      BY <3>1 DEF ConsumeGeneralCsi
    <3>3. ~(Len(d.buf) > MaxSequence)
      BY <1>1, <2>3, LimitsAssumption
    <3> QED
      BY <1>1, <2>1, <2>3, <3>2, <3>3 DEF ResyncIfOverlong
  <2>4. CASE n <= l
    <3>1. end = n
      BY <2>2, <2>4
    <3>2. 3 \in 1..n /\ n - 1 \in 0..n /\ n \in 1..l
      BY <1>1, <2>4
    <3>3. SubSeq(d.buf, 3, n - 1) = params /\ d.buf[n] = s.bytes[n]
      BY <2>4, <3>2, AgreesSubSeq, AgreesIs
    <3>4. ~(end > l) /\ d.buf[end] \in Final
      BY <1>1, <2>4, <3>1, <3>3
    <3> HIDE DEF end, params
    <3>5. ConsumeGeneralCsi(d) = IF d.buf[end] = "~" /\ SubSeq(d.buf, 3, end - 1) = <<"200">>
              THEN Consume([d EXCEPT !.open = TRUE, !.paste = <<>>], end, <<>>)
              ELSE Consume(d, end, CsiKey(SubSeq(d.buf, 3, end - 1), d.buf[end]))
      BY <3>4 DEF ConsumeGeneralCsi, end
    <3>6. ConsumeGeneralCsi(d) = IF s.bytes[n] = "~" /\ params = <<"200">>
              THEN Consume([d EXCEPT !.open = TRUE, !.paste = <<>>], n, <<>>)
              ELSE Consume(d, n, CsiKey(params, s.bytes[n]))
      BY <3>1, <3>3, <3>5
    <3> QED
      BY <1>1, <2>1, <2>4, <3>6 DEF params
  <2> QED
    BY <1>1, <2>3, <2>4
<1> QED
  BY <1>1, <1>2, <1>3

\* A control sequence is its key, once its final byte is there.
LEMMA CsiDecodes ==
  ASSUME NEW d, NEW s, Agrees(d, s), IsCsi(s)
  PROVE  DecodesTo(d, s, s.keys)
<1> DEFINE n == Len(s.bytes)
           params == SubSeq(s.bytes, 3, n - 1)
<1>1. PICK m \in 3..n : /\ \A i \in 3..m - 1 : s.bytes[i] \in Param
                        /\ \A i \in m..n - 1 : s.bytes[i] \in Intermediate
  BY DEF IsCsi
<1>2. IsSequence(s.bytes, m)
  BY <1>1 DEF IsCsi, IsSequence
<1>3. /\ ~(s.bytes[n] = "~" /\ params = <<"200">>)
      /\ s.keys = CsiKey(params, s.bytes[n])
  BY DEF IsCsi
<1> HIDE DEF params
<1>4. /\ Len(d.buf) < n => ConsumeOne(d) = Incomplete(d)
      /\ n <= Len(d.buf) =>
           ConsumeOne(d) = IF s.bytes[n] = "~" /\ params = <<"200">>
                           THEN Consume([d EXCEPT !.open = TRUE, !.paste = <<>>], n, <<>>)
                           ELSE Consume(d, n, CsiKey(params, s.bytes[n]))
  BY <1>2, SequenceDecodes DEF params
<1> QED
  BY <1>3, <1>4 DEF DecodesTo

\* The opening of a bracketed paste.
LEMMA PasteOpens ==
  ASSUME NEW d, Agrees(d, Stroke(PasteStart, <<>>)), MaxSequence >= Len(PasteStart) - 1
  PROVE  /\ Len(d.buf) < 4 => ConsumeOne(d) = Incomplete(d)
         /\ Len(d.buf) >= 4 =>
               ConsumeOne(d) = Consume([d EXCEPT !.open = TRUE, !.paste = <<>>], 4, <<>>)
<1> DEFINE s == Stroke(PasteStart, <<>>)
           n == Len(s.bytes)
           params == SubSeq(s.bytes, 3, n - 1)
<1>1. /\ s.bytes = PasteStart /\ Len(s.bytes) = 4
      /\ s.bytes[1] = "esc" /\ s.bytes[2] = "[" /\ s.bytes[3] = "200" /\ s.bytes[4] = "~"
  BY DEF Stroke, PasteStart
<1>2. Len(PasteStart) = 4 /\ MaxSequence \in Nat /\ 4 \in 3..MaxSequence + 1
  BY LimitsAssumption DEF PasteStart
<1>3. \A i \in 3..4 - 1 : s.bytes[i] \in Param
  BY <1>1 DEF Param
<1>4. \A i \in 4..4 - 1 : s.bytes[i] \in Intermediate
  OBVIOUS
<1>5. s.bytes[4] \in Final /\ s.bytes[3] \notin {"M", "<"}
  BY <1>1 DEF Final
<1>6. params = <<"200">>
  <2>1. s.bytes \in Seq(Byte) /\ 3 \in 1..Len(s.bytes) + 1 /\ n - 1 = 3 /\ 3 \in 0..Len(s.bytes)
    BY <1>1, AgreesIs
  <2>2. /\ SubSeq(s.bytes, 3, 3) \in Seq(Byte)
        /\ Len(SubSeq(s.bytes, 3, 3)) = IF 3 <= 3 THEN 3 - 3 + 1 ELSE 0
        /\ \A i \in 1..(3 - 3 + 1) : SubSeq(s.bytes, 3, 3)[i] = s.bytes[3 + i - 1]
    BY <2>1, SubSeqBytes
  <2>3. Len(SubSeq(s.bytes, 3, 3)) = 1 /\ SubSeq(s.bytes, 3, 3)[1] = "200"
    BY <1>1, <2>2
  <2>4. <<"200">> \in Seq(Byte) /\ Len(<<"200">>) = 1 /\ <<"200">>[1] = "200"
    BY DEF Byte, Text, Param
  <2> DEFINE found == SubSeq(s.bytes, 3, 3)
             wanted == <<"200">>
  <2>5. /\ found \in Seq(Byte) /\ wanted \in Seq(Byte)
        /\ Len(found) = 1 /\ Len(wanted) = 1 /\ found[1] = wanted[1]
    BY <2>2, <2>3, <2>4
  <2> HIDE DEF found, wanted
  <2>6. \A i \in 1..Len(found) : found[i] = wanted[i]
    BY <2>5
  <2>7. found = wanted
    BY <2>5, <2>6, SameBytes
  <2> QED
    BY <2>1, <2>7 DEF found, wanted
<1>7. Agrees(d, s)
  OBVIOUS
<1> HIDE DEF s
<1>8. IsSequence(s.bytes, 4)
  BY <1>1, <1>2, <1>3, <1>4, <1>5 DEF IsSequence
<1>9. /\ Len(d.buf) < n => ConsumeOne(d) = Incomplete(d)
      /\ n <= Len(d.buf) =>
            ConsumeOne(d) = IF s.bytes[n] = "~" /\ params = <<"200">>
                            THEN Consume([d EXCEPT !.open = TRUE, !.paste = <<>>], n, <<>>)
                            ELSE Consume(d, n, CsiKey(params, s.bytes[n]))
  BY <1>7, <1>8, SequenceDecodes
<1> HIDE DEF params
<1> QED
  BY <1>1, <1>6, <1>9, AgreesIs, <1>7
=============================================================================
