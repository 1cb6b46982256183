----------------------------- MODULE DataLemmas -----------------------------
(***************************************************************************)
(* Facts about sets of natural numbers, recursive functions and sequences  *)
(* that the proofs about logs, lists, tables and buffers rest on.          *)
(***************************************************************************)
EXTENDS Integers, SequencesExt, WellFoundedInduction, FiniteSetTheorems, SequenceTheorems, TLAPS

\* A set of natural numbers that is not empty has a least member.  Induction over
\* the natural numbers is this lemma applied to the counterexamples.
LEMMA LeastNatural ==
  ASSUME NEW T \in SUBSET Nat, T # {}
  PROVE  \E x \in T : \A y \in T : x <= y
<1>1. PICK x \in T : \A y \in T : ~(<<y, x>> \in OpToRel(<, Nat))
  BY NatLessThanWellFounded, WFMin, Zenon
<1>2. \A y \in T : ~(y < x)
  BY <1>1 DEF OpToRel
<1> QED BY <1>2

\* Induction up to n, for a set of numbers.
LEMMA UpTo ==
  ASSUME NEW n \in Nat, NEW P, 0 \in P, \A i \in 1..n : i - 1 \in P => i \in P
  PROVE  \A i \in 0..n : i \in P
<1> DEFINE Bad == {i \in 0..n : i \notin P}
<1> SUFFICES ASSUME Bad # {} PROVE FALSE
  OBVIOUS
<1>1. PICK i \in Bad : \A j \in Bad : i <= j
  <2>1. Bad \in SUBSET Nat
    OBVIOUS
  <2> HIDE DEF Bad
  <2> QED BY <2>1, LeastNatural
<1>2. i \in 1..n /\ i - 1 \in 0..n /\ i - 1 \notin Bad
  BY <1>1
<1> QED BY <1>1, <1>2

\* One that is bounded has a greatest.
LEMMA GreatestNatural ==
  ASSUME NEW T \in SUBSET Nat, T # {}, NEW n \in Nat, \A t \in T : t <= n
  PROVE  \E x \in T : \A y \in T : x >= y
<1> DEFINE U == {u \in Nat : \A t \in T : t <= u}
<1>1. PICK u \in U : \A v \in U : u <= v
  <2>1. U \in SUBSET Nat /\ n \in U
    OBVIOUS
  <2> QED BY <2>1, LeastNatural
<1>2. CASE u \in T
  BY <1>1, <1>2
<1>3. CASE u \notin T
  <2>1. PICK t \in T : TRUE
    OBVIOUS
  <2>2. \A s \in T : s < u
    BY <1>1, <1>3
  <2>3. u - 1 \in U
    BY <1>1, <2>1, <2>2
  <2> QED BY <1>1, <2>3
<1> QED BY <1>2, <1>3

\* The greatest of some numbers up to n.
LEMMA MaxRight ==
  ASSUME NEW n \in Nat, NEW s \in SUBSET (1..n), s # {}
  PROVE  Max(s) \in s /\ Max(s) \in 1..n /\ \A i \in s : i <= Max(s)
<1>1. s \in SUBSET Nat /\ \A i \in s : i \in 1..n /\ i <= n
  OBVIOUS
<1>2. \E x \in s : \A y \in s : x >= y
  BY <1>1, GreatestNatural
<1>3. Max(s) \in s /\ \A y \in s : Max(s) >= y
  BY <1>2 DEF Max
<1> QED BY <1>1, <1>3

\* The greatest of the numbers up to i, and what is left of them without it: how a fold
\* over a sequence takes it apart.
LEMMA MaxUpTo ==
  ASSUME NEW n \in Nat, NEW i \in 1..n
  PROVE  1..i \in SUBSET (1..n) /\ 1..i # {} /\ Max(1..i) = i /\ (1..i) \ {i} = 1..(i - 1)
<1>1. 1..i \in SUBSET (1..n) /\ 1..i # {} /\ i \in 1..i /\ (1..i) \ {i} = 1..(i - 1)
  OBVIOUS
<1>2. Max(1..i) \in 1..i /\ \A j \in 1..i : j <= Max(1..i)
  BY <1>1, MaxRight
<1> QED BY <1>1, <1>2

-----------------------------------------------------------------------------
(* Recursive functions.  A definition by recursion chooses a function that    *)
(* satisfies its equation: these lemmas say that there is one.                *)

\* From 0 to n, each value from the one before.
Recurs(g, n, V, base, step) ==
  g \in [0..n -> V] /\ g[0] = base /\ \A i \in 1..n : g[i] = step[<<i, g[i - 1]>>]

\* A recursive function over 1..n exists: every step may use the value before it. It is
\* the least-number principle applied to the lengths up to which it would not.
LEMMA Recursion ==
  ASSUME NEW n \in Nat, NEW V, NEW base \in V, NEW step \in [(1..n) \X V -> V]
  PROVE  \E g : Recurs(g, n, V, base, step)
<1> DEFINE Good(m) == \E g : Recurs(g, m, V, base, step)
           Bad == {m \in 0..n : ~Good(m)}
<1>1. Good(0)
  <2> DEFINE g == [i \in 0..0 |-> base]
  <2>1. g \in [0..0 -> V] /\ g[0] = base /\ \A i \in 1..0 : g[i] = step[<<i, g[i - 1]>>]
    OBVIOUS
  <2> QED BY <2>1 DEF Recurs
<1>2. ASSUME NEW m \in 1..n, Good(m - 1) PROVE Good(m)
  <2>1. PICK g \in [0..(m - 1) -> V] : g[0] = base /\ \A i \in 1..(m - 1) : g[i] = step[<<i, g[i - 1]>>]
    BY <1>2 DEF Recurs
  <2> DEFINE h == [i \in 0..m |-> IF i = m THEN step[<<m, g[m - 1]>>] ELSE g[i]]
  <2>2. h \in [0..m -> V]
    OBVIOUS
  <2>3. h[0] = base /\ h[m] = step[<<m, g[m - 1]>>] /\ h[m - 1] = g[m - 1]
    BY <2>1
  <2>4. ASSUME NEW i \in 1..m PROVE h[i] = step[<<i, h[i - 1]>>]
    <3>1. CASE i = m
      BY <2>3, <3>1
    <3>2. CASE i # m
      <4>1. i \in 1..(m - 1) /\ h[i] = g[i] /\ h[i - 1] = g[i - 1]
        BY <3>2
      <4> QED BY <2>1, <4>1
    <3> QED BY <3>1, <3>2
  <2> HIDE DEF h
  <2> QED BY <2>2, <2>3, <2>4 DEF Recurs
<1> HIDE DEF Good
<1>3. Bad = {}
  <2>1. SUFFICES ASSUME Bad # {} PROVE FALSE
    OBVIOUS
  <2>2. PICK m \in Bad : \A k \in Bad : m <= k
    <3>1. Bad \in SUBSET Nat
      OBVIOUS
    <3> HIDE DEF Bad
    <3> QED BY <2>1, <3>1, LeastNatural
  <2>3. m \in 1..n /\ m - 1 \notin Bad /\ m - 1 \in 0..n
    BY <1>1, <2>2
  <2> QED BY <1>2, <2>2, <2>3
<1>4. Good(n)
  BY <1>3
<1> USE DEF Good
<1> QED BY <1>4

\* Over the sets of numbers up to n, each from the set without its greatest (the
\* folds over sequences are of this form).
Folds(g, n, V, base, step) ==
  /\ g \in [SUBSET (1..n) -> V]
  /\ \A s \in SUBSET (1..n) :
        g[s] = IF s = {} THEN base ELSE step[<<Max(s), g[s \ {Max(s)}]>>]

\* The same for a function that is defined on all sets of places, as the folds of the
\* library are.
LEMMA FoldRecursion ==
  ASSUME NEW n \in Nat, NEW V, NEW base \in V, NEW step \in [(1..n) \X V -> V]
  PROVE  \E g : Folds(g, n, V, base, step)
<1> USE DEF Folds
<1> DEFINE Works(g, m) == Folds(g, m, V, base, step)
           Bad == {m \in 0..n : ~\E g : Works(g, m)}
<1>1. \E g : Works(g, 0)
  <2> DEFINE g == [s \in SUBSET (1..0) |-> base]
  <2>1. \A s \in SUBSET (1..0) : s = {}
    OBVIOUS
  <2>2. g \in [SUBSET (1..0) -> V]
    OBVIOUS
  <2>3. \A s \in SUBSET (1..0) : g[s] = base
    OBVIOUS
  <2> HIDE DEF g
  <2> QED BY <2>1, <2>2, <2>3
<1>2. ASSUME NEW m \in 1..n, \E g : Works(g, m - 1) PROVE \E g : Works(g, m)
  <2>1. PICK g : Works(g, m - 1)
    BY <1>2
  <2> DEFINE h == [s \in SUBSET (1..m) |-> IF m \in s THEN step[<<m, g[s \ {m}]>>] ELSE g[s]]
  <2>2. \A s \in SUBSET (1..m) : s \ {m} \in SUBSET (1..(m - 1))
    OBVIOUS
  <2>3. \A s \in SUBSET (1..m) : m \notin s => s \in SUBSET (1..(m - 1))
    <3>1. ASSUME NEW s \in SUBSET (1..m), m \notin s, NEW x \in s PROVE x \in 1..(m - 1)
      <4>1. x \in 1..m /\ x # m
        BY <3>1
      <4> QED BY <4>1
    <3> QED BY <3>1
  <2>4. h \in [SUBSET (1..m) -> V]
    BY <2>1, <2>2, <2>3
  <2>5. ASSUME NEW s \in SUBSET (1..m)
        PROVE  h[s] = IF s = {} THEN base ELSE step[<<Max(s), h[s \ {Max(s)}]>>]
    <3>1. CASE m \in s
      <4>1. Max(s) = m
        <5>1. \A x \in s : x \in 1..m
          OBVIOUS
        <5>2. \A x \in s : m >= x
          BY <5>1
        <5>3. \A x \in s : (\A y \in s : x >= y) => x = m
          BY <3>1, <5>1
        <5> QED BY <3>1, <5>2, <5>3 DEF Max
      <4>2. h[s] = step[<<m, g[s \ {m}]>>] /\ h[s \ {m}] = g[s \ {m}]
        BY <2>2, <3>1
      <4> QED BY <3>1, <4>1, <4>2
    <3>2. CASE m \notin s
      <4>1. h[s] = g[s] /\ s \in SUBSET (1..(m - 1))
        BY <2>3, <3>2
      <4>2. h[s \ {Max(s)}] = g[s \ {Max(s)}]
        BY <3>2
      <4> QED BY <2>1, <4>1, <4>2
    <3> QED BY <3>1, <3>2
  <2> HIDE DEF h
  <2> QED BY <2>4, <2>5
<1>3. Bad = {}
  <2>1. SUFFICES ASSUME Bad # {} PROVE FALSE
    OBVIOUS
  <2>2. PICK m \in Bad : \A k \in Bad : m <= k
    <3>1. Bad \in SUBSET Nat
      OBVIOUS
    <3> HIDE DEF Bad
    <3> QED BY <2>1, <3>1, LeastNatural
  <2> HIDE DEF Works
  <2>3. m \in 1..n /\ m - 1 \notin Bad /\ m - 1 \in 0..n
    BY <1>1, <2>2
  <2> QED BY <1>2, <2>2, <2>3
<1>4. \E g : Works(g, n)
  <2> HIDE DEF Works
  <2> QED BY <1>3
<1> QED BY <1>4

\* Taken in order, such a fold is a recursion from 0 to n.
LEMMA FoldOrder ==
  ASSUME NEW n \in Nat, NEW V, NEW base, NEW step, NEW g, Folds(g, n, V, base, step)
  PROVE  Recurs([i \in 0..n |-> g[1..i]], n, V, base, step)
<1> DEFINE h == [i \in 0..n |-> g[1..i]]
<1>1. /\ g \in [SUBSET (1..n) -> V]
      /\ \A s \in SUBSET (1..n) : g[s] = IF s = {} THEN base ELSE step[<<Max(s), g[s \ {Max(s)}]>>]
  BY DEF Folds
<1>2. h \in [0..n -> V]
  <2>1. \A i \in 0..n : 1..i \in SUBSET (1..n)
    OBVIOUS
  <2> QED BY <1>1, <2>1
<1>3. h[0] = base
  <2>1. 1..0 = {} /\ {} \in SUBSET (1..n) /\ 0 \in 0..n
    OBVIOUS
  <2> QED BY <1>1, <2>1
<1>4. ASSUME NEW i \in 1..n PROVE h[i] = step[<<i, h[i - 1]>>]
  <2>1. 1..i \in SUBSET (1..n) /\ 1..i # {} /\ Max(1..i) = i /\ (1..i) \ {i} = 1..(i - 1)
    BY MaxUpTo
  <2>2. g[1..i] = step[<<i, g[1..(i - 1)]>>]
    BY <1>1, <2>1
  <2>3. i \in 0..n /\ i - 1 \in 0..n
    OBVIOUS
  <2> QED BY <2>2, <2>3
<1> QED BY <1>2, <1>3, <1>4 DEF Recurs

\* From n down to 0, each value from one further on, or none.
Forward(n, stop, next) ==
  /\ stop \in [0..n -> BOOLEAN] /\ next \in [0..n -> Int]
  /\ \A o \in 0..n : ~stop[o] => next[o] \in (o + 1)..n

\* g is the recursion that at o stops or goes on at next[o].
IsForward(g, n, V, base, step, stop, next) ==
  g \in [0..n -> V] /\ \A o \in 0..n : g[o] = IF stop[o] THEN base ELSE step[<<o, g[next[o]]>>]

\* A recursion that always goes on further behind exists, as a loop does that moves on
\* through a buffer.
LEMMA ForwardRecursion ==
  ASSUME NEW n \in Nat, NEW V, NEW base \in V, NEW step \in [(0..n) \X V -> V],
         NEW stop, NEW next, Forward(n, stop, next)
  PROVE  \E g : IsForward(g, n, V, base, step, stop, next)
<1> DEFINE Works(g, m) == /\ g \in [m..n -> V]
                          /\ \A o \in m..n :
                                g[o] = IF stop[o] THEN base ELSE step[<<o, g[next[o]]>>]
           Good(k) == \E g : Works(g, n + 1 - k)
           Bad == {k \in 0..(n + 1) : ~Good(k)}
<1>0. /\ stop \in [0..n -> BOOLEAN] /\ next \in [0..n -> Int]
      /\ \A o \in 0..n : ~stop[o] => next[o] \in (o + 1)..n
  BY DEF Forward
<1>1. Good(0)
  <2> DEFINE g == [o \in (n + 1 - 0)..n |-> base]
  <2>1. g \in [(n + 1 - 0)..n -> V] /\ (n + 1 - 0)..n = {}
    OBVIOUS
  <2> QED BY <2>1
<1>2. ASSUME NEW k \in 1..(n + 1), Good(k - 1) PROVE Good(k)
  <2> DEFINE m == n + 1 - k
  <2>1. PICK g : Works(g, m + 1)
    <3>1. n + 1 - (k - 1) = m + 1
      OBVIOUS
    <3> QED BY <1>2, <3>1
  <2>2. m \in 0..n
    OBVIOUS
  <2> HIDE DEF m
  <2> DEFINE h == [o \in m..n |-> IF o = m THEN (IF stop[m] THEN base ELSE step[<<m, g[next[m]]>>])
                                  ELSE g[o]]
  <2>3. h \in [m..n -> V]
    <3>1. ASSUME NEW o \in m..n PROVE h[o] \in V
      <4>1. CASE o = m
        BY <1>0, <2>1, <2>2, <4>1
      <4>2. CASE o # m
        <5>1. o \in (m + 1)..n
          BY <2>2, <4>2
        <5> QED BY <2>1, <4>2, <5>1
      <4> QED BY <4>1, <4>2
    <3> QED BY <3>1
  <2>4. ASSUME NEW o \in m..n
        PROVE  h[o] = IF stop[o] THEN base ELSE step[<<o, h[next[o]]>>]
    <3>1. o \in 0..n /\ m \in m..n
      BY <2>2
    <3>2. ~stop[o] => next[o] \in m..n /\ next[o] # m /\ next[o] \in (m + 1)..n
      BY <1>0, <2>2, <3>1
    <3>3. ~stop[o] => h[next[o]] = g[next[o]]
      BY <3>2
    <3>4. CASE o = m
      BY <3>1, <3>3, <3>4
    <3>5. CASE o # m
      <4>1. o \in (m + 1)..n /\ h[o] = g[o]
        BY <2>2, <3>5
      <4> QED BY <2>1, <3>3, <4>1
    <3> QED BY <3>4, <3>5
  <2> HIDE DEF h
  <2>5. Works(h, m)
    BY <2>3, <2>4
  <2> QED BY <2>5 DEF m
<1>3. Bad = {}
  <2>1. SUFFICES ASSUME Bad # {} PROVE FALSE
    OBVIOUS
  <2>2. PICK k \in Bad : \A j \in Bad : k <= j
    <3>1. Bad \in SUBSET Nat
      OBVIOUS
    <3> HIDE DEF Bad
    <3> QED BY <2>1, <3>1, LeastNatural
  <2> HIDE DEF Good
  <2>3. k \in 1..(n + 1) /\ k - 1 \notin Bad /\ k - 1 \in 0..(n + 1)
    BY <1>1, <2>2
  <2> QED BY <1>2, <2>2, <2>3
<1>4. Good(n + 1)
  <2> HIDE DEF Good
  <2>1. n + 1 \in 0..(n + 1)
    OBVIOUS
  <2> QED BY <1>3, <2>1
<1>5. n + 1 - (n + 1) = 0
  OBVIOUS
<1> QED BY <1>4, <1>5 DEF IsForward

-----------------------------------------------------------------------------
(* Sequences of sequences.                                                    *)

\* g joins the sequences up to each of them.
Joined(g, seqs) ==
  g[1] = seqs[1] /\ \A i \in 2..Len(seqs) : g[i] = g[i - 1] \o seqs[i]

\* FlattenSeq joins them one after the other.
LEMMA FlattenUnfolds ==
  ASSUME NEW S, NEW seqs \in Seq(Seq(S)), seqs # <<>>
  PROVE  \E g \in [1..Len(seqs) -> Seq(S)] : Joined(g, seqs) /\ FlattenSeq(seqs) = g[Len(seqs)]
<1> DEFINE n == Len(seqs)
           V == Seq(S)
           Equation(g) == g = [i \in 1..n |-> IF i = 1 THEN seqs[i] ELSE g[i - 1] \o seqs[i]]
<1>1. n \in Nat \ {0} /\ \A i \in 1..n : seqs[i] \in V
  BY EmptySeq, ElementOfSeq
<1> HIDE DEF n, V
<1>2. \E g : Equation(g)
  <2> DEFINE step == [p \in (1..n) \X V |-> IF p[1] = 1 THEN seqs[p[1]] ELSE p[2] \o seqs[p[1]]]
  <2>1. step \in [(1..n) \X V -> V]
    <3> SUFFICES ASSUME NEW p \in (1..n) \X V
                 PROVE  (IF p[1] = 1 THEN seqs[p[1]] ELSE p[2] \o seqs[p[1]]) \in V
      OBVIOUS
    <3> QED BY <1>1, ConcatProperties DEF V
  <2>2. <<>> \in V /\ n \in Nat
    BY <1>1, EmptySeq DEF V
  <2> HIDE DEF step
  <2>3. PICK f : Recurs(f, n, V, <<>>, step)
    BY <2>1, <2>2, Recursion, Zenon
  <2> DEFINE g == [i \in 1..n |-> f[i]]
  <2>4. ASSUME NEW i \in 1..n PROVE g[i] = IF i = 1 THEN seqs[i] ELSE g[i - 1] \o seqs[i]
    <3>1. f[i] = step[<<i, f[i - 1]>>] /\ f[i - 1] \in V
      <4>1. i - 1 \in 0..n
        BY <1>1
      <4> QED BY <2>3, <4>1 DEF Recurs
    <3>2. step[<<i, f[i - 1]>>] = IF i = 1 THEN seqs[i] ELSE f[i - 1] \o seqs[i]
      BY <3>1 DEF step
    <3>3. g[i] = f[i] /\ (i # 1 => g[i - 1] = f[i - 1])
      <4>1. i # 1 => i - 1 \in 1..n
        BY <1>1
      <4> QED BY <4>1
    <3> HIDE DEF g
    <3> QED BY <3>1, <3>2, <3>3
  <2>5. g = [i \in 1..n |-> IF i = 1 THEN seqs[i] ELSE g[i - 1] \o seqs[i]]
    BY <2>4
  <2> QED BY <2>5
<1>3. PICK g : Equation(g) /\ FlattenSeq(seqs) = g[n]
  <2> HIDE DEF Equation
  <2>1. Equation(CHOOSE g : Equation(g))
    BY <1>2
  <2>2. FlattenSeq(seqs) = (CHOOSE g : Equation(g))[n]
    BY <1>1 DEF FlattenSeq, Equation, n
  <2> QED BY <2>1, <2>2
<1>4. \A i \in 1..n : g[i] = IF i = 1 THEN seqs[i] ELSE g[i - 1] \o seqs[i]
  BY <1>3
<1>5. \A i \in 0..n : i \in {0} \union {j \in 1..n : g[j] \in V}
  <2> DEFINE P == {0} \union {j \in 1..n : g[j] \in V}
  <2>1. ASSUME NEW i \in 1..n, i - 1 \in P PROVE i \in P
    <3>1. CASE i = 1
      BY <1>1, <1>4, <3>1
    <3>2. CASE i # 1
      <4>1. g[i - 1] \in V /\ seqs[i] \in V /\ g[i] = g[i - 1] \o seqs[i]
        <5>1. i - 1 # 0 /\ i - 1 \in {j \in 1..n : g[j] \in V}
          BY <1>1, <2>1, <3>2
        <5> QED BY <1>1, <1>4, <3>2, <5>1
      <4>2. g[i] \in V
        BY <4>1, ConcatProperties DEF V
      <4> QED BY <4>2
    <3> QED BY <3>1, <3>2
  <2>2. 0 \in P /\ n \in Nat
    BY <1>1
  <2> HIDE DEF P
  <2>3. \A i \in 0..n : i \in P
    BY <2>1, <2>2, UpTo
  <2> QED BY <2>3 DEF P
<1>6. g \in [1..n -> V]
  <2>1. g = [i \in 1..n |-> g[i]] /\ \A i \in 1..n : g[i] \in V
    <3>1. \A i \in 1..n : i \in 0..n /\ i # 0
      BY <1>1
    <3>2. \A i \in 1..n : g[i] \in V
      BY <1>5, <3>1
    <3> QED BY <1>3, <3>2
  <2> QED BY <2>1
<1>7. Joined(g, seqs)
  <2>1. 1 \in 1..n /\ \A i \in 2..n : i \in 1..n /\ i # 1
    BY <1>1
  <2> QED BY <1>4, <2>1 DEF Joined, n
<1> QED BY <1>3, <1>6, <1>7 DEF n, V

\* A sequence of sequences is flattened into a sequence of their members.
LEMMA FlattenType ==
  ASSUME NEW S, NEW seqs \in Seq(Seq(S))
  PROVE  FlattenSeq(seqs) \in Seq(S)
<1>1. CASE seqs = <<>>
  BY <1>1, EmptySeq DEF FlattenSeq
<1>2. CASE seqs # <<>>
  <2>1. Len(seqs) \in 1..Len(seqs)
    <3>1. Len(seqs) \in Nat \ {0}
      BY <1>2, EmptySeq
    <3> QED BY <3>1
  <2>2. PICK g \in [1..Len(seqs) -> Seq(S)] : FlattenSeq(seqs) = g[Len(seqs)]
    BY <1>2, FlattenUnfolds
  <2> QED BY <2>1, <2>2
<1> QED BY <1>1, <1>2

\* One sequence joined is that sequence.
LEMMA FlattenOne ==
  ASSUME NEW S, NEW seqs \in Seq(Seq(S)), Len(seqs) = 1
  PROVE  FlattenSeq(seqs) = seqs[1]
<1>1. seqs # <<>>
  OBVIOUS
<1>2. PICK g : Joined(g, seqs) /\ FlattenSeq(seqs) = g[Len(seqs)]
  BY <1>1, FlattenUnfolds
<1> QED BY <1>2 DEF Joined

\* The least of some numbers up to n, and where it goes when they are counted from the end.
LEMMA MinRight ==
  ASSUME NEW n \in Nat, NEW s \in SUBSET (1..n), s # {}
  PROVE  Min(s) \in s /\ Min(s) \in 1..n /\ \A i \in s : Min(s) <= i
<1>1. s \in SUBSET Nat /\ \A i \in s : i \in 1..n
  OBVIOUS
<1>2. \E x \in s : \A y \in s : x <= y
  BY <1>1, LeastNatural
<1>3. Min(s) \in s /\ \A y \in s : Min(s) <= y
  BY <1>2 DEF Min
<1> QED BY <1>1, <1>3

\* The sums of the first numbers of a list; a fold that adds them up from the left gives
\* the last of them.
SumsTo(h, n, f) == h \in [0..n -> Nat] /\ h[0] = 0 /\ \A i \in 1..n : h[i] = h[i - 1] + f[i]
AddsUp(g, n, f) == g = [s \in SUBSET (1..n) |-> IF s = {} THEN 0 ELSE g[s \ {Max(s)}] + f[Max(s)]]

\* Every list of numbers has them.
LEMMA Sums ==
  ASSUME NEW n \in Nat, NEW f \in [1..n -> Nat]
  PROVE  /\ \E g : AddsUp(g, n, f)
         /\ \E h : SumsTo(h, n, f) /\ \A g : AddsUp(g, n, f) => g[1..n] = h[n]
<1> DEFINE add == [p \in (1..n) \X Nat |-> p[2] + f[p[1]]]
<1>1. add \in [(1..n) \X Nat -> Nat] /\ \A i \in 1..n, v \in Nat : add[<<i, v>>] = v + f[i]
  <2>1. \A p \in (1..n) \X Nat : p[1] \in 1..n /\ p[2] \in Nat
    OBVIOUS
  <2>2. \A p \in (1..n) \X Nat : p[2] \in Nat /\ f[p[1]] \in Nat
    BY <2>1
  <2>3. \A p \in (1..n) \X Nat : p[2] + f[p[1]] \in Nat
    BY <2>2
  <2>4. \A i \in 1..n, v \in Nat : <<i, v>> \in (1..n) \X Nat /\ <<i, v>>[1] = i /\ <<i, v>>[2] = v
    OBVIOUS
  <2>5. \A i \in 1..n, v \in Nat : add[<<i, v>>] = v + f[i]
    BY <2>4
  <2> QED BY <2>3, <2>5
<1> HIDE DEF add
<1>2. PICK g0 : Folds(g0, n, Nat, 0, add)
  BY <1>1, FoldRecursion
<1>3. /\ g0 \in [SUBSET (1..n) -> Nat]
      /\ \A s \in SUBSET (1..n) : g0[s] = IF s = {} THEN 0 ELSE add[<<Max(s), g0[s \ {Max(s)}]>>]
  BY <1>2 DEF Folds
<1>4. AddsUp(g0, n, f)
  <2>1. ASSUME NEW s \in SUBSET (1..n), s # {} PROVE g0[s] = g0[s \ {Max(s)}] + f[Max(s)]
    <3>1. Max(s) \in 1..n /\ g0[s \ {Max(s)}] \in Nat
      BY <1>3, <2>1, MaxRight
    <3> QED BY <1>1, <1>3, <2>1, <3>1
  <2> QED BY <1>3, <2>1 DEF AddsUp
<1> DEFINE h == [i \in 0..n |-> g0[1..i]]
<1>5. Recurs(h, n, Nat, 0, add)
  BY <1>1, <1>2, FoldOrder
<1>6. h \in [0..n -> Nat] /\ h[0] = 0 /\ \A i \in 1..n : h[i] = add[<<i, h[i - 1]>>]
  BY <1>5 DEF Recurs
<1> HIDE DEF h
<1>7. SumsTo(h, n, f)
  <2>1. ASSUME NEW i \in 1..n PROVE h[i] = h[i - 1] + f[i]
    <3>1. i - 1 \in 0..n
      OBVIOUS
    <3> QED BY <1>1, <1>6, <3>1
  <2> QED BY <1>6, <2>1 DEF SumsTo
<1>8. ASSUME NEW g, AddsUp(g, n, f) PROVE g[1..n] = h[n]
  <2> DEFINE P == {i \in 0..n : g[1..i] = h[i]}
  <2>1. \A s \in SUBSET (1..n) : g[s] = IF s = {} THEN 0 ELSE g[s \ {Max(s)}] + f[Max(s)]
    BY <1>8 DEF AddsUp
  <2>2. 0 \in P
    <3>1. 1..0 = {} /\ 0 \in 0..n /\ {} \in SUBSET (1..n)
      OBVIOUS
    <3> QED BY <1>6, <2>1, <3>1
  <2>3. ASSUME NEW i \in 1..n, i - 1 \in P PROVE i \in P
    <3>1. 1..i \in SUBSET (1..n) /\ 1..i # {} /\ Max(1..i) = i /\ (1..i) \ {i} = 1..(i - 1)
      BY MaxUpTo
    <3>2. g[1..i] = g[1..(i - 1)] + f[i]
      BY <2>1, <3>1
    <3>3. g[1..(i - 1)] = h[i - 1] /\ h[i] = h[i - 1] + f[i]
      BY <1>7, <2>3 DEF SumsTo
    <3>4. i \in 0..n
      OBVIOUS
    <3> QED BY <3>2, <3>3, <3>4
  <2> HIDE DEF P
  <2>4. n \in P
    <3>1. n \in 0..n
      OBVIOUS
    <3> QED BY <2>2, <2>3, <3>1, UpTo
  <2> QED BY <2>4 DEF P
<1> QED BY <1>4, <1>7, <1>8

\* Sums grow, and they grow with what is added up.
LEMMA SumsGrow ==
  ASSUME NEW n \in Nat, NEW f \in [1..n -> Nat], NEW h, SumsTo(h, n, f), NEW j \in 0..n
  PROVE  \A i \in 0..j : h[i] <= h[j]
<1>1. h \in [0..n -> Nat] /\ \A i \in 1..n : h[i] = h[i - 1] + f[i]
  BY DEF SumsTo
<1> DEFINE P == {k \in 0..n : k <= j => \A i \in 0..k : h[i] <= h[k]}
<1>2. 0 \in P
  BY <1>1
<1>3. ASSUME NEW k \in 1..n, k - 1 \in P PROVE k \in P
  <2>1. SUFFICES ASSUME k <= j, NEW i \in 0..k PROVE h[i] <= h[k]
    OBVIOUS
  <2>2. k \in 0..n /\ k - 1 \in 0..n /\ h[k] = h[k - 1] + f[k] /\ f[k] \in Nat
    BY <1>1
  <2>3. h[k - 1] <= h[k] /\ h[k] \in Nat /\ h[k - 1] \in Nat
    BY <1>1, <2>2
  <2>4. CASE i = k
    BY <2>3, <2>4
  <2>5. CASE i # k
    <3>1. i \in 0..(k - 1) /\ k - 1 <= j /\ i \in 0..n
      BY <2>1, <2>5
    <3>2. h[i] <= h[k - 1] /\ h[i] \in Nat
      BY <1>1, <1>3, <3>1
    <3> QED BY <2>3, <3>2
  <2> QED BY <2>4, <2>5
<1> HIDE DEF P
<1>4. j \in P
  BY <1>2, <1>3, UpTo
<1> QED BY <1>4 DEF P

\* Of lists one of which is nowhere greater.
LEMMA SumsLess ==
  ASSUME NEW n \in Nat, NEW f \in [1..n -> Nat], NEW e \in [1..n -> Nat], \A i \in 1..n : f[i] <= e[i],
         NEW h, SumsTo(h, n, f), NEW k, SumsTo(k, n, e)
  PROVE  h[n] <= k[n] /\ h[n] \in Nat /\ k[n] \in Nat
<1>1. /\ h \in [0..n -> Nat] /\ h[0] = 0 /\ \A i \in 1..n : h[i] = h[i - 1] + f[i]
      /\ k \in [0..n -> Nat] /\ k[0] = 0 /\ \A i \in 1..n : k[i] = k[i - 1] + e[i]
  BY DEF SumsTo
<1> DEFINE P == {i \in 0..n : h[i] <= k[i]}
<1>2. 0 \in P
  BY <1>1
<1>3. ASSUME NEW i \in 1..n, i - 1 \in P PROVE i \in P
  <2>1. i \in 0..n /\ i - 1 \in 0..n
    OBVIOUS
  <2>2. h[i - 1] \in Nat /\ k[i - 1] \in Nat /\ h[i - 1] <= k[i - 1] /\ f[i] \in Nat /\ e[i] \in Nat
    BY <1>1, <1>3, <2>1
  <2>3. h[i] <= k[i]
    BY <1>1, <2>2
  <2> QED BY <2>1, <2>3
<1> HIDE DEF P
<1>4. n \in 0..n
  OBVIOUS
<1>5. n \in P
  BY <1>2, <1>3, <1>4, UpTo
<1> QED BY <1>1, <1>4, <1>5 DEF P

-----------------------------------------------------------------------------
(* Folds from the left over sequences, for every sequence at once.             *)

\* A fold from the left over seq, as the folds of sequences choose it: the set of the first
\* numbers stands for the elements so far.
LeftSteps(g, V, seq, base, next) ==
  /\ g[{}] = base
  /\ \A i \in 1..Len(seq) : g[1..(i - 1)] \in V => g[1..i] = next[<<g[1..(i - 1)], seq[i]>>]

\* G is that fold, for every sequence: an element more is one step more.
LeftFold(G, V, E, base, next) ==
  /\ G \in [Seq(E) -> V] /\ G[<<>>] = base
  /\ \A s \in Seq(E), e \in E : G[Append(s, e)] = next[<<G[s], e>>]

\* It is what a fold over a sequence gives.
Gathers(G, V, E, base, next) ==
  \A s \in Seq(E) : \A g : LeftSteps(g, V, s, base, next) => g[1..Len(s)] = G[s]

\* What a recursion from 0 on gives does not depend on what follows.
LEMMA RecursOnce ==
  ASSUME NEW n \in Nat, NEW m \in 0..n, NEW V, NEW base, NEW s1, NEW s2, NEW g, NEW h,
         Recurs(g, n, V, base, s1), Recurs(h, m, V, base, s2),
         \A i \in 1..m, v \in V : s1[<<i, v>>] = s2[<<i, v>>]
  PROVE  g[m] = h[m]
<1> DEFINE P == {i \in 0..m : g[i] = h[i]}
<1>1. /\ g \in [0..n -> V] /\ g[0] = base /\ \A i \in 1..n : g[i] = s1[<<i, g[i - 1]>>]
      /\ h \in [0..m -> V] /\ h[0] = base /\ \A i \in 1..m : h[i] = s2[<<i, h[i - 1]>>]
  BY DEF Recurs
<1>2. 0 \in P /\ m \in Nat
  BY <1>1
<1>3. ASSUME NEW i \in 1..m, i - 1 \in P PROVE i \in P
  <2>1. i \in 1..n /\ i - 1 \in 0..m /\ i \in 0..m
    OBVIOUS
  <2>2. h[i - 1] \in V /\ g[i - 1] = h[i - 1]
    BY <1>1, <1>3, <2>1
  <2>3. g[i] = h[i]
    BY <1>1, <2>1, <2>2
  <2> QED BY <2>1, <2>3
<1> HIDE DEF P
<1>4. m \in P
  <2>1. m \in 0..m
    OBVIOUS
  <2> QED BY <1>2, <1>3, <2>1, UpTo
<1> QED BY <1>4 DEF P

\* There is one, and it is what a fold over a sequence gives.
LEMMA LeftFolds ==
  ASSUME NEW V, NEW E, NEW base \in V, NEW next \in [V \X E -> V]
  PROVE  \E G : LeftFold(G, V, E, base, next) /\ Gathers(G, V, E, base, next)
<1> DEFINE StepOf(s) == [p \in (1..Len(s)) \X V |-> next[<<p[2], s[p[1]]>>]]
           Is(h, s) == Recurs(h, Len(s), V, base, StepOf(s))
           G == [s \in Seq(E) |-> (CHOOSE h : Is(h, s))[Len(s)]]
<1>1. ASSUME NEW s \in Seq(E)
      PROVE  /\ Len(s) \in Nat /\ StepOf(s) \in [(1..Len(s)) \X V -> V]
             /\ \A i \in 1..Len(s), v \in V : StepOf(s)[<<i, v>>] = next[<<v, s[i]>>]
  <2>1. Len(s) \in Nat /\ \A i \in 1..Len(s) : s[i] \in E
    BY LenProperties, ElementOfSeq
  <2>2. \A p \in (1..Len(s)) \X V : p[1] \in 1..Len(s) /\ p[2] \in V
    OBVIOUS
  <2>3. \A p \in (1..Len(s)) \X V : <<p[2], s[p[1]]>> \in V \X E
    BY <2>1, <2>2
  <2>4. \A p \in (1..Len(s)) \X V : next[<<p[2], s[p[1]]>>] \in V
    BY <2>3
  <2>5. \A i \in 1..Len(s), v \in V : <<i, v>> \in (1..Len(s)) \X V /\ <<i, v>>[1] = i /\ <<i, v>>[2] = v
    OBVIOUS
  <2> QED BY <2>1, <2>4, <2>5
<1> HIDE DEF StepOf
<1>2. \A s \in Seq(E) : Is(CHOOSE h : Is(h, s), s)
  <2> TAKE s \in Seq(E)
  <2>1. \E h : Is(h, s)
    BY <1>1, Recursion
  <2> HIDE DEF Is
  <2> QED BY <2>1
<1>3. ASSUME NEW s \in Seq(E), NEW h, Is(h, s) PROVE h[Len(s)] = G[s] /\ G[s] \in V
  <2>1. Len(s) \in Nat /\ Len(s) \in 0..Len(s)
    BY <1>1
  <2>2. PICK k : k = (CHOOSE x : Is(x, s)) /\ Is(k, s)
    BY <1>2
  <2>3. h[Len(s)] = k[Len(s)]
    BY <1>3, <2>1, <2>2, RecursOnce
  <2>4. k[Len(s)] \in V
    BY <2>1, <2>2 DEF Recurs
  <2> HIDE DEF Is
  <2> QED BY <2>2, <2>3, <2>4
<1>4. \A s \in Seq(E) : \E h : Is(h, s)
  BY <1>2
<1>5. G \in [Seq(E) -> V]
  <2>1. \A s \in Seq(E) : G[s] \in V
    <3> HIDE DEF Is, G
    <3> QED BY <1>3, <1>4
  <2> QED BY <2>1
<1>6. G[<<>>] = base
  <2>1. <<>> \in Seq(E) /\ Len(<<>>) = 0
    BY EmptySeq
  <2>2. PICK h : Is(h, <<>>)
    BY <1>4, <2>1
  <2>3. h[0] = base
    BY <2>2 DEF Recurs
  <2> HIDE DEF Is, G
  <2> QED BY <1>3, <2>1, <2>2, <2>3
<1>7. ASSUME NEW s \in Seq(E), NEW e \in E PROVE G[Append(s, e)] = next[<<G[s], e>>]
  <2> DEFINE t == Append(s, e)
             n == Len(s)
  <2>1. t \in Seq(E) /\ Len(t) = n + 1 /\ t[n + 1] = e /\ \A i \in 1..n : t[i] = s[i]
    BY AppendProperties
  <2>2. n \in Nat /\ n \in 0..(n + 1) /\ n + 1 \in 1..(n + 1)
    BY <1>1
  <2> HIDE DEF t, n
  <2>3. PICK h : Is(h, t)
    BY <1>4, <2>1
  <2>4. PICK k : Is(k, s)
    BY <1>4
  <2>5. \A i \in 1..n, v \in V : StepOf(t)[<<i, v>>] = StepOf(s)[<<i, v>>]
    <3>1. \A i \in 1..n : i \in 1..(n + 1)
      BY <2>2
    <3>2. \A i \in 1..n, v \in V : StepOf(t)[<<i, v>>] = next[<<v, t[i]>>]
      BY <1>1, <2>1, <3>1
    <3>3. \A i \in 1..n, v \in V : StepOf(s)[<<i, v>>] = next[<<v, s[i]>>]
      BY <1>1 DEF n
    <3>4. ASSUME NEW i \in 1..n, NEW v \in V PROVE StepOf(t)[<<i, v>>] = StepOf(s)[<<i, v>>]
      <4>1. t[i] = s[i]
        BY <2>1
      <4>2. StepOf(t)[<<i, v>>] = next[<<v, t[i]>>] /\ StepOf(s)[<<i, v>>] = next[<<v, s[i]>>]
        BY <3>2, <3>3
      <4> QED BY <4>1, <4>2
    <3> QED BY <3>4
  <2>6. h[n] = k[n]
    <3>1. Recurs(h, n + 1, V, base, StepOf(t)) /\ Recurs(k, n, V, base, StepOf(s)) /\ n + 1 \in Nat
      BY <2>1, <2>2, <2>3, <2>4 DEF n
    <3> QED BY <2>2, <2>5, <3>1, RecursOnce
  <2>7. h[n + 1] = StepOf(t)[<<n + 1, h[n]>>] /\ h[n] \in V
    <3>1. h \in [0..(n + 1) -> V] /\ \A i \in 1..(n + 1) : h[i] = StepOf(t)[<<i, h[i - 1]>>]
      BY <2>1, <2>3 DEF Recurs
    <3>2. n + 1 - 1 = n
      BY <2>2
    <3> QED BY <2>2, <3>1, <3>2
  <2>8. StepOf(t)[<<n + 1, h[n]>>] = next[<<h[n], e>>]
    BY <1>1, <2>1, <2>2, <2>7
  <2>9. h[n + 1] = G[t] /\ k[n] = G[s]
    <3> HIDE DEF Is, G
    <3> QED BY <1>3, <2>1, <2>3, <2>4 DEF n
  <2> HIDE DEF Is, G
  <2> QED BY <2>6, <2>7, <2>8, <2>9 DEF t
<1>8. ASSUME NEW s \in Seq(E), NEW g, LeftSteps(g, V, s, base, next) PROVE g[1..Len(s)] = G[s]
  <2> DEFINE n == Len(s)
             h == [i \in 0..n |-> g[1..i]]
  <2>1. n \in Nat /\ \A i \in 1..n : s[i] \in E
    BY LenProperties, ElementOfSeq
  <2> HIDE DEF n
  <2>2. g[{}] = base /\ \A i \in 1..n : g[1..(i - 1)] \in V => g[1..i] = next[<<g[1..(i - 1)], s[i]>>]
    BY <1>8 DEF LeftSteps, n
  <2> DEFINE P == {i \in 0..n : g[1..i] \in V}
  <2>3. 0 \in P
    <3>1. 1..0 = {} /\ 0 \in 0..n
      BY <2>1
    <3> QED BY <2>2, <3>1
  <2>4. ASSUME NEW i \in 1..n, i - 1 \in P PROVE i \in P
    <3>1. g[1..(i - 1)] \in V /\ s[i] \in E /\ i \in 0..n
      BY <2>1, <2>4
    <3>2. next[<<g[1..(i - 1)], s[i]>>] \in V
      BY <3>1
    <3> QED BY <2>2, <3>1, <3>2
  <2>5. \A i \in 0..n : g[1..i] \in V
    <3> HIDE DEF P
    <3>1. \A i \in 0..n : i \in P
      BY <2>1, <2>3, <2>4, UpTo
    <3> QED BY <3>1 DEF P
  <2>6. h \in [0..n -> V] /\ h[0] = base
    <3>1. 1..0 = {} /\ 0 \in 0..n
      BY <2>1
    <3> QED BY <2>2, <2>5, <3>1
  <2>7. ASSUME NEW i \in 1..n PROVE h[i] = StepOf(s)[<<i, h[i - 1]>>]
    <3>1. i \in 0..n /\ i - 1 \in 0..n
      BY <2>1
    <3>2. h[i] = g[1..i] /\ h[i - 1] = g[1..(i - 1)]
      BY <3>1
    <3>3. StepOf(s)[<<i, g[1..(i - 1)]>>] = next[<<g[1..(i - 1)], s[i]>>]
      BY <1>1, <2>5, <3>1 DEF n
    <3> QED BY <2>2, <2>5, <3>1, <3>2, <3>3
  <2>8. Is(h, s)
    <3> HIDE DEF h
    <3> QED BY <2>6, <2>7 DEF Recurs, n
  <2>9. h[n] = G[s]
    <3> HIDE DEF Is, G, h
    <3> QED BY <1>3, <2>8 DEF n
  <2>10. n \in 0..n
    BY <2>1
  <2> HIDE DEF G
  <2> QED BY <2>9, <2>10 DEF n
<1> HIDE DEF G
<1> QED BY <1>5, <1>6, <1>7, <1>8 DEF LeftFold, Gathers

\* g folds a sequence from the left on all sets of its places, as the folds of the library do.
LeftEquation(g, V, seq, base, next) ==
  /\ g \in [SUBSET (1..Len(seq)) -> V]
  /\ \A s \in SUBSET (1..Len(seq)) :
        g[s] = IF s = {} THEN base ELSE next[<<g[s \ {Max(s)}], seq[Max(s)]>>]

\* There is one.
LEMMA LeftExists ==
  ASSUME NEW V, NEW E, NEW base \in V, NEW next \in [V \X E -> V], NEW seq \in Seq(E)
  PROVE  \E g : LeftEquation(g, V, seq, base, next)
<1> DEFINE n == Len(seq)
           step == [p \in (1..n) \X V |-> next[<<p[2], seq[p[1]]>>]]
<1>1. n \in Nat /\ \A i \in 1..n : seq[i] \in E
  BY LenProperties, ElementOfSeq
<1> HIDE DEF n
<1>2. \A p \in (1..n) \X V : p[1] \in 1..n /\ p[2] \in V
  OBVIOUS
<1>3. \A p \in (1..n) \X V : <<p[2], seq[p[1]]>> \in V \X E
  BY <1>1, <1>2
<1>4. step \in [(1..n) \X V -> V]
  BY <1>3
<1>5. \A i \in 1..n, v \in V : step[<<i, v>>] = next[<<v, seq[i]>>]
  OBVIOUS
<1> HIDE DEF step
<1>6. PICK g : Folds(g, n, V, base, step)
  BY <1>1, <1>4, FoldRecursion
<1>7. /\ g \in [SUBSET (1..n) -> V]
      /\ \A s \in SUBSET (1..n) : g[s] = IF s = {} THEN base ELSE step[<<Max(s), g[s \ {Max(s)}]>>]
  BY <1>6 DEF Folds
<1>8. ASSUME NEW s \in SUBSET (1..n)
      PROVE  g[s] = IF s = {} THEN base ELSE next[<<g[s \ {Max(s)}], seq[Max(s)]>>]
  <2>1. s # {} => Max(s) \in 1..n
    BY <1>1, MaxRight
  <2>2. g[s \ {Max(s)}] \in V
    BY <1>7
  <2> QED BY <1>5, <1>7, <2>1, <2>2
<1> QED BY <1>7, <1>8 DEF n, LeftEquation

\* What it does for the first elements.
LEMMA LeftTakes ==
  ASSUME NEW V, NEW E, NEW base, NEW next, NEW seq \in Seq(E), NEW g, g[{}] = base,
         \A s \in SUBSET (1..Len(seq)) : (s # {} /\ g[s \ {Max(s)}] \in V) =>
            g[s] = next[<<g[s \ {Max(s)}], seq[Max(s)]>>]
  PROVE  LeftSteps(g, V, seq, base, next)
<1>1. Len(seq) \in Nat
  BY LenProperties
<1>2. ASSUME NEW i \in 1..Len(seq), g[1..(i - 1)] \in V
      PROVE  g[1..i] = next[<<g[1..(i - 1)], seq[i]>>]
  <2>1. 1..i \in SUBSET (1..Len(seq)) /\ 1..i # {} /\ Max(1..i) = i /\ (1..i) \ {i} = 1..(i - 1)
    BY <1>1, MaxUpTo
  <2> QED BY <1>2, <2>1
<1> QED BY <1>2 DEF LeftSteps

-----------------------------------------------------------------------------
(* Sums over finite sets, as a fold over a set adds them up in an order of its *)
(* own: a sum is a number of units, f[x] for each x.                           *)

Units(S, f) == UNION {{x} \X (1..f[x]) : x \in S}
SumOf(S, f) == Cardinality(Units(S, f))

\* A sum of finitely many numbers is finite.
LEMMA UnitsFinite ==
  ASSUME NEW S, IsFiniteSet(S), NEW f, \A x \in S : f[x] \in Nat
  PROVE  IsFiniteSet(Units(S, f)) /\ SumOf(S, f) \in Nat
<1> DEFINE T == {{x} \X (1..f[x]) : x \in S}
           m == [x \in S |-> {x} \X (1..f[x])]
<1>1. IsFiniteSet(T)
  <2>1. m \in Surjection(S, T)
    BY DEF Surjection
  <2> HIDE DEF m, T
  <2> QED BY <2>1, FS_Surjection
<1>2. \A t \in T : IsFiniteSet(t)
  <2>1. ASSUME NEW x \in S PROVE IsFiniteSet({x} \X (1..f[x]))
    <3>1. IsFiniteSet({x})
      BY FS_Singleton
    <3>2. IsFiniteSet(1..f[x])
      BY <2>1, FS_Interval
    <3> QED BY <3>1, <3>2, FS_Product
  <2> QED BY <2>1
<1> HIDE DEF T
<1>3. IsFiniteSet(UNION T)
  BY <1>1, <1>2, FS_UNION
<1>4. Units(S, f) = UNION T
  BY DEF Units, T
<1> QED BY <1>3, <1>4, FS_CardinalityType DEF SumOf

\* A sum without one of its numbers.
LEMMA SumTakes ==
  ASSUME NEW S, IsFiniteSet(S), NEW f, \A x \in S : f[x] \in Nat, NEW x \in S
  PROVE  SumOf(S, f) = SumOf(S \ {x}, f) + f[x]
<1> DEFINE A == Units(S \ {x}, f)
           B == {x} \X (1..f[x])
<1>1. IsFiniteSet(A)
  <2>1. IsFiniteSet(S \ {x})
    BY FS_RemoveElement
  <2> QED BY <2>1, UnitsFinite
<1>2. IsFiniteSet(B) /\ Cardinality(B) = f[x]
  <2>1. IsFiniteSet({x}) /\ Cardinality({x}) = 1
    BY FS_Singleton
  <2>2. IsFiniteSet(1..f[x]) /\ Cardinality(1..f[x]) = f[x]
    <3>1. f[x] \in Nat
      OBVIOUS
    <3>2. PICK k \in Nat : k = f[x]
      BY <3>1
    <3>3. IsFiniteSet(1..k) /\ Cardinality(1..k) = IF 1 > k THEN 0 ELSE k - 1 + 1
      BY FS_Interval
    <3>4. Cardinality(1..k) = k
      BY <3>3
    <3> QED BY <3>2, <3>3, <3>4
  <2>3. IsFiniteSet(B) /\ Cardinality(B) = Cardinality({x}) * Cardinality(1..f[x])
    BY <2>1, <2>2, FS_Product
  <2> QED BY <2>1, <2>2, <2>3
<1>3. A \cap B = {}
  BY DEF Units
<1>4. Units(S, f) = A \cup B
  BY DEF Units
<1> HIDE DEF A, B
<1>5. Cardinality(A \cup B) = Cardinality(A) + Cardinality(B) - Cardinality({})
  BY <1>1, <1>2, <1>3, FS_Union
<1>6. Cardinality({}) = 0 /\ Cardinality(A) \in Nat
  BY <1>1, FS_EmptySet, FS_CardinalityType
<1> QED BY <1>2, <1>4, <1>5, <1>6 DEF SumOf, A

\* Only the numbers of the set count.
LEMMA SumSame ==
  ASSUME NEW S, NEW f, NEW g, \A x \in S : f[x] = g[x]
  PROVE  SumOf(S, f) = SumOf(S, g)
<1>1. Units(S, f) = Units(S, g)
  BY DEF Units
<1> QED BY <1>1 DEF SumOf

\* One number changes, or is new; where it was not it counts for nothing.
LEMMA SumChanges ==
  ASSUME NEW S, NEW x, NEW f, NEW g, IsFiniteSet(S), \A y \in S : f[y] \in Nat,
         g[x] \in Nat, \A y \in S \ {x} : g[y] = f[y]
  PROVE  SumOf(S \union {x}, g) = SumOf(S, f) + g[x] - (IF x \in S THEN f[x] ELSE 0)
<1> DEFINE R == S \ {x}
<1>1. IsFiniteSet(R) /\ IsFiniteSet(S \union {x})
  BY FS_RemoveElement, FS_AddElement
<1>2. \A y \in S \union {x} : g[y] \in Nat
  OBVIOUS
<1>3. (S \union {x}) \ {x} = R /\ x \in S \union {x}
  OBVIOUS
<1>4. SumOf(S \union {x}, g) = SumOf(R, g) + g[x]
  BY <1>1, <1>2, <1>3, SumTakes
<1>5. SumOf(R, g) = SumOf(R, f)
  BY SumSame
<1>6. SumOf(R, f) \in Nat
  BY <1>1, UnitsFinite
<1>7. CASE x \in S
  <2>1. SumOf(S, f) = SumOf(R, f) + f[x] /\ f[x] \in Nat
    BY <1>7, SumTakes
  <2> HIDE DEF R
  <2> QED BY <1>4, <1>5, <1>6, <1>7, <2>1
<1>8. CASE x \notin S
  <2>1. R = S
    BY <1>8
  <2> HIDE DEF R
  <2> QED BY <1>4, <1>5, <1>6, <1>8, <2>1
<1> QED BY <1>7, <1>8

\* FoldSet chooses the elements, and a function that adds them up in that order.
AddsSet(g, S, f) ==
  g = [s \in SUBSET S |-> IF s = {} THEN 0 ELSE g[s \ {CHOOSE x \in s : TRUE}] + f[CHOOSE x \in s : TRUE]]

\* There is one, and it gives the sum.
LEMMA SetSums ==
  ASSUME NEW S, IsFiniteSet(S), NEW f, \A x \in S : f[x] \in Nat
  PROVE  (\E g : AddsSet(g, S, f)) /\ \A g : AddsSet(g, S, f) => g[S] = SumOf(S, f)
<1>1. ASSUME NEW s \in SUBSET S
      PROVE  SumOf(s, f) = IF s = {} THEN 0
                           ELSE SumOf(s \ {CHOOSE x \in s : TRUE}, f) + f[CHOOSE x \in s : TRUE]
  <2>1. CASE s = {}
    <3>1. Units(s, f) = {}
      BY <2>1 DEF Units
    <3> QED BY <2>1, <3>1, FS_EmptySet DEF SumOf
  <2>2. CASE s # {}
    <3>1. PICK y : y = CHOOSE x \in s : TRUE
      OBVIOUS
    <3>2. y \in s
      BY <2>2, <3>1
    <3>3. IsFiniteSet(s) /\ \A x \in s : f[x] \in Nat
      BY FS_Subset
    <3>4. SumOf(s, f) = SumOf(s \ {y}, f) + f[y]
      BY <3>2, <3>3, SumTakes
    <3> QED BY <2>2, <3>1, <3>4
  <2> QED BY <2>1, <2>2
<1>2. AddsSet([s \in SUBSET S |-> SumOf(s, f)], S, f)
  <2> DEFINE g == [s \in SUBSET S |-> SumOf(s, f)]
  <2>1. \A s \in SUBSET S : s \ {CHOOSE x \in s : TRUE} \in SUBSET S
    OBVIOUS
  <2>2. \A s \in SUBSET S : g[s] = IF s = {} THEN 0
                                   ELSE g[s \ {CHOOSE x \in s : TRUE}] + f[CHOOSE x \in s : TRUE]
    BY <1>1, <2>1
  <2>3. g = [s \in SUBSET S |-> g[s]]
    OBVIOUS
  <2> HIDE DEF g
  <2>4. AddsSet(g, S, f)
    BY <2>2, <2>3 DEF AddsSet
  <2> QED BY <2>4 DEF g
<1>3. ASSUME NEW g, AddsSet(g, S, f) PROVE g[S] = SumOf(S, f)
  <2> DEFINE n == Cardinality(S)
             P == {k \in 0..n : \A s \in SUBSET S : Cardinality(s) = k => g[s] = SumOf(s, f)}
  <2>1. n \in Nat /\ \A s \in SUBSET S : IsFiniteSet(s) /\ Cardinality(s) \in Nat
    BY FS_CardinalityType, FS_Subset
  <2> HIDE DEF n
  <2>2. \A s \in SUBSET S : g[s] = IF s = {} THEN 0
                                   ELSE g[s \ {CHOOSE x \in s : TRUE}] + f[CHOOSE x \in s : TRUE]
    BY <1>3 DEF AddsSet
  <2>3. 0 \in P
    <3>1. ASSUME NEW s \in SUBSET S, Cardinality(s) = 0 PROVE g[s] = SumOf(s, f)
      <4>1. s = {}
        BY <2>1, <3>1, FS_EmptySet
      <4> QED BY <1>1, <2>2, <4>1
    <3> QED BY <2>1, <3>1
  <2>4. ASSUME NEW k \in 1..n, k - 1 \in P PROVE k \in P
    <3>1. ASSUME NEW s \in SUBSET S, Cardinality(s) = k PROVE g[s] = SumOf(s, f)
      <4>1. s # {}
        BY <3>1, FS_EmptySet
      <4>2. PICK y : y = CHOOSE x \in s : TRUE
        OBVIOUS
      <4>3. y \in s
        BY <4>1, <4>2
      <4>4. s \ {y} \in SUBSET S /\ Cardinality(s \ {y}) = k - 1
        BY <2>1, <3>1, <4>3, FS_RemoveElement
      <4>5. g[s \ {y}] = SumOf(s \ {y}, f)
        BY <2>4, <4>4
      <4>6. g[s] = g[s \ {y}] + f[y] /\ SumOf(s, f) = SumOf(s \ {y}, f) + f[y]
        BY <1>1, <2>2, <4>1, <4>2
      <4> QED BY <4>5, <4>6
    <3>2. k \in 0..n
      BY <2>1
    <3> QED BY <3>1, <3>2
  <2> HIDE DEF P
  <2>5. n \in P
    <3>1. n \in 0..n
      BY <2>1
    <3> QED BY <2>1, <2>3, <2>4, <3>1, UpTo
  <2>6. S \in SUBSET S
    OBVIOUS
  <2> QED BY <2>5, <2>6 DEF P, n
<1> QED BY <1>2, <1>3

\* g is the recursion without an end.
Endless(g, V, base, next) == g \in [Nat -> V] /\ g[0] = base /\ \A n \in Nat \ {0} : g[n] = next[g[n - 1]]

\* A recursion without an end exists: each value from the one before.
LEMMA EndlessRecursion ==
  ASSUME NEW V, NEW base \in V, NEW next \in [V -> V]
  PROVE  \E g : Endless(g, V, base, next)
<1> DEFINE Step(n) == [p \in (1..n) \X V |-> next[p[2]]]
           Good(h, n) == Recurs(h, n, V, base, Step(n))
           h(n) == CHOOSE x : Good(x, n)
           g == [n \in Nat |-> h(n)[n]]
<1>1. ASSUME NEW n \in Nat
      PROVE  /\ Step(n) \in [(1..n) \X V -> V]
             /\ \A i \in 1..n, v \in V : Step(n)[<<i, v>>] = next[v]
  OBVIOUS
<1> HIDE DEF Step
<1>2. ASSUME NEW n \in Nat PROVE Good(h(n), n)
  <2>1. Step(n) \in [(1..n) \X V -> V]
    BY <1>1
  <2>2. \E x : Good(x, n)
    BY <2>1, Recursion
  <2> HIDE DEF Good
  <2> QED BY <2>2
<1> HIDE DEF h
<1>3. ASSUME NEW n \in Nat
      PROVE  /\ h(n) \in [0..n -> V] /\ h(n)[0] = base
             /\ \A i \in 1..n : h(n)[i] = next[h(n)[i - 1]]
  <2>1. h(n) \in [0..n -> V] /\ h(n)[0] = base /\ \A i \in 1..n : h(n)[i] = Step(n)[<<i, h(n)[i - 1]>>]
    BY <1>2 DEF Recurs
  <2>2. \A i \in 1..n : i - 1 \in 0..n
    OBVIOUS
  <2> QED BY <1>1, <2>1, <2>2
<1>4. ASSUME NEW n \in Nat \ {0} PROVE h(n)[n - 1] = h(n - 1)[n - 1]
  <2>1. n \in Nat /\ n - 1 \in 0..n /\ n - 1 \in Nat /\ \A i \in 1..(n - 1) : i \in 1..n
    OBVIOUS
  <2>2. Recurs(h(n), n, V, base, Step(n)) /\ Recurs(h(n - 1), n - 1, V, base, Step(n - 1))
    BY <1>2, <2>1
  <2>3. \A i \in 1..(n - 1), v \in V : Step(n)[<<i, v>>] = Step(n - 1)[<<i, v>>]
    BY <1>1, <2>1
  <2> QED BY <2>1, <2>2, <2>3, RecursOnce
<1>5. \A n \in Nat : h(n)[n] \in V
  BY <1>3
<1>6. g \in [Nat -> V] /\ g[0] = base
  BY <1>3, <1>5
<1>7. ASSUME NEW n \in Nat \ {0} PROVE g[n] = next[g[n - 1]]
  <2>1. n \in 1..n /\ n \in Nat /\ n - 1 \in Nat
    OBVIOUS
  <2>2. h(n)[n] = next[h(n)[n - 1]]
    BY <1>3, <2>1
  <2>3. g[n] = h(n)[n] /\ g[n - 1] = h(n - 1)[n - 1]
    BY <2>1
  <2> QED BY <1>4, <2>2, <2>3
<1> HIDE DEF g
<1>8. Endless(g, V, base, next)
  BY <1>6, <1>7 DEF Endless
<1> QED BY <1>8

\* Places by clusters: a multiple and a rest below it.
LEMMA RestBelow ==
  ASSUME NEW m \in Nat, m > 0, NEW q \in Nat, NEW r \in 0..(m - 1)
  PROVE  (q * m + r) \div m = q /\ (q * m + r) % m = r
OBVIOUS

\* Two multiples with rests below are equal only if both are.
LEMMA MultiplesApart ==
  ASSUME NEW m \in Nat, NEW a \in Nat, NEW b \in Nat, NEW o \in 0..(m - 1), NEW p \in 0..(m - 1),
         a * m + o = b * m + p
  PROVE  a = b /\ o = p
<1>1. m > 0
  OBVIOUS
<1>2. (a * m + o) \div m = a /\ (a * m + o) % m = o /\ (b * m + p) \div m = b /\ (b * m + p) % m = p
  BY <1>1, RestBelow
<1> QED BY <1>2

\* A sequence that has nothing twice has as many members as places.
LEMMA CountDistinct ==
  ASSUME NEW S, NEW s \in Seq(S), \A k, l \in 1..Len(s) : k # l => s[k] # s[l]
  PROVE  Cardinality(Range(s)) = Len(s)
<1>1. Len(s) \in Nat /\ DOMAIN s = 1..Len(s) /\ s \in [1..Len(s) -> S]
  OBVIOUS
<1>2. Range(s) = {s[i] : i \in 1..Len(s)}
  BY <1>1 DEF Range
<1>3. s \in Bijection(1..Len(s), Range(s))
  <2> DEFINE D == 1..Len(s)
             R == Range(s)
  <2>1. s \in [D -> R]
    BY <1>1, <1>2
  <2>2. \A k, l \in D : s[k] = s[l] => k = l
    OBVIOUS
  <2>3. \A y \in R : \E k \in D : s[k] = y
    BY <1>2
  <2> HIDE DEF D, R
  <2>4. s \in Injection(D, R) /\ s \in Surjection(D, R)
    BY <2>1, <2>2, <2>3 DEF Injection, IsInjective, Surjection
  <2>5. s \in Bijection(D, R)
    BY <2>4 DEF Bijection
  <2> QED BY <2>5 DEF D, R
<1>4. ExistsBijection(1..Len(s), Range(s))
  BY <1>3 DEF ExistsBijection
<1> QED BY <1>1, <1>4, FS_CountingElements

\* Appending, spelled out.
LEMMA AppendTuples ==
  ASSUME NEW a, NEW b, NEW c
  PROVE  Append(<<a>>, b) = <<a, b>> /\ Append(<<a, b>>, c) = <<a, b, c>>
<1> DEFINE S == {a, b, c}
<1>1. <<a>> \in Seq(S) /\ <<a, b>> \in Seq(S) /\ <<a, b, c>> \in Seq(S) /\ b \in S /\ c \in S
  OBVIOUS
<1>2. ASSUME NEW s \in Seq(S), NEW t \in Seq(S), Len(s) = Len(t), \A i \in 1..Len(s) : s[i] = t[i]
      PROVE  s = t
  BY <1>2, SeqEqual
<1>3. Append(<<a>>, b) = <<a, b>>
  <2>1. Append(<<a>>, b) \in Seq(S) /\ Len(Append(<<a>>, b)) = 2
        /\ Append(<<a>>, b)[1] = a /\ Append(<<a>>, b)[2] = b
    <3>1. Len(<<a>>) = 1 /\ <<a>>[1] = a /\ 1..1 = {1}
      OBVIOUS
    <3> HIDE DEF S
    <3> QED BY <1>1, <3>1, AppendProperties
  <2>2. Len(<<a, b>>) = 2 /\ <<a, b>>[1] = a /\ <<a, b>>[2] = b /\ \A i \in 1..2 : i = 1 \/ i = 2
    OBVIOUS
  <2> DEFINE s == Append(<<a>>, b)
             t == <<a, b>>
  <2> HIDE DEF s, t, S
  <2>3. \A i \in 1..Len(s) : s[i] = t[i]
    BY <2>1, <2>2 DEF s, t
  <2>4. s \in Seq(S) /\ t \in Seq(S) /\ Len(s) = Len(t)
    BY <1>1, <2>1, <2>2 DEF s, t
  <2>5. s = t
    BY <1>2, <2>3, <2>4
  <2> QED BY <2>5 DEF s, t
<1>4. Append(<<a, b>>, c) = <<a, b, c>>
  <2>1. Append(<<a, b>>, c) \in Seq(S) /\ Len(Append(<<a, b>>, c)) = 3
        /\ Append(<<a, b>>, c)[1] = a /\ Append(<<a, b>>, c)[2] = b /\ Append(<<a, b>>, c)[3] = c
    BY <1>1, AppendProperties
  <2>2. /\ Len(<<a, b, c>>) = 3 /\ <<a, b, c>>[1] = a /\ <<a, b, c>>[2] = b /\ <<a, b, c>>[3] = c
        /\ \A i \in 1..3 : i = 1 \/ i = 2 \/ i = 3
    OBVIOUS
  <2> DEFINE s == Append(<<a, b>>, c)
             t == <<a, b, c>>
  <2> HIDE DEF s, t, S
  <2>3. \A i \in 1..Len(s) : s[i] = t[i]
    BY <2>1, <2>2 DEF s, t
  <2>4. s \in Seq(S) /\ t \in Seq(S) /\ Len(s) = Len(t)
    BY <1>1, <2>1, <2>2 DEF s, t
  <2>5. s = t
    BY <1>2, <2>3, <2>4
  <2> QED BY <2>5 DEF s, t
<1> QED BY <1>3, <1>4

\* What is below a divisor holds it no time.
LEMMA DivisionOfLess ==
  ASSUME NEW d \in Nat, d > 0
  PROVE  (d - 1) \div d = 0 /\ (0 + d - 1) \div d = 0
OBVIOUS

\* One member more that a sequence has not yet.
LEMMA ListsOne ==
  ASSUME NEW S, NEW l \in Seq(S), \A j, k \in 1..Len(l) : j # k => l[j] # l[k], NEW q \in S, q \notin Range(l)
  PROVE  /\ Append(l, q) \in Seq(S) /\ Range(Append(l, q)) = Range(l) \union {q}
         /\ \A j, k \in 1..Len(Append(l, q)) : j # k => Append(l, q)[j] # Append(l, q)[k]
<1> DEFINE n == Len(l)
           t == Append(l, q)
<1>1. /\ n \in Nat /\ DOMAIN l = 1..n /\ t \in Seq(S) /\ Len(t) = n + 1
      /\ (\A k \in 1..n : t[k] = l[k]) /\ t[n + 1] = q
  BY AppendProperties
<1>2. DOMAIN t = 1..(n + 1)
  BY <1>1
<1> HIDE DEF n, t
<1>3. /\ \A k \in 1..(n + 1) : k \in 1..n \/ k = n + 1
      /\ n + 1 \in 1..(n + 1) /\ \A k \in 1..n : k \in 1..(n + 1)
  BY <1>1
<1>4. Range(t) = Range(l) \union {q}
  BY <1>1, <1>2, <1>3 DEF Range
<1>5. \A k \in 1..n : l[k] # q
  BY <1>1 DEF Range
<1>6. \A j, k \in 1..(n + 1) : j # k => t[j] # t[k]
  BY <1>1, <1>3, <1>5 DEF n
<1> QED BY <1>1, <1>4, <1>6 DEF t

\* A part of a sequence, from one place to another.
LEMMA PartRight ==
  ASSUME NEW E, NEW s \in Seq(E), NEW a \in Nat \ {0}, NEW b \in Nat, b <= Len(s), a <= b + 1
  PROVE  /\ SubSeq(s, a, b) \in Seq(E) /\ Len(SubSeq(s, a, b)) = b + 1 - a
         /\ \A i \in 1..(b + 1 - a) : SubSeq(s, a, b)[i] = s[a + i - 1]
<1>1. Len(s) \in Nat /\ \A i \in 1..Len(s) : s[i] \in E
  BY LenProperties, ElementOfSeq
<1>2. \A i \in a..b : s[i] \in E
  BY <1>1
<1>3. /\ SubSeq(s, a, b) \in Seq(E)
      /\ Len(SubSeq(s, a, b)) = IF a <= b THEN b - a + 1 ELSE 0
      /\ \A i \in 1..(b - a + 1) : SubSeq(s, a, b)[i] = s[a + i - 1]
  BY <1>2, SubSeqProperties
<1>4. b - a + 1 = b + 1 - a /\ (IF a <= b THEN b - a + 1 ELSE 0) = b + 1 - a
  OBVIOUS
<1> QED BY <1>3, <1>4

\* The elements of two parts, each counted from its own start.
LEMMA BothParts ==
  ASSUME NEW E, NEW s \in Seq(E), NEW t \in Seq(E)
  PROVE  /\ s \o t \in Seq(E) /\ Len(s \o t) = Len(s) + Len(t)
         /\ \A i \in 1..Len(s) : (s \o t)[i] = s[i]
         /\ \A i \in 1..Len(t) : (s \o t)[Len(s) + i] = t[i]
<1>1. Len(s) \in Nat /\ Len(t) \in Nat
  BY LenProperties
<1>2. /\ s \o t \in Seq(E) /\ Len(s \o t) = Len(s) + Len(t)
      /\ \A i \in 1..Len(s) + Len(t) : (s \o t)[i] = IF i <= Len(s) THEN s[i] ELSE t[i - Len(s)]
  BY ConcatProperties
<1>3. \A i \in 1..Len(s) : i \in 1..Len(s) + Len(t) /\ i <= Len(s)
  BY <1>1
<1>4. \A i \in 1..Len(t) : Len(s) + i \in 1..Len(s) + Len(t) /\ ~(Len(s) + i <= Len(s)) /\ Len(s) + i - Len(s) = i
  BY <1>1
<1> QED BY <1>2, <1>3, <1>4

\* Where the elements of each part are in the whole.
PartPlaces(h, seqs, all) ==
  /\ Len(all) = h[Len(seqs)]
  /\ \A i \in 1..Len(seqs) : \A k \in 1..Len(seqs[i]) : all[h[i - 1] + k] = seqs[i][k]

\* Behind the parts before it, each part is whole.
LEMMA FlattenPlaces ==
  ASSUME NEW E, NEW seqs \in Seq(Seq(E)), NEW h, SumsTo(h, Len(seqs), [i \in 1..Len(seqs) |-> Len(seqs[i])])
  PROVE  FlattenSeq(seqs) \in Seq(E) /\ PartPlaces(h, seqs, FlattenSeq(seqs))
<1> DEFINE n == Len(seqs)
           f == [i \in 1..n |-> Len(seqs[i])]
<1>0. FlattenSeq(seqs) \in Seq(E)
  BY FlattenType
<1>1. n \in Nat /\ \A i \in 1..n : seqs[i] \in Seq(E) /\ Len(seqs[i]) \in Nat
  BY LenProperties, ElementOfSeq
<1>2. f \in [1..n -> Nat] /\ \A i \in 1..n : f[i] = Len(seqs[i])
  BY <1>1
<1>3. SumsTo(h, n, f)
  OBVIOUS
<1>6. \A a, b, c \in Nat : a + b <= c => \A k \in 1..b : a + k \in 1..c
  OBVIOUS
<1>4. CASE seqs = <<>>
  <2>1. n = 0 /\ h[0] = 0
    BY <1>3, <1>4, EmptySeq DEF SumsTo
  <2>2. FlattenSeq(seqs) = <<>>
    BY <1>4 DEF FlattenSeq
  <2>3. Len(FlattenSeq(seqs)) = 0
    BY <2>2, EmptySeq
  <2>4. 1..n = {}
    BY <2>1
  <2> QED BY <1>0, <2>1, <2>3, <2>4 DEF PartPlaces
<1>5. CASE seqs # <<>>
  <2>1. PICK g \in [1..n -> Seq(E)] : Joined(g, seqs) /\ FlattenSeq(seqs) = g[n]
    BY <1>5, FlattenUnfolds
  <2> HIDE DEF n, f
  <2>2. n > 0
    BY <1>1, <1>5, EmptySeq DEF n
  <2>3. /\ h \in [0..n -> Nat] /\ h[0] = 0 /\ \A i \in 1..n : h[i] = h[i - 1] + Len(seqs[i])
    BY <1>2, <1>3 DEF SumsTo
  <2> DEFINE Good(i) == /\ Len(g[i]) = h[i]
                        /\ \A j \in 1..i : \A k \in 1..Len(seqs[j]) : g[i][h[j - 1] + k] = seqs[j][k]
             P == {i \in 0..n : i = 0 \/ Good(i)}
  <2>4. 0 \in P
    BY <1>1
  <2>5. ASSUME NEW i \in 1..n, i - 1 \in P PROVE i \in P
    <3>1. i \in 0..n /\ i \in Nat \ {0} /\ i - 1 \in 0..n
      BY <1>1
    <3>2. CASE i = 1
      <4>1. g[1] = seqs[1] /\ h[1 - 1] = 0 /\ h[1] = Len(seqs[1]) /\ Len(seqs[1]) \in Nat
        BY <1>1, <2>1, <2>3, <3>2 DEF Joined
      <4>2. \A k \in 1..Len(seqs[1]) : 0 + k = k
        BY <4>1
      <4>3. \A j \in 1..1 : j = 1
        OBVIOUS
      <4>4. Good(1)
        BY <4>1, <4>2, <4>3
      <4> HIDE DEF Good
      <4> QED BY <3>1, <3>2, <4>4
    <3>3. CASE i # 1
      <4>1. i \in 2..n /\ i - 1 \in 1..n /\ i - 1 # 0
        BY <1>1, <3>3
      <4>2. g[i] = g[i - 1] \o seqs[i]
        BY <2>1, <4>1 DEF Joined, n
      <4>3. Good(i - 1)
        <5> HIDE DEF Good
        <5> QED BY <2>5, <4>1
      <4>4. PICK l \in Nat : l = i - 1 /\ l \in 1..n /\ i = l + 1
        BY <4>1
      <4>5. g[l] \in Seq(E) /\ seqs[i] \in Seq(E)
        BY <1>1, <4>4
      <4>6. /\ Len(g[l] \o seqs[i]) = Len(g[l]) + Len(seqs[i])
            /\ \A k \in 1..Len(g[l]) : (g[l] \o seqs[i])[k] = g[l][k]
            /\ \A k \in 1..Len(seqs[i]) : (g[l] \o seqs[i])[Len(g[l]) + k] = seqs[i][k]
        <5>1. PICK s \in Seq(E), t \in Seq(E) : s = g[l] /\ t = seqs[i]
          BY <4>5
        <5>2. /\ Len(s \o t) = Len(s) + Len(t)
              /\ \A k \in 1..Len(s) : (s \o t)[k] = s[k]
              /\ \A k \in 1..Len(t) : (s \o t)[Len(s) + k] = t[k]
          BY BothParts
        <5> QED BY <5>1, <5>2
      <4>7. Len(g[l]) = h[l] /\ h[i] = h[l] + Len(seqs[i]) /\ h[l] \in Nat
        BY <2>3, <4>1, <4>3, <4>4
      <4>8. ASSUME NEW j \in 1..i, NEW k \in 1..Len(seqs[j]) PROVE g[i][h[j - 1] + k] = seqs[j][k]
        <5>1. CASE j = i
          BY <4>2, <4>4, <4>6, <4>7, <4>8, <5>1
        <5>2. CASE j # i
          <6>1. j \in 1..l /\ j \in 1..n /\ j \in 0..l /\ l \in 0..n
            BY <1>1, <4>4, <5>2
          <6>2. h[j] <= h[l] /\ h[j] = h[j - 1] + Len(seqs[j]) /\ h[j - 1] \in Nat /\ Len(seqs[j]) \in Nat
            <7>1. h[j] <= h[l]
              BY <1>1, <1>2, <1>3, <6>1, SumsGrow
            <7>2. j - 1 \in 0..n
              BY <1>1, <6>1
            <7> QED BY <1>1, <2>3, <6>1, <7>1, <7>2
          <6>3. h[j - 1] + k \in 1..Len(g[l])
            <7>1. PICK a \in Nat, b \in Nat, c \in Nat : a = h[j - 1] /\ b = Len(seqs[j]) /\ c = h[l] /\ a + b <= c
              BY <4>7, <6>2
            <7>2. k \in 1..b
              BY <7>1
            <7>3. a + k \in 1..c
              BY <1>6, <7>1, <7>2
            <7> QED BY <4>7, <7>1, <7>3
          <6>4. g[l][h[j - 1] + k] = seqs[j][k]
            BY <4>3, <4>4, <6>1
          <6> QED BY <4>2, <4>4, <4>6, <6>3, <6>4
        <5> QED BY <5>1, <5>2
      <4>9. Good(i)
        BY <4>2, <4>4, <4>6, <4>7, <4>8
      <4> HIDE DEF Good
      <4> QED BY <3>1, <4>9
    <3> QED BY <3>2, <3>3
  <2>6. n \in P
    <3> HIDE DEF P
    <3>1. n \in 0..n
      BY <1>1
    <3> QED BY <1>1, <2>4, <2>5, <3>1, UpTo
  <2>7. Good(n)
    <3> HIDE DEF Good
    <3> QED BY <2>2, <2>6
  <2>8. PartPlaces(h, seqs, g[n])
    BY <2>7 DEF PartPlaces, n
  <2> QED BY <1>0, <2>1, <2>8
<1> QED BY <1>4, <1>5

=============================================================================
