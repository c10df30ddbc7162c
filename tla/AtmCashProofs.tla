---------------------------- MODULE AtmCashProofs ----------------------------
(***************************************************************************)
(* What TLAPS proves of the cash: that the planner of the simulated        *)
(* dispenser is exact for any notes and any amount, and that in the        *)
(* simulated world the accounts, the terminal's cash, the notes in the     *)
(* cash units and the notes on their way always agree.                     *)
(***************************************************************************)
EXTENDS AtmAuditProofs, FiniteSetTheorems
-----------------------------------------------------------------------------
(***************************************************************************)
(* What notes are worth.                                                   *)
(***************************************************************************)
\* Induction over the subsets of a finite set.
LEMMA AllSubsets ==
    ASSUME NEW S, IsFiniteSet(S), NEW W,
           \A s \in SUBSET S : (\A x \in s : s \ {x} \in W) => s \in W
    PROVE  \A s \in SUBSET S : s \in W
<1> DEFINE Wrong == {s \in SUBSET S : s \notin W}
           Sizes == {Cardinality(s) : s \in Wrong}
<1> SUFFICES ASSUME Wrong # {} PROVE FALSE
  OBVIOUS
<1>1. \A s \in SUBSET S : IsFiniteSet(s) /\ Cardinality(s) \in Nat
  <2> TAKE s \in SUBSET S
  <2>1. IsFiniteSet(s)
    BY FS_Subset
  <2> QED BY <2>1, FS_CardinalityType
<1>2. Sizes \in SUBSET Nat /\ Sizes # {}
  BY <1>1
<1>3. PICK m \in Sizes : \A l \in Sizes : m <= l
  <2> HIDE DEF Sizes
  <2> QED BY <1>2, LeastNat
<1>4. PICK s \in Wrong : Cardinality(s) = m
  BY <1>3
<1>5. \A x \in s : s \ {x} \in W
  <2> SUFFICES ASSUME NEW x \in s, s \ {x} \notin W PROVE FALSE
    OBVIOUS
  <2>1. s \ {x} \in Wrong
    BY <1>4
  <2>2. Cardinality(s \ {x}) = m - 1
    BY <1>1, <1>4, FS_RemoveElement
  <2>3. m <= m - 1
    BY <1>3, <2>1, <2>2
  <2>4. m \in Nat
    BY <1>2
  <2> QED BY <2>3, <2>4
<1> QED BY <1>4, <1>5

\* One of the elements of a set, the one the sum takes first.
Some(s) == CHOOSE x \in s : TRUE

\* What the notes of some of the denominations are worth, for each choice of
\* denominations from S.
Worth(counts, S) ==
    CHOOSE iter : iter = [s \in SUBSET S |->
        IF s = {} THEN 0
        ELSE Some(s) * counts[Some(s)] + iter[s \ {Some(s)}]]

LEMMA TotalIsWorth ==
    ASSUME NEW counts
    PROVE  InventoryTotal(counts) = Worth(counts, DOMAIN counts)[DOMAIN counts]
BY Zenon DEF InventoryTotal, MapThenSumSet, MapThenFoldSet, Worth, Some

\* The sum takes its denominations one by one.
LEMMA WorthUnfolds ==
    ASSUME NEW S, IsFiniteSet(S), NEW counts
    PROVE  /\ Worth(counts, S)[{}] = 0
           /\ \A s \in SUBSET S : s # {} =>
                 Worth(counts, S)[s]
                   = Some(s) * counts[Some(s)] + Worth(counts, S)[s \ {Some(s)}]
<1> DEFINE Up(m) == {s \in SUBSET S : Cardinality(s) <= m}
           Step(s, f) == Some(s) * counts[Some(s)] + f[s \ {Some(s)}]
           Run(D, f) == f = [s \in D |-> IF s = {} THEN 0 ELSE Step(s, f)]
           N == Cardinality(S)
           NoRun == {m \in 0 .. N : ~ \E f : Run(Up(m), f)}
<1>1. \A s \in SUBSET S : IsFiniteSet(s) /\ Cardinality(s) \in Nat /\ Cardinality(s) <= N
  <2> TAKE s \in SUBSET S
  <2>1. IsFiniteSet(s) /\ Cardinality(s) <= N
    BY FS_Subset
  <2> QED BY <2>1, FS_CardinalityType
<1>2. N \in Nat
  BY FS_CardinalityType
<1>3. \A s \in SUBSET S : s # {} =>
         /\ Some(s) \in s
         /\ s \ {Some(s)} \in SUBSET S
         /\ Cardinality(s \ {Some(s)}) = Cardinality(s) - 1
  <2> TAKE s \in SUBSET S
  <2> HAVE s # {}
  <2>1. Some(s) \in s
    BY DEF Some
  <2> QED BY <1>1, <2>1, FS_RemoveElement
<1>4. NoRun = {}
  <2> SUFFICES ASSUME NoRun # {} PROVE FALSE
    OBVIOUS
  <2>1. PICK m \in NoRun : \A l \in NoRun : m <= l
    <3>1. NoRun \in SUBSET Nat
      OBVIOUS
    <3> HIDE DEF NoRun
    <3> QED BY <3>1, LeastNat
  <2>2. m \in 0 .. N /\ ~ \E f : Run(Up(m), f)
    BY <2>1
  <2>3. CASE m = 0
    <3>1. \A s \in Up(0) : s = {}
      BY <1>1, FS_EmptySet
    <3> DEFINE g == [s \in Up(0) |-> 0]
    <3>2. g = [s \in Up(0) |-> IF s = {} THEN 0 ELSE Step(s, g)]
      BY <3>1
    <3> QED BY <2>2, <2>3, <3>2
  <2>4. CASE m # 0
    <3>1. m - 1 \in 0 .. N /\ m - 1 \notin NoRun
      <4>1. m - 1 \in 0 .. N /\ ~(m <= m - 1)
        BY <1>2, <2>2, <2>4
      <4> QED BY <2>1, <4>1
    <3>2. PICK f : Run(Up(m - 1), f)
      BY <3>1
    <3> DEFINE g == [s \in Up(m) |-> IF s = {} THEN 0 ELSE Step(s, f)]
    <3>3. ASSUME NEW s \in Up(m), s # {}
          PROVE  g[s] = Step(s, g)
      <4> DEFINE t == s \ {Some(s)}
      <4>1. t \in Up(m - 1)
        BY <1>1, <1>2, <1>3, <2>2, <3>3
      <4>2. t \in Up(m)
        BY <1>1, <1>2, <2>2, <4>1
      <4>3. g[t] = f[t]
        <5>1. f[t] = IF t = {} THEN 0 ELSE Step(t, f)
          BY <3>2, <4>1
        <5>2. g[t] = IF t = {} THEN 0 ELSE Step(t, f)
          BY <4>2
        <5> QED BY <5>1, <5>2
      <4>4. g[s] = Step(s, f)
        BY <3>3
      <4> QED BY <4>3, <4>4
    <3>4. g = [s \in Up(m) |-> IF s = {} THEN 0 ELSE Step(s, g)]
      <4>1. \A s \in Up(m) : g[s] = IF s = {} THEN 0 ELSE Step(s, g)
        BY <3>3
      <4>2. g = [s \in Up(m) |-> g[s]]
        OBVIOUS
      <4> HIDE DEF g
      <4> QED BY <4>1, <4>2
    <3> HIDE DEF g
    <3>5. Run(Up(m), g)
      BY <3>4
    <3> QED BY <2>2, <3>5
  <2> QED BY <2>3, <2>4
<1>5. \E f : Run(SUBSET S, f)
  <2>1. N \in 0 .. N
    BY <1>2
  <2>2. \E f : Run(Up(N), f)
    BY <1>4, <2>1
  <2>3. Up(N) = SUBSET S
    BY <1>1
  <2> QED BY <2>2, <2>3
<1>6. Run(SUBSET S, Worth(counts, S))
  <2> DEFINE chosen == CHOOSE f : Run(SUBSET S, f)
  <2>1. Worth(counts, S) = chosen
    BY Zenon DEF Worth
  <2>2. Run(SUBSET S, chosen)
    BY <1>5, Zenon
  <2> QED BY <2>1, <2>2
<1> DEFINE w == Worth(counts, S)
<1>7. \A s \in SUBSET S : w[s] = IF s = {} THEN 0 ELSE Step(s, w)
  <2> HIDE DEF w
  <2>1. Run(SUBSET S, w)
    BY <1>6 DEF w
  <2> QED BY <2>1
<1> QED BY <1>7

\* Notes at hand: naturals for each of finitely many denominations. 
LEMMA WorthType ==
    ASSUME NEW S, IsFiniteSet(S), \A d \in S : d \in Nat, NEW counts \in [S -> Int]
    PROVE  \A s \in SUBSET S :
              /\ Worth(counts, S)[s] \in Int
              /\ counts \in [S -> Nat] => Worth(counts, S)[s] \in Nat
<1> DEFINE w == Worth(counts, S)
           W == {s \in SUBSET S : /\ w[s] \in Int
                                  /\ counts \in [S -> Nat] => w[s] \in Nat}
<1>1. ASSUME NEW s \in SUBSET S, \A x \in s : s \ {x} \in W
      PROVE  s \in W
  <2>1. CASE s = {}
    <3>1. w[s] = 0
      BY <2>1, WorthUnfolds
    <3> QED BY <3>1
  <2>2. CASE s # {}
    <3>1. PICK x : x = Some(s)
      OBVIOUS
    <3>2. x \in s
      BY <2>2, <3>1 DEF Some
    <3>3. w[s] = x * counts[x] + w[s \ {x}]
      BY <2>2, <3>1, WorthUnfolds
    <3> HIDE DEF w
    <3>4. /\ x \in Nat /\ counts[x] \in Int /\ w[s \ {x}] \in Int
          /\ counts \in [S -> Nat] => counts[x] \in Nat /\ w[s \ {x}] \in Nat
      BY <1>1, <3>2
    <3>5. x * counts[x] \in Int /\ (counts \in [S -> Nat] => x * counts[x] \in Nat)
      <4>1. \A a \in Nat, b \in Int : a * b \in Int
        OBVIOUS
      <4>2. \A a \in Nat, b \in Nat : a * b \in Nat
        OBVIOUS
      <4> QED BY <3>4, <4>1, <4>2
    <3>6. w[s] \in Int /\ (counts \in [S -> Nat] => w[s] \in Nat)
      <4> DEFINE p == x * counts[x]
      <4> HIDE DEF p
      <4>1. p \in Int /\ (counts \in [S -> Nat] => p \in Nat)
        BY <3>5 DEF p
      <4>2. w[s] = p + w[s \ {x}]
        BY <3>3 DEF p
      <4> QED BY <3>4, <4>1, <4>2
    <3> QED BY <3>6
  <2> QED BY <2>1, <2>2
<1>2. \A s \in SUBSET S : s \in W
  <2> HIDE DEF W
  <2> QED BY <1>1, AllSubsets
<1> QED BY <1>2

\* The order in which the denominations are taken does not matter.
LEMMA WorthOfAny ==
    ASSUME NEW S, IsFiniteSet(S), \A d \in S : d \in Nat, NEW counts \in [S -> Int]
    PROVE  \A s \in SUBSET S : \A x \in s :
              Worth(counts, S)[s] = x * counts[x] + Worth(counts, S)[s \ {x}]
<1> DEFINE w == Worth(counts, S)
           W == {s \in SUBSET S :
                    \A x \in s : w[s] = x * counts[x] + w[s \ {x}]}
<1>1. ASSUME NEW s \in SUBSET S, \A x \in s : s \ {x} \in W, NEW x \in s
      PROVE  w[s] = x * counts[x] + w[s \ {x}]
  <2>1. PICK y : y = Some(s)
    OBVIOUS
  <2>2. y \in s
    BY <2>1 DEF Some
  <2>3. w[s] = y * counts[y] + w[s \ {y}]
    BY <2>1, WorthUnfolds
  <2>4. CASE x = y
    BY <2>3, <2>4
  <2>5. CASE x # y
    <3> DEFINE rest == (s \ {x}) \ {y}
    <3> HIDE DEF w
    <3>1. w[s \ {x}] = y * counts[y] + w[rest]
      <4>1. y \in s \ {x}
        BY <2>2, <2>5
      <4> QED BY <1>1, <4>1
    <3>2. w[s \ {y}] = x * counts[x] + w[(s \ {y}) \ {x}]
      <4>1. x \in s \ {y}
        BY <2>2, <2>5
      <4> QED BY <1>1, <2>2, <4>1
    <3>3. (s \ {y}) \ {x} = rest
      OBVIOUS
    <3>4. w[rest] \in Int
      <4>1. rest \in SUBSET S
        OBVIOUS
      <4> HIDE DEF rest
      <4> QED BY <4>1, WorthType DEF w
    <3>5. x * counts[x] \in Int /\ y * counts[y] \in Int
      <4>1. \A a \in Nat, b \in Int : a * b \in Int
        OBVIOUS
      <4>2. x \in Nat /\ y \in Nat /\ counts[x] \in Int /\ counts[y] \in Int
        BY <2>2
      <4> QED BY <4>1, <4>2
    <3>6. \A p, q, r \in Int : p + (q + r) = q + (p + r)
      OBVIOUS
    <3>7. y * counts[y] + (x * counts[x] + w[rest])
             = x * counts[x] + (y * counts[y] + w[rest])
      <4> HIDE DEF rest
      <4> QED BY <3>4, <3>5, <3>6
    <3> HIDE DEF rest
    <3>8. w[s] = y * counts[y] + (x * counts[x] + w[rest])
      BY <2>3, <3>2, <3>3
    <3> QED BY <3>1, <3>7, <3>8
  <2> QED BY <2>4, <2>5
<1>2. \A s \in SUBSET S : s \in W
  <2>1. \A s \in SUBSET S : (\A x \in s : s \ {x} \in W) => s \in W
    BY <1>1
  <2> HIDE DEF W
  <2> QED BY <2>1, AllSubsets
<1> QED BY <1>2

\* Only the counts of the notes summed up matter.
LEMMA WorthAgrees ==
    ASSUME NEW S, IsFiniteSet(S), NEW T, IsFiniteSet(T),
           NEW counts, NEW others
    PROVE  \A U \in SUBSET S :
              U \in SUBSET T /\ (\A d \in U : counts[d] = others[d])
                => Worth(counts, S)[U] = Worth(others, T)[U]
<1> SUFFICES ASSUME NEW U, U \in SUBSET S, U \in SUBSET T,
                    \A d \in U : counts[d] = others[d]
             PROVE  Worth(counts, S)[U] = Worth(others, T)[U]
  OBVIOUS
<1> DEFINE v == Worth(counts, S)
           w == Worth(others, T)
           W == {s \in SUBSET U : v[s] = w[s]}
<1>1. ASSUME NEW s \in SUBSET U, \A x \in s : s \ {x} \in W
      PROVE  s \in W
  <2>0. s \in SUBSET S /\ s \in SUBSET T
    OBVIOUS
  <2>1. CASE s = {}
    <3>1. v[s] = 0
      BY <2>1, WorthUnfolds
    <3>2. w[s] = 0
      BY <2>1, WorthUnfolds
    <3> QED BY <3>1, <3>2
  <2>2. CASE s # {}
    <3>1. PICK x : x = Some(s)
      OBVIOUS
    <3>2. x \in s
      BY <2>2, <3>1 DEF Some
    <3>3. v[s] = x * counts[x] + v[s \ {x}]
      BY <2>0, <2>2, <3>1, WorthUnfolds
    <3>4. w[s] = x * others[x] + w[s \ {x}]
      BY <2>0, <2>2, <3>1, WorthUnfolds
    <3> HIDE DEF v, w
    <3>5. v[s \ {x}] = w[s \ {x}] /\ counts[x] = others[x]
      BY <1>1, <3>2
    <3> QED BY <3>3, <3>4, <3>5
  <2> QED BY <2>1, <2>2
<1>2. IsFiniteSet(U)
  BY FS_Subset
<1>3. \A s \in SUBSET U : s \in W
  <2> HIDE DEF W
  <2> QED BY <1>1, <1>2, AllSubsets
<1> QED BY <1>3

LEMMA ProductType ==
    /\ \A a \in Nat, b \in Int : a * b \in Int
    /\ \A a \in Nat, b \in Nat : a * b \in Nat
OBVIOUS

LEMMA TotalType ==
    ASSUME NEW S, IsFiniteSet(S), \A d \in S : d \in Nat, NEW counts \in [S -> Int]
    PROVE  /\ InventoryTotal(counts) \in Int
           /\ counts \in [S -> Nat] => InventoryTotal(counts) \in Nat
<1>1. InventoryTotal(counts) = Worth(counts, S)[S]
  <2>1. DOMAIN counts = S
    OBVIOUS
  <2> QED BY <2>1, TotalIsWorth
<1>2. S \in SUBSET S
  OBVIOUS
<1> QED BY <1>1, <1>2, WorthType

\* Putting notes together puts their worth together.
LEMMA TotalAdds ==
    ASSUME NEW S, IsFiniteSet(S), \A d \in S : d \in Nat,
           NEW f \in [S -> Int], NEW g \in [S -> Int], NEW h \in [S -> Int],
           \A d \in S : h[d] = f[d] + g[d]
    PROVE  InventoryTotal(h) = InventoryTotal(f) + InventoryTotal(g)
<1> DEFINE u == Worth(f, S)
           v == Worth(g, S)
           w == Worth(h, S)
           W == {s \in SUBSET S : w[s] = u[s] + v[s]}
<1>1. ASSUME NEW s \in SUBSET S, \A x \in s : s \ {x} \in W
      PROVE  s \in W
  <2>1. CASE s = {}
    <3>1. u[{}] = 0
      BY WorthUnfolds
    <3>2. v[{}] = 0
      BY WorthUnfolds
    <3>3. w[{}] = 0
      BY WorthUnfolds
    <3> QED BY <2>1, <3>1, <3>2, <3>3
  <2>2. CASE s # {}
    <3>1. PICK x \in s : TRUE
      BY <2>2
    <3> DEFINE t == s \ {x}
    <3>2. u[s] = x * f[x] + u[t]
      BY WorthOfAny
    <3>3. v[s] = x * g[x] + v[t]
      BY WorthOfAny
    <3>4. w[s] = x * h[x] + w[t]
      BY WorthOfAny
    <3>5. t \in SUBSET S
      OBVIOUS
    <3>6. u[t] \in Int /\ v[t] \in Int
      <4> HIDE DEF t
      <4>1. u[t] \in Int
        BY <3>5, WorthType
      <4>2. v[t] \in Int
        BY <3>5, WorthType
      <4> QED BY <4>1, <4>2
    <3>7. w[t] = u[t] + v[t]
      BY <1>1
    <3>8. x \in Nat /\ f[x] \in Int /\ g[x] \in Int /\ h[x] = f[x] + g[x]
      OBVIOUS
    <3>9. x * h[x] = x * f[x] + x * g[x]
      <4>1. \A a \in Nat, b, c \in Int : a * (b + c) = a * b + a * c
        OBVIOUS
      <4> QED BY <3>8, <4>1
    <3>10. PICK p : p = x * f[x]
      OBVIOUS
    <3>11. PICK q : q = x * g[x]
      OBVIOUS
    <3>12. p \in Int /\ q \in Int
      BY <3>8, <3>10, <3>11, ProductType
    <3> HIDE DEF t, u, v, w
    <3>13. w[s] = u[s] + v[s]
      BY <3>2, <3>3, <3>4, <3>6, <3>7, <3>9, <3>10, <3>11, <3>12
    <3> QED BY <3>13
  <2> QED BY <2>1, <2>2
<1>2. \A s \in SUBSET S : s \in W
  <2> HIDE DEF W
  <2> QED BY <1>1, AllSubsets
<1>3. w[S] = u[S] + v[S]
  BY <1>2
<1>4. DOMAIN f = S /\ DOMAIN g = S /\ DOMAIN h = S
  OBVIOUS
<1>5. InventoryTotal(f) = u[S]
  BY <1>4, TotalIsWorth
<1>6. InventoryTotal(g) = v[S]
  BY <1>4, TotalIsWorth
<1>7. InventoryTotal(h) = w[S]
  BY <1>4, TotalIsWorth
<1> QED BY <1>3, <1>5, <1>6, <1>7

LEMMA WorthOfAll ==
    ASSUME NEW S, IsFiniteSet(S), \A d \in S : d \in Nat,
           NEW counts \in [S -> Int]
    PROVE  \A x \in S : Worth(counts, S)[S]
                           = x * counts[x] + Worth(counts, S)[S \ {x}]
<1>1. \A s \in SUBSET S : \A x \in s :
         Worth(counts, S)[s] = x * counts[x] + Worth(counts, S)[s \ {x}]
  BY WorthOfAny
<1>2. S \in SUBSET S
  OBVIOUS
<1> QED BY <1>1, <1>2, Zenon

\* More notes of one denomination.
LEMMA TotalPlus ==
    ASSUME NEW S, IsFiniteSet(S), \A d \in S : d \in Nat, NEW counts \in [S -> Int],
           NEW d \in S, NEW n \in Int, NEW more \in [S -> Int],
           more[d] = counts[d] + n, \A e \in S \ {d} : more[e] = counts[e]
    PROVE  InventoryTotal(more) = InventoryTotal(counts) + d * n
<1> DEFINE v == Worth(counts, S)
           w == Worth(more, S)
           U == S \ {d}
<1>3. v[S] = d * counts[d] + v[U]
  <2>1. \A x \in S : v[S] = x * counts[x] + v[S \ {x}]
    BY WorthOfAll
  <2> QED BY <2>1, Zenon
<1>4. w[S] = d * more[d] + w[U]
  <2>1. \A x \in S : w[S] = x * more[x] + w[S \ {x}]
    BY WorthOfAll
  <2> QED BY <2>1, Zenon
<1>5. w[U] = v[U]
  <2>1. U \in SUBSET S
    OBVIOUS
  <2>2. \A e \in U : more[e] = counts[e]
    OBVIOUS
  <2> HIDE DEF U
  <2>3. Worth(more, S)[U] = Worth(counts, S)[U]
    BY <2>1, <2>2, WorthAgrees
  <2> QED BY <2>3
<1>6. v[U] \in Int
  <2>1. U \in SUBSET S
    OBVIOUS
  <2> HIDE DEF U
  <2> QED BY <2>1, WorthType
<1>7. d \in Nat /\ counts[d] \in Int
  OBVIOUS
<1>8. d * more[d] = d * counts[d] + d * n
  <2>1. \A a \in Nat, b, c \in Int : a * (b + c) = a * b + a * c
    OBVIOUS
  <2> QED BY <1>7, <2>1
<1>9. PICK p : p = d * counts[d]
  OBVIOUS
<1>10. PICK q : q = d * n
  OBVIOUS
<1>11. p \in Int /\ q \in Int
  BY <1>7, <1>9, <1>10, ProductType
<1>12. InventoryTotal(counts) = v[S]
  <2>1. DOMAIN counts = S
    OBVIOUS
  <2> QED BY <2>1, TotalIsWorth
<1>13. InventoryTotal(more) = w[S]
  <2>1. DOMAIN more = S
    OBVIOUS
  <2> QED BY <2>1, TotalIsWorth
<1> HIDE DEF U, v, w
<1>14. w[S] = v[S] + q
  BY <1>3, <1>4, <1>5, <1>6, <1>8, <1>9, <1>10, <1>11
<1> QED BY <1>10, <1>12, <1>13, <1>14

\* The notes of one denomination are worth at most what all are worth.
LEMMA TotalOfOne ==
    ASSUME NEW S, IsFiniteSet(S), \A d \in S : d \in Nat, NEW counts \in [S -> Nat],
           NEW d \in S
    PROVE  d * counts[d] <= InventoryTotal(counts)
<1> DEFINE w == Worth(counts, S)
           U == S \ {d}
<1>0. counts \in [S -> Int]
  OBVIOUS
<1>1. w[S] = d * counts[d] + w[U]
  <2>1. \A x \in S : w[S] = x * counts[x] + w[S \ {x}]
    BY <1>0, WorthOfAll
  <2> QED BY <2>1, Zenon
<1>2. w[U] \in Nat
  <2>1. U \in SUBSET S
    OBVIOUS
  <2> HIDE DEF U
  <2> QED BY <1>0, <2>1, WorthType
<1>3. PICK p : p = d * counts[d]
  OBVIOUS
<1>4. p \in Nat
  BY <1>3, ProductType
<1>5. InventoryTotal(counts) = w[S]
  <2>1. DOMAIN counts = S
    OBVIOUS
  <2> QED BY <2>1, TotalIsWorth
<1> HIDE DEF U, w
<1> QED BY <1>1, <1>2, <1>3, <1>4, <1>5

\* Denominations of which there are no notes add nothing.
LEMMA TotalWithNone ==
    ASSUME NEW T, IsFiniteSet(T), \A d \in T : d \in Nat, NEW S \in SUBSET T,
           NEW counts \in [S -> Int], NEW more \in [T -> Int],
           \A d \in S : more[d] = counts[d],
           \A d \in T \ S : more[d] = 0
    PROVE  InventoryTotal(more) = InventoryTotal(counts)
<1> DEFINE w == Worth(more, T)
           W == {s \in SUBSET (T \ S) : w[S \cup s] = w[S]}
<1>1. IsFiniteSet(S) /\ IsFiniteSet(T \ S)
  <2>1. IsFiniteSet(S)
    BY FS_Subset
  <2>2. IsFiniteSet(T \ S)
    <3>1. T \ S \in SUBSET T
      OBVIOUS
    <3> QED BY <3>1, FS_Subset
  <2> QED BY <2>1, <2>2
<1>2. ASSUME NEW s \in SUBSET (T \ S), \A x \in s : s \ {x} \in W
      PROVE  s \in W
  <2>1. CASE s = {}
    <3>1. S \cup s = S
      BY <2>1
    <3> QED BY <3>1
  <2>2. CASE s # {}
    <3>1. PICK x \in s : TRUE
      BY <2>2
    <3> DEFINE t == S \cup s
    <3>2. t \in SUBSET T /\ x \in t /\ t \ {x} = S \cup (s \ {x})
      OBVIOUS
    <3>3. w[t] = x * more[x] + w[t \ {x}]
      <4> HIDE DEF t
      <4> QED BY <3>2, WorthOfAny
    <3>4. w[S \cup (s \ {x})] = w[S]
      BY <1>2
    <3>5. x * more[x] = 0
      <4>1. more[x] = 0 /\ x \in Nat
        OBVIOUS
      <4>2. \A a \in Nat : a * 0 = 0
        OBVIOUS
      <4> QED BY <4>1, <4>2
    <3>6. w[S] \in Int
      <4>1. S \in SUBSET T
        OBVIOUS
      <4> QED BY <4>1, WorthType
    <3> HIDE DEF w
    <3>7. w[t] = w[S]
      <4>1. w[t \ {x}] = w[S]
        BY <3>2, <3>4
      <4>2. w[t] = 0 + w[S]
        BY <3>3, <3>5, <4>1
      <4> HIDE DEF t
      <4> QED BY <3>6, <4>2
    <3> QED BY <3>7
  <2> QED BY <2>1, <2>2
<1>3. \A s \in SUBSET (T \ S) : s \in W
  <2>1. PICK others : others = T \ S
    OBVIOUS
  <2>2. \A s \in SUBSET others : (\A x \in s : s \ {x} \in W) => s \in W
    BY <1>2, <2>1
  <2> HIDE DEF W
  <2>3. \A s \in SUBSET others : s \in W
    <3>1. IsFiniteSet(others)
      BY <1>1, <2>1
    <3> QED BY <2>2, <3>1, Zenon, AllSubsets
  <2> QED BY <2>1, <2>3
<1>4. w[T] = w[S]
  <2>1. T \ S \in W
    BY <1>3
  <2>2. S \cup (T \ S) = T
    OBVIOUS
  <2> QED BY <2>1, <2>2
<1>5. w[S] = Worth(counts, S)[S]
  <2>1. S \in SUBSET T /\ S \in SUBSET S
    OBVIOUS
  <2>2. Worth(more, T)[S] = Worth(counts, S)[S]
    BY <1>1, <2>1, WorthAgrees
  <2> QED BY <2>2
<1>6. InventoryTotal(more) = w[T]
  <2>1. DOMAIN more = T
    OBVIOUS
  <2> QED BY <2>1, TotalIsWorth
<1>7. InventoryTotal(counts) = Worth(counts, S)[S]
  <2>1. DOMAIN counts = S
    OBVIOUS
  <2> QED BY <2>1, TotalIsWorth
<1> QED BY <1>4, <1>5, <1>6, <1>7

\* No notes are worth nothing.
LEMMA TotalOfNone ==
    ASSUME NEW S, IsFiniteSet(S), \A d \in S : d \in Nat,
           NEW counts \in [S -> Int], \A d \in S : counts[d] = 0
    PROVE  InventoryTotal(counts) = 0
<1>1. \A d \in S : counts[d] = counts[d] + counts[d]
  OBVIOUS
<1>2. InventoryTotal(counts) = InventoryTotal(counts) + InventoryTotal(counts)
  BY <1>1, TotalAdds
<1>3. InventoryTotal(counts) \in Int
  BY TotalType
<1>4. \A t \in Int : t = t + t => t = 0
  OBVIOUS
<1> QED BY <1>2, <1>3, <1>4, Zenon

LEMMA MinOfTwo ==
    ASSUME NEW a \in Int, NEW b \in Int
    PROVE  Min({a, b}) = IF a <= b THEN a ELSE b
<1> DEFINE S == {a, b}
           m == IF a <= b THEN a ELSE b
<1>1. m \in S /\ \A y \in S : m <= y
  OBVIOUS
<1>2. \A x \in S : (\A y \in S : x <= y) => x = m
  OBVIOUS
<1> HIDE DEF S, m
<1>3. Min(S) = m
  BY <1>1, <1>2, Zenon DEF Min
<1> QED BY <1>3 DEF S, m

\* The bundles of a denomination, one by one.
LEMMA BundlesLeftUnfolds ==
    ASSUME NEW d, NEW n \in Nat
    PROVE  /\ BundlesLeft(d, n)[0] = <<>>
           /\ \A left \in 1 .. n : \E count \in 1 .. left :
                 /\ count <= n - left + 1
                 /\ BundlesLeft(d, n)[left]
                       = <<[denomination |-> d, count |-> count]>>
                            \o BundlesLeft(d, n)[left - count]
<1> DEFINE size(left) == Min({n - left + 1, left})
           step(left, f) == <<[denomination |-> d, count |-> size(left)]>>
                               \o f[left - size(left)]
           Run(m, f) == f = [left \in 0 .. m |->
                                IF left = 0 THEN <<>> ELSE step(left, f)]
           NoRun == {m \in 0 .. n : ~ \E f : Run(m, f)}
<1>1. \A left \in 1 .. n : /\ size(left) \in 1 .. left
                           /\ size(left) <= n - left + 1
                           /\ left - size(left) \in 0 .. left - 1
  <2> TAKE left \in 1 .. n
  <2>1. n - left + 1 \in Int /\ left \in Int /\ n - left + 1 >= 1 /\ left >= 1
    OBVIOUS
  <2>2. size(left) = IF n - left + 1 <= left THEN n - left + 1 ELSE left
    BY <2>1, MinOfTwo
  <2> HIDE DEF size
  <2> QED BY <2>1, <2>2
<1> HIDE DEF size
<1>2. NoRun = {}
  <2> SUFFICES ASSUME NoRun # {} PROVE FALSE
    OBVIOUS
  <2>1. PICK m \in NoRun : \A l \in NoRun : m <= l
    <3>1. NoRun \in SUBSET Nat
      OBVIOUS
    <3> HIDE DEF NoRun
    <3> QED BY <3>1, LeastNat
  <2>2. m \in 0 .. n /\ ~ \E f : Run(m, f)
    BY <2>1
  <2>3. CASE m = 0
    <3> DEFINE g == [left \in 0 .. 0 |-> <<>>]
    <3>1. g = [left \in 0 .. 0 |-> IF left = 0 THEN <<>> ELSE step(left, g)]
      OBVIOUS
    <3> QED BY <2>2, <2>3, <3>1
  <2>4. CASE m # 0
    <3>1. m - 1 \in 0 .. n /\ m - 1 \notin NoRun
      <4>1. m - 1 \in 0 .. n /\ ~(m <= m - 1)
        BY <2>2, <2>4
      <4> QED BY <2>1, <4>1
    <3>2. PICK f : Run(m - 1, f)
      BY <3>1
    <3> DEFINE g == [left \in 0 .. m |-> IF left = 0 THEN <<>> ELSE step(left, f)]
    <3>3. ASSUME NEW left \in 0 .. m, left # 0
          PROVE  g[left] = step(left, g)
      <4>1. PICK t : t = left - size(left)
        OBVIOUS
      <4>2. t \in 0 .. m - 1 /\ t \in 0 .. m
        <5>1. left \in 1 .. n
          BY <2>2, <3>3
        <5>2. t \in 0 .. left - 1
          BY <1>1, <4>1, <5>1
        <5> QED BY <2>2, <5>1, <5>2
      <4> HIDE DEF step
      <4>3. f[t] = IF t = 0 THEN <<>> ELSE step(t, f)
        BY <3>2, <4>2
      <4>4. g[t] = IF t = 0 THEN <<>> ELSE step(t, f)
        BY <4>2
      <4>5. g[t] = f[t]
        BY <4>3, <4>4
      <4>6. g[left] = step(left, f)
        BY <3>3
      <4> HIDE DEF g
      <4> QED BY <4>1, <4>5, <4>6 DEF step
    <3>4. g = [left \in 0 .. m |-> IF left = 0 THEN <<>> ELSE step(left, g)]
      <4>1. \A left \in 0 .. m : g[left] = IF left = 0 THEN <<>> ELSE step(left, g)
        BY <3>3
      <4>2. g = [left \in 0 .. m |-> g[left]]
        OBVIOUS
      <4> HIDE DEF g, step
      <4> QED BY <4>1, <4>2
    <3> HIDE DEF g
    <3>5. Run(m, g)
      BY <3>4
    <3> QED BY <2>2, <3>5
  <2> QED BY <2>3, <2>4
<1>3. \E f : Run(n, f)
  <2>1. n \in 0 .. n
    OBVIOUS
  <2> QED BY <1>2, <2>1
<1>4. Run(n, BundlesLeft(d, n))
  <2> DEFINE chosen == CHOOSE f : Run(n, f)
  <2>1. BundlesLeft(d, n) = chosen
    BY Zenon DEF BundlesLeft, size
  <2>2. Run(n, chosen)
    BY <1>3, Zenon
  <2> QED BY <2>1, <2>2
<1> DEFINE of == BundlesLeft(d, n)
<1>5. \A left \in 0 .. n : of[left] = IF left = 0 THEN <<>> ELSE step(left, of)
  <2> HIDE DEF of, step
  <2>1. Run(n, of)
    BY <1>4 DEF of, step
  <2> QED BY <2>1
<1> HIDE DEF of, step
<1>6. of[0] = <<>>
  <2>1. 0 \in 0 .. n
    OBVIOUS
  <2> QED BY <1>5, <2>1
<1>7. ASSUME NEW left \in 1 .. n
      PROVE  \E count \in 1 .. left :
                 /\ count <= n - left + 1
                 /\ of[left] = <<[denomination |-> d, count |-> count]>>
                                  \o of[left - count]
  <2>1. size(left) \in 1 .. left /\ size(left) <= n - left + 1
    BY <1>1
  <2>2. of[left] = step(left, of)
    <3>1. left \in 0 .. n /\ left # 0
      OBVIOUS
    <3> QED BY <1>5, <3>1
  <2> QED BY <2>1, <2>2, Zenon DEF step
<1> QED BY <1>6, <1>7 DEF of

BundlesIn(S) == [denomination : S, count : Nat \ {0}]

\* A bundle is put to some notes: it is at most one note larger than the notes
\* of its denomination that are there.
Grows(before, bundle, after) ==
    /\ bundle.count <= before[bundle.denomination] + 1
    /\ after = [before EXCEPT ![bundle.denomination] = @ + bundle.count]

\* The notes there are after each of some bundles.
Stocks(bundles, S, held, first, last) ==
    /\ held[0] = first /\ held[Len(bundles)] = last
    /\ \A k \in 0 .. Len(bundles) : held[k] \in [S -> Nat]
    /\ \A k \in 1 .. Len(bundles) : Grows(held[k - 1], bundles[k], held[k])

Packs(bundles, S, first, last) ==
    /\ bundles \in Seq(BundlesIn(S))
    /\ \E held : Stocks(bundles, S, held, first, last)

LEMMA PacksNone ==
    ASSUME NEW S, NEW first \in [S -> Nat]
    PROVE  Packs(<<>>, S, first, first)
<1> DEFINE held == [k \in 0 .. 0 |-> first]
<1>1. held[0] = first
  OBVIOUS
<1>2. <<>> \in Seq(BundlesIn(S)) /\ Len(<<>>) = 0
  OBVIOUS
<1>3. Stocks(<<>>, S, held, first, first)
  BY <1>1, <1>2 DEF Stocks
<1> QED BY <1>2, <1>3, Zenon DEF Packs

LEMMA PacksOne ==
    ASSUME NEW S, NEW first \in [S -> Nat], NEW b \in BundlesIn(S), NEW last,
           Grows(first, b, last)
    PROVE  Packs(<<b>>, S, first, last)
<1> DEFINE held == [k \in 0 .. 1 |-> IF k = 0 THEN first ELSE last]
<1>1. held[0] = first /\ held[1] = last
  OBVIOUS
<1>2. <<b>> \in Seq(BundlesIn(S)) /\ Len(<<b>>) = 1 /\ <<b>>[1] = b
  OBVIOUS
<1>3. last \in [S -> Nat]
  <2>1. b.denomination \in S /\ b.count \in Nat
    BY DEF BundlesIn
  <2>2. last = [first EXCEPT ![b.denomination] = @ + b.count]
    BY DEF Grows
  <2>3. first[b.denomination] + b.count \in Nat
    BY <2>1
  <2> QED BY <2>1, <2>2, <2>3
<1> HIDE DEF held
<1>4. \A k \in 0 .. 1 : held[k] \in [S -> Nat]
  <2> TAKE k \in 0 .. 1
  <2>1. k = 0 \/ k = 1
    OBVIOUS
  <2> QED BY <1>1, <1>3, <2>1
<1>5. \A k \in 1 .. 1 : Grows(held[k - 1], <<b>>[k], held[k])
  <2> TAKE k \in 1 .. 1
  <2>1. k = 1 /\ k - 1 = 0
    OBVIOUS
  <2> QED BY <1>1, <1>2, <2>1
<1>6. Stocks(<<b>>, S, held, first, last)
  BY <1>1, <1>2, <1>4, <1>5 DEF Stocks
<1> QED BY <1>2, <1>6, Zenon DEF Packs

LEMMA PacksChain ==
    ASSUME NEW S, NEW first, NEW middle, NEW last, NEW s, NEW t,
           Packs(s, S, first, middle), Packs(t, S, middle, last)
    PROVE  Packs(s \o t, S, first, last)
<1>1. PICK f : Stocks(s, S, f, first, middle)
  BY Zenon DEF Packs
<1>2. PICK g : Stocks(t, S, g, middle, last)
  BY Zenon DEF Packs
<1>3. s \in Seq(BundlesIn(S)) /\ t \in Seq(BundlesIn(S))
  BY Zenon DEF Packs
<1>4. /\ s \o t \in Seq(BundlesIn(S)) 
      /\ Len(s \o t) = Len(s) + Len(t)
      /\ Len(s) \in Nat /\ Len(t) \in Nat
      /\ \A k \in 1 .. Len(s) : (s \o t)[k] = s[k]
      /\ \A k \in 1 .. Len(t) : (s \o t)[k + Len(s)] = t[k]
  BY <1>3
<1>5. PICK m \in Nat : m = Len(s)
  BY <1>4
<1>6. PICK n \in Nat : n = Len(t)
  BY <1>4
<1>7. PICK r : r = s \o t
  OBVIOUS
<1>8. /\ f[0] = first /\ f[m] = middle
      /\ \A k \in 0 .. m : f[k] \in [S -> Nat]
      /\ \A k \in 1 .. m : Grows(f[k - 1], s[k], f[k])
  BY <1>1, <1>5, Zenon DEF Stocks
<1>9. /\ g[0] = middle /\ g[n] = last
      /\ \A k \in 0 .. n : g[k] \in [S -> Nat]
      /\ \A k \in 1 .. n : Grows(g[k - 1], t[k], g[k])
  BY <1>2, <1>6, Zenon DEF Stocks
<1>10. /\ r \in Seq(BundlesIn(S)) /\ Len(r) = m + n
       /\ \A k \in 1 .. m : r[k] = s[k]
       /\ \A k \in 1 .. n : r[k + m] = t[k]
  BY <1>4, <1>5, <1>6, <1>7
<1> DEFINE held == [k \in 0 .. m + n |-> IF k <= m THEN f[k] ELSE g[k - m]]
<1>11. /\ \A k \in 0 .. m : held[k] = f[k]
       /\ \A k \in 0 .. n : held[k + m] = g[k]
  <2>1. \A k \in 0 .. m : held[k] = f[k]
    OBVIOUS
  <2>2. ASSUME NEW k \in 0 .. n PROVE held[k + m] = g[k]
    <3>1. CASE k = 0
      BY <1>8, <1>9, <3>1
    <3>2. CASE k # 0
      <4>1. k + m \in 0 .. m + n /\ ~(k + m <= m) /\ (k + m) - m = k
        BY <3>2
      <4> QED BY <4>1
    <3> QED BY <3>1, <3>2
  <2> QED BY <2>1, <2>2
<1> HIDE DEF held
<1>12. held[0] = first /\ held[m + n] = last
  BY <1>8, <1>9, <1>11
<1>13. ASSUME NEW k \in 0 .. m + n PROVE held[k] \in [S -> Nat]
  <2>1. CASE k <= m
    BY <1>8, <1>11, <2>1
  <2>2. CASE ~(k <= m)
    <3>1. k - m \in 0 .. n /\ (k - m) + m = k
      BY <2>2
    <3>2. held[k] = g[k - m]
      BY <1>11, <3>1
    <3> QED BY <1>9, <3>1, <3>2
  <2> QED BY <2>1, <2>2
<1>14. ASSUME NEW k \in 1 .. m + n PROVE Grows(held[k - 1], r[k], held[k])
  <2>1. CASE k <= m
    <3>1. k \in 1 .. m /\ k \in 0 .. m /\ k - 1 \in 0 .. m
      BY <2>1
    <3>2. held[k] = f[k] /\ held[k - 1] = f[k - 1] /\ r[k] = s[k]
      BY <1>10, <1>11, <3>1
    <3>3. Grows(f[k - 1], s[k], f[k])
      BY <1>8, <3>1
    <3> QED BY <3>2, <3>3
  <2>2. CASE ~(k <= m)
    <3>1. PICK j : j = k - m
      OBVIOUS
    <3>2. /\ j \in 1 .. n /\ j \in 0 .. n /\ j - 1 \in 0 .. n
          /\ j + m = k /\ (j - 1) + m = k - 1
      BY <2>2, <3>1
    <3>3. held[j + m] = g[j] /\ held[(j - 1) + m] = g[j - 1] /\ r[j + m] = t[j]
      BY <1>10, <1>11, <3>2
    <3>4. Grows(g[j - 1], t[j], g[j])
      BY <1>9, <3>2
    <3> QED BY <3>2, <3>3, <3>4
  <2> QED BY <2>1, <2>2
<1>15. Stocks(r, S, held, first, last)
  BY <1>10, <1>12, <1>13, <1>14, Zenon DEF Stocks
<1>16. Packs(r, S, first, last)
  BY <1>10, <1>15, Zenon DEF Packs
<1> QED BY <1>7, <1>16

LEMMA BundlesLeftPack ==
    ASSUME NEW S, NEW d \in S, NEW n \in Nat
    PROVE  \A left \in 0 .. n : \A first \in [S -> Nat] :
              first[d] = n - left =>
                 Packs(BundlesLeft(d, n)[left], S, first, [first EXCEPT ![d] = n])
<1>0. /\ BundlesLeft(d, n)[0] = <<>>
      /\ \A left \in 1 .. n : \E count \in 1 .. left :
            /\ count <= n - left + 1
            /\ BundlesLeft(d, n)[left]
                  = <<[denomination |-> d, count |-> count]>>
                       \o BundlesLeft(d, n)[left - count]
  BY BundlesLeftUnfolds
<1> DEFINE Good(left) ==
               \A first \in [S -> Nat] : first[d] = n - left =>
                  Packs(BundlesLeft(d, n)[left], S, first, [first EXCEPT ![d] = n])
           Wrong == {left \in 0 .. n : ~Good(left)}
<1> SUFFICES ASSUME Wrong # {} PROVE FALSE
  OBVIOUS
<1>1. PICK left \in Wrong : \A l \in Wrong : left <= l
  <2>1. Wrong \in SUBSET Nat
    OBVIOUS
  <2> HIDE DEF Wrong
  <2> QED BY <2>1, LeastNat
<1>2. left \in 0 .. n /\ ~Good(left)
  BY <1>1
<1>3. ASSUME NEW first \in [S -> Nat], first[d] = n - left
      PROVE  Packs(BundlesLeft(d, n)[left], S, first, [first EXCEPT ![d] = n])
  <2>1. CASE left = 0
    <3>1. [first EXCEPT ![d] = n] = first
      BY <1>3, <2>1
    <3>2. BundlesLeft(d, n)[left] = <<>>
      BY <2>1, <1>0
    <3>3. Packs(<<>>, S, first, first)
      BY PacksNone
    <3> QED BY <3>1, <3>2, <3>3, Zenon
  <2>2. CASE left # 0
    <3>1. left \in 1 .. n
      BY <1>2, <2>2
    <3>2. PICK count \in 1 .. left :
             /\ count <= n - left + 1
             /\ BundlesLeft(d, n)[left]
                   = <<[denomination |-> d, count |-> count]>>
                        \o BundlesLeft(d, n)[left - count]
      BY <1>0, <3>1
    <3>3. PICK b : b = [denomination |-> d, count |-> count]
      OBVIOUS
    <3>4. b \in BundlesIn(S) /\ b.denomination = d /\ b.count = count
      BY <3>1, <3>2, <3>3 DEF BundlesIn
    <3>5. PICK more : more = [first EXCEPT ![d] = @ + count]
      OBVIOUS
    <3>6. /\ more \in [S -> Nat] /\ more[d] = n - (left - count)
          /\ [more EXCEPT ![d] = n] = [first EXCEPT ![d] = n]
      <4>1. first[d] + count = n - (left - count) /\ first[d] + count \in Nat
        BY <1>2, <1>3, <3>1
      <4> QED BY <3>5, <4>1
    <3>7. Packs(<<b>>, S, first, more)
      <4>1. Grows(first, b, more)
        BY <1>3, <3>2, <3>4, <3>5 DEF Grows
      <4> QED BY <3>4, <4>1, PacksOne
    <3>8. left - count \in 0 .. n /\ ~(left <= left - count)
      BY <3>1
    <3>9. Good(left - count)
      <4> HIDE DEF Good
      <4> QED BY <1>1, <3>8
    <3>10. Packs(BundlesLeft(d, n)[left - count], S, more, [first EXCEPT ![d] = n])
      <4>1. Packs(BundlesLeft(d, n)[left - count], S, more, [more EXCEPT ![d] = n])
        BY <3>6, <3>9, Zenon
      <4> QED BY <3>6, <4>1
    <3>11. Packs(<<b>> \o BundlesLeft(d, n)[left - count], S, first,
                 [first EXCEPT ![d] = n])
      BY <3>7, <3>10, PacksChain
    <3> QED BY <3>2, <3>3, <3>11
  <2> QED BY <2>1, <2>2
<1> QED BY <1>2, <1>3

\* The notes of a denomination that an amount can need of those there are.
Useful(asked, limits, d) == Min({asked \div d, limits[d]})

\* The bundles of one more denomination follow those of the denominations before.
BundlesGrow(asked, ds, limits) ==
    /\ BundlesUpTo(asked, ds, limits)[0] = <<>>
    /\ \A i \in 1 .. Len(ds) : BundlesUpTo(asked, ds, limits)[i]
          = BundlesUpTo(asked, ds, limits)[i - 1]
               \o BundlesLeft(ds[i], Useful(asked, limits, ds[i]))
                     [Useful(asked, limits, ds[i])]

LEMMA BundlesUpToUnfolds ==
    ASSUME NEW asked, NEW ds, NEW limits, Len(ds) \in Nat
    PROVE  BundlesGrow(asked, ds, limits)
<1> DEFINE N == Len(ds)
           own(i) == BundlesLeft(ds[i], Useful(asked, limits, ds[i]))
                            [Useful(asked, limits, ds[i])]
           Run(m, f) == f = [i \in 0 .. m |-> IF i = 0 THEN <<>>
                                              ELSE f[i - 1] \o own(i)]
           NoRun == {m \in 0 .. N : ~ \E f : Run(m, f)}
<1> HIDE DEF own
<1>1. NoRun = {}
  <2> SUFFICES ASSUME NoRun # {} PROVE FALSE
    OBVIOUS
  <2>1. PICK m \in NoRun : \A l \in NoRun : m <= l
    <3>1. NoRun \in SUBSET Nat
      OBVIOUS
    <3> HIDE DEF NoRun
    <3> QED BY <3>1, LeastNat
  <2>2. m \in 0 .. N /\ ~ \E f : Run(m, f)
    BY <2>1
  <2>3. CASE m = 0
    <3> DEFINE g == [i \in 0 .. 0 |-> <<>>]
    <3>1. g = [i \in 0 .. 0 |-> IF i = 0 THEN <<>> ELSE g[i - 1] \o own(i)]
      OBVIOUS
    <3> QED BY <2>2, <2>3, <3>1
  <2>4. CASE m # 0
    <3>1. m - 1 \in 0 .. N /\ m - 1 \notin NoRun
      <4>1. m - 1 \in 0 .. N /\ ~(m <= m - 1)
        BY <2>2, <2>4
      <4> QED BY <2>1, <4>1
    <3>2. PICK f : Run(m - 1, f)
      BY <3>1
    <3> DEFINE g == [i \in 0 .. m |-> IF i = m THEN f[m - 1] \o own(m) ELSE f[i]]
    <3>3. ASSUME NEW i \in 0 .. m, i # 0
          PROVE  g[i] = g[i - 1] \o own(i)
      <4>1. g[i - 1] = f[i - 1]
        BY <2>2, <3>3
      <4>2. CASE i = m
        BY <4>1, <4>2, <2>2
      <4>3. CASE i # m
        <5>1. i \in 0 .. m - 1
          BY <2>2, <4>3
        <5>2. f[i] = f[i - 1] \o own(i)
          BY <3>2, <3>3, <5>1
        <5> QED BY <4>1, <4>3, <5>2, <3>3
      <4> QED BY <4>2, <4>3
    <3>4. g[0] = <<>>
      <4>1. 0 \in 0 .. m - 1 /\ 0 \in 0 .. m
        BY <2>2, <2>4
      <4>2. f[0] = <<>>
        BY <3>2, <4>1
      <4> QED BY <2>4, <4>1, <4>2
    <3>5. g = [i \in 0 .. m |-> g[i]]
      OBVIOUS
    <3> HIDE DEF g
    <3>6. Run(m, g)
      BY <3>3, <3>4, <3>5
    <3> QED BY <2>2, <3>6
  <2> QED BY <2>3, <2>4
<1>2. \E f : Run(N, f)
  <2>1. N \in 0 .. N
    OBVIOUS
  <2> QED BY <1>1, <2>1
<1>3. Run(N, BundlesUpTo(asked, ds, limits))
  <2> DEFINE chosen == CHOOSE f : Run(N, f)
  <2>1. BundlesUpTo(asked, ds, limits) = chosen
    BY Zenon DEF BundlesUpTo, Useful, own
  <2>2. Run(N, chosen)
    BY <1>2, Zenon
  <2> QED BY <2>1, <2>2
<1> DEFINE upTo == BundlesUpTo(asked, ds, limits)
<1>4. \A i \in 0 .. N : upTo[i] = IF i = 0 THEN <<>> ELSE upTo[i - 1] \o own(i)
  <2> HIDE DEF upTo
  <2>1. Run(N, upTo)
    BY <1>3 DEF upTo
  <2> QED BY <2>1
<1> HIDE DEF upTo
<1>5. upTo[0] = <<>> /\ \A i \in 1 .. N : upTo[i] = upTo[i - 1] \o own(i)
  <2>1. 0 \in 0 .. N /\ \A i \in 1 .. N : i \in 0 .. N /\ i # 0
    OBVIOUS
  <2> QED BY <1>4, <2>1, Zenon
<1> QED BY <1>5 DEF upTo, own, BundlesGrow

LEMMA DivisionType ==
    /\ \A a \in Nat, d \in Nat \ {0} : a \div d \in Nat
    /\ \A a \in Nat, d \in Nat \ {0}, c \in Nat : d * c <= a => c <= a \div d
OBVIOUS

\* Distinct denominations, each worth something.
Denominations(ds, S) ==
    /\ Len(ds) \in Nat
    /\ \A i \in 1 .. Len(ds) : ds[i] \in Nat \ {0}
    /\ \A i, j \in 1 .. Len(ds) : ds[i] = ds[j] => i = j
    /\ S = {ds[i] : i \in 1 .. Len(ds)}

LEMMA UsefulType ==
    ASSUME NEW asked \in Nat, NEW d \in Nat \ {0}, NEW limits,
           limits[d] \in Nat
    PROVE  /\ Useful(asked, limits, d) \in Nat
           /\ Useful(asked, limits, d) <= limits[d]
           /\ \A c \in Nat : c <= limits[d] /\ d * c <= asked
                 => c <= Useful(asked, limits, d)
<1>1. PICK q : q = asked \div d
  OBVIOUS
<1>2. q \in Nat /\ \A c \in Nat : d * c <= asked => c <= q
  BY <1>1, DivisionType
<1>3. PICK l : l = limits[d]
  OBVIOUS
<1>4. Useful(asked, limits, d) = IF q <= l THEN q ELSE l
  <2>1. q \in Int /\ l \in Int
    BY <1>2, <1>3
  <2>2. Min({q, l}) = IF q <= l THEN q ELSE l
    BY <2>1, MinOfTwo
  <2> QED BY <1>1, <1>3, <2>2, Zenon DEF Useful
<1>5. \A c \in Nat : c <= l /\ d * c <= asked => c <= q /\ c <= l
  BY <1>2
<1> QED BY <1>2, <1>3, <1>4, <1>5

\* All bundles together hold the notes the amount can need.
LEMMA BundlesPack ==
    ASSUME NEW ds, NEW S, Denominations(ds, S), NEW asked \in Nat, NEW limits,
           \A d \in S : limits[d] \in Nat
    PROVE  Packs(Bundles(asked, ds, limits), S, [d \in S |-> 0],
                 [d \in S |-> Useful(asked, limits, d)])
<1>0. /\ BundlesUpTo(asked, ds, limits)[0] = <<>>
      /\ \A i \in 1 .. Len(ds) : BundlesUpTo(asked, ds, limits)[i]
            = BundlesUpTo(asked, ds, limits)[i - 1]
                 \o BundlesLeft(ds[i], Useful(asked, limits, ds[i]))
                       [Useful(asked, limits, ds[i])]
  <2>1. Len(ds) \in Nat
    BY DEF Denominations
  <2>2. BundlesGrow(asked, ds, limits)
    BY <2>1, BundlesUpToUnfolds
  <2> QED BY <2>2 DEF BundlesGrow
<1>1. PICK N \in Nat : N = Len(ds)
  BY DEF Denominations
<1>2. /\ \A i \in 1 .. N : ds[i] \in S /\ ds[i] \in Nat \ {0}
      /\ \A i, j \in 1 .. N : ds[i] = ds[j] => i = j
      /\ \A d \in S : \E i \in 1 .. N : ds[i] = d
  BY <1>1 DEF Denominations
<1>3. \A i \in 1 .. N : Useful(asked, limits, ds[i]) \in Nat
  <2> TAKE i \in 1 .. N
  <2>1. PICK d : d = ds[i]
    OBVIOUS
  <2>2. d \in Nat \ {0} /\ limits[d] \in Nat
    BY <1>2, <2>1
  <2>3. Useful(asked, limits, d) \in Nat
    BY <2>2, UsefulType
  <2> QED BY <2>1, <2>3
<1> DEFINE upTo == BundlesUpTo(asked, ds, limits)
           none == [d \in S |-> 0]
           after(i) == [d \in S |-> IF \E j \in 1 .. i : ds[j] = d
                                    THEN Useful(asked, limits, d) ELSE 0]
           Good == {i \in 0 .. N : Packs(upTo[i], S, none, after(i))}
<1>4. /\ upTo[0] = <<>>
      /\ \A i \in 1 .. N : upTo[i] = upTo[i - 1]
            \o BundlesLeft(ds[i], Useful(asked, limits, ds[i]))
                  [Useful(asked, limits, ds[i])]
  BY <1>0, <1>1
<1>5. none \in [S -> Nat]
  OBVIOUS
<1>6. 0 \in Good
  <2>1. after(0) = none
    OBVIOUS
  <2> HIDE DEF none, after, upTo
  <2>2. Packs(<<>>, S, none, none)
    BY <1>5, PacksNone
  <2>3. Packs(upTo[0], S, none, after(0))
    BY <1>4, <2>1, <2>2, Zenon
  <2> QED BY <2>3
<1>7. ASSUME NEW i \in 1 .. N, i - 1 \in Good PROVE i \in Good
  <2>1. Packs(upTo[i - 1], S, none, after(i - 1))
    BY <1>7
  <2>2. PICK d \in S : d = ds[i]
    BY <1>2
  <2>3. PICK n \in Nat : n = Useful(asked, limits, d)
    BY <1>3, <2>2
  <2>4. after(i - 1) \in [S -> Nat]
    <3>1. \A e \in S : Useful(asked, limits, e) \in Nat
      BY <1>2, <1>3
    <3> QED BY <3>1
  <2>5. after(i - 1)[d] = n - n
    <3>1. ~ \E j \in 1 .. i - 1 : ds[j] = d
      BY <1>1, <1>2, <2>2
    <3> QED BY <3>1
  <2>6. after(i) = [after(i - 1) EXCEPT ![d] = n]
    <3>1. ASSUME NEW e \in S
          PROVE  after(i)[e] = [after(i - 1) EXCEPT ![d] = n][e]
      <4>1. CASE e = d
        <5>1. \E j \in 1 .. i : ds[j] = e
          BY <2>2, <4>1
        <5> QED BY <2>3, <4>1, <5>1
      <4>2. CASE e # d
        <5>1. (\E j \in 1 .. i : ds[j] = e) <=> (\E j \in 1 .. i - 1 : ds[j] = e)
          BY <2>2, <4>2
        <5> QED BY <4>2, <5>1
      <4> QED BY <4>1, <4>2
    <3> QED BY <3>1
  <2>7. PICK b : b = BundlesLeft(d, n)[n]
    OBVIOUS
  <2> HIDE DEF none, after, upTo
  <2>8. Packs(b, S, after(i - 1), after(i))
    <3>1. \A left \in 0 .. n : \A first \in [S -> Nat] :
             first[d] = n - left =>
                Packs(BundlesLeft(d, n)[left], S, first, [first EXCEPT ![d] = n])
      BY BundlesLeftPack
    <3>2. n \in 0 .. n
      OBVIOUS
    <3>3. Packs(BundlesLeft(d, n)[n], S, after(i - 1), [after(i - 1) EXCEPT ![d] = n])
      BY <2>4, <2>5, <3>1, <3>2, Zenon
    <3> QED BY <2>6, <2>7, <3>3
  <2>9. Packs(upTo[i - 1] \o b, S, none, after(i))
    BY <2>1, <2>8, PacksChain
  <2>10. upTo[i] = upTo[i - 1] \o b
    BY <1>4, <2>2, <2>3, <2>7
  <2>11. Packs(upTo[i], S, none, after(i))
    BY <2>9, <2>10, Zenon
  <2>12. i \in 0 .. N
    OBVIOUS
  <2> QED BY <2>11, <2>12
<1>8. N \in Good
  <2>1. \A i \in 0 .. N : i \in Good
    <3> HIDE DEF Good
    <3> QED BY <1>6, <1>7, AllPositions
  <2>2. N \in 0 .. N
    OBVIOUS
  <2> HIDE DEF Good
  <2> QED BY <2>1, <2>2
<1>9. after(N) = [d \in S |-> Useful(asked, limits, d)]
  BY <1>2
<1>10. upTo[N] = Bundles(asked, ds, limits)
  BY <1>1, Zenon DEF Bundles
<1> HIDE DEF after, upTo
<1> QED BY <1>8, <1>9, <1>10

LEMMA PaidUnfolds ==
    ASSUME NEW bundles, NEW ds, NEW asked, Len(bundles) \in Nat
    PROVE  /\ Paid(bundles, ds, asked)[0] = NothingPaid(ds)
           /\ \A i \in 1 .. Len(bundles) :
                 Paid(bundles, ds, asked)[i]
                    = PayWith(Paid(bundles, ds, asked)[i - 1], bundles[i], asked)
<1> DEFINE N == Len(bundles)
           first == NothingPaid(ds)
           Run(m, f) == f = [i \in 0 .. m |-> IF i = 0 THEN first
                                ELSE PayWith(f[i - 1], bundles[i], asked)]
           NoRun == {m \in 0 .. N : ~ \E f : Run(m, f)}
<1> HIDE DEF first
<1>1. NoRun = {}
  <2> SUFFICES ASSUME NoRun # {} PROVE FALSE
    OBVIOUS
  <2>1. PICK m \in NoRun : \A l \in NoRun : m <= l
    <3>1. NoRun \in SUBSET Nat
      OBVIOUS
    <3> HIDE DEF NoRun
    <3> QED BY <3>1, LeastNat
  <2>2. m \in 0 .. N /\ ~ \E f : Run(m, f)
    BY <2>1
  <2>3. CASE m = 0
    <3> DEFINE g == [i \in 0 .. 0 |-> first]
    <3>1. g = [i \in 0 .. 0 |-> IF i = 0 THEN first
                                ELSE PayWith(g[i - 1], bundles[i], asked)]
      OBVIOUS
    <3> QED BY <2>2, <2>3, <3>1
  <2>4. CASE m # 0
    <3>1. m - 1 \in 0 .. N /\ m - 1 \notin NoRun
      <4>1. m - 1 \in 0 .. N /\ ~(m <= m - 1)
        BY <2>2, <2>4
      <4> QED BY <2>1, <4>1
    <3>2. PICK f : Run(m - 1, f)
      BY <3>1
    <3> DEFINE g == [i \in 0 .. m |-> IF i = m
                                      THEN PayWith(f[m - 1], bundles[m], asked)
                                      ELSE f[i]]
    <3>3. ASSUME NEW i \in 0 .. m, i # 0
          PROVE  g[i] = PayWith(g[i - 1], bundles[i], asked)
      <4>1. g[i - 1] = f[i - 1]
        BY <2>2, <3>3
      <4>2. CASE i = m
        BY <4>1, <4>2, <2>2
      <4>3. CASE i # m
        <5>1. i \in 0 .. m - 1
          BY <2>2, <4>3
        <5>2. f[i] = PayWith(f[i - 1], bundles[i], asked)
          BY <3>2, <3>3, <5>1
        <5> QED BY <4>1, <4>3, <5>2, <3>3
      <4> QED BY <4>2, <4>3
    <3>4. g[0] = first
      <4>1. 0 \in 0 .. m - 1 /\ 0 \in 0 .. m
        BY <2>2, <2>4
      <4>2. f[0] = first
        BY <3>2, <4>1
      <4> QED BY <2>4, <4>1, <4>2
    <3>5. g = [i \in 0 .. m |-> g[i]]
      OBVIOUS
    <3> HIDE DEF g
    <3>6. Run(m, g)
      BY <3>3, <3>4, <3>5
    <3> QED BY <2>2, <3>6
  <2> QED BY <2>3, <2>4
<1>2. \E f : Run(N, f)
  <2>1. N \in 0 .. N
    OBVIOUS
  <2> QED BY <1>1, <2>1
<1>3. Run(N, Paid(bundles, ds, asked))
  <2> DEFINE chosen == CHOOSE f : Run(N, f)
  <2>1. Paid(bundles, ds, asked) = chosen
    BY Zenon DEF Paid, first
  <2>2. Run(N, chosen)
    BY <1>2, Zenon
  <2> QED BY <2>1, <2>2
<1> DEFINE paid == Paid(bundles, ds, asked)
<1>4. \A i \in 0 .. N : paid[i] = IF i = 0 THEN first
                                  ELSE PayWith(paid[i - 1], bundles[i], asked)
  <2> HIDE DEF paid
  <2>1. Run(N, paid)
    BY <1>3 DEF paid
  <2> QED BY <2>1
<1> HIDE DEF paid
<1>5. /\ paid[0] = first
      /\ \A i \in 1 .. N : paid[i] = PayWith(paid[i - 1], bundles[i], asked)
  <2>1. 0 \in 0 .. N /\ \A i \in 1 .. N : i \in 0 .. N /\ i # 0
    OBVIOUS
  <2> QED BY <1>4, <2>1, Zenon
<1> QED BY <1>5 DEF paid, first

\* What the table says when some notes have been bundled: the amounts in it are
\* those that some of these notes are worth, each with such a choice of notes.
TableOf(paid, S, held, asked) ==
    /\ DOMAIN paid \in SUBSET (0 .. asked)
    /\ \A c \in DOMAIN paid :
          /\ paid[c] \in [S -> Nat]
          /\ \A d \in S : paid[c][d] <= held[d]
          /\ InventoryTotal(paid[c]) = c
    /\ \A counts \in [S -> Nat] :
          (\A d \in S : counts[d] <= held[d]) /\ InventoryTotal(counts) <= asked
             => InventoryTotal(counts) \in DOMAIN paid

LEMMA TableStarts ==
    ASSUME NEW S, IsFiniteSet(S), \A d \in S : d \in Nat,
           NEW ds, ToSet(ds) = S, NEW asked \in Nat
    PROVE  TableOf(NothingPaid(ds), S, [d \in S |-> 0], asked)
<1> DEFINE none == [d \in S |-> 0]
<1>1. NothingPaid(ds) = [c \in {0} |-> none]
  BY DEF NothingPaid
<1>2. none \in [S -> Nat] /\ none \in [S -> Int] /\ \A d \in S : none[d] = 0
  OBVIOUS
<1> HIDE DEF none
<1>3. \A counts \in [S -> Nat] :
         (\A d \in S : counts[d] <= none[d]) => InventoryTotal(counts) = 0
  <2> TAKE counts \in [S -> Nat]
  <2> HAVE \A d \in S : counts[d] <= none[d]
  <2>1. \A d \in S : counts[d] = 0
    BY <1>2
  <2>2. counts \in [S -> Int]
    OBVIOUS
  <2> QED BY <2>1, <2>2, TotalOfNone
<1>4. InventoryTotal(none) = 0
  BY <1>2, <1>3
<1>5. PICK paid : paid = [c \in {0} |-> none]
  OBVIOUS
<1>6. DOMAIN paid = {0} /\ paid[0] = none
  BY <1>5
<1>7. TableOf(paid, S, none, asked)
  <2>1. DOMAIN paid \in SUBSET (0 .. asked)
    BY <1>6
  <2>2. \A c \in DOMAIN paid : /\ paid[c] \in [S -> Nat]
                               /\ \A d \in S : paid[c][d] <= none[d]
                               /\ InventoryTotal(paid[c]) = c
    BY <1>2, <1>4, <1>6
  <2>3. \A counts \in [S -> Nat] :
          (\A d \in S : counts[d] <= none[d]) /\ InventoryTotal(counts) <= asked
             => InventoryTotal(counts) \in DOMAIN paid
    BY <1>3, <1>6
  <2> QED BY <2>1, <2>2, <2>3, Zenon DEF TableOf
<1> QED BY <1>1, <1>5, <1>7 DEF none

\* One more bundle.
LEMMA TableGrows ==
    ASSUME NEW S, IsFiniteSet(S), \A d \in S : d \in Nat, NEW asked \in Nat,
           NEW b \in BundlesIn(S), NEW before \in [S -> Nat], NEW after,
           Grows(before, b, after),
           NEW paid, TableOf(paid, S, before, asked)
    PROVE  TableOf(PayWith(paid, b, asked), S, after, asked)
<1>1. PICK e \in S : e = b.denomination
  BY DEF BundlesIn
<1>2. PICK n \in Nat : n = b.count
  BY DEF BundlesIn
<1>3. PICK v : v = e * n
  OBVIOUS
<1>4. v \in Nat
  <2>1. e \in Nat
    OBVIOUS
  <2> QED BY <1>3, <2>1, ProductType
<1>5. ValueOf(b) = v
  BY <1>1, <1>2, <1>3 DEF ValueOf
<1>6. n <= before[e] + 1 /\ after = [before EXCEPT ![e] = @ + n]
  BY <1>1, <1>2 DEF Grows
<1>7. after[e] = before[e] + n /\ \A d \in S : d # e => after[d] = before[d]
  BY <1>6
<1>8. \A d \in S : before[d] <= after[d]
  BY <1>7
<1>9. /\ DOMAIN paid \in SUBSET (0 .. asked)
      /\ \A c \in DOMAIN paid : /\ paid[c] \in [S -> Nat]
                                /\ \A d \in S : paid[c][d] <= before[d]
                                /\ InventoryTotal(paid[c]) = c
      /\ \A counts \in [S -> Nat] :
            (\A d \in S : counts[d] <= before[d]) /\ InventoryTotal(counts) <= asked
               => InventoryTotal(counts) \in DOMAIN paid
  BY Zenon DEF TableOf
<1> DEFINE new == {c \in 0 .. asked : c \notin DOMAIN paid /\ c - v \in DOMAIN paid}
<1>10. PICK table : table = PayWith(paid, b, asked)
  OBVIOUS
<1>11. /\ DOMAIN table = DOMAIN paid \cup new
       /\ \A c \in DOMAIN paid : table[c] = paid[c]
       /\ \A c \in new : table[c] = [paid[c - v] EXCEPT ![e] = @ + n]
  <2>1. table = [c \in DOMAIN paid \cup new |->
                    IF c \in DOMAIN paid THEN paid[c]
                    ELSE [paid[c - v] EXCEPT ![e] = @ + n]]
    BY <1>1, <1>2, <1>5, <1>10 DEF PayWith
  <2> QED BY <2>1
<1>12. DOMAIN table \in SUBSET (0 .. asked)
  BY <1>9, <1>11
<1>13. ASSUME NEW c \in DOMAIN table
       PROVE  /\ table[c] \in [S -> Nat]
              /\ \A d \in S : table[c][d] <= after[d]
              /\ InventoryTotal(table[c]) = c
  <2>1. CASE c \in DOMAIN paid
    <3>1. table[c] = paid[c]
      BY <1>11, <2>1
    <3>2. /\ paid[c] \in [S -> Nat]
          /\ \A d \in S : paid[c][d] <= before[d]
          /\ InventoryTotal(paid[c]) = c
      BY <1>9, <2>1
    <3>3. \A d \in S : paid[c][d] <= after[d]
      <4> TAKE d \in S
      <4>1. paid[c][d] \in Nat /\ before[d] \in Nat /\ after[d] \in Nat
        BY <1>7, <3>2
      <4> QED BY <1>8, <3>2, <4>1
    <3> QED BY <3>1, <3>2, <3>3
  <2>2. CASE c \notin DOMAIN paid
    <3>1. c \in 0 .. asked /\ c - v \in DOMAIN paid
      BY <1>11, <2>2
    <3>2. PICK f : f = paid[c - v]
      OBVIOUS
    <3>3. PICK g : g = [f EXCEPT ![e] = @ + n]
      OBVIOUS
    <3>4. table[c] = g
      BY <1>11, <2>2, <3>2, <3>3
    <3>5. /\ f \in [S -> Nat]
          /\ \A d \in S : f[d] <= before[d]
          /\ InventoryTotal(f) = c - v
      BY <1>9, <3>1, <3>2
    <3>6. g \in [S -> Nat] /\ g[e] = f[e] + n /\ \A d \in S : d # e => g[d] = f[d]
      BY <3>3, <3>5
    <3>7. \A d \in S : g[d] <= after[d]
      <4> TAKE d \in S
      <4>1. f[d] \in Nat /\ before[d] \in Nat
        BY <3>5
      <4>2. CASE d = e
        BY <1>7, <3>5, <3>6, <4>1, <4>2
      <4>3. CASE d # e
        BY <1>7, <3>5, <3>6, <4>1, <4>3
      <4> QED BY <4>2, <4>3
    <3>8. InventoryTotal(g) = c
      <4>1. /\ f \in [S -> Int] /\ g \in [S -> Int] /\ n \in Int
            /\ g[e] = f[e] + n /\ \A d \in S \ {e} : g[d] = f[d]
        BY <3>5, <3>6
      <4>2. InventoryTotal(g) = InventoryTotal(f) + e * n
        BY <4>1, TotalPlus
      <4>3. InventoryTotal(g) = (c - v) + v
        BY <1>3, <3>3, <3>5, <4>2
      <4> QED BY <1>4, <3>1, <4>3
    <3> QED BY <3>4, <3>6, <3>7, <3>8
  <2> QED BY <2>1, <2>2
<1>14. ASSUME NEW counts \in [S -> Nat], \A d \in S : counts[d] <= after[d],
              InventoryTotal(counts) <= asked
       PROVE  InventoryTotal(counts) \in DOMAIN table
  <2>1. PICK c : c = InventoryTotal(counts)
    OBVIOUS
  <2>2. c \in Nat /\ c <= asked
    <3>1. counts \in [S -> Int]
      OBVIOUS
    <3>2. InventoryTotal(counts) \in Nat
      BY <3>1, TotalType
    <3> QED BY <1>14, <2>1, <3>2
  <2>3. CASE counts[e] <= before[e]
    <3>1. \A d \in S : counts[d] <= before[d]
      BY <1>7, <1>14, <2>3
    <3>2. c \in DOMAIN paid
      BY <1>9, <1>14, <2>1, <3>1
    <3> QED BY <1>11, <2>1, <3>2
  <2>4. CASE ~(counts[e] <= before[e])
    <3>1. PICK less : less = [counts EXCEPT ![e] = @ - n]
      OBVIOUS
    <3>2. counts[e] \in Nat /\ before[e] \in Nat
      OBVIOUS
    <3>3. counts[e] - n \in Nat /\ counts[e] - n <= before[e]
      BY <1>6, <1>7, <1>14, <2>4, <3>2
    <3>4. /\ less \in [S -> Nat] /\ less[e] = counts[e] - n
          /\ \A d \in S : d # e => less[d] = counts[d]
      BY <3>1, <3>3
    <3>5. \A d \in S : less[d] <= before[d]
      BY <1>7, <1>14, <3>3, <3>4
    <3>6. InventoryTotal(less) \in Nat /\ c = InventoryTotal(less) + v
      <4>1. /\ less \in [S -> Int] /\ counts \in [S -> Int] /\ n \in Int
            /\ counts[e] = less[e] + n
            /\ \A d \in S \ {e} : counts[d] = less[d]
        BY <3>2, <3>4
      <4>2. InventoryTotal(counts) = InventoryTotal(less) + e * n
        BY <4>1, TotalPlus
      <4>3. InventoryTotal(less) \in Nat
        BY <3>4, <4>1, TotalType
      <4> QED BY <1>3, <2>1, <3>4, <4>2, <4>3
    <3>7. PICK m \in Nat : m = InventoryTotal(less)
      BY <3>6
    <3>8. c = m + v /\ m <= asked
      BY <1>4, <2>2, <3>6, <3>7
    <3>9. m \in DOMAIN paid
      BY <1>9, <3>4, <3>5, <3>7, <3>8
    <3>10. c \in 0 .. asked /\ c - v = m
      BY <1>4, <2>2, <3>8
    <3>11. c \in DOMAIN table
      BY <1>11, <3>9, <3>10
    <3> QED BY <2>1, <3>11
  <2> QED BY <2>3, <2>4
<1>15. TableOf(table, S, after, asked)
  BY <1>12, <1>13, <1>14, Zenon DEF TableOf
<1> QED BY <1>10, <1>15

LEMMA DenominationsFinite ==
    ASSUME NEW ds, NEW S, Denominations(ds, S)
    PROVE  IsFiniteSet(S) /\ \A d \in S : d \in Nat \ {0}
<1>1. PICK N \in Nat : N = Len(ds)
  BY DEF Denominations
<1>2. (\A i \in 1 .. N : ds[i] \in Nat \ {0}) /\ S = {ds[i] : i \in 1 .. N}
  BY <1>1 DEF Denominations
<1>3. PICK f : f = [i \in 1 .. N |-> ds[i]]
  OBVIOUS
<1>4. f \in Surjection(1 .. N, S)
  BY <1>2, <1>3 DEF Surjection
<1>5. IsFiniteSet(1 .. N)
  <2>1. 1 \in Int /\ N \in Int
    OBVIOUS
  <2> QED BY <2>1, FS_Interval
<1>6. IsFiniteSet(S)
  BY <1>4, <1>5, FS_Surjection
<1> QED BY <1>2, <1>6

\* The table after all of some bundles.
LEMMA TableOfAll ==
    ASSUME NEW ds, NEW S, Denominations(ds, S), ToSet(ds) = S,
           NEW asked \in Nat, NEW bundles, NEW held,
           Packs(bundles, S, [d \in S |-> 0], held)
    PROVE  TableOf(Paid(bundles, ds, asked)[Len(bundles)], S, held, asked)
<1>1. IsFiniteSet(S) /\ \A d \in S : d \in Nat
  BY DenominationsFinite
<1>2. PICK none : none = [d \in S |-> 0]
  OBVIOUS
<1>3. PICK h : Stocks(bundles, S, h, none, held)
  BY <1>2, Zenon DEF Packs
<1>4. bundles \in Seq(BundlesIn(S))
  BY Zenon DEF Packs
<1>5. PICK N \in Nat : N = Len(bundles)
  BY <1>4
<1>6. \A k \in 1 .. N : bundles[k] \in BundlesIn(S)
  BY <1>4, <1>5
<1>7. /\ h[0] = none /\ h[N] = held
      /\ \A k \in 0 .. N : h[k] \in [S -> Nat]
      /\ \A k \in 1 .. N : Grows(h[k - 1], bundles[k], h[k])
  BY <1>3, <1>5, Zenon DEF Stocks
<1> DEFINE paid == Paid(bundles, ds, asked)
           Good == {k \in 0 .. N : TableOf(paid[k], S, h[k], asked)}
<1>8. /\ paid[0] = NothingPaid(ds)
      /\ \A k \in 1 .. N : paid[k] = PayWith(paid[k - 1], bundles[k], asked)
  <2>1. Len(bundles) \in Nat
    BY <1>5
  <2>2. /\ Paid(bundles, ds, asked)[0] = NothingPaid(ds)
        /\ \A k \in 1 .. Len(bundles) : Paid(bundles, ds, asked)[k]
              = PayWith(Paid(bundles, ds, asked)[k - 1], bundles[k], asked)
    BY <2>1, PaidUnfolds
  <2> QED BY <1>5, <2>2
<1> HIDE DEF paid
<1>9. 0 \in Good
  <2>1. TableOf(NothingPaid(ds), S, [d \in S |-> 0], asked)
    BY <1>1, TableStarts
  <2>2. TableOf(paid[0], S, h[0], asked)
    BY <1>2, <1>7, <1>8, <2>1, Zenon
  <2> QED BY <2>2
<1>10. ASSUME NEW k \in 1 .. N, k - 1 \in Good PROVE k \in Good
  <2>1. TableOf(paid[k - 1], S, h[k - 1], asked)
    BY <1>10
  <2>2. PICK b : b = bundles[k]
    OBVIOUS
  <2>3. b \in BundlesIn(S)
    BY <1>6, <2>2
  <2>4. k - 1 \in 0 .. N /\ k \in 0 .. N
    OBVIOUS
  <2>5. PICK before : before = h[k - 1]
    OBVIOUS
  <2>6. PICK after : after = h[k]
    OBVIOUS
  <2>7. PICK table : table = paid[k - 1]
    OBVIOUS
  <2>8. before \in [S -> Nat] /\ Grows(before, b, after)
    BY <1>7, <2>2, <2>4, <2>5, <2>6
  <2>9. TableOf(table, S, before, asked)
    BY <2>1, <2>5, <2>7
  <2>10. TableOf(PayWith(table, b, asked), S, after, asked)
    BY <1>1, <2>3, <2>8, <2>9, TableGrows
  <2>11. TableOf(paid[k], S, h[k], asked)
    BY <1>8, <2>2, <2>6, <2>7, <2>10
  <2> QED BY <2>4, <2>11
<1>11. N \in Good
  <2>1. \A k \in 0 .. N : k \in Good
    <3> HIDE DEF Good
    <3> QED BY <1>9, <1>10, AllPositions
  <2>2. N \in 0 .. N
    OBVIOUS
  <2> HIDE DEF Good
  <2> QED BY <2>1, <2>2
<1>12. TableOf(paid[N], S, held, asked)
  BY <1>7, <1>11
<1> QED BY <1>5, <1>12 DEF paid

\* An amount gets a plan just when it is not above the largest amount and some of
\* the notes at hand are worth it, and the plan is a choice of such notes.
LEMMA AllocateExact ==
    ASSUME NEW ds, NEW S, Denominations(ds, S), ToSet(ds) = S,
           NEW asked \in Nat \ {0}, NEW limits, \A d \in S : limits[d] \in Nat
    PROVE  \/ /\ asked <= MaxTransactionAmount
              /\ Allocate(asked, ds, limits) \in [S -> Nat]
              /\ \A d \in S : Allocate(asked, ds, limits)[d] <= limits[d]
              /\ InventoryTotal(Allocate(asked, ds, limits)) = asked
           \/ /\ Allocate(asked, ds, limits) = NoPlan
              /\ \/ asked > MaxTransactionAmount
                 \/ \A counts \in [S -> Nat] :
                       (\A d \in S : counts[d] <= limits[d])
                          => InventoryTotal(counts) # asked
<1>1. IsFiniteSet(S) /\ (\A d \in S : d \in Nat) /\ \A d \in S : d \in Nat \ {0}
  BY DenominationsFinite
<1>2. PICK bundles : bundles = Bundles(asked, ds, limits)
  OBVIOUS
<1>3. PICK held : held = [d \in S |-> Useful(asked, limits, d)]
  OBVIOUS
<1>4. Packs(bundles, S, [d \in S |-> 0], held)
  BY <1>2, <1>3, BundlesPack
<1>5. PICK table : table = Paid(bundles, ds, asked)[Len(bundles)]
  OBVIOUS
<1>6. TableOf(table, S, held, asked)
  BY <1>4, <1>5, TableOfAll
<1>7. Allocate(asked, ds, limits)
         = IF asked \in 1 .. MaxTransactionAmount /\ asked \in DOMAIN table
           THEN table[asked] ELSE NoPlan
  BY <1>2, <1>5, Zenon DEF Allocate
<1>8. ASSUME NEW d \in S
      PROVE  /\ held[d] <= limits[d] /\ held[d] \in Nat
             /\ \A c \in Nat : c <= limits[d] /\ d * c <= asked => c <= held[d]
  <2>1. d \in Nat \ {0} /\ limits[d] \in Nat
    BY <1>1
  <2>2. /\ Useful(asked, limits, d) \in Nat
        /\ Useful(asked, limits, d) <= limits[d]
        /\ \A c \in Nat : c <= limits[d] /\ d * c <= asked
              => c <= Useful(asked, limits, d)
    BY <2>1, UsefulType
  <2>3. held[d] = Useful(asked, limits, d)
    BY <1>3
  <2> QED BY <2>2, <2>3
<1>9. MaxTransactionAmount \in Nat
  BY AllocationAssumption
<1>10. CASE asked > MaxTransactionAmount
  <2>1. Allocate(asked, ds, limits) = NoPlan
    <3>1. asked \notin 1 .. MaxTransactionAmount
      BY <1>9, <1>10
    <3> QED BY <1>7, <3>1
  <2> QED BY <1>10, <2>1
<1>11. CASE asked <= MaxTransactionAmount /\ asked \in DOMAIN table
  <2>1. PICK plan : plan = table[asked]
    OBVIOUS
  <2>2. Allocate(asked, ds, limits) = plan
    <3>1. asked \in 1 .. MaxTransactionAmount
      BY <1>11, <1>9
    <3> QED BY <1>7, <1>11, <2>1, <3>1
  <2>3. /\ plan \in [S -> Nat]
        /\ \A d \in S : plan[d] <= held[d]
        /\ InventoryTotal(plan) = asked
    BY <1>6, <1>11, <2>1, Zenon DEF TableOf
  <2>4. \A d \in S : plan[d] <= limits[d]
    <3> TAKE d \in S
    <3>1. plan[d] \in Nat /\ held[d] \in Nat /\ limits[d] \in Nat
          /\ plan[d] <= held[d] /\ held[d] <= limits[d]
      BY <1>8, <2>3
    <3> QED BY <3>1
  <2> QED BY <1>11, <2>2, <2>3, <2>4, Zenon
<1>12. CASE asked \notin DOMAIN table
  <2>1. Allocate(asked, ds, limits) = NoPlan
    BY <1>7, <1>12
  <2>2. ASSUME NEW counts \in [S -> Nat], \A d \in S : counts[d] <= limits[d],
               InventoryTotal(counts) = asked
        PROVE  FALSE
    <3>1. \A d \in S : counts[d] <= held[d]
      <4> TAKE d \in S
      <4>1. d * counts[d] <= asked
        BY <1>1, <2>2, TotalOfOne
      <4>2. counts[d] \in Nat /\ counts[d] <= limits[d]
        BY <2>2
      <4> QED BY <1>8, <4>1, <4>2
    <3>2. asked <= asked
      OBVIOUS
    <3>3. InventoryTotal(counts) \in DOMAIN table
      <4>1. \A choice \in [S -> Nat] :
               (\A d \in S : choice[d] <= held[d]) /\ InventoryTotal(choice) <= asked
                  => InventoryTotal(choice) \in DOMAIN table
        BY <1>6, Zenon DEF TableOf
      <4> QED BY <2>2, <3>1, <3>2, <4>1
    <3> QED BY <1>12, <2>2, <3>3
  <2> QED BY <2>1, <2>2, Zenon
<1> QED BY <1>11, <1>12, <1>9, <1>10
-----------------------------------------------------------------------------
(***************************************************************************)
(* The planner of cash.                                                    *)
(***************************************************************************)
LEMMA UnitsAreDenominations ==
    \A ds \in {DispenseDenominations, AcceptDenominations} :
        Denominations(ds, NotesOf(ds)) /\ ToSet(ds) = NotesOf(ds)
<1> TAKE ds \in {DispenseDenominations, AcceptDenominations}
<1>1. /\ ds \in Seq(Nat \ {0})
      /\ \A i, j \in DOMAIN ds : ds[i] = ds[j] => i = j
  BY SessionAssumption, Zenon DEF ValidProfile
<1>2. DOMAIN ds = 1 .. Len(ds) /\ Len(ds) \in Nat
  BY <1>1
<1>3. \A i \in 1 .. Len(ds) : ds[i] \in Nat \ {0}
  BY <1>1
<1>4. NotesOf(ds) = {ds[i] : i \in 1 .. Len(ds)}
  BY <1>2, Zenon DEF NotesOf
<1>5. ToSet(ds) = {ds[i] : i \in 1 .. Len(ds)}
  BY <1>2, Zenon DEF ToSet
<1> QED BY <1>1, <1>2, <1>3, <1>4, <1>5, Zenon DEF Denominations

LEMMA CashUnitNotes ==
    /\ Denominations(DispenseDenominations, CashUnits)
    /\ ToSet(DispenseDenominations) = CashUnits
    /\ IsFiniteSet(CashUnits)
    /\ \A d \in CashUnits : d \in Nat
<1>1. Denominations(DispenseDenominations, CashUnits)
  BY UnitsAreDenominations, Zenon DEF CashUnits
<1>2. ToSet(DispenseDenominations) = CashUnits
  BY UnitsAreDenominations, Zenon DEF CashUnits
<1>3. IsFiniteSet(CashUnits) /\ \A d \in CashUnits : d \in Nat \ {0}
  BY <1>1, DenominationsFinite
<1> QED BY <1>1, <1>2, <1>3

\* The plans of the simulator are exact (allocateCash).
LEMMA PlansAreExact == AllocationExact
<1> SUFFICES ASSUME NEW inventory \in [CashUnits -> 0 .. MaxCount],
                    NEW a \in 1 .. InventoryTotal(inventory) + 1
             PROVE  LET plan    == Allocate(a, DispenseDenominations, inventory)
                        choices == {counts \in [CashUnits -> 0 .. MaxCount] :
                                       /\ \A d \in CashUnits : counts[d] <= inventory[d]
                                       /\ InventoryTotal(counts) = a}
                    IN  IF a > MaxTransactionAmount \/ choices = {} THEN plan = NoPlan
                        ELSE plan \in choices
  BY Zenon DEF AllocationExact
<1>1. MaxCount \in Nat
  BY SessionAssumption
<1>2. inventory \in [CashUnits -> Nat] /\ \A d \in CashUnits : inventory[d] <= MaxCount
  BY <1>1
<1>3. a \in Nat \ {0}
  <2>1. InventoryTotal(inventory) \in Int
    <3>1. inventory \in [CashUnits -> Int]
      BY <1>2
    <3> QED BY <3>1, CashUnitNotes, TotalType
  <2> QED BY <2>1
<1>4. PICK plan : plan = Allocate(a, DispenseDenominations, inventory)
  OBVIOUS
<1>5. \/ /\ a <= MaxTransactionAmount
         /\ plan \in [CashUnits -> Nat]
         /\ \A d \in CashUnits : plan[d] <= inventory[d]
         /\ InventoryTotal(plan) = a
      \/ /\ plan = NoPlan
         /\ \/ a > MaxTransactionAmount
            \/ \A counts \in [CashUnits -> Nat] :
                  (\A d \in CashUnits : counts[d] <= inventory[d])
                     => InventoryTotal(counts) # a
  <2>1. \A d \in CashUnits : inventory[d] \in Nat
    BY <1>2
  <2>2. \/ /\ a <= MaxTransactionAmount
           /\ Allocate(a, DispenseDenominations, inventory) \in [CashUnits -> Nat]
           /\ \A d \in CashUnits :
                 Allocate(a, DispenseDenominations, inventory)[d] <= inventory[d]
           /\ InventoryTotal(Allocate(a, DispenseDenominations, inventory)) = a
        \/ /\ Allocate(a, DispenseDenominations, inventory) = NoPlan
           /\ \/ a > MaxTransactionAmount
              \/ \A counts \in [CashUnits -> Nat] :
                    (\A d \in CashUnits : counts[d] <= inventory[d])
                       => InventoryTotal(counts) # a
    BY <1>3, <2>1, CashUnitNotes, AllocateExact
  <2> QED BY <1>4, <2>2
<1> DEFINE choices == {counts \in [CashUnits -> 0 .. MaxCount] :
                          /\ \A d \in CashUnits : counts[d] <= inventory[d]
                          /\ InventoryTotal(counts) = a}
<1>6. ASSUME plan \in [CashUnits -> Nat],
             \A d \in CashUnits : plan[d] <= inventory[d],
             InventoryTotal(plan) = a
      PROVE  plan \in choices
  <2>1. ASSUME NEW d \in CashUnits PROVE plan[d] \in 0 .. MaxCount
    <3>1. /\ plan[d] \in Nat /\ inventory[d] \in Nat /\ plan[d] <= inventory[d]
          /\ inventory[d] <= MaxCount
      BY <1>2, <1>6
    <3> QED BY <1>1, <3>1
  <2>2. plan \in [CashUnits -> 0 .. MaxCount]
    BY <1>6, <2>1
  <2> QED BY <1>6, <2>2
<1>7. \A counts \in choices : counts \in [CashUnits -> Nat]
  BY <1>1
<1>8. IF a > MaxTransactionAmount \/ choices = {} THEN plan = NoPlan
      ELSE plan \in choices
  <2>1. a > MaxTransactionAmount => ~(a <= MaxTransactionAmount)
    BY <1>3, AllocationAssumption
  <2> QED BY <1>5, <1>6, <1>7, <2>1
<1> QED BY <1>4, <1>8

\* Whatever notes are in the cash units, an amount up to the largest one gets a
\* plan just when some choice of these notes is worth it, and the plan is such a
\* choice; a larger amount gets none (allocateCash, with its first guard).
THEOREM SpecAllocationExact == Spec => []AllocationExact
BY PlansAreExact, PTL
-----------------------------------------------------------------------------
(***************************************************************************)
(* Terminal cash and the notes in the cash units.                          *)
(***************************************************************************)
LEMMA DispensePlanPays ==
    ASSUME NEW a \in Nat \ {0}, notes \in [CashUnits -> Nat], PlanDispense(a)
    PROVE  /\ DispensePlan(a) \in [CashUnits -> Nat]
           /\ \A d \in CashUnits : DispensePlan(a)[d] <= notes[d]
           /\ InventoryTotal(DispensePlan(a)) = a
<1>1. DispensePlan(a) = Allocate(a, DispenseDenominations, notes)
      /\ DispensePlan(a) # NoPlan
  BY Zenon DEF DispensePlan, PlanDispense
<1>2. \A d \in CashUnits : notes[d] \in Nat
  OBVIOUS
<1>3. \/ /\ Allocate(a, DispenseDenominations, notes) \in [CashUnits -> Nat]
         /\ \A d \in CashUnits :
               Allocate(a, DispenseDenominations, notes)[d] <= notes[d]
         /\ InventoryTotal(Allocate(a, DispenseDenominations, notes)) = a
      \/ Allocate(a, DispenseDenominations, notes) = NoPlan
  BY <1>2, CashUnitNotes, AllocateExact
<1> QED BY <1>1, <1>3, Zenon

LEMMA DepositPlanPays ==
    ASSUME NEW a \in Nat \ {0}, CanAccept(a)
    PROVE  /\ DepositPlan(a) \in [NotesOf(AcceptDenominations) -> Nat]
           /\ InventoryTotal(DepositPlan(a)) = a
<1>1. PICK limits : limits = [d \in NotesOf(AcceptDenominations) |-> MaxCount]
  OBVIOUS
<1>2. DepositPlan(a) = Allocate(a, AcceptDenominations, limits)
      /\ DepositPlan(a) # NoPlan
  BY <1>1, Zenon DEF DepositPlan, CanAccept
<1>3. PICK S : S = NotesOf(AcceptDenominations)
  OBVIOUS
<1>4. \A d \in S : limits[d] \in Nat
  <2>1. MaxCount \in Nat
    BY SessionAssumption
  <2> QED BY <1>1, <1>3, <2>1
<1>5. Denominations(AcceptDenominations, S) /\ ToSet(AcceptDenominations) = S
  BY <1>3, UnitsAreDenominations
<1>6. \/ /\ Allocate(a, AcceptDenominations, limits) \in [S -> Nat]
         /\ \A d \in S : Allocate(a, AcceptDenominations, limits)[d] <= limits[d]
         /\ InventoryTotal(Allocate(a, AcceptDenominations, limits)) = a
      \/ Allocate(a, AcceptDenominations, limits) = NoPlan
  BY <1>4, <1>5, AllocateExact
<1> QED BY <1>2, <1>3, <1>6, Zenon

\* The notes in the cash units are worth what the terminal holds, less the
\* deposits that are not recycled, and every unit is within its capacity.
Stock ==
    /\ notes \in [CashUnits -> 0 .. MaxCount]
    /\ RecycleDeposits => InventoryTotal(notes) = cash
    /\ InventoryTotal(notes) <= cash

LEMMA StockType ==
    ASSUME Stock
    PROVE  /\ notes \in [CashUnits -> Nat] /\ notes \in [CashUnits -> Int]
           /\ \A d \in CashUnits : notes[d] <= MaxCount
           /\ MaxCount \in Nat
           /\ InventoryTotal(notes) \in Int
<1>1. MaxCount \in Nat
  BY SessionAssumption
<1>2. /\ notes \in [CashUnits -> Nat] /\ notes \in [CashUnits -> Int]
      /\ \A d \in CashUnits : notes[d] <= MaxCount
  BY <1>1 DEF Stock
<1>3. InventoryTotal(notes) \in Int
  BY <1>2, CashUnitNotes, TotalType
<1> QED BY <1>1, <1>2, <1>3

LEMMA RemovingKeepsStock ==
    ASSUME TypeOK, Stock, NEW a \in Nat \ {0}, PlanDispense(a), RemoveTerminalCash(a)
    PROVE  Stock'
<1>1. /\ notes \in [CashUnits -> Nat] /\ notes \in [CashUnits -> Int]
      /\ \A d \in CashUnits : notes[d] <= MaxCount
      /\ MaxCount \in Nat /\ InventoryTotal(notes) \in Int
  BY StockType
<1>2. PICK plan : plan = DispensePlan(a)
  OBVIOUS
<1>3. /\ plan \in [CashUnits -> Nat]
      /\ \A d \in CashUnits : plan[d] <= notes[d]
      /\ InventoryTotal(plan) = a
  BY <1>1, <1>2, DispensePlanPays
<1>4. cash' = cash - a /\ notes' = [d \in CashUnits |-> notes[d] - plan[d]]
  BY <1>2, Zenon DEF RemoveTerminalCash
<1>5. PICK left : left = [d \in CashUnits |-> notes[d] - plan[d]]
  OBVIOUS
<1>6. ASSUME NEW d \in CashUnits
      PROVE  left[d] \in 0 .. MaxCount /\ notes[d] = left[d] + plan[d]
  <2>1. /\ notes[d] \in Nat /\ plan[d] \in Nat /\ plan[d] <= notes[d]
        /\ notes[d] <= MaxCount /\ left[d] = notes[d] - plan[d]
    BY <1>1, <1>3, <1>5
  <2> QED BY <1>1, <2>1
<1>7. left \in [CashUnits -> 0 .. MaxCount]
  BY <1>5, <1>6
<1>8. left \in [CashUnits -> Int] /\ plan \in [CashUnits -> Int]
  BY <1>1, <1>3, <1>7
<1>9. \A d \in CashUnits : notes[d] = left[d] + plan[d]
  BY <1>6
<1>10. InventoryTotal(notes) = InventoryTotal(left) + InventoryTotal(plan)
  BY <1>1, <1>8, <1>9, CashUnitNotes, TotalAdds
<1>11. InventoryTotal(left) \in Int
  BY <1>8, CashUnitNotes, TotalType
<1>12. PICK t \in Int : t = InventoryTotal(left)
  BY <1>11
<1>13. PICK u \in Int : u = InventoryTotal(notes)
  BY <1>1
<1>14. u = t + a
  BY <1>3, <1>10, <1>12, <1>13
<1>15. cash \in Int
  BY DEF TypeOK
<1>16. (RecycleDeposits => t = cash - a) /\ t <= cash - a
  <2>1. (RecycleDeposits => u = cash) /\ u <= cash
    BY <1>13 DEF Stock
  <2> QED BY <1>14, <1>15, <2>1
<1>17. notes' = left
  BY <1>4, <1>5
<1>18. InventoryTotal(notes') = t
  BY <1>12, <1>17
<1> QED BY <1>4, <1>7, <1>16, <1>17, <1>18 DEF Stock

LEMMA AddingKeepsStock ==
    ASSUME TypeOK, Stock, NEW a \in Nat \ {0}, CanAddTerminalCash(a),
           AddTerminalCash(a)
    PROVE  Stock'
<1>1. /\ notes \in [CashUnits -> Nat] /\ notes \in [CashUnits -> Int]
      /\ \A d \in CashUnits : notes[d] <= MaxCount
      /\ MaxCount \in Nat /\ InventoryTotal(notes) \in Int
  BY StockType
<1>2. PICK plan : plan = DepositPlan(a)
  OBVIOUS
<1>3. /\ cash' = cash + a
      /\ notes' = [d \in CashUnits |->
                      IF RecycleDeposits /\ d \in DOMAIN plan
                      THEN notes[d] + plan[d] ELSE notes[d]]
  BY <1>2, Zenon DEF AddTerminalCash
<1>4. cash \in Int
  BY DEF TypeOK
<1>5. CASE ~RecycleDeposits
  <2>1. notes' = [d \in CashUnits |-> notes[d]]
    BY <1>3, <1>5
  <2>2. notes' = notes
    BY <1>1, <2>1
  <2>3. InventoryTotal(notes') = InventoryTotal(notes)
    BY <2>2
  <2>4. InventoryTotal(notes) <= cash + a
    <3>1. InventoryTotal(notes) <= cash
      BY DEF Stock
    <3>2. PICK u \in Int : u = InventoryTotal(notes)
      BY <1>1
    <3> QED BY <1>4, <3>1, <3>2
  <2> QED BY <1>3, <1>5, <2>2, <2>3, <2>4 DEF Stock
<1>6. CASE RecycleDeposits
  <2>1. /\ CanAccept(a)
        /\ \A d \in DOMAIN plan : notes[d] + plan[d] <= MaxCount
    BY <1>2, <1>6, Zenon DEF CanAddTerminalCash
  <2>2. PICK S : S = NotesOf(AcceptDenominations)
    OBVIOUS
  <2>3. plan \in [S -> Nat] /\ InventoryTotal(plan) = a
    BY <1>2, <2>1, <2>2, DepositPlanPays
  <2>4. S \in SUBSET CashUnits
    BY <1>6, <2>2, SessionAssumption, Zenon DEF ValidProfile
  <2>5. PICK added : added = [d \in CashUnits |-> IF d \in S THEN plan[d] ELSE 0]
    OBVIOUS
  <2>6. /\ added \in [CashUnits -> Nat] /\ added \in [CashUnits -> Int]
        /\ \A d \in S : added[d] = plan[d]
        /\ \A d \in CashUnits \ S : added[d] = 0
    BY <2>3, <2>4, <2>5
  <2>7. InventoryTotal(added) = a
    <3>1. plan \in [S -> Int]
      BY <2>3
    <3>2. InventoryTotal(added) = InventoryTotal(plan)
      BY <2>4, <2>6, <3>1, CashUnitNotes, TotalWithNone
    <3> QED BY <2>3, <3>2
  <2>8. PICK sum : sum = [d \in CashUnits |-> notes[d] + added[d]]
    OBVIOUS
  <2>9. notes' = sum
    <3>1. DOMAIN plan = S
      BY <2>3
    <3>2. \A d \in CashUnits : (IF RecycleDeposits /\ d \in DOMAIN plan
                                THEN notes[d] + plan[d] ELSE notes[d])
                               = notes[d] + added[d]
      BY <1>1, <1>6, <2>6, <3>1
    <3> QED BY <1>3, <2>8, <3>2
  <2>10. sum \in [CashUnits -> 0 .. MaxCount]
    <3>1. ASSUME NEW d \in CashUnits PROVE notes[d] + added[d] \in 0 .. MaxCount
      <4>1. notes[d] \in Nat /\ added[d] \in Nat /\ notes[d] <= MaxCount
        BY <1>1, <2>6
      <4>2. CASE d \in S
        <5>1. notes[d] + plan[d] <= MaxCount
          BY <2>1, <2>3, <4>2
        <5> QED BY <1>1, <2>6, <4>1, <4>2, <5>1
      <4>3. CASE d \notin S
        BY <1>1, <2>6, <4>1, <4>3
      <4> QED BY <4>2, <4>3
    <3> QED BY <2>8, <3>1
  <2>11. sum \in [CashUnits -> Int] /\ \A d \in CashUnits : sum[d] = notes[d] + added[d]
    BY <1>1, <2>8, <2>10
  <2>12. InventoryTotal(sum) = InventoryTotal(notes) + InventoryTotal(added)
    BY <1>1, <2>6, <2>11, CashUnitNotes, TotalAdds
  <2>13. InventoryTotal(notes) = cash
    BY <1>6 DEF Stock
  <2>14. InventoryTotal(sum) = cash + a
    BY <2>7, <2>12, <2>13
  <2>15. cash + a <= cash + a
    BY <1>4
  <2>16. InventoryTotal(notes') = cash'
    BY <1>3, <2>9, <2>14
  <2> QED BY <1>3, <2>9, <2>10, <2>15, <2>16 DEF Stock
<1> QED BY <1>5, <1>6

\* How a step changes terminal cash: not at all, in an adjustment by an
\* operator, or when a simulated device moves the cash of its request.
Adjusts ==
    /\ pc = "prompt" /\ pc' = "done" /\ transaction' \in AdminTransactions
    /\ \E a \in Nat \ {0} :
          \/ CanAddTerminalCash(a) /\ AddTerminalCash(a)
          \/ PlanDispense(a) /\ RemoveTerminalCash(a)

Moves(k) ==
    /\ ~Remote /\ Outcome(k, "ok")
    /\ \/ /\ k = "dispense" /\ PlanDispense(amount)
          /\ RemoveTerminalCash(amount)
       \/ /\ k = "accept" /\ CanAddTerminalCash(amount)
          /\ AddTerminalCash(amount)

LEMMA CustomerAdjusts == Customer => UNCHANGED cashVars \/ Adjusts
<1>1. EnterPin => UNCHANGED cashVars
  BY DEF EnterPin
<1>2. \A goOn : AnswerPrinterDown(goOn) => UNCHANGED cashVars
  BY DEF AnswerPrinterDown
<1>3. \A t : SelectTransaction(t) => UNCHANGED cashVars
  BY DEF SelectTransaction, ExecuteReport
<1>4. \A a : AnswerAccount(a) \/ AnswerAmount(a) => UNCHANGED cashVars
  BY DEF AnswerAccount, AnswerAmount
<1>5. AnswerAccess \/ CancelTransaction \/ RejectPrompt => UNCHANGED cashVars
  BY DEF AnswerAccess, CancelTransaction, RejectPrompt
<1>6. AnswerConfirm => UNCHANGED cashVars
  BY DEF AnswerConfirm, BeginWithdrawal, BeginDeposit
<1>7. \A display : AnswerBalanceDisplay(display) => UNCHANGED cashVars
  BY DEF AnswerBalanceDisplay, BeginBalanceInquiry
<1>8. ASSUME NEW direction \in {"Add", "Remove"}, NEW a \in Amounts,
             AnswerAdjustment(direction, a)
      PROVE  UNCHANGED cashVars \/ Adjusts
  <2>1. a \in Nat \ {0}
    BY SessionAssumption
  <2>2. pc = "prompt" /\ transaction' \in AdminTransactions
    BY <1>8, Zenon DEF AnswerAdjustment, Asking, AdminTransactions
  <2>3. \/ UNCHANGED cashVars
        \/ /\ pc' = "done"
           /\ \/ CanAddTerminalCash(a) /\ AddTerminalCash(a)
              \/ PlanDispense(a) /\ RemoveTerminalCash(a)
    BY <1>8, Zenon DEF AnswerAdjustment, ExecuteAdjustment
  <2> QED BY <2>1, <2>2, <2>3, Zenon DEF Adjusts
<1> QED BY <1>1, <1>2, <1>3, <1>4, <1>5, <1>6, <1>7, <1>8, Zenon DEF Customer

LEMMA SettledKeepsCash ==
    ASSUME NEW k \in Calls, NEW ok, NEW code, Settled(k, ok, code)
    PROVE  UNCHANGED cashVars
<1>1. \A status, events : StatusSettled(status, events) => UNCHANGED cashVars
  BY DEF StatusSettled
<1>2. CardSettled(ok, code) => UNCHANGED cashVars
  BY DEF CardSettled
<1>3. AuthorizeSettled(ok, code) => UNCHANGED cashVars
  BY DEF AuthorizeSettled
<1>4. DispenseSettled(ok, code) => UNCHANGED cashVars
  BY DEF DispenseSettled, CashRefused
<1>5. AcceptSettled(ok, code) => UNCHANGED cashVars
  BY DEF AcceptSettled, CashRefused
<1>6. PrintSettled(ok, code) => UNCHANGED cashVars
  BY DEF PrintSettled
<1> QED BY <1>1, <1>2, <1>3, <1>4, <1>5, <1>6, Zenon DEF Settled

LEMMA CashChanges ==
    ASSUME TypeOK, [Next]_vars
    PROVE  UNCHANGED cashVars \/ Adjusts \/ \E k \in CashMoves : Moves(k)
<1>1. \A type : Load(type) => UNCHANGED cashVars
  BY DEF Load
<1>2. LoadFails => UNCHANGED cashVars
  BY DEF LoadFails
<1>3. ASSUME NEW k \in Calls, Call(k) PROVE UNCHANGED cashVars
  <2>1. Returns(k) => UNCHANGED cashVars
    BY SettledKeepsCash, Zenon DEF Returns
  <2>2. \A code : Lost(k, code) => UNCHANGED cashVars
    BY SettledKeepsCash, Zenon DEF Lost
  <2>3. TimesOut(k) => UNCHANGED cashVars
    BY SettledKeepsCash, Zenon DEF TimesOut
  <2>4. Throws(k) => UNCHANGED cashVars
    BY DEF Throws, StatusSettled, PrintSettled
  <2> QED BY <1>3, <2>1, <2>2, <2>3, <2>4, Zenon DEF Call
<1>4. \A k : Service(k) => UNCHANGED cashVars
  BY DEF Service, ServiceActs, ServiceRefuses
<1>5. HostAuthorizes \/ ReaderReads \/ PrinterAnswers => UNCHANGED cashVars
  BY DEF HostAuthorizes, ReaderReads, PrinterAnswers
<1>6. ASSUME ~Remote, DispenserDispenses
      PROVE  UNCHANGED cashVars \/ Moves("dispense")
  BY <1>6, Zenon DEF DispenserDispenses, Moves
<1>7. ASSUME ~Remote, AcceptorAccepts
      PROVE  UNCHANGED cashVars \/ Moves("accept")
  BY <1>7, Zenon DEF AcceptorAccepts, Moves
<1>8. Simulates => UNCHANGED cashVars \/ \E k \in CashMoves : Moves(k)
  <2>1. "dispense" \in CashMoves /\ "accept" \in CashMoves
    BY DEF CashMoves
  <2> QED BY <1>5, <1>6, <1>7, <2>1, Zenon DEF Simulates
<1>9. UNCHANGED vars => UNCHANGED cashVars
  BY DEF vars
<1> QED BY <1>1, <1>2, <1>3, <1>4, <1>8, <1>9, CustomerAdjusts, Zenon DEF Next

LEMMA StockStep == TypeOK /\ Stock /\ [Next]_vars => Stock'
<1> SUFFICES ASSUME TypeOK, Stock, [Next]_vars PROVE Stock'
  OBVIOUS
<1>1. CASE UNCHANGED cashVars
  BY <1>1 DEF Stock, cashVars
<1>2. ASSUME NEW a \in Nat \ {0}, CanAddTerminalCash(a) /\ AddTerminalCash(a)
      PROVE  Stock'
  BY <1>2, AddingKeepsStock
<1>3. ASSUME NEW a \in Nat \ {0}, PlanDispense(a) /\ RemoveTerminalCash(a)
      PROVE  Stock'
  BY <1>3, RemovingKeepsStock
<1>4. amount \in Nat \ {0}
  BY DEF TypeOK
<1>5. Adjusts => Stock'
  BY <1>2, <1>3, Zenon DEF Adjusts
<1>6. \A k \in CashMoves : Moves(k) => Stock'
  BY <1>2, <1>3, <1>4, Zenon DEF Moves
<1> QED BY <1>1, <1>5, <1>6, CashChanges

LEMMA InitStock == Init => Stock
<1> SUFFICES ASSUME Init PROVE Stock
  OBVIOUS
<1>1. InitialInventory \in [CashUnits -> 0 .. MaxCount]
  BY SessionAssumption, Zenon DEF ValidProfile
<1>2. notes = InitialInventory /\ cash = InitialCash
  BY DEF Init
<1>3. InitialCash \in Nat /\ InitialCash = InventoryTotal(InitialInventory)
  BY SessionAssumption
<1>4. InventoryTotal(notes) = cash /\ cash <= cash
  BY <1>2, <1>3
<1> QED BY <1>1, <1>2, <1>4 DEF Stock
-----------------------------------------------------------------------------
(***************************************************************************)
(* The books.                                                              *)
(***************************************************************************)
\* In the simulated world a request is only open while the session awaits it,
\* the adapter moves the cash as it answers, and the module books the movement
\* when it resumes; before the first request nothing has moved.
Books ==
    ~Remote =>
        /\ \A k \in Calls : req[k] = "open" => pc = k
        /\ pc \in Before => cash = InitialCash
        /\ transaction \notin AdminTransactions => cash - InitialCash = Moved
        /\ pc \notin CashMoves /\ transaction \notin AdminTransactions =>
              accounts[account] - InitialBalance = Moved
        /\ \A a \in Accounts \ {account} : accounts[a] = InitialBalance

LEMMA CustomerKeepsAccounts == Customer => accounts' = accounts
<1>1. EnterPin => accounts' = accounts
  BY DEF EnterPin
<1>2. \A goOn : AnswerPrinterDown(goOn) => accounts' = accounts
  BY DEF AnswerPrinterDown
<1>3. \A t : SelectTransaction(t) => accounts' = accounts
  BY DEF SelectTransaction, ExecuteReport
<1>4. \A a : AnswerAccount(a) \/ AnswerAmount(a) => accounts' = accounts
  BY DEF AnswerAccount, AnswerAmount
<1>5. AnswerAccess \/ CancelTransaction \/ RejectPrompt => accounts' = accounts
  BY DEF AnswerAccess, CancelTransaction, RejectPrompt
<1>6. AnswerConfirm => accounts' = accounts
  BY DEF AnswerConfirm, BeginWithdrawal, BeginDeposit
<1>7. \A display : AnswerBalanceDisplay(display) => accounts' = accounts
  BY DEF AnswerBalanceDisplay, BeginBalanceInquiry
<1>8. \A direction, a : AnswerAdjustment(direction, a) => accounts' = accounts
  BY DEF AnswerAdjustment, ExecuteAdjustment
<1> QED BY <1>1, <1>2, <1>3, <1>4, <1>5, <1>6, <1>7, <1>8, Zenon DEF Customer

\* Until a module asks for cash, neither cash nor accounts have changed.
LEMMA EarlyBooks ==
    ASSUME TypeOK, TypeOK', Phase, Books, pc \in Before, Asks, accounts' = accounts,
           UNCHANGED cashVars \/ Adjusts,
           \A k \in Calls : req[k] # "open"
    PROVE  Books'
<1> SUFFICES ASSUME ~Remote PROVE Books'
  BY DEF Books
<1>1. cash = InitialCash /\ Untouched /\ accounts = [a \in Accounts |-> InitialBalance]
  BY DEF Books, Phase, Before, AccountsUntouched
<1>2. \A k \in Calls : req'[k] = "open" => pc' = k
  BY MoneyCalls DEF TypeOK, Asks, Opened
<1>3. req'["dispense"] # "ok" /\ req'["accept"] # "ok"
  BY <1>1, MoneyCalls DEF TypeOK, Asks, Opened, Untouched
<1>4. Moved' = 0
  BY <1>3 DEF Moved
<1>5. \/ cash' = InitialCash
      \/ pc' \notin Before /\ transaction' \in AdminTransactions
  BY <1>1 DEF cashVars, Adjusts, Before, PromptStates
<1>6. InitialCash \in Int /\ InitialBalance \in Int
  BY SessionAssumption
<1>7. accounts'[account'] - InitialBalance = Moved'
  <2>1. accounts'[account'] = InitialBalance
    BY <1>1 DEF TypeOK
  <2> QED BY <2>1, <1>4, <1>6
<1>8. \A a \in Accounts : accounts'[a] = InitialBalance
  BY <1>1
<1>9. transaction' \notin AdminTransactions => cash' - InitialCash = Moved'
  BY <1>4, <1>5, <1>6
<1>10. pc' \in Before => cash' = InitialCash
  BY <1>5
<1> QED BY <1>2, <1>7, <1>8, <1>9, <1>10, Zenon DEF Books

\* What the module books when it resumes is what its request moved.
LEMMA DispenseBooks ==
    ASSUME TypeOK, Phase, Books, ~Remote, pc = "dispense",
           req["dispense"] # "open",
           DispenseSettled(req["dispense"] = "ok", req["dispense"])
    PROVE  Books'
<1> USE MoneyCalls
<1>1. /\ transaction \in Withdrawals /\ transaction \notin AdminTransactions
      /\ req["accept"] = "idle"
      /\ accounts = [a \in Accounts |-> InitialBalance]
  BY DEF Phase, AccountsUntouched, Withdrawals, AdminTransactions
<1>2. /\ \A k \in Calls : req[k] # "open"
      /\ cash - InitialCash = Moved
  BY <1>1 DEF Books
<1>3. UNCHANGED <<flowVars, cashVars>> /\ pc' \in {"done", "failed", "print"}
  BY DEF DispenseSettled, CashRefused, FailFlow
<1>4. req' = req \/ (req' = Opened("print") /\ pc' = "print")
  BY DEF DispenseSettled, CashRefused, FailFlow
<1>5. /\ \A k \in Calls : req'[k] = "open" => pc' = k
      /\ req'["dispense"] = req["dispense"] /\ req'["accept"] = "idle"
  BY <1>1, <1>2, <1>4 DEF TypeOK, Opened
<1>6. Moved' = Moved
  BY <1>1, <1>3, <1>5 DEF Moved, flowVars
<1>7. pc' \notin Before
  BY <1>3 DEF Before, PromptStates
<1>8. cash' = cash /\ transaction' = transaction /\ account' = account /\ amount' = amount
  BY <1>3 DEF cashVars, flowVars
<1>9. /\ account \in Accounts /\ amount \in Int /\ InitialBalance \in Int
  BY SessionAssumption DEF TypeOK
<1>10. /\ accounts'[account] - InitialBalance = Moved
       /\ \A a \in Accounts \ {account} : accounts'[a] = InitialBalance
  <2>1. CASE req["dispense"] = "ok"
    <3>1. accounts' = [accounts EXCEPT ![account] = @ - amount]
      BY <2>1 DEF DispenseSettled
    <3>2. Moved = 0 - amount
      BY <1>1, <2>1 DEF Moved
    <3> QED BY <1>1, <1>9, <3>1, <3>2
  <2>2. CASE req["dispense"] # "ok"
    <3>1. accounts' = accounts
      BY <2>2 DEF DispenseSettled, CashRefused
    <3>2. Moved = 0
      BY <1>1, <2>2 DEF Moved
    <3> QED BY <1>1, <1>9, <3>1, <3>2
  <2> QED BY <2>1, <2>2
<1> QED BY <1>2, <1>5, <1>6, <1>7, <1>8, <1>10, Zenon DEF Books

LEMMA AcceptBooks ==
    ASSUME TypeOK, Phase, Books, ~Remote, pc = "accept",
           req["accept"] # "open",
           AcceptSettled(req["accept"] = "ok", req["accept"])
    PROVE  Books'
<1> USE MoneyCalls
<1>1. /\ transaction = "CashDeposit" /\ transaction \notin AdminTransactions
      /\ req["dispense"] = "idle"
      /\ accounts = [a \in Accounts |-> InitialBalance]
  BY DEF Phase, AccountsUntouched, AdminTransactions
<1>2. /\ \A k \in Calls : req[k] # "open"
      /\ cash - InitialCash = Moved
  BY <1>1 DEF Books
<1>3. UNCHANGED <<flowVars, cashVars, req>> /\ pc' = "done"
  BY DEF AcceptSettled, CashRefused
<1>4. Moved' = Moved
  BY <1>3 DEF Moved, flowVars
<1>5. pc' \notin Before
  BY <1>3 DEF Before, PromptStates
<1>6. cash' = cash /\ transaction' = transaction /\ account' = account /\ req' = req
  BY <1>3 DEF cashVars, flowVars
<1>7. /\ account \in Accounts /\ amount \in Int /\ InitialBalance \in Int
  BY SessionAssumption DEF TypeOK
<1>8. /\ accounts'[account] - InitialBalance = Moved
      /\ \A a \in Accounts \ {account} : accounts'[a] = InitialBalance
  <2>1. CASE req["accept"] = "ok"
    <3>1. accounts' = [accounts EXCEPT ![account] = @ + amount]
      BY <2>1 DEF AcceptSettled
    <3>2. Moved = amount
      BY <1>1, <1>7, <2>1 DEF Moved
    <3> QED BY <1>1, <1>7, <3>1, <3>2
  <2>2. CASE req["accept"] # "ok"
    <3>1. accounts' = accounts
      BY <2>2 DEF AcceptSettled, CashRefused
    <3>2. Moved = 0
      BY <1>1, <2>2 DEF Moved
    <3> QED BY <1>1, <1>7, <3>1, <3>2
  <2> QED BY <2>1, <2>2
<1> QED BY <1>2, <1>4, <1>5, <1>6, <1>8, Zenon DEF Books

\* The calls that book nothing keep the books.
LEMMA OtherBooks ==
    ASSUME TypeOK, Phase, Books, ~Remote, pc \in {"authorize", "print"}, Asks,
           UNCHANGED <<flowVars, accounts, cashVars>>,
           \A k \in Calls : req[k] # "open"
    PROVE  Books'
<1> USE MoneyCalls
<1>1. pc \notin CashMoves /\ pc \notin Before
  BY DEF CashMoves, Before, PromptStates
<1>2. /\ pc' \notin Before
      /\ \A k \in Calls : req'[k] = "open" => pc' = k
  BY <1>1 DEF TypeOK, Asks, Opened, Before, PromptStates
<1>3. Moved' = Moved
  <2>1. req["dispense"] = "ok" <=> req'["dispense"] = "ok"
    BY <1>1 DEF TypeOK, Asks, Opened, Phase
  <2>2. req["accept"] = "ok" <=> req'["accept"] = "ok"
    BY <1>1 DEF TypeOK, Asks, Opened, Phase
  <2>3. amount' = amount
    BY DEF flowVars
  <2> QED BY <2>1, <2>2, <2>3, Zenon DEF Moved
<1>4. /\ cash' = cash /\ transaction' = transaction /\ account' = account
      /\ accounts' = accounts
  BY DEF cashVars, flowVars
<1>5. /\ transaction \notin AdminTransactions =>
            cash - InitialCash = Moved /\ accounts[account] - InitialBalance = Moved
      /\ \A a \in Accounts \ {account} : accounts[a] = InitialBalance
  BY <1>1 DEF Books
<1>6. /\ transaction' \notin AdminTransactions =>
            /\ cash' - InitialCash = Moved'
            /\ accounts'[account'] - InitialBalance = Moved'
      /\ \A a \in Accounts \ {account'} : accounts'[a] = InitialBalance
  BY <1>3, <1>4, <1>5
<1> QED BY <1>2, <1>6, Zenon DEF Books

LEMMA CallBooks ==
    ASSUME TypeOK, TypeOK', Phase, Books, NEW k \in Calls, Call(k)
    PROVE  Books'
<1> SUFFICES ASSUME ~Remote PROVE Books'
  BY DEF Books
<1>1. pc = k /\ req[k] \notin {"idle", "open"} /\ Settled(k, req[k] = "ok", req[k])
  BY Zenon DEF Call, Lost, TimesOut, Throws, Returns
<1>2. \A j \in Calls : req[j] # "open"
  BY <1>1 DEF Books
<1>3. Asks
  BY CallAsks
<1>4. UNCHANGED cashVars
  BY <1>1, SettledKeepsCash
<1>5. ASSUME k \in {"getStatus", "readCard"}
      PROVE  Books'
  <2>1. accounts' = accounts
    BY <1>1, <1>5 DEF Settled, StatusSettled, CardSettled
  <2>2. pc \in Before
    BY <1>1, <1>5 DEF Before
  <2> QED BY <1>2, <1>3, <1>4, <2>1, <2>2, EarlyBooks
<1>6. CASE k \in {"authorize", "print"}
  <2>1. UNCHANGED <<flowVars, accounts, cashVars>>
    BY <1>1, <1>6 DEF Settled, AuthorizeSettled, PrintSettled
  <2> QED BY <1>1, <1>2, <1>3, <1>6, <2>1, OtherBooks
<1>7. CASE k = "dispense"
  <2>1. DispenseSettled(req["dispense"] = "ok", req["dispense"])
    BY <1>1, <1>7 DEF Settled
  <2> QED BY <1>1, <1>7, <2>1, DispenseBooks
<1>8. CASE k = "accept"
  <2>1. AcceptSettled(req["accept"] = "ok", req["accept"])
    BY <1>1, <1>8 DEF Settled
  <2> QED BY <1>1, <1>8, <2>1, AcceptBooks
<1> QED BY <1>5, <1>6, <1>7, <1>8, MoneyCalls

\* What the simulated adapters do.
LEMMA AdapterMoves ==
    ASSUME ~Remote, Simulates
    PROVE  \E k \in Calls : \E result \in {"ok"} \cup Refusals[k] :
              /\ Outcome(k, result)
              /\ \/ UNCHANGED cashVars /\ (k \in CashMoves => result # "ok")
                 \/ Moves(k) /\ k \in CashMoves
<1> USE MoneyCalls
<1> DEFINE Good(k) ==
       \E result \in {"ok"} \cup Refusals[k] :
          /\ Outcome(k, result)
          /\ \/ UNCHANGED cashVars /\ (k \in CashMoves => result # "ok")
             \/ Moves(k) /\ k \in CashMoves
<1>1. HostAuthorizes => Good("authorize")
  BY DEF HostAuthorizes, Refusals, CashMoves
<1>2. ReaderReads => Good("readCard")
  BY DEF ReaderReads, Refusals, CashMoves
<1>3. PrinterAnswers => Good("getStatus") \/ Good("print")
  BY DEF PrinterAnswers, Refusals, CashMoves
<1>4. ASSUME DispenserDispenses PROVE Good("dispense")
  <2>1. \/ \E code \in Refusals["dispense"] :
               Outcome("dispense", code) /\ UNCHANGED cashVars
        \/ Outcome("dispense", "ok") /\ PlanDispense(amount)
           /\ RemoveTerminalCash(amount)
    BY <1>4 DEF DispenserDispenses, Refusals
  <2>2. \A code \in Refusals["dispense"] : code # "ok"
    BY DEF Refusals
  <2>3. "dispense" \in CashMoves
    BY DEF CashMoves
  <2>4. CASE \E code \in Refusals["dispense"] :
               Outcome("dispense", code) /\ UNCHANGED cashVars
    BY <2>2, <2>4, Zenon
  <2>5. CASE Outcome("dispense", "ok") /\ PlanDispense(amount)
           /\ RemoveTerminalCash(amount)
    BY <2>3, <2>5, Zenon DEF Moves
  <2> QED BY <2>1, <2>4, <2>5, Zenon
<1>5. ASSUME AcceptorAccepts PROVE Good("accept")
  <2>1. \/ \E code \in Refusals["accept"] :
               Outcome("accept", code) /\ UNCHANGED cashVars
        \/ Outcome("accept", "ok") /\ CanAddTerminalCash(amount)
           /\ AddTerminalCash(amount)
    BY <1>5 DEF AcceptorAccepts, Refusals
  <2>2. \A code \in Refusals["accept"] : code # "ok"
    BY DEF Refusals
  <2>3. "accept" \in CashMoves
    BY DEF CashMoves
  <2>4. CASE \E code \in Refusals["accept"] :
               Outcome("accept", code) /\ UNCHANGED cashVars
    BY <2>2, <2>4, Zenon
  <2>5. CASE Outcome("accept", "ok") /\ CanAddTerminalCash(amount)
           /\ AddTerminalCash(amount)
    BY <2>3, <2>5, Zenon DEF Moves
  <2> QED BY <2>1, <2>4, <2>5, Zenon
<1> HIDE DEF Good
<1>6. \E k \in Calls : Good(k)
  BY <1>1, <1>2, <1>3, <1>4, <1>5 DEF Simulates
<1> QED BY <1>6, Zenon DEF Good

\* A simulated adapter answers the request the session awaits, and moves cash
\* and its books together.
LEMMA AdapterBooks ==
    ASSUME TypeOK, TypeOK', Phase, Books, ~Remote, Simulates
    PROVE  Books'
<1> USE MoneyCalls
<1>0. PICK k \in Calls : \E result \in {"ok"} \cup Refusals[k] :
         /\ Outcome(k, result)
         /\ \/ UNCHANGED cashVars /\ (k \in CashMoves => result # "ok")
            \/ Moves(k) /\ k \in CashMoves
  BY AdapterMoves, Zenon
<1>1. PICK result \in {"ok"} \cup Refusals[k] :
         /\ Outcome(k, result)
         /\ \/ UNCHANGED cashVars /\ (k \in CashMoves => result # "ok")
            \/ Moves(k) /\ k \in CashMoves
  BY <1>0, Zenon
<1>2. /\ req[k] = "open" /\ req' = [req EXCEPT ![k] = result]
      /\ UNCHANGED <<pc, flowVars, journal, accounts>>
  BY <1>1 DEF Outcome
<1>3. /\ pc' = pc /\ transaction' = transaction /\ account' = account
      /\ amount' = amount /\ accounts' = accounts
  BY <1>2 DEF flowVars
<1>4. pc = k
  BY <1>2 DEF Books
<1>5. req'[k] = result /\ \A j \in Calls \ {k} : req'[j] = req[j]
  BY <1>2 DEF TypeOK
<1>6. result # "open"
  BY RefusalsDecide
<1>7. \A j \in Calls : req'[j] = "open" => pc' = j
  BY <1>3, <1>5, <1>6 DEF Books
<1>8. CASE UNCHANGED cashVars /\ (k \in CashMoves => result # "ok")
  <2>1. cash' = cash
    BY <1>8 DEF cashVars
  <2>2. Moved' = Moved
    <3>1. req["dispense"] = "ok" <=> req'["dispense"] = "ok"
      BY <1>2, <1>5, <1>8 DEF CashMoves
    <3>2. req["accept"] = "ok" <=> req'["accept"] = "ok"
      BY <1>2, <1>5, <1>8 DEF CashMoves
    <3> QED BY <1>3, <3>1, <3>2, Zenon DEF Moved
  <2> QED BY <1>3, <1>7, <2>1, <2>2, Zenon DEF Books
<1>9. CASE Moves(k) /\ k \in CashMoves
  <2>1. pc' \notin Before /\ pc' \in CashMoves
    BY <1>3, <1>4, <1>9 DEF Before, PromptStates, CashMoves
  <2>2. transaction \notin AdminTransactions => cash - InitialCash = Moved
    BY DEF Books
  <2>3. amount \in Int /\ cash \in Int /\ InitialCash \in Int
    BY SessionAssumption DEF TypeOK
  <2>4. transaction' \notin AdminTransactions => cash' - InitialCash = Moved'
    <3>1. result = "ok"
      <4>1. req' = [req EXCEPT ![k] = "ok"]
        BY <1>9 DEF Moves, Outcome
      <4> QED BY <1>5, <4>1 DEF TypeOK
    <3>2. CASE k = "dispense"
      <4>1. req["accept"] = "idle" /\ req'["accept"] = "idle"
        BY <1>4, <1>5, <3>2 DEF Phase
      <4>2. Moved = 0 /\ Moved' = 0 - amount
        BY <1>2, <1>3, <1>5, <3>1, <3>2, <4>1 DEF Moved
      <4>3. cash' = cash - amount
        BY <1>9, <3>2 DEF Moves, RemoveTerminalCash
      <4> QED BY <1>3, <2>2, <2>3, <4>2, <4>3
    <3>3. CASE k = "accept"
      <4>1. req["dispense"] = "idle" /\ req'["dispense"] = "idle"
        BY <1>4, <1>5, <3>3 DEF Phase
      <4>2. Moved = 0 /\ Moved' = amount
        BY <1>2, <1>3, <1>5, <2>3, <3>1, <3>3, <4>1 DEF Moved
      <4>3. cash' = cash + amount
        BY <1>9, <3>3 DEF Moves, AddTerminalCash
      <4> QED BY <1>3, <2>2, <2>3, <4>2, <4>3
    <3> QED BY <1>9, <3>2, <3>3 DEF CashMoves
  <2> QED BY <1>3, <1>7, <2>1, <2>4, Zenon DEF Books
<1> QED BY <1>1, <1>8, <1>9

LEMMA BooksStep == TypeOK /\ Safe /\ Books /\ [Next]_vars => Books'
<1> SUFFICES ASSUME TypeOK, Safe, Books, [Next]_vars, ~Remote PROVE Books'
  BY DEF Books
<1>1. TypeOK' /\ Phase
  BY TypeStep DEF Safe
<1>2. ASSUME NEW type \in CustomerTypes, Load(type)
      PROVE  Books'
  <2>1. /\ pc = "load" /\ pc \in Before /\ Asks
        /\ accounts' = accounts /\ UNCHANGED cashVars
    BY <1>2 DEF Load, Asks, Before
  <2>2. \A k \in Calls : req[k] # "open"
    BY <2>1 DEF Books, Calls
  <2> QED BY <1>1, <2>1, <2>2, EarlyBooks
<1>3. CASE LoadFails
  <2>1. /\ pc = "load" /\ pc \in Before /\ Asks
        /\ accounts' = accounts /\ UNCHANGED cashVars
    BY <1>3 DEF LoadFails, FailFlow, Asks, Before
  <2>2. \A k \in Calls : req[k] # "open"
    BY <2>1 DEF Books, Calls
  <2> QED BY <1>1, <2>1, <2>2, EarlyBooks
<1>4. CASE Customer
  <2>1. pc \in PromptStates
    BY <1>4, Zenon DEF PromptStates, Customer, EnterPin, AnswerPrinterDown,
       SelectTransaction, AnswerAccount, AnswerAmount, AnswerAccess, AnswerConfirm,
       CancelTransaction, AnswerBalanceDisplay, AnswerAdjustment, RejectPrompt, Asking
  <2>2. \A k \in Calls : req[k] # "open"
    BY <2>1 DEF Books, Calls, PromptStates
  <2>3. pc \in Before /\ Asks /\ accounts' = accounts
    BY <1>4, <2>1, CustomerAsks, CustomerKeepsAccounts DEF Before
  <2>4. UNCHANGED cashVars \/ Adjusts
    BY <1>4, CustomerAdjusts
  <2> QED BY <1>1, <2>2, <2>3, <2>4, EarlyBooks
<1>5. ASSUME NEW k \in Calls, Call(k) PROVE Books'
  BY <1>1, <1>5, CallBooks
<1>6. \A k \in Calls : ~Service(k)
  BY DEF Service, ServiceActs, ServiceRefuses
<1>7. CASE Simulates
  BY <1>1, <1>7, AdapterBooks
<1>8. CASE UNCHANGED vars
  <2>1. /\ pc' = pc /\ transaction' = transaction /\ account' = account
        /\ amount' = amount /\ accounts' = accounts /\ cash' = cash /\ req' = req
    BY <1>8 DEF vars, flowVars, cashVars
  <2>2. Moved' = Moved
    BY <2>1, Zenon DEF Moved
  <2> QED BY <2>1, <2>2, Zenon DEF Books
<1> QED BY <1>2, <1>3, <1>4, <1>5, <1>6, <1>7, <1>8, Zenon DEF Next

LEMMA InitBooks == Init => Books
<1> SUFFICES ASSUME Init PROVE Books
  OBVIOUS
<1>1. /\ req = [k \in Calls |-> "idle"] /\ cash = InitialCash
      /\ accounts = [a \in Accounts |-> InitialBalance]
      /\ account \in Accounts
  BY SessionAssumption DEF Init
<1>2. InitialCash \in Int /\ InitialBalance \in Int
  BY SessionAssumption
<1>3. Moved = 0
  BY <1>1, MoneyCalls DEF Moved
<1>4. \A k \in Calls : req[k] # "open"
  BY <1>1
<1> QED BY <1>1, <1>2, <1>3, <1>4 DEF Books

LEMMA BooksMean ==
    ASSUME Stock, Books
    PROVE  BooksBalance
<1>1. \A d \in CashUnits : 0 <= notes[d] /\ notes[d] <= MaxCount
  <2>1. notes \in [CashUnits -> Nat] /\ \A d \in CashUnits : notes[d] <= MaxCount
    BY StockType
  <2> QED BY <2>1
<1>2. /\ RecycleDeposits => InventoryTotal(notes) = cash
      /\ InventoryTotal(notes) <= cash
  BY Zenon DEF Stock
<1>3. (~Remote /\ pc \notin CashMoves /\ transaction \notin AdminTransactions) =>
          /\ cash - InitialCash = Moved
          /\ accounts[account] - InitialBalance = Moved
          /\ \A a \in Accounts \ {account} : accounts[a] = InitialBalance
  BY Zenon DEF Books
<1> QED BY <1>1, <1>2, <1>3, Zenon DEF BooksBalance

\* In the simulated world cash is conserved: whatever a session asked for,
\* terminal cash and the account differ from what they were by what its
\* requests moved, unless it is suspended in the very call that moves it; and
\* in every world the notes in the cash units are worth what the terminal
\* holds, less the deposits that are not recycled, each unit within its
\* capacity (RuntimeSimulator's removeTerminalCash, addTerminalCash, debit and
\* credit).
THEOREM SpecBooksBalance == Spec => []BooksBalance
<1>1. Init => TypeOK /\ Safe /\ Stock /\ Books
  BY InitType, InitSafe, InitStock, InitBooks
<1>2. TypeOK /\ Safe /\ Stock /\ Books /\ [Next]_vars
         => (TypeOK /\ Safe /\ Stock /\ Books)'
  BY TypeStep, SafeStep, StockStep, BooksStep
<1>3. TypeOK /\ Safe /\ Stock /\ Books => BooksBalance
  BY BooksMean
<1> QED BY <1>1, <1>2, <1>3, PTL DEF Spec
=============================================================================
