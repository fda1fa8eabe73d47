------------------------------ MODULE ListProofs ------------------------------
(***************************************************************************)
(* Lemmas on the operators of Lists, for lists of any length and entries.  *)
(***************************************************************************)
EXTENDS Lists, FiniteSetTheorems, WellFoundedInduction, TLAPS

LEMMA ListFacts ==
    ASSUME NEW s, IsList(s)
    PROVE  Len(s) \in Nat /\ DOMAIN s = 1..Len(s) /\ s = [i \in 1..Len(s) |-> s[i]]
<1> DEFINE S == {s[i] : i \in DOMAIN s}
<1>1. s \in Seq(S)
  BY DEF IsList
<1> HIDE DEF S
<1> QED
  BY <1>1

LEMMA SeqList ==
    ASSUME NEW S, NEW s \in Seq(S)
    PROVE  IsList(s)
<1> DEFINE T == {s[i] : i \in DOMAIN s}
<1>1. Len(s) \in Nat /\ s = [i \in 1..Len(s) |-> s[i]] /\ \A i \in 1..Len(s) : s[i] \in T
  OBVIOUS
<1> HIDE DEF T
<1>2. s \in Seq(T)
  BY <1>1
<1> QED
  BY <1>2 DEF IsList, T

\* A function on 1..n is a list of n entries.
LEMMA FunctionList ==
    ASSUME NEW n \in Nat, NEW s, s = [i \in 1..n |-> s[i]]
    PROVE  IsList(s) /\ Len(s) = n /\ DOMAIN s = 1..n
<1> DEFINE T == {s[i] : i \in DOMAIN s}
<1>1. DOMAIN s = 1..n
  OBVIOUS
<1>2. \A i \in 1..n : s[i] \in T
  BY <1>1
<1> HIDE DEF T
<1>3. s \in Seq(T) /\ Len(s) = n
  BY <1>2
<1> QED
  BY <1>1, <1>3 DEF IsList, T

LEMMA AppendFacts ==
    ASSUME NEW s, IsList(s), NEW x
    PROVE  /\ IsList(Append(s, x))
           /\ Len(Append(s, x)) = Len(s) + 1 /\ Len(s) \in Nat
           /\ DOMAIN s = 1..Len(s) /\ DOMAIN Append(s, x) = 1..(Len(s) + 1)
           /\ Append(s, x)[Len(s) + 1] = x
           /\ \A i \in 1..Len(s) : Append(s, x)[i] = s[i]
<1> DEFINE S == {s[i] : i \in DOMAIN s}
<1>1. s \in Seq(S)
  BY DEF IsList
<1>2. S \subseteq S \cup {x}
  OBVIOUS
<1> HIDE DEF S
<1>3. s \in Seq(S \cup {x})
  BY <1>1, <1>2
<1>4. Append(s, x) \in Seq(S \cup {x})
  BY <1>3
<1>5. IsList(Append(s, x))
  BY <1>4, SeqList
<1> QED
  BY <1>3, <1>5

\* Induction over the places of a list, as a fact about a set of numbers.
LEMMA UpTo ==
    ASSUME NEW n \in Nat, NEW I, 0 \in I, \A k \in 1..n : k - 1 \in I => k \in I
    PROVE  \A k \in 0..n : k \in I
<1> DEFINE T == {k \in 0..n : k \notin I}
           R == OpToRel(<, Nat)
<1> SUFFICES ASSUME T # {} PROVE FALSE
  OBVIOUS
<1>1. IsWellFoundedOn(R, Nat)
  BY NatLessThanWellFounded
<1>2. \A a, b \in Nat : <<a, b>> \in R <=> a < b
  BY DEF OpToRel
<1>3. T \subseteq Nat
  OBVIOUS
<1> HIDE DEF R
<1>4. PICK x \in T : \A y \in T : ~ (<<y, x>> \in R)
  <2> HIDE DEF T
  <2> QED
    BY <1>1, <1>3, WFMin
<1>5. x \in 1..n /\ x - 1 \in 0..n /\ x - 1 < x
  OBVIOUS
<1>6. x - 1 \notin T
  <2>1. x \in Nat /\ x - 1 \in Nat
    OBVIOUS
  <2>2. <<x - 1, x>> \in R
    BY <1>2, <1>5, <2>1
  <2> HIDE DEF T
  <2> QED
    BY <1>4, <2>2
<1> QED
  BY <1>5, <1>6

Follows(f, n, V, start, F) ==
    f \in [0..n -> V] /\ f[0] = start /\ \A k \in 1..n : f[k] = F[k][f[k - 1]]

\* A recursion along the places of a list has a result.
LEMMA Recursion ==
    ASSUME NEW n \in Nat, NEW V, NEW start \in V, NEW F \in [1..n -> [V -> V]]
    PROVE  \E f : Follows(f, n, V, start, F)
<1> DEFINE I == {m \in 0..n : \E f : Follows(f, m, V, start, F)}
<1>1. 0 \in I
  <2> DEFINE f == [k \in 0..0 |-> start]
  <2>1. Follows(f, 0, V, start, F)
    BY DEF Follows
  <2> HIDE DEF f
  <2> QED
    BY <2>1
<1>2. \A m \in 1..n : m - 1 \in I => m \in I
  <2> SUFFICES ASSUME NEW m \in 1..n, m - 1 \in I PROVE m \in I
    OBVIOUS
  <2> PICK f : Follows(f, m - 1, V, start, F)
    OBVIOUS
  <2>1. f \in [0..(m - 1) -> V] /\ f[0] = start /\ \A k \in 1..(m - 1) : f[k] = F[k][f[k - 1]]
    BY DEF Follows
  <2> DEFINE g == [k \in 0..m |-> IF k = m THEN F[m][f[m - 1]] ELSE f[k]]
  <2>2. f[m - 1] \in V /\ m - 1 \in Nat
    BY <2>1
  <2>3. F[m][f[m - 1]] \in V
    BY <2>2
  <2>4. g \in [0..m -> V]
    BY <2>1, <2>3
  <2>5. g[m] = F[m][f[m - 1]] /\ \A k \in 0..(m - 1) : g[k] = f[k]
    OBVIOUS
  <2> HIDE DEF g
  <2>6. /\ g[0] = start /\ g[m] = F[m][g[m - 1]]
        /\ \A k \in 1..m : k # m => g[k] = F[k][g[k - 1]]
    BY <2>1, <2>2, <2>5
  <2>7. Follows(g, m, V, start, F)
    BY <2>4, <2>6 DEF Follows
  <2> QED
    BY <2>7
<1> HIDE DEF I
<1>3. \A m \in 0..n : m \in I
  BY <1>1, <1>2, UpTo
<1> QED
  BY <1>3 DEF I

\* f[n] is what is selected of the first n entries.
Selecting(f, s, K, S) ==
    /\ f \in [0..Len(s) -> Seq(S)] /\ f[0] = <<>> /\ Those(s, K) = f[Len(s)]
    /\ \A n \in 1..Len(s) : f[n] = IF n \in K THEN Append(f[n - 1], s[n]) ELSE f[n - 1]

LEMMA ThoseRecursion ==
    ASSUME NEW S, NEW s \in Seq(S), NEW K
    PROVE  \E f : Selecting(f, s, K, S)
<1> DEFINE len == Len(s)
           V == Seq(S)
           Body(n, t) == IF n \in K THEN Append(t, s[n]) ELSE t
           Rec(f) == f = [n \in 0..len |-> IF n = 0 THEN <<>> ELSE Body(n, f[n - 1])]
           F == [n \in 1..len |-> [t \in V |-> Body(n, t)]]
           start == <<>>
<1>1. len \in Nat /\ start \in V /\ \A n \in 1..len, t \in V : Body(n, t) \in V
  OBVIOUS
<1>2. \A f : Rec(f) <=> f = [n \in 0..len |-> IF n = 0 THEN start ELSE Body(n, f[n - 1])]
  OBVIOUS
<1> DEFINE g == CHOOSE h : Rec(h)
<1>3. Those(s, K) = g[len]
  BY DEF Those
<1> HIDE DEF len, V, start, Body, Rec
<1>4. F \in [1..len -> [V -> V]] /\ \A n \in 1..len, t \in V : F[n][t] = Body(n, t)
  BY <1>1
<1> HIDE DEF F
<1>5. PICK f : Follows(f, len, V, start, F)
  BY <1>1, <1>4, Recursion
<1>6. /\ f \in [0..len -> V] /\ f[0] = start
      /\ \A n \in 1..len : f[n] = Body(n, f[n - 1])
  BY <1>1, <1>4, <1>5 DEF Follows
<1>7. f = [n \in 0..len |-> IF n = 0 THEN start ELSE Body(n, f[n - 1])]
  <2>1. f = [n \in 0..len |-> f[n]]
    BY <1>6
  <2>2. \A n \in 0..len : f[n] = IF n = 0 THEN start ELSE Body(n, f[n - 1])
    BY <1>1, <1>6
  <2> QED
    BY <2>1, <2>2
<1>8. Rec(g)
  BY <1>2, <1>7
<1> HIDE DEF g
<1>9. g = [n \in 0..len |-> IF n = 0 THEN start ELSE Body(n, g[n - 1])]
  BY <1>2, <1>8
<1>10. g[0] = start /\ \A n \in 1..len : g[n] = Body(n, g[n - 1])
  BY <1>1, <1>9
<1> DEFINE I == {n \in 0..len : g[n] \in V}
<1>11. 0 \in I
  BY <1>1, <1>10
<1>12. \A n \in 1..len : n - 1 \in I => n \in I
  BY <1>1, <1>10
<1>13. \A n \in 0..len : n \in I
  <2> HIDE DEF I
  <2> QED
    BY <1>1, <1>11, <1>12, UpTo
<1>14. g \in [0..len -> V]
  BY <1>9, <1>13
<1> QED
  BY <1>3, <1>10, <1>14 DEF len, V, start, Body, Selecting

\* A selection has the entries at the places selected, and no other.
LEMMA ThoseFacts ==
    ASSUME NEW S, NEW s \in Seq(S), NEW K
    PROVE  /\ Those(s, K) \in Seq(S)
           /\ \A j \in DOMAIN Those(s, K) : \E i \in DOMAIN s : i \in K /\ Those(s, K)[j] = s[i]
           /\ \A i \in DOMAIN s : i \in K => \E j \in DOMAIN Those(s, K) : Those(s, K)[j] = s[i]
<1> DEFINE len == Len(s)
           Only(n, t) == \A j \in 1..Len(t) : \E i \in 1..n : i \in K /\ t[j] = s[i]
           All(n, t)  == \A i \in 1..n : i \in K => \E j \in 1..Len(t) : t[j] = s[i]
<1> PICK f : Selecting(f, s, K, S)
  BY ThoseRecursion
<1>1. /\ f \in [0..len -> Seq(S)] /\ f[0] = <<>> /\ Those(s, K) = f[len]
      /\ \A n \in 1..len : f[n] = IF n \in K THEN Append(f[n - 1], s[n]) ELSE f[n - 1]
  BY DEF Selecting
<1> DEFINE I == {n \in 0..len : Only(n, f[n]) /\ All(n, f[n])}
<1>2. len \in Nat /\ DOMAIN s = 1..len /\ \A n \in 1..len : s[n] \in S
  OBVIOUS
<1>3. 0 \in I
  BY <1>1, <1>2
<1>4. \A n \in 1..len : n - 1 \in I => n \in I
  <2> SUFFICES ASSUME NEW n \in 1..len, n - 1 \in I PROVE n \in I
    OBVIOUS
  <2>1. n - 1 \in 0..len /\ f[n - 1] \in Seq(S) /\ s[n] \in S
    BY <1>1, <1>2
  <2> DEFINE t == f[n - 1]
  <2>2. t \in Seq(S) /\ Len(t) \in Nat /\ Only(n - 1, t) /\ All(n - 1, t)
    BY <2>1
  <2>3. f[n] = IF n \in K THEN Append(t, s[n]) ELSE t
    BY <1>1
  <2>4. n \in 0..len /\ n \in 1..n /\ n \in Nat
    BY <1>2
  <2> HIDE DEF t, len
  <2>5. CASE n \notin K
    <3>1. f[n] = t
      BY <2>3, <2>5
    <3>2. Only(n, t)
      BY <2>2, <2>4
    <3>3. All(n, t)
      <4> SUFFICES ASSUME NEW i \in 1..n, i \in K PROVE \E j \in 1..Len(t) : t[j] = s[i]
        OBVIOUS
      <4>1. i \in 1..(n - 1)
        BY <2>4, <2>5
      <4> QED
        BY <2>2, <4>1
    <3> QED
      BY <2>4, <3>1, <3>2, <3>3
  <2>6. CASE n \in K
    <3> DEFINE r == Append(t, s[n])
    <3>1. f[n] = r
      BY <2>3, <2>6
    <3>2. /\ Len(r) = Len(t) + 1 /\ r[Len(t) + 1] = s[n]
          /\ \A j \in 1..Len(t) : r[j] = t[j]
      BY <2>1, <2>2
    <3>3. Len(t) + 1 \in 1..(Len(t) + 1) /\ 1..Len(t) \subseteq 1..(Len(t) + 1) /\ 1..(n - 1) \subseteq 1..n
      BY <2>2, <2>4
    <3> HIDE DEF r
    <3>4. Only(n, r)
      <4> SUFFICES ASSUME NEW j \in 1..(Len(t) + 1)
                   PROVE  \E i \in 1..n : i \in K /\ r[j] = s[i]
        BY <3>2
      <4>1. CASE j = Len(t) + 1
        <5>1. r[j] = s[n]
          BY <3>2, <4>1
        <5> QED
          BY <2>4, <2>6, <5>1
      <4>2. CASE j \in 1..Len(t)
        <5>1. r[j] = t[j] /\ \E i \in 1..(n - 1) : i \in K /\ t[j] = s[i]
          BY <2>2, <3>2, <4>2
        <5> QED
          BY <3>3, <5>1
      <4> QED
        BY <2>2, <4>1, <4>2
    <3>5. All(n, r)
      <4> SUFFICES ASSUME NEW i \in 1..n, i \in K
                   PROVE  \E j \in 1..(Len(t) + 1) : r[j] = s[i]
        BY <3>2
      <4>1. CASE i = n
        BY <3>2, <3>3, <4>1
      <4>2. CASE i \in 1..(n - 1)
        <5>1. \E j \in 1..Len(t) : t[j] = s[i]
          BY <2>2, <4>2
        <5> QED
          BY <3>2, <3>3, <5>1
      <4> QED
        BY <2>4, <4>1, <4>2
    <3> HIDE DEF Only, All
    <3>6. Only(n, f[n]) /\ All(n, f[n])
      BY <3>1, <3>4, <3>5
    <3> QED
      BY <2>4, <3>6
  <2> QED
    BY <2>5, <2>6
<1>5. len \in I
  <2>1. len \in 0..len
    BY <1>2
  <2> HIDE DEF I, len
  <2>2. \A n \in 0..len : n \in I
    BY <1>2, <1>3, <1>4, UpTo
  <2> QED
    BY <2>1, <2>2
<1>6. f[len] \in Seq(S) /\ Only(len, f[len]) /\ All(len, f[len])
  BY <1>1, <1>2, <1>5
<1> DEFINE r == f[len]
<1>7. r \in Seq(S) /\ DOMAIN r = 1..Len(r) /\ Only(len, r) /\ All(len, r) /\ Those(s, K) = r
  BY <1>1, <1>6
<1> HIDE DEF r, len
<1> QED
  BY <1>2, <1>7

\* A selection is no longer than the list.
LEMMA ThoseShorter ==
    ASSUME NEW S, NEW s \in Seq(S), NEW K
    PROVE  Len(Those(s, K)) \in Nat /\ Len(Those(s, K)) <= Len(s)
<1> DEFINE len == Len(s)
<1>1. len \in Nat
  OBVIOUS
<1> PICK f : Selecting(f, s, K, S)
  BY ThoseRecursion
<1>2. /\ f \in [0..len -> Seq(S)] /\ f[0] = <<>> /\ Those(s, K) = f[len]
      /\ \A n \in 1..len : f[n] = IF n \in K THEN Append(f[n - 1], s[n]) ELSE f[n - 1]
  BY DEF Selecting
<1>3. \A n \in 1..len : s[n] \in S
  OBVIOUS
<1> HIDE DEF len
<1> DEFINE I == {n \in 0..len : Len(f[n]) <= n}
<1>4. 0 \in I
  BY <1>1, <1>2
<1>5. \A n \in 1..len : n - 1 \in I => n \in I
  <2> SUFFICES ASSUME NEW n \in 1..len, n - 1 \in I PROVE n \in I
    OBVIOUS
  <2>1. n \in 0..len /\ n - 1 \in 0..len /\ Len(f[n - 1]) <= n - 1
    BY <1>1
  <2>2. f[n - 1] \in Seq(S) /\ s[n] \in S
    BY <1>2, <1>3, <2>1
  <2>3. Len(Append(f[n - 1], s[n])) = Len(f[n - 1]) + 1 /\ Len(f[n - 1]) \in Nat
    BY <2>2
  <2>4. f[n] = Append(f[n - 1], s[n]) \/ f[n] = f[n - 1]
    BY <1>2
  <2>5. Len(f[n]) <= n
    BY <2>1, <2>3, <2>4
  <2> QED
    BY <2>1, <2>5
<1>6. \A n \in 0..len : n \in I
  <2> HIDE DEF I
  <2> QED
    BY <1>1, <1>4, <1>5, UpTo
<1>7. len \in 0..len
  BY <1>1
<1>8. Len(f[len]) <= len /\ f[len] \in Seq(S)
  BY <1>2, <1>6, <1>7
<1>9. Len(f[len]) \in Nat
  BY <1>8
<1> QED
  BY <1>2, <1>8, <1>9 DEF len

\* Selecting from a list that got one more entry.
LEMMA ThoseAppend ==
    ASSUME NEW S, NEW s \in Seq(S), NEW x \in S, NEW K, NEW L,
           \A i \in 1..Len(s) : i \in K <=> i \in L
    PROVE  Those(Append(s, x), L) =
             IF Len(s) + 1 \in L THEN Append(Those(s, K), x) ELSE Those(s, K)
<1> DEFINE len == Len(s)
           t == Append(s, x)
<1>1. /\ len \in Nat /\ t \in Seq(S) /\ Len(t) = len + 1 /\ t[len + 1] = x
      /\ \A i \in 1..len : t[i] = s[i]
  OBVIOUS
<1>a. PICK f : Selecting(f, s, K, S)
  BY ThoseRecursion
<1>2. /\ f \in [0..len -> Seq(S)] /\ f[0] = <<>> /\ Those(s, K) = f[len]
      /\ \A n \in 1..len : f[n] = IF n \in K THEN Append(f[n - 1], s[n]) ELSE f[n - 1]
  BY <1>a DEF Selecting
<1> HIDE DEF t, len
<1>b. PICK g : Selecting(g, t, L, S)
  BY <1>1, ThoseRecursion
<1>3. /\ g \in [0..(len + 1) -> Seq(S)] /\ g[0] = <<>> /\ Those(t, L) = g[len + 1]
      /\ \A n \in 1..(len + 1) : g[n] = IF n \in L THEN Append(g[n - 1], t[n]) ELSE g[n - 1]
  BY <1>1, <1>b DEF Selecting
<1> DEFINE I == {n \in 0..len : g[n] = f[n]}
<1>4. 0 \in I
  BY <1>1, <1>2, <1>3
<1>5. \A n \in 1..len : n - 1 \in I => n \in I
  <2> SUFFICES ASSUME NEW n \in 1..len, n - 1 \in I PROVE n \in I
    OBVIOUS
  <2>1. /\ n \in 1..(len + 1) /\ n \in 0..len
        /\ t[n] = s[n] /\ (n \in K <=> n \in L)
    BY <1>1 DEF len
  <2>2. g[n] = IF n \in L THEN Append(g[n - 1], t[n]) ELSE g[n - 1]
    BY <1>3, <2>1
  <2>3. f[n] = IF n \in K THEN Append(f[n - 1], s[n]) ELSE f[n - 1]
    BY <1>2
  <2>4. g[n] = f[n]
    BY <2>1, <2>2, <2>3
  <2> QED
    BY <2>1, <2>4
<1>6. len \in I
  <2>1. len \in 0..len
    BY <1>1
  <2> HIDE DEF I
  <2>2. \A n \in 0..len : n \in I
    BY <1>1, <1>4, <1>5, UpTo
  <2> QED
    BY <2>1, <2>2
<1>7. g[len + 1] = IF len + 1 \in L THEN Append(g[len], t[len + 1]) ELSE g[len]
  <2> DEFINE m == len + 1
  <2>1. m \in 1..(len + 1) /\ m - 1 = len
    BY <1>1
  <2> HIDE DEF m
  <2>2. g[m] = IF m \in L THEN Append(g[m - 1], t[m]) ELSE g[m - 1]
    BY <1>3, <2>1
  <2>3. g[m] = IF m \in L THEN Append(g[len], t[m]) ELSE g[len]
    BY <2>1, <2>2
  <2> QED
    BY <2>3 DEF m
<1> QED
  BY <1>1, <1>2, <1>3, <1>6, <1>7 DEF t, len

-----------------------------------------------------------------------------
\* f[n] is the sum of the first n entries.
Summing(f, s) ==
    /\ f \in [0..Len(s) -> Int] /\ f[0] = 0 /\ SumSeq(s) = f[Len(s)]
    /\ \A n \in 1..Len(s) : f[n] = f[n - 1] + s[n]

LEMMA SumRecursion == ASSUME NEW s \in Seq(Int) PROVE \E f : Summing(f, s)
<1> DEFINE len == Len(s)
           Rec(f) == f = [n \in 0..len |-> IF n = 0 THEN 0 ELSE f[n - 1] + s[n]]
           F == [n \in 1..len |-> [t \in Int |-> t + s[n]]]
           start == 0
<1>1. len \in Nat /\ \A n \in 1..len : s[n] \in Int
  OBVIOUS
<1>2. \A f : Rec(f) <=> f = [n \in 0..len |-> IF n = 0 THEN 0 ELSE f[n - 1] + s[n]]
  OBVIOUS
<1> DEFINE g == CHOOSE h : Rec(h)
<1>3. SumSeq(s) = g[len]
  BY DEF SumSeq
<1> HIDE DEF len, Rec
<1>4. F \in [1..len -> [Int -> Int]] /\ \A n \in 1..len, t \in Int : F[n][t] = t + s[n]
  BY <1>1
<1> HIDE DEF F
<1>5. PICK f : Follows(f, len, Int, start, F)
  <2>1. start \in Int
    OBVIOUS
  <2> HIDE DEF start
  <2> QED
    BY <1>1, <1>4, <2>1, Recursion
<1>6. /\ f \in [0..len -> Int] /\ f[0] = 0
      /\ \A n \in 1..len : f[n] = f[n - 1] + s[n]
  <2>1. /\ f \in [0..len -> Int] /\ f[0] = 0
        /\ \A n \in 1..len : f[n] = F[n][f[n - 1]]
    BY <1>5 DEF Follows
  <2>2. \A n \in 1..len : f[n - 1] \in Int
    BY <1>1, <2>1
  <2> QED
    BY <1>4, <2>1, <2>2
<1>7. f = [n \in 0..len |-> IF n = 0 THEN 0 ELSE f[n - 1] + s[n]]
  <2>1. f = [n \in 0..len |-> f[n]]
    BY <1>6
  <2>2. \A n \in 0..len : f[n] = IF n = 0 THEN 0 ELSE f[n - 1] + s[n]
    BY <1>1, <1>6
  <2> QED
    BY <2>1, <2>2
<1>8. Rec(g)
  BY <1>2, <1>7
<1> HIDE DEF g
<1>9. g = [n \in 0..len |-> IF n = 0 THEN 0 ELSE g[n - 1] + s[n]]
  BY <1>2, <1>8
<1>10. g[0] = 0 /\ \A n \in 1..len : g[n] = g[n - 1] + s[n]
  BY <1>1, <1>9
<1> DEFINE I == {n \in 0..len : g[n] \in Int}
<1>11. 0 \in I
  BY <1>1, <1>10
<1>12. \A n \in 1..len : n - 1 \in I => n \in I
  BY <1>1, <1>10
<1>13. \A n \in 0..len : n \in I
  <2> HIDE DEF I
  <2> QED
    BY <1>1, <1>11, <1>12, UpTo
<1>14. g \in [0..len -> Int]
  BY <1>9, <1>13
<1> QED
  BY <1>3, <1>10, <1>14 DEF len, Summing

LEMMA SumType == ASSUME NEW s \in Seq(Int) PROVE SumSeq(s) \in Int
<1> PICK f : Summing(f, s)
  BY SumRecursion
<1>1. f \in [0..Len(s) -> Int] /\ SumSeq(s) = f[Len(s)] /\ Len(s) \in 0..Len(s)
  BY DEF Summing
<1> QED
  BY <1>1

\* A list with entries no smaller has a sum no smaller.
LEMMA SumMonotone ==
    ASSUME NEW s \in Seq(Int), NEW t \in Seq(Int), Len(s) = Len(t),
           \A i \in 1..Len(s) : s[i] <= t[i]
    PROVE  SumSeq(s) <= SumSeq(t)
<1> DEFINE len == Len(s)
<1> PICK f : Summing(f, s)
  BY SumRecursion
<1> PICK g : Summing(g, t)
  BY SumRecursion
<1>1. /\ len \in Nat /\ len \in 0..len
      /\ \A n \in 1..len : s[n] \in Int /\ t[n] \in Int /\ s[n] <= t[n]
  OBVIOUS
<1>2. /\ f \in [0..len -> Int] /\ f[0] = 0 /\ SumSeq(s) = f[len]
      /\ \A n \in 1..len : f[n] = f[n - 1] + s[n]
  BY DEF Summing
<1>3. /\ g \in [0..len -> Int] /\ g[0] = 0 /\ SumSeq(t) = g[len]
      /\ \A n \in 1..len : g[n] = g[n - 1] + t[n]
  BY DEF Summing
<1> HIDE DEF len
<1> DEFINE I == {n \in 0..len : f[n] <= g[n]}
<1>4. 0 \in I
  BY <1>1, <1>2, <1>3
<1>5. \A n \in 1..len : n - 1 \in I => n \in I
  <2> SUFFICES ASSUME NEW n \in 1..len, f[n - 1] <= g[n - 1] PROVE f[n] <= g[n]
    BY <1>1
  <2>1. f[n - 1] \in Int /\ g[n - 1] \in Int /\ s[n] \in Int /\ t[n] \in Int /\ s[n] <= t[n]
    BY <1>1, <1>2, <1>3
  <2>2. f[n] = f[n - 1] + s[n] /\ g[n] = g[n - 1] + t[n]
    BY <1>2, <1>3
  <2> QED
    BY <2>1, <2>2
<1>6. \A n \in 0..len : n \in I
  <2> HIDE DEF I
  <2> QED
    BY <1>1, <1>4, <1>5, UpTo
<1> QED
  BY <1>1, <1>2, <1>3, <1>6

LEMMA SumAppend ==
    ASSUME NEW s \in Seq(Int), NEW x \in Int
    PROVE  SumSeq(Append(s, x)) = SumSeq(s) + x
<1> DEFINE len == Len(s)
           t == Append(s, x)
<1> PICK f : Summing(f, s)
  BY SumRecursion
<1>1. /\ len \in Nat /\ len \in 0..len /\ t \in Seq(Int) /\ Len(t) = len + 1
      /\ t[len + 1] = x /\ \A n \in 1..len : t[n] = s[n]
  OBVIOUS
<1> HIDE DEF t
<1> PICK g : Summing(g, t)
  BY <1>1, SumRecursion
<1>2. /\ f \in [0..len -> Int] /\ f[0] = 0 /\ SumSeq(s) = f[len]
      /\ \A n \in 1..len : f[n] = f[n - 1] + s[n]
  BY DEF Summing
<1> HIDE DEF len
<1>3. /\ g[0] = 0 /\ SumSeq(t) = g[len + 1]
      /\ \A n \in 1..(len + 1) : g[n] = g[n - 1] + t[n]
  BY <1>1 DEF Summing
<1> DEFINE I == {n \in 0..len : g[n] = f[n]}
<1>4. 0 \in I
  BY <1>1, <1>2, <1>3
<1>5. \A n \in 1..len : n - 1 \in I => n \in I
  <2> SUFFICES ASSUME NEW n \in 1..len, g[n - 1] = f[n - 1] PROVE g[n] = f[n]
    BY <1>1
  <2>1. n \in 1..(len + 1) /\ t[n] = s[n]
    BY <1>1
  <2>2. f[n] = f[n - 1] + s[n] /\ g[n] = g[n - 1] + t[n]
    BY <1>2, <1>3, <2>1
  <2> QED
    BY <2>1, <2>2
<1>6. \A n \in 0..len : n \in I
  <2> HIDE DEF I
  <2> QED
    BY <1>1, <1>4, <1>5, UpTo
<1>7. g[len] = f[len]
  BY <1>1, <1>6
<1>8. g[len + 1] = g[len] + x
  <2> DEFINE m == len + 1
  <2>1. m \in 1..(len + 1) /\ m - 1 = len
    BY <1>1
  <2> HIDE DEF m
  <2>2. g[m] = g[len] + t[m]
    BY <1>3, <2>1
  <2> QED
    BY <1>1, <2>2 DEF m
<1> QED
  BY <1>2, <1>3, <1>7, <1>8 DEF t

-----------------------------------------------------------------------------
\* A condition on the entries of a list counts at most one more entry when
\* the list grows by one.
LEMMA CountGrows ==
    ASSUME NEW n \in Nat, NEW K \in SUBSET (1..n), NEW L \in SUBSET (1..(n + 1)),
           \A i \in 1..n : i \in K <=> i \in L
    PROVE  /\ Cardinality(K) \in Nat
           /\ Cardinality(L) = Cardinality(K) + (IF n + 1 \in L THEN 1 ELSE 0)
<1>1. IsFiniteSet(K) /\ Cardinality(K) \in Nat
  <2>1. IsFiniteSet(1..n)
    BY FS_Interval
  <2> QED
    BY <2>1, FS_Subset, FS_CardinalityType
<1>2. CASE n + 1 \in L
  <2>1. \A i \in 1..(n + 1) : i \in 1..n \/ i = n + 1
    OBVIOUS
  <2>2. 1..n \subseteq 1..(n + 1) /\ n + 1 \notin 1..n
    OBVIOUS
  <2>3. L = K \cup {n + 1} /\ n + 1 \notin K
    <3> DEFINE D == 1..n
               E == 1..(n + 1)
               m == n + 1
    <3>1. K \subseteq D /\ L \subseteq E /\ m \in L /\ m \notin D /\ \A i \in E : i \in D \/ i = m
      BY <1>2, <2>1, <2>2
    <3>2. \A i \in D : i \in K <=> i \in L
      OBVIOUS
    <3> HIDE DEF D, E, m
    <3>3. L = K \cup {m} /\ m \notin K
      BY <3>1, <3>2
    <3> QED
      BY <3>3 DEF m
  <2> QED
    BY <1>1, <1>2, <2>3, FS_AddElement
<1>3. CASE n + 1 \notin L
  <2>1. \A i \in L : i \in 1..n
    BY <1>3
  <2>2. K \subseteq 1..n
    OBVIOUS
  <2>3. L = K
    <3> DEFINE D == 1..n
    <3>1. /\ \A i \in D : i \in K <=> i \in L
          /\ \A i \in L : i \in D
          /\ K \subseteq D
      BY <2>1, <2>2
    <3> HIDE DEF D
    <3> QED
      BY <3>1
  <2> QED
    BY <1>1, <1>3, <2>3
<1> QED
  BY <1>2, <1>3

\* p[k] is the place in s of the k-th entry of the sorted list.
Sorting(p, s, score) ==
    /\ p \in [1..Len(s) -> 1..Len(s)]
    /\ SortedBy(s, score) = [k \in 1..Len(s) |-> s[p[k]]]
    /\ \A k, l \in 1..Len(s) : k < l => score[p[k]] >= score[p[l]]

LEMMA SortedFacts ==
    ASSUME NEW S, NEW s \in Seq(S), NEW score, \A i \in 1..Len(s) : score[i] \in Int
    PROVE  \E p : Sorting(p, s, score)
<1> DEFINE n == Len(s)
           D == 1..n
           Before(i, j) == score[i] > score[j] \/ (score[i] = score[j] /\ i < j)
           Ahead(i) == {j \in D : Before(j, i)}
           rank == [i \in D |-> Cardinality(Ahead(i))]
<1>1. n \in Nat /\ DOMAIN s = D /\ \A i \in D : i \in Nat /\ score[i] \in Int
  OBVIOUS
<1>2. IsFiniteSet(D) /\ Cardinality(D) = n
  BY <1>1, FS_Interval
<1>3. \A i, j \in D : /\ ~Before(i, i)
                      /\ i # j => Before(i, j) \/ Before(j, i)
                      /\ Before(i, j) => score[i] >= score[j] /\ ~Before(j, i)
  BY <1>1
<1>4. \A i, j, k \in D : Before(i, j) /\ Before(j, k) => Before(i, k)
  BY <1>1
<1> DEFINE At(k) == CHOOSE i \in D : Cardinality(Ahead(i)) = k - 1
<1>5. SortedBy(s, score) = [k \in D |-> s[At(k)]]
  BY <1>1 DEF SortedBy
<1> HIDE DEF Before, D
<1>6. \A i \in D : /\ IsFiniteSet(Ahead(i)) /\ Cardinality(Ahead(i)) \in 0..(n - 1)
  <2> SUFFICES ASSUME NEW i \in D PROVE IsFiniteSet(Ahead(i)) /\ Cardinality(Ahead(i)) \in 0..(n - 1)
    OBVIOUS
  <2>1. Ahead(i) \in SUBSET D /\ i \notin Ahead(i)
    BY <1>3
  <2> HIDE DEF Ahead
  <2>2. /\ IsFiniteSet(Ahead(i)) /\ Cardinality(Ahead(i)) <= n
        /\ Cardinality(Ahead(i)) # n
    BY <1>2, <2>1, FS_Subset
  <2>3. Cardinality(Ahead(i)) \in Nat
    BY <2>2, FS_CardinalityType
  <2> QED
    BY <1>1, <2>2, <2>3
<1>7. \A i, j \in D : Before(i, j) => rank[i] < rank[j]
  <2> SUFFICES ASSUME NEW i \in D, NEW j \in D, Before(i, j) PROVE rank[i] < rank[j]
    OBVIOUS
  <2>1. Ahead(i) \subseteq Ahead(j) /\ i \in Ahead(j) /\ i \notin Ahead(i)
    BY <1>3, <1>4
  <2>2. rank[i] = Cardinality(Ahead(i)) /\ rank[j] = Cardinality(Ahead(j))
    OBVIOUS
  <2>3. IsFiniteSet(Ahead(j)) /\ Cardinality(Ahead(i)) \in 0..(n - 1) /\ Cardinality(Ahead(j)) \in 0..(n - 1)
    BY <1>6
  <2> HIDE DEF Ahead, rank
  <2>4. Cardinality(Ahead(i)) <= Cardinality(Ahead(j)) /\ Cardinality(Ahead(i)) # Cardinality(Ahead(j))
    BY <2>1, <2>3, FS_Subset
  <2> QED
    BY <1>1, <2>2, <2>3, <2>4
<1>8. rank \in [D -> 0..(n - 1)] /\ \A i \in D : rank[i] = Cardinality(Ahead(i))
  BY <1>6
<1> HIDE DEF rank, Ahead
<1>9. \A k \in D : \E i \in D : rank[i] = k - 1
  <2>1. \A i, j \in D : rank[i] = rank[j] => i = j
    <3> SUFFICES ASSUME NEW i \in D, NEW j \in D, i # j PROVE rank[i] # rank[j]
      OBVIOUS
    <3>1. rank[i] < rank[j] \/ rank[j] < rank[i]
      BY <1>3, <1>7
    <3> QED
      BY <1>1, <1>8, <3>1
  <2>2. rank \in Injection(D, 0..(n - 1))
    BY <1>8, <2>1 DEF Injection, IsInjective
  <2>3. IsFiniteSet(0..(n - 1)) /\ Cardinality(0..(n - 1)) = n
    <3> DEFINE m == n - 1
    <3>1. 0 \in Int /\ m \in Int /\ m - 0 + 1 = n /\ (0 > m => n = 0)
      BY <1>1
    <3> HIDE DEF m, n
    <3>2. IsFiniteSet(0..m) /\ Cardinality(0..m) = IF 0 > m THEN 0 ELSE m - 0 + 1
      BY <3>1, FS_Interval
    <3> QED
      BY <3>1, <3>2 DEF m
  <2>4. rank \in Surjection(D, 0..(n - 1))
    BY <1>2, <2>2, <2>3, FS_Injection
  <2>5. \A k \in D : k - 1 \in 0..(n - 1)
    BY <1>1 DEF D
  <2> QED
    BY <2>4, <2>5 DEF Surjection
<1> DEFINE p == [k \in D |-> At(k)]
<1>10. \A k \in D : p[k] \in D /\ rank[p[k]] = k - 1
  BY <1>8, <1>9
<1>11. SortedBy(s, score) = [k \in D |-> s[p[k]]]
  BY <1>5
<1>12. p \in [D -> D]
  BY <1>10
<1> HIDE DEF At, p
<1>13. ASSUME NEW k \in D, NEW l \in D, k < l PROVE score[p[k]] >= score[p[l]]
  <2>1. p[k] \in D /\ p[l] \in D /\ rank[p[k]] = k - 1 /\ rank[p[l]] = l - 1 /\ k \in Nat /\ l \in Nat
    BY <1>1, <1>10
  <2>2. ~(rank[p[l]] < rank[p[k]]) /\ p[k] # p[l]
    BY <1>13, <2>1
  <2>3. Before(p[k], p[l])
    BY <1>3, <1>7, <2>1, <2>2
  <2> QED
    BY <1>3, <2>1, <2>3
<1>14. Sorting(p, s, score)
  BY <1>11, <1>12, <1>13 DEF Sorting, D
<1> QED
  BY <1>14

-----------------------------------------------------------------------------
LEMMA FirstFacts ==
    ASSUME NEW S, NEW s \in Seq(S), NEW n \in Nat
    PROVE  /\ FirstOf(s, n) \in Seq(S) /\ Len(FirstOf(s, n)) <= n
           /\ Len(FirstOf(s, n)) = IF n < Len(s) THEN n ELSE Len(s)
           /\ \A i \in 1..Len(FirstOf(s, n)) : FirstOf(s, n)[i] = s[i]
BY DEF FirstOf, Least

\* A condition some entry meets is met last by some entry.
LEMMA LastPlace ==
    ASSUME NEW n \in Nat, NEW K \in SUBSET (1..n), K # {}
    PROVE  \E i \in K : \A j \in K : j <= i
<1> DEFINE I == {m \in 0..n : (K \cap 1..m # {}) => \E i \in K \cap 1..m : \A j \in K \cap 1..m : j <= i}
<1>1. 0 \in I
  OBVIOUS
<1>2. \A m \in 1..n : m - 1 \in I => m \in I
  <2> SUFFICES ASSUME NEW m \in 1..n, m - 1 \in I, K \cap 1..m # {}
               PROVE  \E i \in K \cap 1..m : \A j \in K \cap 1..m : j <= i
    OBVIOUS
  <2>1. CASE m \in K
    BY <2>1
  <2>2. CASE m \notin K
    <3>1. K \cap 1..m = K \cap 1..(m - 1)
      BY <2>2
    <3> QED
      BY <3>1
  <2> QED
    BY <2>1, <2>2
<1>3. \A m \in 0..n : m \in I
  <2> HIDE DEF I
  <2> QED
    BY <1>1, <1>2, UpTo
<1>4. n \in I /\ K \cap 1..n = K
  <2> DEFINE D == 1..n
  <2>1. n \in 0..n /\ K \subseteq D
    OBVIOUS
  <2> HIDE DEF D
  <2>2. K \cap D = K
    BY <2>1
  <2> USE DEF D
  <2> HIDE DEF I
  <2> QED
    BY <1>3, <2>1, <2>2
<1> QED
  BY <1>4

\* The same of a list of whatever entries.
LEMMA ThoseList ==
    ASSUME NEW s, IsList(s), NEW K
    PROVE  /\ IsList(Those(s, K)) /\ Len(Those(s, K)) \in Nat
           /\ DOMAIN Those(s, K) = 1..Len(Those(s, K))
           /\ \A j \in DOMAIN Those(s, K) : \E i \in DOMAIN s : i \in K /\ Those(s, K)[j] = s[i]
           /\ \A i \in DOMAIN s : i \in K => \E j \in DOMAIN Those(s, K) : Those(s, K)[j] = s[i]
<1> DEFINE S == {s[i] : i \in DOMAIN s}
           t == Those(s, K)
<1>1. s \in Seq(S)
  BY DEF IsList
<1> HIDE DEF S
<1>2. /\ t \in Seq(S)
      /\ \A j \in DOMAIN t : \E i \in DOMAIN s : i \in K /\ t[j] = s[i]
      /\ \A i \in DOMAIN s : i \in K => \E j \in DOMAIN t : t[j] = s[i]
  BY <1>1, ThoseFacts
<1> HIDE DEF t
<1>3. IsList(t)
  BY <1>2, SeqList
<1>4. Len(t) \in Nat /\ DOMAIN t = 1..Len(t)
  BY <1>3, ListFacts
<1> QED
  BY <1>2, <1>3, <1>4 DEF t

\* The first entries of a list are as many of its entries as were asked for.
LEMMA FirstList ==
    ASSUME NEW s, IsList(s), NEW n \in Nat
    PROVE  /\ IsList(FirstOf(s, n)) /\ Len(FirstOf(s, n)) <= n
           /\ DOMAIN FirstOf(s, n) = 1..Len(FirstOf(s, n))
           /\ Len(FirstOf(s, n)) = IF n < Len(s) THEN n ELSE Len(s)
           /\ \A i \in DOMAIN FirstOf(s, n) : i \in DOMAIN s /\ FirstOf(s, n)[i] = s[i]
<1> DEFINE S == {s[i] : i \in DOMAIN s}
           t == FirstOf(s, n)
<1>1. s \in Seq(S)
  BY DEF IsList
<1> HIDE DEF S
<1>2. /\ t \in Seq(S) /\ Len(t) <= n /\ Len(t) = IF n < Len(s) THEN n ELSE Len(s)
      /\ \A i \in 1..Len(t) : t[i] = s[i]
  BY <1>1, FirstFacts
<1>3. Len(s) \in Nat /\ DOMAIN s = 1..Len(s)
  BY ListFacts
<1> HIDE DEF t
<1>4. IsList(t)
  BY <1>2, SeqList
<1>5. Len(t) \in Nat /\ DOMAIN t = 1..Len(t)
  BY <1>4, ListFacts
<1> QED
  BY <1>2, <1>3, <1>4, <1>5 DEF t

\* The first entry in a set is in it, and before every other entry in it.
LEMMA EarliestFacts ==
    ASSUME NEW s, IsList(s), NEW S, NEW i \in DOMAIN s, s[i] \in S
    PROVE  /\ Earliest(s, S) \in S
           /\ i = 1 => Earliest(s, S) = s[1]
<1> DEFINE K == {k \in DOMAIN s : s[k] \in S}
           First(k) == k \in DOMAIN s /\ s[k] \in S /\ \A j \in DOMAIN s : s[j] \in S => k <= j
           len == Len(s)
<1>1. len \in Nat /\ DOMAIN s = 1..len
  BY ListFacts
<1>2. \E k : First(k)
  <2> DEFINE I == {m \in 0..len : (\E k \in 1..m : s[k] \in S) => \E k : First(k)}
  <2>1. 0 \in I
    BY <1>1
  <2>2. \A m \in 1..len : m - 1 \in I => m \in I
    <3> SUFFICES ASSUME NEW m \in 1..len, m - 1 \in I, \E k \in 1..m : s[k] \in S
                 PROVE  \E k : First(k)
      BY <1>1
    <3>1. CASE \E k \in 1..(m - 1) : s[k] \in S
      BY <3>1
    <3>2. CASE ~\E k \in 1..(m - 1) : s[k] \in S
      <4>1. First(m)
        BY <1>1, <3>2
      <4> QED
        BY <4>1
    <3> QED
      BY <3>1, <3>2
  <2> HIDE DEF I
  <2>3. \A m \in 0..len : m \in I
    BY <1>1, <2>1, <2>2, UpTo
  <2> QED
    BY <1>1, <2>3 DEF I
<1> DEFINE k == CHOOSE k \in DOMAIN s : s[k] \in S /\ \A j \in DOMAIN s : s[j] \in S => k <= j
<1>3. First(k)
  BY <1>2
<1>4. Earliest(s, S) = s[k]
  BY DEF Earliest
<1> HIDE DEF k
<1>5. i = 1 => k = 1
  BY <1>1, <1>3
<1> QED
  BY <1>3, <1>4, <1>5
=============================================================================
