---------------------------- MODULE PrefixesProof ----------------------------
EXTENDS Prefixes, SequenceTheorems, WellFoundedInduction, TLAPS

\* A sequence with an element more.
LEMMA AppendAt ==
  ASSUME NEW E, NEW s \in Seq(E), NEW e \in E
  PROVE  /\ Append(s, e) \in Seq(E)
         /\ Append(s, e) = [i \in 1 .. Len(s) + 1 |-> Append(s, e)[i]]
         /\ \A i \in 1 .. Len(s) : Append(s, e)[i] = s[i]
         /\ Append(s, e)[Len(s) + 1] = e
<1>1. /\ Append(s, e) \in Seq(E)
      /\ \A i \in 1 .. Len(s) : Append(s, e)[i] = s[i]
      /\ Append(s, e)[Len(s) + 1] = e /\ Len(Append(s, e)) = Len(s) + 1
  OBVIOUS
<1> DEFINE t == Append(s, e)
<1>2. t \in [1 .. Len(t) -> E]
  BY <1>1, LenProperties, Zenon
<1> HIDE DEF t
<1>3. t = [i \in 1 .. Len(t) |-> t[i]]
  BY <1>2, Zenon
<1> QED
  BY <1>1, <1>3 DEF t

\* Induction up to n: what holds of 0, and of i if of i - 1, holds of all.
LEMMA UpTo ==
  ASSUME NEW n \in Nat, NEW P, 0 \in P, \A i \in 1 .. n : i - 1 \in P => i \in P
  PROVE  0 .. n \subseteq P
<1> DEFINE T == {i \in 0 .. n : i \notin P}
           R == OpToRel(<, Nat)
<1>1. SUFFICES ASSUME T # {} PROVE FALSE
  OBVIOUS
<1>2. PICK x \in T : \A y \in T : ~ (<<y, x>> \in R)
  <2>1. T \subseteq Nat
    OBVIOUS
  <2>2. IsWellFoundedOn(R, Nat)
    BY NatLessThanWellFounded
  <2> HIDE DEF R, T
  <2> QED
    BY <1>1, <2>1, <2>2, WFMin
<1>3. x \in 1 .. n /\ x \in Nat /\ x - 1 \in Nat /\ x - 1 \in 0 .. n /\ x - 1 < x
  OBVIOUS
<1>4. ASSUME x - 1 \in T PROVE FALSE
  <2>1. ~ (<<x - 1, x>> \in R)
    BY <1>2, <1>4
  <2>2. ~ (x - 1 < x)
    BY <1>3, <2>1 DEF OpToRel
  <2> QED
    BY <1>3, <2>2
<1> QED
  BY <1>3, <1>4

\* f has the value before the first of n steps, and the value after each.
Goes(f, base, step, n) == f[0] = base /\ \A i \in 1 .. n : f[i] = step[<<i, f[i - 1]>>]

\* Any steps can be gone through.
LEMMA Recursion ==
  ASSUME NEW n \in Nat, NEW V, NEW base \in V, NEW step \in [(1 .. n) \X V -> V]
  PROVE  \E f \in [0 .. n -> V] : Goes(f, base, step, n)
<1> DEFINE P == {m \in 0 .. n : \E f \in [0 .. n -> V] : Goes(f, base, step, m)}
<1>1. 0 \in P
  <2> DEFINE f == [i \in 0 .. n |-> base]
  <2>1. f \in [0 .. n -> V] /\ Goes(f, base, step, 0)
    BY DEF Goes
  <2> HIDE DEF f
  <2> QED
    BY <2>1
<1>2. ASSUME NEW m \in 1 .. n, m - 1 \in P PROVE m \in P
  <2>1. PICK f \in [0 .. n -> V] : Goes(f, base, step, m - 1)
    BY <1>2
  <2>2. m - 1 \in 0 .. n /\ f[m - 1] \in V
    OBVIOUS
  <2>3. step[<<m, f[m - 1]>>] \in V
    BY <2>2
  <2> DEFINE v == step[<<m, f[m - 1]>>]
             g == [f EXCEPT ![m] = v]
  <2> HIDE DEF v
  <2>4. g \in [0 .. n -> V] /\ g[m] = v /\ \A i \in 0 .. n : i # m => g[i] = f[i]
    BY <2>3 DEF v
  <2> HIDE DEF g
  <2>5. g[0] = base /\ g[m - 1] = f[m - 1]
    BY <2>1, <2>2, <2>4 DEF Goes
  <2>6. ASSUME NEW i \in 1 .. m PROVE g[i] = step[<<i, g[i - 1]>>]
    <3>1. CASE i = m
      BY <2>4, <2>5, <3>1 DEF v
    <3>2. CASE i # m
      <4>1. i \in 1 .. m - 1 /\ i \in 0 .. n /\ i - 1 \in 0 .. n /\ i - 1 # m
        BY <3>2
      <4>2. g[i] = f[i] /\ g[i - 1] = f[i - 1]
        BY <2>4, <3>2, <4>1
      <4>3. f[i] = step[<<i, f[i - 1]>>]
        BY <2>1, <4>1 DEF Goes
      <4> QED
        BY <4>2, <4>3
    <3> QED
      BY <3>1, <3>2
  <2>7. Goes(g, base, step, m)
    BY <2>5, <2>6 DEF Goes
  <2> QED
    BY <2>4, <2>7
<1> HIDE DEF P
<1>3. 0 .. n \subseteq P
  BY <1>1, <1>2, UpTo
<1>4. n \in P
  BY <1>3
<1> QED
  BY <1>4 DEF P

\* The sums of numbers are numbers, each by one element more than the last.
LEMMA SumsSteps ==
  ASSUME NEW s \in Seq(Nat)
  PROVE  /\ Sums(s) \in [0 .. Len(s) -> Nat]
         /\ Sums(s)[0] = 0
         /\ \A i \in 1 .. Len(s) : Sums(s)[i] = Sums(s)[i - 1] + s[i]
<1> DEFINE n == Len(s)
           Is(f) == f = [i \in 0 .. n |-> IF i = 0 THEN 0 ELSE f[i - 1] + s[i]]
<1>1. n \in Nat /\ \A i \in 1 .. n : s[i] \in Nat
  OBVIOUS
<1>2. \E f \in [0 .. n -> Nat] : Is(f)
  <2> DEFINE step == [p \in (1 .. n) \X Nat |-> p[2] + s[p[1]]]
             base == 0
  <2> HIDE DEF n
  <2>1. step \in [(1 .. n) \X Nat -> Nat] /\ base \in Nat
    BY <1>1
  <2>2. \A i \in 1 .. n, v \in Nat : step[<<i, v>>] = v + s[i]
    BY <1>1
  <2> HIDE DEF step, base
  <2>3. \E f \in [0 .. n -> Nat] : Goes(f, base, step, n)
    BY <1>1, <2>1, Recursion, Zenon
  <2>4. PICK f \in [0 .. n -> Nat] : Goes(f, base, step, n)
    BY <2>3
  <2>5. ASSUME NEW i \in 1 .. n PROVE f[i] = f[i - 1] + s[i]
    <3>1. i - 1 \in 0 .. n
      BY <1>1
    <3>2. f[i - 1] \in Nat
      BY <3>1
    <3>3. f[i] = step[<<i, f[i - 1]>>]
      BY <2>4 DEF Goes
    <3> QED
      BY <2>2, <3>2, <3>3
  <2>6. f[0] = 0
    BY <2>4 DEF Goes, base
  <2>7. f = [i \in 0 .. n |-> IF i = 0 THEN 0 ELSE f[i - 1] + s[i]]
    BY <1>1, <2>5, <2>6
  <2> QED
    BY <2>7
<1>3. Is(Sums(s))
  BY <1>2, Zenon DEF Sums
<1> DEFINE F == Sums(s)
<1> HIDE DEF F
<1>4. /\ F = [i \in 0 .. n |-> F[i]]
      /\ F[0] = 0
      /\ \A i \in 1 .. n : F[i] = F[i - 1] + s[i]
  <2>1. F = [i \in 0 .. n |-> IF i = 0 THEN 0 ELSE F[i - 1] + s[i]]
    BY <1>3 DEF F
  <2> HIDE DEF n
  <2>2. ASSUME NEW i \in 0 .. n PROVE F[i] = IF i = 0 THEN 0 ELSE F[i - 1] + s[i]
    BY <2>1, Zenon
  <2>3. F = [i \in 0 .. n |-> F[i]]
    BY <2>1, Zenon
  <2>4. \A i \in 1 .. n : i \in 0 .. n /\ i # 0
    BY <1>1
  <2>5. 0 \in 0 .. n
    BY <1>1
  <2>6. F[0] = 0
    BY <2>2, <2>5, Zenon
  <2>7. \A i \in 1 .. n : F[i] = F[i - 1] + s[i]
    BY <2>2, <2>4, Zenon
  <2> QED
    BY <2>3, <2>6, <2>7, Zenon
<1>5. \A i \in 0 .. n : F[i] \in Nat
  <2> DEFINE P == {i \in 0 .. n : F[i] \in Nat}
  <2> HIDE DEF n
  <2>1. 0 \in P
    BY <1>1, <1>4
  <2>2. ASSUME NEW i \in 1 .. n, i - 1 \in P PROVE i \in P
    <3>1. F[i - 1] \in Nat
      BY <2>2
    <3>2. F[i] = F[i - 1] + s[i]
      BY <1>4
    <3>3. s[i] \in Nat
      BY <1>1
    <3>4. i \in 0 .. n
      BY <1>1
    <3> QED
      BY <3>1, <3>2, <3>3, <3>4
  <2> HIDE DEF P
  <2>3. 0 .. n \subseteq P
    BY <1>1, <2>1, <2>2, UpTo
  <2> QED
    BY <2>3 DEF P
<1>6. F \in [0 .. n -> Nat]
  <2> HIDE DEF n
  <2> QED
    BY <1>4, <1>5
<1> QED
  BY <1>4, <1>6 DEF F

\* The sums of two sequences are the same as far as these are.
LEMMA SumsAgree ==
  ASSUME NEW s \in Seq(Nat), NEW t \in Seq(Nat), NEW n \in Nat, n <= Len(s), n <= Len(t),
         \A i \in 1 .. n : s[i] = t[i]
  PROVE  \A i \in 0 .. n : Sums(s)[i] = Sums(t)[i]
<1> DEFINE P == {i \in 0 .. n : Sums(s)[i] = Sums(t)[i]}
<1>1. 0 \in P
  BY SumsSteps
<1>2. ASSUME NEW i \in 1 .. n, i - 1 \in P PROVE i \in P
  <2>1. i \in 1 .. Len(s) /\ i \in 1 .. Len(t) /\ i \in 0 .. n
    OBVIOUS
  <2>2. Sums(s)[i] = Sums(s)[i - 1] + s[i] /\ Sums(t)[i] = Sums(t)[i - 1] + t[i]
    BY <2>1, SumsSteps
  <2> QED
    BY <1>2, <2>1, <2>2
<1> HIDE DEF P
<1>3. 0 .. n \subseteq P
  BY <1>1, <1>2, UpTo
<1> QED
  BY <1>3 DEF P

\* One element more.
LEMMA SumsAppend ==
  ASSUME NEW s \in Seq(Nat), NEW e \in Nat
  PROVE  /\ \A i \in 0 .. Len(s) : Sums(Append(s, e))[i] = Sums(s)[i]
         /\ Sums(Append(s, e))[Len(s) + 1] = Sums(s)[Len(s)] + e
<1> DEFINE t == Append(s, e)
           n == Len(s)
<1>1. /\ n \in Nat /\ t \in Seq(Nat) /\ Len(t) = n + 1
      /\ t[n + 1] = e /\ \A i \in 1 .. n : s[i] = t[i]
  OBVIOUS
<1> HIDE DEF t
<1>2. \A i \in 0 .. n : Sums(s)[i] = Sums(t)[i]
  <2>1. n <= Len(s) /\ n <= Len(t)
    BY <1>1
  <2> HIDE DEF n
  <2> QED
    BY <1>1, <2>1, SumsAgree
<1>3. \A i \in 1 .. Len(t) : Sums(t)[i] = Sums(t)[i - 1] + t[i]
  BY <1>1, SumsSteps
<1> HIDE DEF n
<1>4. PICK m \in 1 .. Len(t) : m = n + 1 /\ m - 1 = n
  BY <1>1
<1>5. Sums(t)[n + 1] = Sums(t)[n] + t[n + 1]
  BY <1>3, <1>4, Zenon
<1>6. n \in 0 .. n
  BY <1>1
<1> QED
  BY <1>1, <1>2, <1>5, <1>6 DEF t, n

\* The sum grows with the number of elements.
LEMMA SumsGrow ==
  ASSUME NEW s \in Seq(Nat), NEW k \in 0 .. Len(s), NEW i \in k .. Len(s)
  PROVE  Sums(s)[k] <= Sums(s)[i]
<1> DEFINE P == {j \in 0 .. i : k <= j => Sums(s)[k] <= Sums(s)[j]}
<1>1. Len(s) \in Nat /\ i \in Nat /\ \A j \in 0 .. i : Sums(s)[j] \in Nat
  <2> DEFINE F == Sums(s)
  <2>1. F \in [0 .. Len(s) -> Nat]
    BY SumsSteps, Zenon
  <2>2. Len(s) \in Nat
    OBVIOUS
  <2>3. i \in Nat /\ \A j \in 0 .. i : j \in 0 .. Len(s)
    BY <2>2
  <2> HIDE DEF F
  <2>4. \A j \in 0 .. i : F[j] \in Nat
    BY ONLY <2>1, <2>3
  <2> QED
    BY <2>2, <2>3, <2>4, Zenon DEF F
<1>2. 0 \in P
  BY <1>1
<1>3. ASSUME NEW j \in 1 .. i, j - 1 \in P PROVE j \in P
  <2>1. j \in 1 .. Len(s) /\ j \in 0 .. i /\ j - 1 \in 0 .. i /\ s[j] \in Nat
    BY <1>1
  <2>2. Sums(s)[j] = Sums(s)[j - 1] + s[j]
    BY <2>1, SumsSteps
  <2>3. Sums(s)[j - 1] \in Nat /\ Sums(s)[j] \in Nat
    BY <1>1, <2>1
  <2>4. Sums(s)[j - 1] <= Sums(s)[j]
    BY <2>1, <2>2, <2>3
  <2>5. CASE k = j
    BY <2>1, <2>3, <2>5
  <2>6. CASE k # j
    BY <1>1, <1>3, <2>1, <2>3, <2>4, <2>6
  <2> QED
    BY <2>5, <2>6
<1> HIDE DEF P
<1>4. 0 .. i \subseteq P
  BY <1>1, <1>2, <1>3, UpTo
<1> QED
  BY <1>4 DEF P

\* The turns of picking, an element after the other.
PicksGo(E, s, S) ==
  /\ Picks(s, S) \in [0 .. Len(s) -> Seq(E)]
  /\ Picks(s, S)[0] = <<>>
  /\ \A i \in 1 .. Len(s) :
       /\ i \in S => Picks(s, S)[i] = Append(Picks(s, S)[i - 1], s[i])
       /\ i \notin S => Picks(s, S)[i] = Picks(s, S)[i - 1]

\* The elements picked are a sequence of elements, each place adds its own or nothing.
LEMMA PicksSteps ==
  ASSUME NEW E, NEW s \in Seq(E), NEW S
  PROVE  PicksGo(E, s, S)
<1> DEFINE n == Len(s)
           V == Seq(E)
           Turn(i, v) == IF i \in S THEN Append(v, s[i]) ELSE v
           base == <<>>
           Is(f) == f = [i \in 0 .. n |-> IF i = 0 THEN base ELSE Turn(i, f[i - 1])]
<1>1. n \in Nat /\ base \in V /\ \A i \in 1 .. n, v \in V : Turn(i, v) \in V
  OBVIOUS
<1>2. \E f \in [0 .. n -> V] : Is(f)
  <2> HIDE DEF n, V, Turn, base
  <2> DEFINE step == [p \in (1 .. n) \X V |-> Turn(p[1], p[2])]
  <2>1. step \in [(1 .. n) \X V -> V]
    BY <1>1
  <2>2. \A i \in 1 .. n, v \in V : step[<<i, v>>] = Turn(i, v)
    OBVIOUS
  <2> HIDE DEF step
  <2>3. \E f \in [0 .. n -> V] : Goes(f, base, step, n)
    BY <1>1, <2>1, Recursion, Zenon
  <2>4. PICK f \in [0 .. n -> V] : Goes(f, base, step, n)
    BY <2>3
  <2>5. ASSUME NEW i \in 1 .. n PROVE f[i] = Turn(i, f[i - 1])
    <3>1. i - 1 \in 0 .. n
      BY <1>1
    <3>2. f[i - 1] \in V
      BY <3>1
    <3>3. f[i] = step[<<i, f[i - 1]>>]
      BY <2>4 DEF Goes
    <3> QED
      BY <2>2, <3>2, <3>3
  <2>6. f[0] = base
    BY <2>4 DEF Goes
  <2>7. f = [i \in 0 .. n |-> IF i = 0 THEN base ELSE Turn(i, f[i - 1])]
    BY <1>1, <2>5, <2>6
  <2> QED
    BY <2>7
<1>3. Is(Picks(s, S))
  BY <1>2, Zenon DEF Picks
<1> DEFINE F == Picks(s, S)
<1> HIDE DEF F
<1>4. /\ F = [i \in 0 .. n |-> F[i]]
      /\ F[0] = base
      /\ \A i \in 1 .. n : F[i] = Turn(i, F[i - 1])
  <2> HIDE DEF Turn, base
  <2>1. F = [i \in 0 .. n |-> IF i = 0 THEN base ELSE Turn(i, F[i - 1])]
    BY <1>3 DEF F
  <2> HIDE DEF n
  <2>2. ASSUME NEW i \in 0 .. n PROVE F[i] = IF i = 0 THEN base ELSE Turn(i, F[i - 1])
    BY <2>1, Zenon
  <2>3. DOMAIN F = 0 .. n
    BY <2>1, Zenon
  <2>4. F = [i \in 0 .. n |-> F[i]]
    BY <2>1, <2>2
  <2>5. 0 \in 0 .. n /\ \A i \in 1 .. n : i \in 0 .. n /\ i # 0
    BY <1>1
  <2>6. F[0] = base /\ \A i \in 1 .. n : F[i] = Turn(i, F[i - 1])
    BY <2>2, <2>5, Zenon
  <2> QED
    BY <2>4, <2>6
<1>5. \A i \in 0 .. n : F[i] \in V
  <2> DEFINE P == {i \in 0 .. n : F[i] \in V}
  <2> HIDE DEF n, V, Turn, base
  <2>1. 0 \in P
    BY <1>1, <1>4
  <2>2. ASSUME NEW i \in 1 .. n, i - 1 \in P PROVE i \in P
    <3>1. F[i - 1] \in V
      BY <2>2
    <3>2. F[i] = Turn(i, F[i - 1])
      BY <1>4
    <3>3. i \in 0 .. n
      BY <1>1
    <3> QED
      BY <1>1, <3>1, <3>2, <3>3
  <2> HIDE DEF P
  <2>3. 0 .. n \subseteq P
    BY <1>1, <2>1, <2>2, UpTo
  <2> QED
    BY <2>3 DEF P
<1>6. F \in [0 .. n -> V]
  <2> HIDE DEF n, V, Turn, base
  <2> QED
    BY <1>4, <1>5
<1>7. \A i \in 1 .. n : /\ i \in S => F[i] = Append(F[i - 1], s[i])
                        /\ i \notin S => F[i] = F[i - 1]
  <2> HIDE DEF n, V, base
  <2> QED
    BY <1>4
<1> HIDE DEF Turn, Is
<1> QED
  BY <1>4, <1>6, <1>7, Zenon DEF F, n, V, base, PicksGo

\* What is picked from two sequences is the same as far as the sequences and the places are.
LEMMA PicksAgree ==
  ASSUME NEW E, NEW s \in Seq(E), NEW t \in Seq(E), NEW S, NEW T,
         NEW n \in Nat, n <= Len(s), n <= Len(t),
         \A i \in 1 .. n : s[i] = t[i] /\ (i \in S <=> i \in T)
  PROVE  \A i \in 0 .. n : Picks(s, S)[i] = Picks(t, T)[i]
<1> DEFINE P == {i \in 0 .. n : Picks(s, S)[i] = Picks(t, T)[i]}
<1> USE DEF PicksGo
<1>1. 0 \in P
  BY PicksSteps
<1>2. ASSUME NEW i \in 1 .. n, i - 1 \in P PROVE i \in P
  <2>1. i \in 1 .. Len(s) /\ i \in 1 .. Len(t) /\ i \in 0 .. n
    OBVIOUS
  <2>2. Picks(s, S)[i - 1] = Picks(t, T)[i - 1] /\ s[i] = t[i] /\ (i \in S <=> i \in T)
    BY <1>2
  <2>3. CASE i \in S
    <3>1. Picks(s, S)[i] = Append(Picks(s, S)[i - 1], s[i])
      BY <2>1, <2>3, PicksSteps
    <3>2. Picks(t, T)[i] = Append(Picks(t, T)[i - 1], t[i])
      BY <2>1, <2>2, <2>3, PicksSteps
    <3> QED
      BY <2>1, <2>2, <3>1, <3>2
  <2>4. CASE i \notin S
    <3>1. Picks(s, S)[i] = Picks(s, S)[i - 1]
      BY <2>1, <2>4, PicksSteps
    <3>2. Picks(t, T)[i] = Picks(t, T)[i - 1]
      BY <2>1, <2>2, <2>4, PicksSteps
    <3> QED
      BY <2>1, <2>2, <3>1, <3>2
  <2> QED
    BY <2>3, <2>4
<1> HIDE DEF P
<1>3. 0 .. n \subseteq P
  BY <1>1, <1>2, UpTo
<1> QED
  BY <1>3 DEF P

\* One element more.
LEMMA PicksAppend ==
  ASSUME NEW E, NEW s \in Seq(E), NEW e \in E, NEW S, NEW T,
         \A i \in 1 .. Len(s) : i \in S <=> i \in T
  PROVE  /\ \A i \in 0 .. Len(s) : Picks(Append(s, e), T)[i] = Picks(s, S)[i]
         /\ Len(s) + 1 \in T =>
              Picks(Append(s, e), T)[Len(s) + 1] = Append(Picks(s, S)[Len(s)], e)
         /\ Len(s) + 1 \notin T => Picks(Append(s, e), T)[Len(s) + 1] = Picks(s, S)[Len(s)]
<1> DEFINE t == Append(s, e)
           n == Len(s)
<1>1. /\ n \in Nat /\ t \in Seq(E) /\ Len(t) = n + 1
      /\ t[n + 1] = e /\ \A i \in 1 .. n : s[i] = t[i]
  OBVIOUS
<1> HIDE DEF t
<1>2. \A i \in 0 .. n : Picks(s, S)[i] = Picks(t, T)[i]
  <2>1. n <= Len(s) /\ n <= Len(t)
    BY <1>1
  <2> HIDE DEF n
  <2> QED
    BY <1>1, <2>1, PicksAgree
<1>3. \A i \in 1 .. Len(t) : /\ i \in T => Picks(t, T)[i] = Append(Picks(t, T)[i - 1], t[i])
                             /\ i \notin T => Picks(t, T)[i] = Picks(t, T)[i - 1]
  <2>1. t \in Seq(E)
    BY <1>1
  <2> HIDE DEF t
  <2>2. PicksGo(E, t, T)
    BY <2>1, PicksSteps, Zenon
  <2> QED
    BY <2>2, Zenon DEF PicksGo
<1> HIDE DEF n
<1>4. PICK m \in 1 .. Len(t) : m = n + 1 /\ m - 1 = n
  BY <1>1
<1>5. /\ n + 1 \in T => Picks(t, T)[n + 1] = Append(Picks(t, T)[n], t[n + 1])
      /\ n + 1 \notin T => Picks(t, T)[n + 1] = Picks(t, T)[n]
  BY <1>3, <1>4, Zenon
<1>6. n \in 0 .. n
  BY <1>1
<1> QED
  BY <1>1, <1>2, <1>5, <1>6 DEF t, n

\* The turns of joining, a sequence after the other.
JoinsGo(E, d, sep) ==
  /\ Joins(d, sep) \in [0 .. Len(d) -> Seq(E)]
  /\ Joins(d, sep)[0] = <<>>
  /\ Len(d) > 0 => Joins(d, sep)[1] = d[1]
  /\ \A i \in 2 .. Len(d) : Joins(d, sep)[i] = Joins(d, sep)[i - 1] \o sep \o d[i]

\* The sequences joined are a sequence of their elements; each adds its own.
LEMMA JoinsSteps ==
  ASSUME NEW E, NEW d \in Seq(Seq(E)), NEW sep \in Seq(E)
  PROVE  JoinsGo(E, d, sep)
<1> DEFINE n == Len(d)
           V == Seq(E)
           Turn(i, v) == IF i = 1 THEN d[1] ELSE v \o sep \o d[i]
           base == <<>>
           Is(f) == f = [i \in 0 .. n |-> IF i = 0 THEN base ELSE Turn(i, f[i - 1])]
<1>1. n \in Nat /\ base \in V /\ \A i \in 1 .. n, v \in V : Turn(i, v) \in V
  <2>1. \A i \in 1 .. n : d[i] \in V
    BY ElementOfSeq, Zenon
  <2>2. n \in Nat
    OBVIOUS
  <2> HIDE DEF n
  <2>3. ASSUME NEW i \in 1 .. n, NEW v \in V PROVE Turn(i, v) \in V
    BY <2>1, <2>2
  <2> QED
    BY <2>2, <2>3
<1>2. \E f \in [0 .. n -> V] : Is(f)
  <2> HIDE DEF n, V, Turn, base
  <2> DEFINE step == [p \in (1 .. n) \X V |-> Turn(p[1], p[2])]
  <2>1. step \in [(1 .. n) \X V -> V]
    BY <1>1
  <2>2. \A i \in 1 .. n, v \in V : step[<<i, v>>] = Turn(i, v)
    OBVIOUS
  <2> HIDE DEF step
  <2>3. \E f \in [0 .. n -> V] : Goes(f, base, step, n)
    BY <1>1, <2>1, Recursion, Zenon
  <2>4. PICK f \in [0 .. n -> V] : Goes(f, base, step, n)
    BY <2>3
  <2>5. ASSUME NEW i \in 1 .. n PROVE f[i] = Turn(i, f[i - 1])
    <3>1. i - 1 \in 0 .. n
      BY <1>1
    <3>2. f[i - 1] \in V
      BY <3>1
    <3>3. f[i] = step[<<i, f[i - 1]>>]
      BY <2>4 DEF Goes
    <3> QED
      BY <2>2, <3>2, <3>3
  <2>6. f[0] = base
    BY <2>4 DEF Goes
  <2>7. f = [i \in 0 .. n |-> IF i = 0 THEN base ELSE Turn(i, f[i - 1])]
    BY <1>1, <2>5, <2>6
  <2> QED
    BY <2>7
<1>3. Is(Joins(d, sep))
  BY <1>2, Zenon DEF Joins
<1> DEFINE F == Joins(d, sep)
<1> HIDE DEF F
<1>4. /\ F = [i \in 0 .. n |-> F[i]]
      /\ F[0] = base
      /\ \A i \in 1 .. n : F[i] = Turn(i, F[i - 1])
  <2> HIDE DEF Turn, base
  <2>1. F = [i \in 0 .. n |-> IF i = 0 THEN base ELSE Turn(i, F[i - 1])]
    BY <1>3 DEF F
  <2> HIDE DEF n
  <2>2. ASSUME NEW i \in 0 .. n PROVE F[i] = IF i = 0 THEN base ELSE Turn(i, F[i - 1])
    BY <2>1, Zenon
  <2>3. DOMAIN F = 0 .. n
    BY <2>1, Zenon
  <2>4. F = [i \in 0 .. n |-> F[i]]
    BY <2>1, <2>2
  <2>5. 0 \in 0 .. n /\ \A i \in 1 .. n : i \in 0 .. n /\ i # 0
    BY <1>1
  <2>6. F[0] = base /\ \A i \in 1 .. n : F[i] = Turn(i, F[i - 1])
    BY <2>2, <2>5, Zenon
  <2> QED
    BY <2>4, <2>6
<1>5. \A i \in 0 .. n : F[i] \in V
  <2> DEFINE P == {i \in 0 .. n : F[i] \in V}
  <2> HIDE DEF n, V, Turn, base
  <2>1. 0 \in P
    BY <1>1, <1>4
  <2>2. ASSUME NEW i \in 1 .. n, i - 1 \in P PROVE i \in P
    <3>1. F[i - 1] \in V
      BY <2>2
    <3>2. F[i] = Turn(i, F[i - 1])
      BY <1>4
    <3>3. i \in 0 .. n
      BY <1>1
    <3> QED
      BY <1>1, <3>1, <3>2, <3>3
  <2> HIDE DEF P
  <2>3. 0 .. n \subseteq P
    BY <1>1, <2>1, <2>2, UpTo
  <2> QED
    BY <2>3 DEF P
<1>6. F \in [0 .. n -> V]
  <2> HIDE DEF n, V, Turn, base
  <2> QED
    BY <1>4, <1>5
<1>7. /\ n > 0 => F[1] = d[1]
      /\ \A i \in 2 .. n : F[i] = F[i - 1] \o sep \o d[i]
  <2> HIDE DEF n, V, base
  <2>1. n > 0 => 1 \in 1 .. n
    BY <1>1
  <2>2. \A i \in 2 .. n : i \in 1 .. n /\ i # 1
    BY <1>1
  <2> QED
    BY <1>4, <2>1, <2>2, Zenon
<1> HIDE DEF Turn, Is
<1> QED
  BY <1>4, <1>6, <1>7, Zenon DEF F, n, V, base, JoinsGo

\* One sequence more.
LEMMA JoinsAppend ==
  ASSUME NEW E, NEW d \in Seq(Seq(E)), NEW x \in Seq(E), NEW sep \in Seq(E)
  PROVE  Joins(Append(d, x), sep)[Len(d) + 1]
           = IF d = <<>> THEN x ELSE Joins(d, sep)[Len(d)] \o sep \o x
<1> DEFINE t == Append(d, x)
           n == Len(d)
           F == Joins(d, sep)
           G == Joins(t, sep)
<1>1. /\ n \in Nat /\ t \in Seq(Seq(E)) /\ Len(t) = n + 1
      /\ t[n + 1] = x /\ \A i \in 1 .. n : t[i] = d[i]
  <2> DEFINE S == Seq(E)
  <2> HIDE DEF S
  <2>1. d \in Seq(S) /\ x \in S
    BY DEF S
  <2>2. /\ n \in Nat /\ t \in Seq(S) /\ Len(t) = n + 1
        /\ t[n + 1] = x /\ \A i \in 1 .. n : t[i] = d[i]
    BY <2>1
  <2> QED
    BY <2>2 DEF S
<1>2. n = 0 <=> d = <<>>
  OBVIOUS
<1> HIDE DEF t
<1>3. /\ F[0] = <<>> /\ (n > 0 => F[1] = d[1])
      /\ \A i \in 2 .. n : F[i] = F[i - 1] \o sep \o d[i]
  <2>1. JoinsGo(E, d, sep)
    BY JoinsSteps, Zenon
  <2> QED
    BY <2>1, Zenon DEF JoinsGo
<1>4. /\ G[0] = <<>> /\ (n + 1 > 0 => G[1] = t[1])
      /\ \A i \in 2 .. n + 1 : G[i] = G[i - 1] \o sep \o t[i]
  <2>1. /\ G[0] = <<>> /\ (Len(t) > 0 => G[1] = t[1])
        /\ \A i \in 2 .. Len(t) : G[i] = G[i - 1] \o sep \o t[i]
    <3>1. JoinsGo(E, t, sep)
      BY <1>1, JoinsSteps, Zenon
    <3> QED
      BY <3>1, Zenon DEF JoinsGo
  <2> HIDE DEF G
  <2> QED
    BY <1>1, <2>1, Zenon
<1> HIDE DEF F, G, n
<1> DEFINE P == {i \in 0 .. n : F[i] = G[i]}
<1>5. 0 \in P
  BY <1>1, <1>3, <1>4
<1>6. ASSUME NEW i \in 1 .. n, i - 1 \in P PROVE i \in P
  <2>1. i \in 0 .. n /\ F[i - 1] = G[i - 1] /\ t[i] = d[i]
    BY <1>1, <1>6
  <2>2. CASE i = 1
    <3>1. n > 0 /\ n + 1 > 0
      BY <1>1
    <3>2. F[i] = G[i]
      BY <1>3, <1>4, <2>1, <2>2, <3>1, Zenon
    <3> QED
      BY <2>1, <3>2
  <2>3. CASE i # 1
    <3>1. i \in 2 .. n /\ i \in 2 .. n + 1
      BY <1>1, <2>3
    <3>2. F[i] = G[i]
      BY <1>3, <1>4, <2>1, <3>1, Zenon
    <3> QED
      BY <2>1, <3>2
  <2> QED
    BY <2>2, <2>3
<1> HIDE DEF P
<1>7. 0 .. n \subseteq P
  BY <1>1, <1>5, <1>6, UpTo
<1>8. F[n] = G[n]
  BY <1>1, <1>7 DEF P
<1>9. CASE d = <<>>
  <2>1. n + 1 = 1 /\ n + 1 > 0
    BY <1>2, <1>9
  <2>2. G[n + 1] = x
    BY <1>1, <1>4, <2>1, Zenon
  <2> QED
    BY <1>9, <2>2, Zenon DEF G, t, n
<1>10. CASE d # <<>>
  <2>1. n + 1 \in 2 .. n + 1 /\ (n + 1) - 1 = n
    BY <1>1, <1>2, <1>10
  <2>2. G[n + 1] = F[n] \o sep \o x
    BY <1>1, <1>4, <1>8, <2>1, Zenon
  <2> QED
    BY <1>10, <2>2, Zenon DEF G, F, t, n
<1> QED
  BY <1>9, <1>10

\* Induction over sequences: what holds of the empty one, and of one that is longer by an
\* element, holds of all.
LEMMA EverySequence ==
  ASSUME NEW E, NEW P, <<>> \in P, \A s \in Seq(E) : s \in P => \A e \in E : Append(s, e) \in P
  PROVE  Seq(E) \subseteq P
<1> SUFFICES ASSUME NEW s \in Seq(E) PROVE s \in P
  OBVIOUS
<1> DEFINE n == Len(s)
           T == {i \in 0 .. n : SubSeq(s, 1, i) \in P}
<1>1. n \in Nat
  OBVIOUS
<1>2. 0 \in T
  <2>1. SubSeq(s, 1, 0) = <<>> /\ 0 \in 0 .. n
    BY <1>1, SubSeqEmpty
  <2> QED
    BY <2>1, Zenon
<1>3. ASSUME NEW i \in 1 .. n, i - 1 \in T PROVE i \in T
  <2> DEFINE u == SubSeq(s, 1, i - 1)
  <2>1. u \in P /\ i \in 0 .. n /\ 1 \in 1 .. n
    BY <1>1, <1>3
  <2>2. u \in Seq(E) /\ s[i] \in E
    BY <1>1
  <2>3. SubSeq(s, 1, i) = u \o <<s[i]>>
    BY <1>1, SubSeqRecursiveSecond
  <2>4. Append(u, s[i]) = u \o <<s[i]>>
    BY <2>2, AppendIsConcat, Zenon
  <2>5. Append(u, s[i]) \in P
    BY <2>1, <2>2, Zenon
  <2> HIDE DEF u
  <2> QED
    BY <2>1, <2>3, <2>4, <2>5
<1> HIDE DEF T
<1>4. 0 .. n \subseteq T
  BY <1>1, <1>2, <1>3, UpTo
<1>5. SubSeq(s, 1, n) \in P
  BY <1>1, <1>4 DEF T
<1> QED
  BY <1>5, SubSeqFull

-----------------------------------------------------------------------------
(***************************************************************************)
(* What a sequence is split into                                           *)
(***************************************************************************)

\* What a sequence of elements of A can be split into, and the same with an element more.
Pieces(A)  == Seq(Seq(A)) \ {<<>>}
Grow(d, c) == [d EXCEPT ![Len(d)] = Append(@, c)]

\* With an element more a sequence is not empty.
LEMMA AppendSome ==
  ASSUME NEW A, NEW s \in Seq(A), NEW c \in A
  PROVE  Append(s, c) # <<>>
BY AppendProperties, Zenon

\* With a piece more it is not empty.
LEMMA AppendPieces ==
  ASSUME NEW A, NEW p \in Seq(Seq(A)), NEW x \in Seq(A)
  PROVE  Append(p, x) \in Pieces(A)
<1> DEFINE S == Seq(A)
<1>1. p \in Seq(S) /\ x \in S
  OBVIOUS
<1> HIDE DEF S
<1>2. Append(p, x) \in Seq(S)
  BY ONLY <1>1, AppendProperties, Zenon
<1>3. Append(p, x) # <<>>
  BY ONLY <1>1, AppendSome, Zenon
<1> QED
  BY <1>2, <1>3, Zenon DEF Pieces, S

\* The empty sequence, of any elements.
LEMMA EmptySequence ==
  ASSUME NEW A
  PROVE  <<>> \in Seq(A) /\ Len(<<>>) = 0
OBVIOUS

\* The element goes to the end of the last piece.
LEMMA GrowPiece ==
  ASSUME NEW A, NEW p \in Seq(Seq(A)), NEW x \in Seq(A), NEW c \in A
  PROVE  /\ Append(p, x) \in Pieces(A) /\ Append(x, c) \in Seq(A)
         /\ Grow(Append(p, x), c) = Append(p, Append(x, c))
<1> DEFINE S == Seq(A)
           d == Append(p, x)
           y == Append(x, c)
           n == Len(p)
<1>1. y \in S
  OBVIOUS
<1> HIDE DEF y
<1> HIDE DEF S
<1>2. x \in S /\ p \in Seq(S)
  BY DEF S
<1>3. /\ d \in Seq(S) /\ d # <<>> /\ Len(d) = n + 1 /\ n \in Nat /\ d[n + 1] = x
      /\ \A i \in 1 .. n : d[i] = p[i]
      /\ DOMAIN d = 1 .. n + 1
  BY <1>2
<1>4. /\ Append(p, y) \in Seq(S) /\ Len(Append(p, y)) = n + 1
      /\ Append(p, y)[n + 1] = y /\ \A i \in 1 .. n : Append(p, y)[i] = p[i]
  BY <1>1, <1>2
<1> HIDE DEF d, n
<1> DEFINE g == [d EXCEPT ![n + 1] = y]
<1>5. g \in Seq(S) /\ Len(g) = n + 1 /\ g[n + 1] = y /\ \A i \in 1 .. n : g[i] = d[i]
  BY <1>1, <1>3
<1>6. Grow(d, c) = g
  BY <1>3, Zenon DEF Grow, y
<1> HIDE DEF g
<1> DEFINE h == Append(p, y)
<1>7. g \in Seq(S) /\ h \in Seq(S) /\ Len(g) = Len(h)
  BY <1>4, <1>5
<1> HIDE DEF h
<1>8. \A i \in 1 .. Len(g) : g[i] = h[i]
  BY <1>3, <1>4, <1>5 DEF h
<1>9. g = h
  BY <1>7, <1>8, SeqEqual
<1> QED
  BY <1>1, <1>3, <1>6, <1>9, Zenon DEF d, y, h, Pieces, S

\* There is a last piece.
LEMMA PiecesLast ==
  ASSUME NEW A, NEW d \in Pieces(A)
  PROVE  \E p \in Seq(Seq(A)), x \in Seq(A) : d = Append(p, x)
BY SequenceEmptyOrAppend, Zenon DEF Pieces

\* The turns of splitting, an element after the other.
SplitsGo(A, s, E, D) ==
  /\ Splits(s, E, D) \in [0 .. Len(s) -> Pieces(A)]
  /\ Splits(s, E, D)[0] = << <<>> >>
  /\ \A i \in 1 .. Len(s) :
       /\ i \in E => Splits(s, E, D)[i] = Append(Splits(s, E, D)[i - 1], <<>>)
       /\ i \notin E /\ i \in D => Splits(s, E, D)[i] = Splits(s, E, D)[i - 1]
       /\ i \notin E /\ i \notin D =>
            Splits(s, E, D)[i] = Grow(Splits(s, E, D)[i - 1], s[i])

\* They are gone through.
LEMMA SplitsSteps ==
  ASSUME NEW A, NEW s \in Seq(A), NEW E, NEW D
  PROVE  SplitsGo(A, s, E, D)
<1> DEFINE n == Len(s)
           V == Pieces(A)
           base == << <<>> >>
           Turn(i, d) == IF i \in E THEN Append(d, <<>>)
                         ELSE IF i \in D THEN d
                         ELSE [d EXCEPT ![Len(d)] = Append(@, s[i])]
           Is(f) == f = [i \in 0 .. n |-> IF i = 0 THEN base ELSE Turn(i, f[i - 1])]
<1>1. n \in Nat /\ base \in V /\ \A i \in 1 .. n, v \in V : Turn(i, v) \in V
  <2>1. n \in Nat /\ \A i \in 1 .. n : s[i] \in A
    OBVIOUS
  <2>2. base \in V
    BY EmptySequence, AppendPieces DEF Pieces
  <2> HIDE DEF n
  <2>3. ASSUME NEW i \in 1 .. n, NEW v \in V PROVE Turn(i, v) \in V
    <3>1. Append(v, <<>>) \in V
      BY AppendPieces, EmptySequence, Zenon DEF Pieces
    <3>2. Grow(v, s[i]) \in V
      <4>1. PICK p \in Seq(Seq(A)), x \in Seq(A) : v = Append(p, x)
        BY PiecesLast, Zenon
      <4>2. Append(x, s[i]) \in Seq(A) /\ Grow(v, s[i]) = Append(p, Append(x, s[i]))
        <5>1. s[i] \in A
          BY <2>1
        <5>2. Append(x, s[i]) \in Seq(A)
          BY <5>1
        <5>3. Grow(Append(p, x), s[i]) = Append(p, Append(x, s[i]))
          BY ONLY <5>1, x \in Seq(A), p \in Seq(Seq(A)), GrowPiece
        <5> QED
          BY <4>1, <5>2, <5>3, Zenon
      <4>3. \A y \in Seq(A) : Append(p, y) \in V
        BY AppendPieces, Zenon
      <4> QED
        BY <4>2, <4>3, Zenon
    <3>3. Grow(v, s[i]) = [v EXCEPT ![Len(v)] = Append(@, s[i])]
      BY Zenon DEF Grow
    <3> QED
      BY <3>1, <3>2, <3>3, Zenon
  <2> QED
    BY <2>1, <2>2, <2>3
<1>2. \E f \in [0 .. n -> V] : Is(f)
  <2> HIDE DEF n, V, Turn, base
  <2> DEFINE step == [p \in (1 .. n) \X V |-> Turn(p[1], p[2])]
  <2>1. step \in [(1 .. n) \X V -> V]
    BY <1>1
  <2>2. \A i \in 1 .. n, v \in V : step[<<i, v>>] = Turn(i, v)
    OBVIOUS
  <2> HIDE DEF step
  <2>3. \E f \in [0 .. n -> V] : Goes(f, base, step, n)
    BY <1>1, <2>1, Recursion, Zenon
  <2>4. PICK f \in [0 .. n -> V] : Goes(f, base, step, n)
    BY <2>3
  <2>5. ASSUME NEW i \in 1 .. n PROVE f[i] = Turn(i, f[i - 1])
    <3>1. i - 1 \in 0 .. n
      BY <1>1
    <3>2. f[i - 1] \in V
      BY <3>1
    <3>3. f[i] = step[<<i, f[i - 1]>>]
      BY <2>4 DEF Goes
    <3> QED
      BY <2>2, <3>2, <3>3
  <2>6. f[0] = base
    BY <2>4 DEF Goes
  <2>7. f = [i \in 0 .. n |-> IF i = 0 THEN base ELSE Turn(i, f[i - 1])]
    BY <1>1, <2>5, <2>6
  <2> QED
    BY <2>7
<1>3. Is(Splits(s, E, D))
  BY <1>2, Zenon DEF Splits
<1> DEFINE F == Splits(s, E, D)
<1> HIDE DEF F
<1>4. /\ F = [i \in 0 .. n |-> F[i]]
      /\ F[0] = base
      /\ \A i \in 1 .. n : F[i] = Turn(i, F[i - 1])
  <2> HIDE DEF Turn, base
  <2>1. F = [i \in 0 .. n |-> IF i = 0 THEN base ELSE Turn(i, F[i - 1])]
    BY <1>3 DEF F
  <2> HIDE DEF n
  <2>2. ASSUME NEW i \in 0 .. n PROVE F[i] = IF i = 0 THEN base ELSE Turn(i, F[i - 1])
    BY <2>1, Zenon
  <2>3. DOMAIN F = 0 .. n
    BY <2>1, Zenon
  <2>4. F = [i \in 0 .. n |-> F[i]]
    BY <2>1, <2>2
  <2>5. 0 \in 0 .. n /\ \A i \in 1 .. n : i \in 0 .. n /\ i # 0
    BY <1>1
  <2>6. F[0] = base /\ \A i \in 1 .. n : F[i] = Turn(i, F[i - 1])
    BY <2>2, <2>5, Zenon
  <2> QED
    BY <2>4, <2>6
<1>5. \A i \in 0 .. n : F[i] \in V
  <2> DEFINE P == {i \in 0 .. n : F[i] \in V}
  <2> HIDE DEF n, V, Turn, base
  <2>1. 0 \in P
    BY <1>1, <1>4
  <2>2. ASSUME NEW i \in 1 .. n, i - 1 \in P PROVE i \in P
    <3>1. F[i - 1] \in V
      BY <2>2
    <3>2. F[i] = Turn(i, F[i - 1])
      BY <1>4
    <3>3. i \in 0 .. n
      BY <1>1
    <3> QED
      BY <1>1, <3>1, <3>2, <3>3
  <2> HIDE DEF P
  <2>3. 0 .. n \subseteq P
    BY <1>1, <2>1, <2>2, UpTo
  <2> QED
    BY <2>3 DEF P
<1>6. F \in [0 .. n -> V]
  <2> HIDE DEF n, V, Turn, base
  <2> QED
    BY <1>4, <1>5
<1>7. \A i \in 1 .. n :
        /\ i \in E => F[i] = Append(F[i - 1], <<>>)
        /\ i \notin E /\ i \in D => F[i] = F[i - 1]
        /\ i \notin E /\ i \notin D => F[i] = Grow(F[i - 1], s[i])
  <2> HIDE DEF n, V, base
  <2> QED
    BY <1>4, Zenon DEF Grow
<1> QED
  BY <1>4, <1>6, <1>7 DEF F, SplitsGo

\* One element more ends a piece, or goes to the last one, or is not kept.
SplitsGrow(A, s, c, E, D, I, J) ==
  LET n == Len(s)
      d == Splits(s, E, D)[n]
      e == Splits(Append(s, c), I, J)[n + 1] IN
  /\ d \in Pieces(A)
  /\ n + 1 \in I => e = Append(d, <<>>)
  /\ n + 1 \notin I /\ n + 1 \in J => e = d
  /\ n + 1 \notin I /\ n + 1 \notin J => e = Grow(d, c)

\* Whatever the places after it are.
LEMMA SplitsAppend ==
  ASSUME NEW A, NEW s \in Seq(A), NEW c \in A, NEW E, NEW D, NEW I, NEW J,
         \A i \in 1 .. Len(s) : (i \in E <=> i \in I) /\ (i \in D <=> i \in J)
  PROVE  SplitsGrow(A, s, c, E, D, I, J)
<1> DEFINE t == Append(s, c)
           n == Len(s)
           F == Splits(s, E, D)
           G == Splits(t, I, J)
<1>1. /\ n \in Nat /\ t \in Seq(A) /\ Len(t) = n + 1 /\ t[n + 1] = c
      /\ \A i \in 1 .. n : t[i] = s[i]
  OBVIOUS
<1> HIDE DEF t
<1>2. /\ F \in [0 .. n -> Pieces(A)] /\ F[0] = << <<>> >>
      /\ \A i \in 1 .. n :
           /\ i \in E => F[i] = Append(F[i - 1], <<>>)
           /\ i \notin E /\ i \in D => F[i] = F[i - 1]
           /\ i \notin E /\ i \notin D => F[i] = Grow(F[i - 1], s[i])
  <2>1. SplitsGo(A, s, E, D)
    BY SplitsSteps, Zenon
  <2> QED
    BY <2>1, Zenon DEF SplitsGo
<1>3. /\ G[0] = << <<>> >>
      /\ \A i \in 1 .. n + 1 :
           /\ i \in I => G[i] = Append(G[i - 1], <<>>)
           /\ i \notin I /\ i \in J => G[i] = G[i - 1]
           /\ i \notin I /\ i \notin J => G[i] = Grow(G[i - 1], t[i])
  <2>1. t \in Seq(A)
    BY <1>1
  <2>2. /\ G[0] = << <<>> >>
        /\ \A i \in 1 .. Len(t) :
             /\ i \in I => G[i] = Append(G[i - 1], <<>>)
             /\ i \notin I /\ i \in J => G[i] = G[i - 1]
             /\ i \notin I /\ i \notin J => G[i] = Grow(G[i - 1], t[i])
    <3>1. SplitsGo(A, t, I, J)
      BY <2>1, SplitsSteps, Zenon
    <3> QED
      BY <3>1, Zenon DEF SplitsGo
  <2> HIDE DEF G
  <2> QED
    BY <1>1, <2>2, Zenon
<1> HIDE DEF F, G
<1>4. \A i \in 1 .. n : (i \in E <=> i \in I) /\ (i \in D <=> i \in J)
  OBVIOUS
<1> HIDE DEF n
<1> DEFINE P == {i \in 0 .. n : F[i] = G[i]}
<1>5. 0 \in P
  <2>1. 0 \in 0 .. n
    BY <1>1
  <2> QED
    BY <1>2, <1>3, <2>1, Zenon
<1>6. ASSUME NEW i \in 1 .. n, i - 1 \in P PROVE i \in P
  <2>1. i \in 0 .. n /\ i \in 1 .. n + 1
    BY <1>1
  <2>2. F[i - 1] = G[i - 1] /\ t[i] = s[i]
    BY <1>1, <1>6, Zenon
  <2>3. F[i] = G[i]
    BY <1>2, <1>3, <1>4, <2>1, <2>2, Zenon
  <2> QED
    BY <2>1, <2>3
<1> HIDE DEF P
<1>7. 0 .. n \subseteq P
  BY <1>1, <1>5, <1>6, UpTo
<1>8. F[n] = G[n] /\ F[n] \in Pieces(A)
  BY <1>1, <1>2, <1>7 DEF P
<1>9. n + 1 \in 1 .. n + 1 /\ (n + 1) - 1 = n
  BY <1>1
<1>10. /\ n + 1 \in I => G[n + 1] = Append(F[n], <<>>)
       /\ n + 1 \notin I /\ n + 1 \in J => G[n + 1] = F[n]
       /\ n + 1 \notin I /\ n + 1 \notin J => G[n + 1] = Grow(F[n], c)
  BY <1>1, <1>3, <1>8, <1>9, Zenon
<1> QED
  BY <1>8, <1>10, Zenon DEF F, G, t, n, SplitsGrow

-----------------------------------------------------------------------------
(***************************************************************************)
(* One after the other                                                     *)
(***************************************************************************)

\* Of no sequences there are no elements.
LEMMA FlatNothing == Flat(<<>>) = <<>>
<1>1. <<>> \in Seq(Seq(Nat)) /\ <<>> \in Seq(Nat)
  OBVIOUS
<1>2. Joins(<<>>, <<>>)[0] = <<>>
  <2>1. JoinsGo(Nat, <<>>, <<>>)
    BY <1>1, JoinsSteps, Zenon
  <2> QED
    BY <2>1, Zenon DEF JoinsGo
<1>3. Len(<<>>) = 0
  OBVIOUS
<1> QED
  BY <1>2, <1>3, Zenon DEF Flat

\* The elements of one sequence more.
LEMMA FlatAppend ==
  ASSUME NEW A, NEW p \in Seq(Seq(A)), NEW x \in Seq(A)
  PROVE  /\ Flat(p) \in Seq(A) /\ Flat(Append(p, x)) \in Seq(A)
         /\ Flat(Append(p, x)) = Flat(p) \o x
<1>1. <<>> \in Seq(A) /\ Len(p) \in Nat /\ (p = <<>> => Len(p) = 0)
  OBVIOUS
<1>3. Joins(p, <<>>) \in [0 .. Len(p) -> Seq(A)] /\ Joins(p, <<>>)[0] = <<>>
  <2>1. JoinsGo(A, p, <<>>)
    BY <1>1, JoinsSteps, Zenon
  <2> QED
    BY <2>1, Zenon DEF JoinsGo
<1>4. Len(p) \in 0 .. Len(p) /\ Len(p) + 1 = Len(Append(p, x))
  <2> DEFINE S == Seq(A)
  <2>1. p \in Seq(S) /\ x \in S
    OBVIOUS
  <2> HIDE DEF S
  <2> QED
    BY <2>1
<1>5. Flat(p) \in Seq(A) /\ (p = <<>> => Flat(p) = <<>>)
  BY <1>1, <1>3, <1>4, Zenon DEF Flat
<1>6. Flat(Append(p, x)) = IF p = <<>> THEN x ELSE Flat(p) \o <<>> \o x
  <2>1. Joins(Append(p, x), <<>>)[Len(p) + 1]
          = IF p = <<>> THEN x ELSE Joins(p, <<>>)[Len(p)] \o <<>> \o x
    BY <1>1, JoinsAppend, Zenon
  <2> QED
    BY <1>4, <2>1, Zenon DEF Flat
<1>7. Flat(p) \o <<>> = Flat(p) /\ <<>> \o x = x
  BY <1>5, ConcatEmptySeq, Zenon
<1>8. Flat(p) \o x \in Seq(A)
  BY <1>5, ConcatProperties, Zenon
<1> QED
  BY <1>5, <1>6, <1>7, <1>8, Zenon

\* An element more after two sequences is one more after the second.
LEMMA ConcatAppend ==
  ASSUME NEW A, NEW a \in Seq(A), NEW b \in Seq(A), NEW c \in A
  PROVE  a \o Append(b, c) = Append(a \o b, c)
<1> DEFINE w == <<c>>
<1>1. w \in Seq(A)
  OBVIOUS
<1>2. Append(b, c) = b \o w
  BY AppendIsConcat, Zenon
<1>3. a \o b \in Seq(A)
  BY ConcatProperties, Zenon
<1>4. Append(a \o b, c) = (a \o b) \o w
  BY <1>3, AppendIsConcat, Zenon
<1> HIDE DEF w
<1>5. (a \o b) \o w = a \o (b \o w)
  BY <1>1, ConcatAssociative
<1> QED
  BY <1>2, <1>4, <1>5, Zenon
=============================================================================
