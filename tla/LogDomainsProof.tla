-------------------------- MODULE LogDomainsProof --------------------------
(***************************************************************************)
(* TLAPS proofs about LogDomains, for every configuration and every domain *)
(* of strings.                                                             *)
(***************************************************************************)
EXTENDS LogDomains, PrefixesProof

\* No string comes before itself.
LEMMA StringIrreflexive ==
  ASSUME NEW s \in Strings
  PROVE  ~StringBefore(s, s)
BY DEF StringBefore, Lexicographic, CharBefore, Strings

\* Of two domains that both contain d the longer one is later in the map, and only
\* the longer one.
LEMMA LongerIsLater ==
  ASSUME NEW d \in Seq(Strings), NEW j \in Seq(Strings), NEW k \in Seq(Strings),
         StartsWith(d, j), StartsWith(d, k)
  PROVE  DomainBefore(k, j) <=> Len(k) < Len(j)
<1>1. \A i \in 1 .. Len(k) : i <= Len(j) => k[i] = j[i] /\ k[i] \in Strings
  <2> SUFFICES ASSUME NEW i \in 1 .. Len(k), i <= Len(j)
               PROVE  k[i] = j[i] /\ k[i] \in Strings
    OBVIOUS
  <2>1. i \in 1 .. Len(j)
    OBVIOUS
  <2>2. d[i] = k[i] /\ d[i] = j[i]
    BY <2>1 DEF StartsWith
  <2> QED
    BY <2>2
<1>2. ASSUME Len(k) < Len(j) PROVE DomainBefore(k, j)
  <2> DEFINE n == Len(k) + 1
  <2>1. n \in 1 .. Len(j) /\ ~(n <= Len(k)) /\ n <= Len(k) + 1
    BY <1>2
  <2>2. \A i \in 1 .. n - 1 : k[i] = j[i]
    BY <1>1, <1>2
  <2> QED
    BY <2>1, <2>2 DEF DomainBefore, Lexicographic
<1>3. ASSUME DomainBefore(k, j), ~(Len(k) < Len(j)) PROVE FALSE
  <2>1. PICK i \in 1 .. Len(j) : i <= Len(k) => StringBefore(k[i], j[i])
    BY <1>3 DEF DomainBefore, Lexicographic
  <2>2. i \in 1 .. Len(k) /\ i <= Len(j)
    BY <1>3, <2>1
  <2>3. StringBefore(k[i], k[i]) /\ k[i] \in Strings
    BY <1>1, <2>1, <2>2
  <2> QED
    BY <2>3, StringIrreflexive
<1> QED
  BY <1>2, <1>3

\* So the last match is the longest, in any map and for any domain.
LEMMA LastIsLongest ==
  ASSUME NEW map, DOMAIN map \subseteq Seq(Strings), NEW d \in Seq(Strings)
  PROVE  LastMatch(map, d) = LongestMatch(map, d)
<1>1. \A j, k \in Matches(map, d) : ~DomainBefore(k, j) <=> Len(j) <= Len(k)
  <2> SUFFICES ASSUME NEW j \in Matches(map, d), NEW k \in Matches(map, d)
               PROVE  ~DomainBefore(k, j) <=> Len(j) <= Len(k)
    OBVIOUS
  <2>1. /\ j \in Seq(Strings) /\ k \in Seq(Strings)
        /\ StartsWith(d, j) /\ StartsWith(d, k)
    BY DEF Matches
  <2>2. Len(j) \in Nat /\ Len(k) \in Nat
    BY <2>1
  <2> QED
    BY <2>1, <2>2, LongerIsLater
<1> QED
  BY <1>1 DEF LastMatch, LongestMatch

-----------------------------------------------------------------------------
(***************************************************************************)
(* splitDomain                                                             *)
(***************************************************************************)

\* What a string can be split into.
Split == Seq(Strings) \ {<<>>}

\* A component may be empty.
LEMMA EmptyString == <<>> \in Strings /\ Len(<<>>) = 0
BY DEF Strings

\* A component more makes a domain that is not empty.
LEMMA AppendSplit ==
  ASSUME NEW p \in Seq(Strings), NEW x \in Strings
  PROVE  Append(p, x) \in Split
BY AppendPieces, Zenon DEF Split, Strings, Pieces

\* The character goes to the end of the last component.
LEMMA GrowLast ==
  ASSUME NEW p \in Seq(Strings), NEW x \in Strings, NEW c \in Nat
  PROVE  /\ Append(p, x) \in Split /\ Append(x, c) \in Strings
         /\ Grow(Append(p, x), c) = Append(p, Append(x, c))
<1>1. p \in Seq(Seq(Nat)) /\ x \in Seq(Nat)
  BY Zenon DEF Strings
<1>2. /\ Append(p, x) \in Pieces(Nat) /\ Append(x, c) \in Seq(Nat)
      /\ Grow(Append(p, x), c) = Append(p, Append(x, c))
  BY <1>1, GrowPiece
<1> QED
  BY <1>2, Zenon DEF Split, Strings, Pieces

\* What the whole of a string is split into.
Whole(s) == Splits(s, Ends(s), {i \in DOMAIN s : s[i] \in Separators})[Len(s)]

\* s ends in a separator.
AtEnd(s) == s # <<>> /\ s[Len(s)] \in Separators

\* A character more is added to the last component, or begins one if it is a separator and
\* the string did not end in one.
LEMMA WholeAppend ==
  ASSUME NEW s \in Strings, NEW c \in Nat
  PROVE  /\ Whole(s) \in Split
         /\ c \notin Separators => Whole(Append(s, c)) = Grow(Whole(s), c)
         /\ c \in Separators /\ ~AtEnd(s) => Whole(Append(s, c)) = Append(Whole(s), <<>>)
         /\ c \in Separators /\ AtEnd(s) => Whole(Append(s, c)) = Whole(s)
         /\ AtEnd(Append(s, c)) <=> c \in Separators
<1> DEFINE t == Append(s, c)
           n == Len(s)
           E == Ends(s)
           I == Ends(t)
           D == {i \in DOMAIN s : s[i] \in Separators}
           J == {i \in DOMAIN t : t[i] \in Separators}
<1>1. /\ n \in Nat /\ t \in Strings /\ Len(t) = n + 1 /\ t # <<>> /\ t[n + 1] = c
      /\ \A i \in 1 .. n : t[i] = s[i]
      /\ DOMAIN s = 1 .. n /\ DOMAIN t = 1 .. n + 1 /\ (n = 0 <=> s = <<>>)
  BY DEF Strings
<1> HIDE DEF t
<1>2. /\ \A i \in 1 .. n : (i \in E <=> i \in I) /\ (i \in D <=> i \in J)
      /\ n + 1 \in I <=> c \in Separators /\ ~AtEnd(s)
      /\ n + 1 \in J <=> c \in Separators
  <2> HIDE DEF n
  <2>1. \A i \in 1 .. n : i = 1 \/ i - 1 \in 1 .. n
    BY <1>1
  <2>2. \A i \in 1 .. n : i \in 1 .. n + 1
    BY <1>1
  <2>3. /\ n + 1 \in 1 .. n + 1 /\ (n + 1) - 1 = n
        /\ n + 1 = 1 <=> n = 0
        /\ n # 0 => n \in 1 .. n
    BY <1>1
  <2>4. \A i \in 1 .. n : i \in E <=> i \in I
    BY <1>1, <2>1, <2>2, Zenon DEF Ends
  <2>5. n + 1 \in I <=> c \in Separators /\ (n = 0 \/ s[n] \notin Separators)
    BY <1>1, <2>3, Zenon DEF Ends
  <2>6. \A i \in 1 .. n : i \in D <=> i \in J
    BY <1>1, <2>2, Zenon
  <2>7. n + 1 \in J <=> c \in Separators
    BY <1>1, <2>3, Zenon
  <2> HIDE DEF E, I, D, J
  <2> QED
    BY <1>1, <2>4, <2>5, <2>6, <2>7, Zenon DEF AtEnd, n
<1> HIDE DEF E, I, D, J
<1>3. /\ Splits(s, E, D)[n] \in Pieces(Nat)
      /\ n + 1 \in I => Splits(t, I, J)[n + 1] = Append(Splits(s, E, D)[n], <<>>)
      /\ n + 1 \notin I /\ n + 1 \in J => Splits(t, I, J)[n + 1] = Splits(s, E, D)[n]
      /\ n + 1 \notin I /\ n + 1 \notin J =>
           Splits(t, I, J)[n + 1] = Grow(Splits(s, E, D)[n], c)
  <2>1. s \in Seq(Nat)
    BY DEF Strings
  <2> QED
    <3>1. SplitsGrow(Nat, s, c, E, D, I, J)
      BY <1>2, <2>1, SplitsAppend, Zenon DEF n
    <3> QED
      BY <3>1, Zenon DEF t, n, SplitsGrow
<1>4. Whole(s) = Splits(s, E, D)[n] /\ Whole(t) = Splits(t, I, J)[n + 1]
  BY <1>1, Zenon DEF Whole, E, D, I, J, n
<1>5. AtEnd(t) <=> c \in Separators
  BY <1>1, Zenon DEF AtEnd
<1> QED
  BY <1>2, <1>3, <1>4, <1>5, Zenon DEF t, Split, Pieces, Strings

\* Nothing is split into one component that is empty.
LEMMA WholeEmpty == Whole(<<>>) = << <<>> >> /\ ~AtEnd(<<>>) /\ <<>> \in Strings
<1>1. <<>> \in Strings /\ Len(<<>>) = 0
  BY EmptyString
<1>2. Whole(<<>>) = << <<>> >>
  <2>1. <<>> \in Seq(Nat)
    OBVIOUS
  <2>2. ASSUME NEW E, NEW D PROVE Splits(<<>>, E, D)[0] = << <<>> >>
    <3>1. SplitsGo(Nat, <<>>, E, D)
      BY <2>1, SplitsSteps, Zenon
    <3> QED
      BY <3>1, Zenon DEF SplitsGo
  <2> QED
    BY <1>1, <2>2, Zenon DEF Whole
<1> QED
  BY <1>1, <1>2, Zenon DEF AtEnd

\* splitDomain returns a domain.
LEMMA SplitTyped ==
  ASSUME NEW s \in Strings
  PROVE  SplitDomain(s) \in Seq(Strings)
<1>1. <<>> \in Seq(Strings) /\ Len(s) \in 0 .. Len(s)
  BY DEF Strings
<1>2. \A E, D : Splits(s, E, D)[Len(s)] \in Seq(Strings)
  <2>1. s \in Seq(Nat)
    BY DEF Strings
  <2>2. \A E, D : Splits(s, E, D) \in [0 .. Len(s) -> Pieces(Nat)]
    <3>1. \A E, D : SplitsGo(Nat, s, E, D)
      BY <2>1, SplitsSteps, Zenon
    <3> QED
      BY <3>1, Zenon DEF SplitsGo
  <2> QED
    BY <1>1, <2>2, Zenon DEF Pieces, Strings
<1> QED
  BY <1>1, <1>2, Zenon DEF SplitDomain

-----------------------------------------------------------------------------
(***************************************************************************)
(* What splitting and joining keep                                         *)
(***************************************************************************)

\* A component without separators; components that splitDomain can return.
NoSep(x) == \A j \in 1 .. Len(x) : x[j] \notin Separators
Clean(d) == /\ \A i \in 1 .. Len(d) : NoSep(d[i])
            /\ \A i \in 2 .. Len(d) - 1 : d[i] # <<>>

\* The characters that are no separators.
Kept(s) == Picks(s, {i \in DOMAIN s : s[i] \notin Separators})[Len(s)]

\* A character more, and none.
LEMMA NoSepAppend ==
  ASSUME NEW x \in Strings, NEW c \in Nat
  PROVE  NoSep(Append(x, c)) <=> NoSep(x) /\ c \notin Separators
<1> DEFINE y == Append(x, c)
           n == Len(x)
<1>1. n \in Nat /\ Len(y) = n + 1 /\ y[n + 1] = c /\ \A j \in 1 .. n : y[j] = x[j]
  BY DEF Strings
<1> HIDE DEF y, n
<1>2. n + 1 \in 1 .. n + 1 /\ \A j \in 1 .. n + 1 : j \in 1 .. n \/ j = n + 1
  BY <1>1
<1>3. \A j \in 1 .. n : j \in 1 .. n + 1
  BY <1>1
<1>4. NoSep(y) <=> \A j \in 1 .. n + 1 : y[j] \notin Separators
  BY <1>1, Zenon DEF NoSep
<1>5. NoSep(x) <=> \A j \in 1 .. n : x[j] \notin Separators
  BY Zenon DEF NoSep, n
<1> QED
  BY <1>1, <1>2, <1>3, <1>4, <1>5, Zenon DEF y

\* Nothing has no separator.
LEMMA NoSepEmpty == NoSep(<<>>)
BY EmptyString DEF NoSep

\* A component more makes the one that was the last one of the middle.
LEMMA CleanAppend ==
  ASSUME NEW p \in Seq(Strings), NEW x \in Strings
  PROVE  Clean(Append(p, x)) <=> /\ \A i \in 1 .. Len(p) : NoSep(p[i])
                                 /\ \A i \in 2 .. Len(p) : p[i] # <<>>
                                 /\ NoSep(x)
<1> DEFINE d == Append(p, x)
           n == Len(p)
<1>1. n \in Nat /\ Len(d) = n + 1 /\ d[n + 1] = x /\ \A i \in 1 .. n : d[i] = p[i]
  OBVIOUS
<1> HIDE DEF d, n
<1>2. /\ n + 1 \in 1 .. n + 1 /\ (n + 1) - 1 = n
      /\ \A i \in 1 .. n + 1 : i \in 1 .. n \/ i = n + 1
      /\ \A i \in 1 .. n : i \in 1 .. n + 1
      /\ \A i \in 2 .. n : i \in 1 .. n
  BY <1>1
<1>3. Clean(d) <=> /\ \A i \in 1 .. n + 1 : NoSep(d[i])
                   /\ \A i \in 2 .. n : d[i] # <<>>
  BY <1>1, <1>2, Zenon DEF Clean
<1> QED
  BY <1>1, <1>2, <1>3, Zenon DEF d, n

\* A character more is kept if it is no separator.
LEMMA KeptAppend ==
  ASSUME NEW s \in Strings, NEW c \in Nat
  PROVE  Kept(Append(s, c)) = IF c \in Separators THEN Kept(s) ELSE Append(Kept(s), c)
<1> DEFINE t == Append(s, c)
           n == Len(s)
           S == {i \in DOMAIN s : s[i] \notin Separators}
           T == {i \in DOMAIN t : t[i] \notin Separators}
<1>1. /\ n \in Nat /\ Len(t) = n + 1 /\ t[n + 1] = c /\ \A i \in 1 .. n : t[i] = s[i]
      /\ DOMAIN s = 1 .. n /\ DOMAIN t = 1 .. n + 1 /\ s \in Seq(Nat)
  BY DEF Strings
<1> HIDE DEF t
<1>2. /\ \A i \in 1 .. n : i \in S <=> i \in T
      /\ n + 1 \in T <=> c \notin Separators
  <2> HIDE DEF n
  <2>1. n + 1 \in 1 .. n + 1 /\ \A i \in 1 .. n : i \in 1 .. n + 1
    BY <1>1
  <2> QED
    BY <1>1, <2>1, Zenon
<1> HIDE DEF S, T
<1>3. /\ n + 1 \in T => Picks(t, T)[n + 1] = Append(Picks(s, S)[n], c)
      /\ n + 1 \notin T => Picks(t, T)[n + 1] = Picks(s, S)[n]
  <2>1. /\ n + 1 \in T => Picks(Append(s, c), T)[n + 1] = Append(Picks(s, S)[n], c)
        /\ n + 1 \notin T => Picks(Append(s, c), T)[n + 1] = Picks(s, S)[n]
    BY <1>1, <1>2, PicksAppend
  <2> QED
    BY <2>1, Zenon DEF t
<1>4. Kept(t) = Picks(t, T)[n + 1] /\ Kept(s) = Picks(s, S)[n]
  BY <1>1, Zenon DEF Kept, S, T
<1> QED
  BY <1>2, <1>3, <1>4, Zenon DEF t

\* Of nothing there are no characters.
LEMMA NothingKept == Flat(<<>>) = <<>> /\ Kept(<<>>) = <<>>
<1>1. <<>> \in Seq(Nat)
  OBVIOUS
<1>2. ASSUME NEW S PROVE Picks(<<>>, S)[0] = <<>>
  <2>1. PicksGo(Nat, <<>>, S)
    BY <1>1, PicksSteps, Zenon
  <2> QED
    BY <2>1, Zenon DEF PicksGo
<1>3. Len(<<>>) = 0
  OBVIOUS
<1> QED
  BY <1>2, <1>3, FlatNothing, Zenon DEF Kept

\* The characters of one component more, and a character more after two strings.
LEMMA StringAppend ==
  /\ \A p \in Seq(Strings), x \in Strings :
       /\ Flat(p) \in Strings /\ Flat(Append(p, x)) \in Strings
       /\ Flat(Append(p, x)) = Flat(p) \o x
  /\ \A a, b \in Strings, c \in Nat : a \o Append(b, c) = Append(a \o b, c)
<1>1. ASSUME NEW p \in Seq(Seq(Nat)), NEW x \in Seq(Nat)
      PROVE  /\ Flat(p) \in Seq(Nat) /\ Flat(Append(p, x)) \in Seq(Nat)
             /\ Flat(Append(p, x)) = Flat(p) \o x
  BY FlatAppend
<1>2. ASSUME NEW a \in Seq(Nat), NEW b \in Seq(Nat), NEW c \in Nat
      PROVE  a \o Append(b, c) = Append(a \o b, c)
  BY ConcatAppend
<1> QED
  BY <1>1, <1>2, Zenon DEF Strings

\* What the split of s, with the last component x, has to do with s.
Faithful(s, p, x) == /\ Clean(Append(p, x))
                     /\ (p # <<>> /\ x = <<>>) => AtEnd(s)
                     /\ Flat(Append(p, x)) = Kept(s)

\* Every string is split into clean components that have its characters.
LEMMA SplitFaithful ==
  ASSUME NEW s \in Strings
  PROVE  \E p \in Seq(Strings), x \in Strings : Whole(s) = Append(p, x) /\ Faithful(s, p, x)
<1> DEFINE Is(t) == \E p \in Seq(Strings), x \in Strings :
                      Whole(t) = Append(p, x) /\ Faithful(t, p, x)
           P == {t \in Strings : Is(t)}
<1>1. <<>> \in P
  <2>1. << <<>> >> = Append(<<>>, <<>>) /\ <<>> \in Seq(Strings) /\ Len(<<>>) = 0
    OBVIOUS
  <2>2. Clean(Append(<<>>, <<>>))
    <3>1. \A i \in 1 .. Len(<<>>) : NoSep(<<>>[i])
      OBVIOUS
    <3>2. \A i \in 2 .. Len(<<>>) : <<>>[i] # <<>>
      OBVIOUS
    <3> QED
      BY <2>1, <3>1, <3>2, CleanAppend, EmptyString, NoSepEmpty, Zenon
  <2>3. Flat(Append(<<>>, <<>>)) = Flat(<<>>) \o <<>> /\ Flat(<<>>) \in Seq(Nat)
    BY <2>1, EmptyString, StringAppend, Zenon DEF Strings
  <2>4. Flat(<<>>) = <<>> /\ Kept(<<>>) = <<>>
    BY NothingKept
  <2>5. Flat(<<>>) \o <<>> = Flat(<<>>)
    BY <2>3, ConcatEmptySeq, Zenon
  <2>6. Faithful(<<>>, <<>>, <<>>)
    BY <2>2, <2>3, <2>4, <2>5, Zenon DEF Faithful
  <2> QED
    BY <2>1, <2>6, WholeEmpty, EmptyString, Zenon
<1>2. ASSUME NEW t \in Strings, t \in P, NEW c \in Nat PROVE Append(t, c) \in P
  <2> DEFINE u == Append(t, c)
  <2>1. u \in Strings
    BY DEF Strings
  <2>2. PICK p \in Seq(Strings), x \in Strings : Whole(t) = Append(p, x) /\ Faithful(t, p, x)
    BY <1>2, Zenon
  <2>3. /\ \A i \in 1 .. Len(p) : NoSep(p[i])
        /\ \A i \in 2 .. Len(p) : p[i] # <<>>
        /\ NoSep(x)
    BY <2>2, CleanAppend, Zenon DEF Faithful
  <2>4. CASE c \notin Separators
    <3> DEFINE y == Append(x, c)
    <3>1. y \in Strings /\ y # <<>> /\ Whole(u) = Append(p, y)
      <4>1. y # <<>>
        <5>1. x \in Seq(Nat) /\ c \in Nat
          BY Zenon DEF Strings
        <5> QED
          BY ONLY <5>1, AppendSome, Zenon DEF y
      <4>2. Whole(u) = Grow(Append(p, x), c)
        BY <2>2, <2>4, WholeAppend, Zenon
      <4>3. y \in Strings /\ Grow(Append(p, x), c) = Append(p, y)
        BY GrowLast, Zenon
      <4> QED
        BY <4>1, <4>2, <4>3, Zenon
    <3>2. Clean(Append(p, y))
      BY <2>3, <2>4, <3>1, NoSepAppend, CleanAppend, Zenon
    <3>3. /\ Flat(Append(p, y)) = Flat(p) \o y /\ Flat(Append(p, x)) = Flat(p) \o x
          /\ Flat(p) \in Seq(Nat)
      BY <3>1, StringAppend, Zenon DEF Strings
    <3>4. Flat(p) \o y = Append(Flat(p) \o x, c)
      BY <3>3, StringAppend, Zenon DEF Strings
    <3>5. Flat(Append(p, y)) = Kept(u)
      <4>1. Kept(u) = Append(Kept(t), c)
        BY <2>4, KeptAppend, Zenon
      <4>2. Kept(t) = Flat(p) \o x
        BY <2>2, <3>3, Zenon DEF Faithful
      <4> QED
        BY <3>3, <3>4, <4>1, <4>2, Zenon
    <3>6. Faithful(u, p, y)
      BY <3>1, <3>2, <3>5, Zenon DEF Faithful
    <3> QED
      BY <2>1, <3>1, <3>6, Zenon
  <2>5. CASE c \in Separators /\ ~AtEnd(t)
    <3> DEFINE q == Append(p, x)
    <3>1. q \in Seq(Strings) /\ Whole(u) = Append(q, <<>>) /\ AtEnd(u)
      <4>1. q \in Seq(Strings)
        BY AppendProperties, Zenon
      <4> QED
        BY <2>2, <2>5, <4>1, WholeAppend, Zenon
    <3>2. p = <<>> \/ x # <<>>
      BY <2>2, <2>5, Zenon DEF Faithful
    <3>3. /\ Len(p) \in Nat /\ Len(q) = Len(p) + 1 /\ q[Len(p) + 1] = x
          /\ \A i \in 1 .. Len(p) : q[i] = p[i]
      OBVIOUS
    <3>4. Len(p) = 0 => p = <<>>
      OBVIOUS
    <3> HIDE DEF q
    <3>5. \A i \in 1 .. Len(q) : NoSep(q[i])
      <4>1. \A i \in 1 .. Len(q) : i \in 1 .. Len(p) \/ i = Len(p) + 1
        BY <3>3
      <4> QED
        BY <2>3, <3>3, <4>1, Zenon
    <3>6. \A i \in 2 .. Len(q) : q[i] # <<>>
      <4>1. \A i \in 2 .. Len(q) : /\ i \in 2 .. Len(p) \/ (i = Len(p) + 1 /\ Len(p) # 0)
                                   /\ i \in 1 .. Len(p) \/ i = Len(p) + 1
        BY <3>3
      <4>2. \A i \in 2 .. Len(p) : i \in 1 .. Len(p)
        BY <3>3
      <4>3. p = <<>> => Len(p) = 0
        OBVIOUS
      <4> QED
        BY <2>3, <3>2, <3>3, <4>1, <4>2, <4>3, Zenon
    <3>7. Clean(Append(q, <<>>))
      BY <3>1, <3>5, <3>6, CleanAppend, EmptyString, NoSepEmpty, Zenon
    <3>8. Flat(Append(q, <<>>)) = Flat(q)
      <4>1. Flat(Append(q, <<>>)) = Flat(q) \o <<>> /\ Flat(q) \in Seq(Nat)
        BY <3>1, StringAppend, EmptyString, Zenon DEF Strings
      <4> QED
        BY <4>1, ConcatEmptySeq, Zenon
    <3>9. Flat(Append(q, <<>>)) = Kept(u)
      BY <2>2, <2>5, <3>8, KeptAppend, Zenon DEF Faithful, q
    <3>10. Faithful(u, q, <<>>)
      BY <3>1, <3>7, <3>9, Zenon DEF Faithful
    <3> QED
      BY <2>1, <3>1, <3>10, EmptyString, Zenon
  <2>6. CASE c \in Separators /\ AtEnd(t)
    <3>1. Whole(u) = Append(p, x) /\ AtEnd(u)
      BY <2>2, <2>6, WholeAppend, Zenon
    <3>2. Kept(u) = Kept(t)
      BY <2>6, KeptAppend, Zenon
    <3>3. Faithful(u, p, x)
      BY <2>2, <3>1, <3>2, Zenon DEF Faithful
    <3> QED
      BY <2>1, <3>1, <3>3, Zenon
  <2> QED
    BY <2>4, <2>5, <2>6, Zenon
<1> HIDE DEF P
<1>3. \A t \in Seq(Nat) : t \in P => \A c \in Nat : Append(t, c) \in P
  BY <1>2, Zenon DEF Strings
<1>4. Seq(Nat) \subseteq P
  BY <1>1, <1>3, EverySequence, Zenon
<1> QED
  BY <1>4, Zenon DEF P, Strings

\* t is split into the components p and the last one x.
SplitInto(t, p, x) == Whole(t) = Append(p, x)

\* Characters that are no separators all go to the last component.
LEMMA WholeLonger ==
  ASSUME NEW t \in Strings, NEW e \in Strings, NoSep(e),
         NEW p \in Seq(Strings), NEW x \in Strings, SplitInto(t, p, x)
  PROVE  /\ t \o e \in Strings /\ x \o e \in Strings
         /\ SplitInto(t \o e, p, x \o e)
         /\ AtEnd(t \o e) => e = <<>>
<1> DEFINE Is(f) == /\ t \o f \in Strings /\ x \o f \in Strings
                    /\ Whole(t \o f) = Append(p, x \o f)
                    /\ AtEnd(t \o f) => f = <<>>
           P == {f \in Strings : NoSep(f) => Is(f)}
<1>1. <<>> \in P
  <2>1. t \o <<>> = t /\ x \o <<>> = x
    BY ConcatEmptySeq, Zenon DEF Strings
  <2> QED
    BY <2>1, EmptyString, Zenon DEF SplitInto
<1>2. ASSUME NEW f \in Strings, f \in P, NEW c \in Nat PROVE Append(f, c) \in P
  <2> DEFINE g == Append(f, c)
  <2>1. g \in Strings
    BY DEF Strings
  <2>2. ASSUME NoSep(g) PROVE Is(g)
    <3>1. NoSep(f) /\ c \notin Separators
      BY <2>2, NoSepAppend, Zenon
    <3>2. Is(f)
      BY <1>2, <3>1, Zenon
    <3>3. ASSUME NEW a \in Strings PROVE a \o g = Append(a \o f, c)
      BY StringAppend, Zenon DEF Strings
    <3>4. t \o g = Append(t \o f, c) /\ x \o g = Append(x \o f, c)
      BY <3>3, Zenon
    <3>5. \A a \in Strings : Append(a, c) \in Strings
      BY DEF Strings
    <3>6. t \o g \in Strings /\ x \o g \in Strings
      BY <3>2, <3>4, <3>5, Zenon
    <3>7. Whole(Append(t \o f, c)) = Grow(Append(p, x \o f), c) /\ ~AtEnd(Append(t \o f, c))
      BY <3>1, <3>2, WholeAppend, Zenon
    <3>8. Grow(Append(p, x \o f), c) = Append(p, Append(x \o f, c))
      BY <3>2, GrowLast, Zenon
    <3> QED
      BY <3>4, <3>6, <3>7, <3>8, Zenon
  <2> QED
    BY <2>1, <2>2, Zenon
<1> HIDE DEF P
<1>3. \A f \in Seq(Nat) : f \in P => \A c \in Nat : Append(f, c) \in P
  BY <1>2, Zenon DEF Strings
<1>4. Seq(Nat) \subseteq P
  BY <1>1, <1>3, EverySequence, Zenon
<1> QED
  BY <1>4, Zenon DEF P, Strings, SplitInto

\* Clean components that are joined are split into the same components.
LEMMA JoinedSplits ==
  ASSUME NEW d \in Split, Clean(d)
  PROVE  Joined(d) \in Strings /\ Whole(Joined(d)) = d
<1> DEFINE Is(e) == /\ Joined(e) \in Strings /\ Whole(Joined(e)) = e
                    /\ AtEnd(Joined(e)) => Len(e) > 1 /\ e[Len(e)] = <<>>
           P == {e \in Seq(Strings) : e # <<>> /\ Clean(e) => Is(e)}
<1>1. <<>> \in P
  <2>1. <<>> \in Seq(Strings)
    OBVIOUS
  <2> QED
    BY <2>1, Zenon
<1>2. ASSUME NEW q \in Seq(Strings), q \in P, NEW x \in Strings PROVE Append(q, x) \in P
  <2> DEFINE e == Append(q, x)
  <2>1. /\ e \in Seq(Strings) /\ Len(q) \in Nat /\ Len(e) = Len(q) + 1 /\ e[Len(q) + 1] = x
        /\ q = <<>> <=> Len(q) = 0
    OBVIOUS
  <2>2. SUFFICES ASSUME Clean(e) PROVE Is(e)
    BY <2>1, Zenon
  <2>3. /\ \A i \in 1 .. Len(q) : NoSep(q[i])
        /\ \A i \in 2 .. Len(q) : q[i] # <<>>
        /\ NoSep(x)
    BY <2>2, CleanAppend, Zenon
  <2>4. Joined(e) = IF q = <<>> THEN x ELSE Joined(q) \o <<46>> \o x
    <3>1. q \in Seq(Seq(Nat)) /\ x \in Seq(Nat) /\ <<46>> \in Seq(Nat)
      <4>1. <<46>> \in Seq(Nat)
        OBVIOUS
      <4> QED
        BY <4>1, Zenon DEF Strings
    <3> DEFINE dot == <<46>>
    <3> HIDE DEF dot
    <3>2. Joins(Append(q, x), dot)[Len(q) + 1]
            = IF q = <<>> THEN x ELSE Joins(q, dot)[Len(q)] \o dot \o x
      <4>1. dot \in Seq(Nat)
        BY <3>1, Zenon DEF dot
      <4> QED
        BY ONLY <3>1, <4>1, JoinsAppend, Zenon
    <3> QED
      BY <2>1, <3>2, Zenon DEF Joined, dot
  <2>5. CASE q = <<>>
    <3> DEFINE none == <<>>
    <3>1. << <<>> >> = Append(none, <<>>) /\ none \in Seq(Strings)
      OBVIOUS
    <3> HIDE DEF none
    <3>2. /\ Whole(<<>> \o x) = Append(none, <<>> \o x)
          /\ AtEnd(<<>> \o x) => x = <<>>
      <4>1. SplitInto(<<>>, none, <<>>) /\ <<>> \in Strings /\ NoSep(x)
        BY <2>3, <3>1, WholeEmpty, Zenon DEF SplitInto
      <4>2. SplitInto(<<>> \o x, none, <<>> \o x)
        BY <3>1, <4>1, WholeLonger, Zenon
      <4>3. AtEnd(<<>> \o x) => x = <<>>
        BY <3>1, <4>1, WholeLonger, Zenon
      <4> QED
        BY <4>2, <4>3, Zenon DEF SplitInto
    <3>3. <<>> \o x = x
      BY ConcatEmptySeq, Zenon DEF Strings
    <3>4. ~AtEnd(x)
      BY <3>2, <3>3, WholeEmpty, Zenon
    <3> QED
      BY <2>4, <2>5, <3>2, <3>3, <3>4, Zenon DEF none
  <2>6. CASE q # <<>>
    <3> DEFINE j == Joined(q)
               k == Append(j, 46)
    <3>1. Clean(q)
      <4>1. \A i \in 2 .. Len(q) - 1 : i \in 2 .. Len(q)
        BY <2>1
      <4> QED
        BY <2>3, <4>1, Zenon DEF Clean
    <3>2. Is(q)
      BY <1>2, <2>6, <3>1, Zenon
    <3>3. ~AtEnd(j)
      <4>1. Len(q) > 1 => Len(q) \in 2 .. Len(q)
        BY <2>1
      <4> QED
        BY <2>3, <3>2, <4>1, Zenon
    <3>4. 46 \in Separators /\ 46 \in Nat
      BY DEF Separators
    <3>5. Whole(k) = Append(q, <<>>) /\ k \in Strings
      <4>1. j \in Strings /\ Whole(j) = q
        BY <3>2, Zenon
      <4> HIDE DEF j
      <4>2. k \in Strings
        BY <3>4, <4>1 DEF Strings
      <4>3. Whole(k) = Append(Whole(j), <<>>)
        BY ONLY <3>3, <3>4, <4>1, WholeAppend, Zenon DEF k
      <4> QED
        BY <4>1, <4>2, <4>3, Zenon
    <3>6. /\ Whole(k \o x) = Append(q, <<>> \o x) /\ k \o x \in Strings
          /\ AtEnd(k \o x) => x = <<>>
      <4>1. k \in Strings /\ <<>> \in Strings /\ Whole(k) = Append(q, <<>>) /\ NoSep(x)
        BY <2>3, <3>5, EmptyString, Zenon
      <4> DEFINE none == <<>>
      <4> HIDE DEF k, none
      <4>2. k \in Strings /\ none \in Strings /\ SplitInto(k, q, none) /\ NoSep(x)
        BY <4>1, Zenon DEF none, SplitInto
      <4>3. SplitInto(k \o x, q, none \o x)
        BY <4>2, WholeLonger, Zenon
      <4>4. k \o x \in Strings
        BY <4>2, WholeLonger, Zenon
      <4>5. AtEnd(k \o x) => x = <<>>
        BY <4>2, WholeLonger, Zenon
      <4> QED
        BY <4>3, <4>4, <4>5, Zenon DEF none, SplitInto
    <3>7. <<>> \o x = x
      BY ConcatEmptySeq, Zenon DEF Strings
    <3>8. Joined(e) = k \o x
      <4>1. k = j \o <<46>>
        BY <3>2, <3>4, AppendIsConcat, Zenon DEF Strings
      <4> QED
        BY <2>4, <2>6, <4>1, Zenon
    <3>9. Len(e) > 1
      BY <2>1, <2>6
    <3> QED
      BY <2>1, <3>6, <3>7, <3>8, <3>9, Zenon
  <2> QED
    BY <2>5, <2>6
<1> HIDE DEF P
<1>3. Seq(Strings) \subseteq P
  BY <1>1, <1>2, EverySequence, Zenon
<1> QED
  BY <1>3, Zenon DEF P, Split

\* Whatever the string is.
LEMMA EveryStringStable ==
  ASSUME NEW s \in Strings
  PROVE  IsStable(s)
<1>1. PICK p \in Seq(Strings), x \in Strings : Whole(s) = Append(p, x) /\ Faithful(s, p, x)
  BY SplitFaithful, Zenon
<1>2. CASE s = <<>>
  <2>1. SplitDomain(s) = <<>> /\ Len(<<>>) = 0 /\ DOMAIN <<>> = {}
    BY <1>2 DEF SplitDomain
  <2>2. Flat(<<>>) = Picks(s, {i \in DOMAIN s : s[i] \notin Separators})[Len(s)]
    BY <1>2, NothingKept, Zenon DEF Kept
  <2>3. ~(Len(<<>>) > 1) /\ 2 .. Len(<<>>) - 1 = {}
    BY <2>1
  <2> QED
    BY <2>1, <2>2, <2>3, Zenon DEF IsStable
<1>3. CASE s # <<>>
  <2> DEFINE d == SplitDomain(s)
  <2>1. d = Append(p, x) /\ d \in Split
    BY <1>1, <1>3, AppendSplit, Zenon DEF SplitDomain, Whole
  <2>2. Clean(d) /\ Flat(d) = Kept(s)
    BY <1>1, <2>1, Zenon DEF Faithful
  <2>3. DOMAIN d = 1 .. Len(d) /\ \A i \in 1 .. Len(d) : d[i] \in Seq(Nat)
    <3>1. d \in Seq(Strings)
      BY <2>1, Zenon DEF Split
    <3> QED
      BY <3>1, LenProperties, ElementOfSeq, Zenon DEF Strings
  <2>4. \A i \in DOMAIN d : \A j \in DOMAIN d[i] : d[i][j] \notin Separators
    <3>1. \A i \in 1 .. Len(d) : DOMAIN d[i] = 1 .. Len(d[i])
      BY <2>3, LenProperties, Zenon
    <3> QED
      BY <2>2, <2>3, <3>1, Zenon DEF Clean, NoSep
  <2>5. Joined(d) \in Strings /\ Whole(Joined(d)) = d
    BY <2>1, <2>2, JoinedSplits, Zenon
  <2>6. ASSUME Len(d) > 1 PROVE SplitDomain(Joined(d)) = d
    <3>1. Len(<< <<>> >>) = 1 /\ ~(1 > 1)
      OBVIOUS
    <3>2. Joined(d) # <<>>
      BY <2>5, <2>6, <3>1, WholeEmpty, Zenon
    <3> QED
      BY <2>5, <3>2, Zenon DEF SplitDomain, Whole
  <2> HIDE DEF d
  <2> QED
    BY <2>2, <2>4, <2>6, Zenon DEF IsStable, Clean, Kept, d
<1> QED
  BY <1>2, <1>3

\* Whatever splitDomain is asked about, the domain it returns has the string's characters
\* and is returned again for its joined components.
THEOREM SplitAlwaysStable == Spec => []SplitIsStable
<1>1. SplitIsStable
  BY DomainsAssumption, EveryStringStable DEF SplitIsStable
<1> QED
  BY <1>1, PTL

-----------------------------------------------------------------------------
(***************************************************************************)
(* The map                                                                 *)
(***************************************************************************)

\* The map always holds domains and levels.
THEOREM TypeCorrect == Spec => []TypeOK
<1>1. Init => TypeOK
  BY NamesAssumption DEF Init, TypeOK, Empty, Texts
<1>2. TypeOK /\ [Next]_vars => TypeOK'
  <2> SUFFICES ASSUME TypeOK, [Next]_vars PROVE TypeOK'
    OBVIOUS
  <2>1. Len(Names) \in Nat
    BY NamesAssumption
  <2>2. CASE UNCHANGED vars
    BY <2>2 DEF vars, TypeOK
  <2>3. CASE Plain \/ OfProperties \/ BadLevel
    BY <2>3 DEF Plain, OfProperties, BadLevel, TypeOK
  <2>4. ASSUME NEW d \in Seq(Strings), NEW level \in Levels,
               logDomains' = With(logDomains, d, level)
        PROVE  /\ DOMAIN logDomains' \subseteq Seq(Strings)
               /\ \A k \in DOMAIN logDomains' : logDomains'[k] \in Levels
    BY <2>4 DEF With, TypeOK
  <2>5. <<>> \in Seq(Strings)
    OBVIOUS
  <2>6. ASSUME NEW level \in Levels, OfLevel(level) PROVE TypeOK'
    BY <2>4, <2>5, <2>6 DEF OfLevel, TypeOK
  <2>7. CASE NoProperties
    BY <2>6, <2>7, LevelsAssumption DEF NoProperties
  <2>8. CASE LoadDomain
    <3>1. SplitDomain(Names[next]) \in Seq(Strings) /\ next' \in 1 .. Len(Names) + 1
      <4>1. Names[next] \in Strings /\ next' \in 1 .. Len(Names) + 1
        BY <2>1, <2>8, NamesAssumption DEF LoadDomain, TypeOK
      <4> QED
        BY <4>1, SplitTyped, Zenon
    <3>2. props[next] \in Levels \cup {Unset}
      BY <2>1, <2>8 DEF LoadDomain, TypeOK, Texts
    <3> QED
      BY <2>4, <2>8, <3>1, <3>2 DEF LoadDomain, TypeOK
  <2>9. CASE LoadDefault
    <3>1. default \in Levels \cup {Unset}
      BY <2>9 DEF LoadDefault, TypeOK, Texts
    <3> QED
      BY <2>4, <2>5, <2>9, <3>1 DEF LoadDefault, TypeOK
  <2> QED
    BY <2>2, <2>3, <2>6, <2>7, <2>8, <2>9 DEF Next
<1> QED
  BY <1>1, <1>2, PTL DEF Spec

\* Whatever is configured, level() answers for the most specific domain.
THEOREM LongestPrefix == Spec => []LongestPrefixWins
<1>1. TypeOK => LongestPrefixWins
  BY LastIsLongest, DomainsAssumption DEF TypeOK, LongestPrefixWins
<1> QED
  BY <1>1, TypeCorrect, PTL

\* Of levels there are finitely many: any that are there have a greatest.
LEMMA Greatest ==
  ASSUME NEW S \in SUBSET Levels, S # {}
  PROVE  \E m \in S : \A n \in S : n <= m
<1> DEFINE R == OpToRel(<, Nat)
           T == {DEBUG - n : n \in S}
<1>1. DEBUG \in Nat /\ \A n \in S : n \in Nat /\ DEBUG - n \in Nat
  BY LevelsAssumption DEF Levels
<1>2. PICK x \in T : \A y \in T : ~ (<<y, x>> \in R)
  <2>1. IsWellFoundedOn(R, Nat) /\ T \subseteq Nat /\ T # {}
    BY <1>1, NatLessThanWellFounded
  <2> HIDE DEF R, T
  <2> QED
    BY <2>1, WFMin
<1>3. PICK m \in S : x = DEBUG - m
  OBVIOUS
<1>4. ASSUME NEW n \in S PROVE n <= m
  <2>1. DEBUG - n \in T /\ DEBUG - n \in Nat /\ DEBUG - m \in Nat
    BY <1>1
  <2>2. ~ (<<DEBUG - n, DEBUG - m>> \in R)
    BY <1>2, <1>3, <2>1
  <2>3. ~ (DEBUG - n < DEBUG - m)
    BY <2>1, <2>2 DEF OpToRel
  <2> QED
    BY <1>1, <2>1, <2>3
<1> QED
  BY <1>4

\* So lowestLevel() is at least the level of every domain that is configured, and level()
\* answers with one of these.
THEOREM NoneBelowLowest == Spec => []LowestLevelBounds
<1>1. TypeOK => LowestLevelBounds
  <2> SUFFICES ASSUME TypeOK, NEW d \in Domains, Level(logDomains, d) # None
               PROVE  Level(logDomains, d) <= LowestLevel(logDomains)
    BY DEF LowestLevelBounds
  <2> DEFINE levels == {logDomains[k] : k \in DOMAIN logDomains}
  <2>1. LastMatch(logDomains, d) # {}
    BY DEF Level
  <2>2. PICK k \in DOMAIN logDomains : Level(logDomains, d) = logDomains[k]
    BY <2>1 DEF Level, LastMatch, Matches
  <2>3. levels \in SUBSET Levels /\ levels # {} /\ logDomains[k] \in levels
    BY <2>2 DEF TypeOK
  <2>4. LowestLevel(logDomains) = CHOOSE m \in levels : \A n \in levels : n <= m
    BY <2>3 DEF LowestLevel
  <2> HIDE DEF levels
  <2>5. \A n \in levels : n <= LowestLevel(logDomains)
    BY <2>3, <2>4, Greatest
  <2> QED
    BY <2>2, <2>3, <2>5
<1> QED
  BY <1>1, TypeCorrect, PTL

(***************************************************************************)
(* Settings                                                                *)
(***************************************************************************)

\* Nothing is configured until a constructor runs; while one reads, what it has read is
\* configured as its first setting says.
Settings == /\ state = "new" => logDomains = Empty /\ next = 1
            /\ FirstSettingHolds

\* Of the settings of one domain, however they are written, the one read first is kept.
THEOREM FirstHolds == Spec => []FirstSettingHolds
<1>1. Init => Settings
  BY DEF Init, Settings, FirstSettingHolds
<1>2. TypeOK /\ Settings /\ [Next]_vars => Settings'
  <2> SUFFICES ASSUME TypeOK, Settings, [Next]_vars PROVE Settings'
    OBVIOUS
  <2>1. CASE UNCHANGED vars
    BY <2>1 DEF vars, Settings, FirstSettingHolds, IsFirstFor
  <2>2. ASSUME state' \notin {"new", "loading"} PROVE Settings'
    BY <2>2 DEF Settings, FirstSettingHolds
  <2>3. CASE OfProperties
    <3>1. next' = 1 /\ logDomains' = Empty /\ state' = "loading"
      BY <2>3 DEF OfProperties, Settings
    <3> QED
      BY <3>1 DEF Settings, FirstSettingHolds, Empty
  <2>4. CASE LoadDomain
    <3>1. PICK n, e : n = next /\ e = SplitDomain(Names[next])
      OBVIOUS
    <3>2. /\ state = "loading" /\ state' = "loading" /\ UNCHANGED props
          /\ next \in Nat \ {0} /\ next' = next + 1
          /\ logDomains' = IF props[next] = Unset THEN logDomains
                           ELSE With(logDomains, e, props[next])
      BY <2>4, <3>1, NamesAssumption DEF LoadDomain, TypeOK
    <3>3. n = next /\ e = SplitDomain(Names[next])
      BY <3>1
    <3>4. DOMAIN logDomains' = DOMAIN logDomains \cup (IF props[next] = Unset THEN {} ELSE {e})
      BY <3>2 DEF With
    <3>5. \A d \in DOMAIN logDomains : logDomains'[d] = logDomains[d]
      BY <3>2 DEF With
    <3>6. props[next] # Unset /\ e \notin DOMAIN logDomains => logDomains'[e] = props[next]
      BY <3>2 DEF With
    <3>7. \A i \in 1 .. next' - 1 : i \in 1 .. next - 1 \/ i = next
      BY <3>2
    <3>8. FirstSettingHolds
      BY DEF Settings
    <3>9. \A i \in 1 .. next' - 1 :
            props'[i] # Unset => SplitDomain(Names[i]) \in DOMAIN logDomains'
      BY <3>2, <3>3, <3>4, <3>7, <3>8 DEF FirstSettingHolds
    <3>10. ASSUME NEW d \in DOMAIN logDomains
          PROVE  \E i \in 1 .. next' - 1 : IsFirstFor(i, d)' /\ logDomains'[d] = props'[i]
      <4>1. PICK i \in 1 .. next - 1 : IsFirstFor(i, d) /\ logDomains[d] = props[i]
        BY <3>2, <3>8, <3>10 DEF FirstSettingHolds
      <4>2. i \in 1 .. next' - 1
        BY <3>2, <4>1
      <4> QED
        BY <3>2, <3>5, <4>1, <4>2 DEF IsFirstFor
    <3>11. ASSUME props[next] # Unset, e \notin DOMAIN logDomains
           PROVE  n \in 1 .. next' - 1 /\ IsFirstFor(n, e)'
      <4>1. n \in 1 .. next' - 1
        BY <3>2, <3>3
      <4>2. \A j \in 1 .. next - 1 : props[j] # Unset => SplitDomain(Names[j]) # e
        BY <3>2, <3>8, <3>11 DEF FirstSettingHolds
      <4> QED
        BY <3>2, <3>3, <3>11, <4>1, <4>2 DEF IsFirstFor
    <3>12. ASSUME NEW d \in DOMAIN logDomains'
           PROVE  \E i \in 1 .. next' - 1 : IsFirstFor(i, d)' /\ logDomains'[d] = props'[i]
      BY <3>2, <3>3, <3>4, <3>6, <3>10, <3>11, <3>12
    <3> QED
      BY <3>2, <3>9, <3>12 DEF Settings, FirstSettingHolds
  <2> QED
    BY <2>1, <2>2, <2>3, <2>4 DEF Next, Plain, NoProperties, OfLevel, LoadDefault, BadLevel
<1> QED
  BY <1>1, <1>2, TypeCorrect, PTL DEF Spec, Settings
=============================================================================
