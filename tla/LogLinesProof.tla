--------------------------- MODULE LogLinesProof ---------------------------
(***************************************************************************)
(* Proofs about LogLines, for any number of writers, any widths and any    *)
(* domains: types, that syslog is closed in the end, and how components    *)
(* are cut to fit the width.                                               *)
(***************************************************************************)
EXTENDS LogLines, PrefixesProof

\* Sizes are numbers, and the domains that are written are sequences of them.
LEMMA SizesTyped == /\ NPos \in Nat /\ MaxComponents \in Nat /\ MaxLength \in Nat
                    /\ MaxWidth \in Nat /\ MaxWidth < NPos /\ NoWidth \notin Nat
BY SizesAssumption

\* Nothing that is being written has its type.
LEMMA NothingTyped == Nothing => FormatTypeOK
<1> SUFFICES ASSUME Nothing PROVE FormatTypeOK
  OBVIOUS
<1>1. cut \in Seq(BOOLEAN) /\ Len(cut) = 0
  BY EmptySeq DEF Nothing
<1> QED
  BY <1>1, SizesTyped DEF Nothing, FormatTypeOK

\* What is left of a width is a size, whatever is subtracted.
LEMMA MinusTyped ==
  ASSUME NEW m \in Nat, NEW n \in Nat
  PROVE  Minus(m, n) \in 0 .. NPos
<1> DEFINE a == m + (NPos + 1) - n
           b == NPos + 1
<1>1. a \in Int /\ b \in Nat \ {0} /\ b - 1 = NPos
  BY SizesTyped
<1>2. Minus(m, n) = a % b
  BY Zenon DEF Minus, Size
<1> HIDE DEF a, b
<1>3. a % b \in 0 .. b - 1
  BY <1>1
<1> QED
  BY <1>1, <1>2, <1>3

\* A turn of either loop keeps the types.
LEMMA WriteTyped == FormatTypeOK /\ (WriteAll \/ WriteComponent) => FormatTypeOK'
<1> SUFFICES ASSUME FormatTypeOK, WriteAll \/ WriteComponent PROVE FormatTypeOK'
  OBVIOUS
<1> USE SizesTyped DEF FormatTypeOK
<1>1. ASSUME NEW short \in BOOLEAN, cut' = Append(cut, short)
      PROVE  cut' \in Seq(BOOLEAN) /\ Len(cut') = Len(cut) + 1
  BY <1>1, AppendProperties
<1>2. PICK short \in BOOLEAN : cut' = Append(cut, short)
  <2>1. CASE WriteAll
    BY <2>1, Zenon DEF WriteAll
  <2>2. CASE WriteComponent
    <3> DEFINE b == Total(di) > target
    <3>1. b \in BOOLEAN
      OBVIOUS
    <3>2. cut' = Append(cut, b)
      BY <2>2, Zenon DEF WriteComponent
    <3> QED
      BY <3>1, <3>2, Zenon
  <2> QED
    BY <2>1, <2>2
<1>3. /\ UNCHANGED <<lengths, width>> /\ di' = di + 1
      /\ di \in 1 .. Len(lengths)
  <2>1. UNCHANGED <<lengths, width>> /\ di' = di + 1 /\ di <= Len(lengths)
    BY Zenon DEF WriteAll, WriteComponent
  <2>2. Len(lengths) \in Nat
    OBVIOUS
  <2> QED
    BY <2>1, <2>2
<1>4. target' \in 0 .. NPos
  <2>1. CASE WriteAll
    BY <2>1 DEF WriteAll
  <2>2. CASE WriteComponent
    <3>1. Taken(di, Total(di) > target) \in Nat
      BY <1>3 DEF Taken
    <3> QED
      BY <2>2, <3>1, MinusTyped DEF WriteComponent
  <2> QED
    BY <2>1, <2>2
<1> QED
  BY <1>1, <1>2, <1>3, <1>4

\* The parts of TypeOK that the writers' own steps concern.
WritersTyped ==
  /\ \A w \in Writers : widths[w] \in Configured[w] \cup {-1, None}
  /\ busy = None \/ widths[busy] # None
  /\ busy = None => Nothing
  /\ ident \in {"program", "gone"}
  /\ connected \in BOOLEAN
  /\ option \in Options \cup {None}
  /\ facility \in Facilities \cup {None}

Typed == /\ FormatTypeOK
         /\ DOMAIN widths = Writers
         /\ busy \in Writers \cup {None}
         /\ WritersTyped

\* Every step keeps the types.
LEMMA StepTyped == Typed /\ [Next]_vars => Typed'
<1> SUFFICES ASSUME Typed, [Next]_vars PROVE Typed'
  OBVIOUS
<1> USE WritersAssumption, SizesTyped DEF Typed, WritersTyped, syslog
<1>1. ASSUME UNCHANGED format PROVE FormatTypeOK' /\ (Nothing => Nothing')
  BY <1>1 DEF format, FormatTypeOK, Nothing
<1>2. CASE UNCHANGED vars
  BY <1>1, <1>2 DEF vars
<1>3. ASSUME NEW w \in Writers, NEW values \in SUBSET (Configured[w] \cup {-1}),
             Constructed(w, values), ident' \in {"program", "gone"}, connected' \in BOOLEAN,
             option' \in Options \cup {None}, facility' \in Facilities \cup {None}
      PROVE  Typed'
  BY <1>1, <1>3 DEF Constructed, Idle
<1>4. ASSUME NEW w \in Writers, NewConsole(w) \/ NewSyslog(w) \/ NewSyslogBare(w) PROVE Typed'
  BY <1>3, <1>4 DEF NewConsole, NewSyslog, NewSyslogBare, OpenLog
<1>5. ASSUME NEW w \in Writers, Delete(w) PROVE Typed'
  <2>1. /\ ident' \in {"program", "gone"} /\ connected' \in BOOLEAN
        /\ UNCHANGED <<option, facility>>
    BY <1>5 DEF Delete, CloseLog
  <2> QED
    BY <1>1, <1>5, <2>1 DEF Delete, Idle
<1>6. ASSUME NEW w \in Writers, NEW domain \in Domains, Message(w, domain) PROVE Typed'
  <2>1. AsOptional(widths[w]) \in 0 .. MaxWidth \cup {NoWidth}
    BY <1>6 DEF Message, AsOptional
  <2>2. PICK n \in 0 .. MaxComponents : domain \in [1 .. n -> 0 .. MaxLength]
    BY DEF Domains
  <2>3. <<>> \in Seq(BOOLEAN) /\ Len(<<>>) = 0
    BY EmptySeq
  <2>4. FormatTypeOK'
    <3>1. domain \in Seq(Nat)
      BY <2>2
    <3> QED
      BY <1>6, <2>1, <2>2, <2>3, <3>1 DEF Message, WriteDomain, FormatTypeOK
  <2> QED
    BY <1>6, <2>4 DEF Message
<1>7. CASE WriteStep
  BY <1>7, WriteTyped DEF WriteStep
<1>8. CASE Sent
  <2>1. Nothing'
    BY <1>8 DEF Sent, Nothing
  <2>2. connected' \in BOOLEAN
    BY <1>8, Zenon DEF Sent
  <2>3. FormatTypeOK'
    BY <2>1, EmptySeq DEF Nothing, FormatTypeOK
  <2> QED
    BY <1>8, <2>1, <2>2, <2>3 DEF Sent
<1> QED
  BY <1>2, <1>4, <1>5, <1>6, <1>7, <1>8 DEF Next

\* Lines and writers have their types at every moment.
THEOREM TypedAlways == Spec => []Typed
<1>1. Init => Typed
  BY NothingTyped, SizesTyped DEF Init, Typed, WritersTyped
<1> QED
  BY <1>1, StepTyped, PTL DEF Spec

\* Sizes stay sizes, and a line is being made only for a writer that is there.
THEOREM TypeCorrect == Spec => []TypeOK
<1>1. Typed => TypeOK
  BY DEF Typed, WritersTyped, TypeOK
<1> QED
  BY <1>1, TypedAlways, PTL

\* The last writer closes what all of them have opened.
THEOREM SyslogClosed == Spec => []SyslogIsClosed
<1>1. Init => SyslogIsClosed
  BY DEF Init, SyslogIsClosed
<1>2. Typed /\ SyslogIsClosed /\ [Next]_vars => SyslogIsClosed'
  <2> SUFFICES ASSUME Typed, SyslogIsClosed, [Next]_vars, \A w \in Syslogs : widths'[w] = None
               PROVE  ident' = "program" /\ ~connected'
    BY DEF SyslogIsClosed
  <2> USE WritersAssumption DEF Typed, WritersTyped, syslog, SyslogIsClosed, Writers
  <2>1. CASE UNCHANGED vars
    BY <2>1 DEF vars
  <2>2. ASSUME NEW w \in Writers, NewConsole(w) PROVE ident' = "program" /\ ~connected'
    BY <2>2 DEF NewConsole, Constructed
  <2>3. ASSUME NEW w \in Syslogs, NEW values \in SUBSET Int, Constructed(w, values) PROVE FALSE
    BY <2>3 DEF Constructed
  <2>4. ASSUME NEW w \in Writers, NewSyslog(w) \/ NewSyslogBare(w) PROVE FALSE
    BY <2>3, <2>4, SizesTyped DEF NewSyslog, NewSyslogBare
  <2>5. ASSUME NEW w \in Writers, Delete(w) PROVE ident' = "program" /\ ~connected'
    BY <2>5 DEF Delete, CloseLog
  <2>6. CASE WriteStep \/ \E w \in Writers, domain \in Domains : Message(w, domain)
    BY <2>6 DEF WriteStep, Message
  <2>7. CASE Sent
    BY <2>7 DEF Sent
  <2> QED
    BY <2>1, <2>2, <2>4, <2>5, <2>6, <2>7 DEF Next
<1> QED
  BY <1>1, <1>2, TypedAlways, PTL DEF Spec

-----------------------------------------------------------------------------
(***************************************************************************)
(* What the components take                                                *)
(***************************************************************************)

\* RestFrom, of any domain.
Full(ls)    == [j \in DOMAIN ls |-> 1 + ls[j]]
Rest(ls, i) == Sums(Full(ls))[Len(ls)] - Sums(Full(ls))[i - 1]

\* The components with their separators are as many as the components.
LEMMA FullSteps ==
  ASSUME NEW ls \in Seq(Nat)
  PROVE  /\ Full(ls) \in Seq(Nat) /\ Len(Full(ls)) = Len(ls) /\ Len(ls) \in Nat
         /\ \A i \in 1 .. Len(ls) : Full(ls)[i] = 1 + ls[i] /\ ls[i] \in Nat
<1>1. Len(ls) \in Nat /\ DOMAIN ls = 1 .. Len(ls)
  OBVIOUS
<1>2. \A i \in 1 .. Len(ls) : ls[i] \in Nat
  OBVIOUS
<1>3. Full(ls) = [i \in 1 .. Len(ls) |-> 1 + ls[i]]
  BY <1>1, Zenon DEF Full
<1> DEFINE n == Len(ls)
<1> HIDE DEF n
<1>4. [i \in 1 .. n |-> 1 + ls[i]] \in Seq(Nat) /\ Len([i \in 1 .. n |-> 1 + ls[i]]) = n
  BY <1>1, <1>2 DEF n
<1>5. \A i \in 1 .. n : Full(ls)[i] = 1 + ls[i]
  BY <1>3, Zenon DEF n
<1> QED
  BY <1>1, <1>2, <1>3, <1>4, <1>5, Zenon DEF n

\* It is less by a component and its separator from each component to the next.
LEMMA RestSteps ==
  ASSUME NEW ls \in Seq(Nat)
  PROVE  /\ Rest(ls, Len(ls) + 1) = 0
         /\ \A i \in 1 .. Len(ls) : Rest(ls, i) = Rest(ls, i + 1) + 1 + ls[i]
         /\ \A i \in 1 .. Len(ls) + 1 : Rest(ls, i) \in Nat
<1> DEFINE full == Full(ls)
           n == Len(ls)
           F == Sums(full)
<1>1. /\ full \in Seq(Nat) /\ Len(full) = n /\ n \in Nat
      /\ \A i \in 1 .. n : full[i] = 1 + ls[i] /\ ls[i] \in Nat
  BY FullSteps, Zenon
<1> HIDE DEF full
<1>2. F \in [0 .. n -> Nat] /\ \A i \in 1 .. n : F[i] = F[i - 1] + full[i]
  BY <1>1, SumsSteps
<1>3. \A i \in 0 .. n : F[i] <= F[n]
  BY <1>1, SumsGrow
<1> HIDE DEF F, n
<1>4. \A i \in 1 .. n + 1 : Rest(ls, i) = F[n] - F[i - 1]
  BY DEF Rest, F, full, n
<1>5. Rest(ls, n + 1) = 0
  <2>1. Rest(ls, n + 1) = F[n] - F[(n + 1) - 1]
    BY <1>1, <1>4
  <2>2. (n + 1) - 1 = n /\ F[n] \in Nat
    BY <1>1, <1>2
  <2> QED
    BY <2>1, <2>2
<1>6. ASSUME NEW i \in 1 .. n PROVE Rest(ls, i) = Rest(ls, i + 1) + 1 + ls[i]
  <2>1. /\ (i + 1) - 1 = i /\ i \in 1 .. n + 1 /\ i + 1 \in 1 .. n + 1
        /\ i - 1 \in 0 .. n /\ i \in 0 .. n /\ n \in 0 .. n
    BY <1>1
  <2>2. Rest(ls, i) = F[n] - F[i - 1] /\ Rest(ls, i + 1) = F[n] - F[(i + 1) - 1]
    BY <1>4, <2>1
  <2>3. PICK f \in Nat, g \in Nat, h \in Nat, l \in Nat :
           f = F[n] /\ g = F[i - 1] /\ h = F[i] /\ l = ls[i]
    BY <1>1, <1>2, <2>1
  <2>4. h = g + (1 + l)
    BY <1>1, <1>2, <2>3
  <2>5. Rest(ls, i) = f - g /\ Rest(ls, i + 1) = f - h
    BY <2>1, <2>2, <2>3, Zenon
  <2>6. f - g = (f - h) + 1 + l
    BY <2>4
  <2> QED
    BY <2>3, <2>5, <2>6, Zenon
<1>7. ASSUME NEW i \in 1 .. n + 1 PROVE Rest(ls, i) \in Nat
  <2>1. i - 1 \in 0 .. n /\ n \in 0 .. n
    BY <1>1
  <2>2. F[n] \in Nat /\ F[i - 1] \in Nat /\ F[i - 1] <= F[n]
    BY <1>2, <1>3, <2>1
  <2> QED
    BY <1>4, <2>2
<1> QED
  BY <1>5, <1>6, <1>7 DEF n

\* A component takes a place at least, two if it is not empty, and what domains have is
\* never more than a size can count.
LEMMA RestBounds ==
  ASSUME NEW ls \in Domains
  PROVE  /\ ls \in Seq(Nat)
         /\ \A i \in 1 .. Len(ls) + 1 :
              /\ Rest(ls, i) >= Len(ls) + 1 - i
              /\ Rest(ls, i) < NPos
              /\ (\A j \in 1 .. Len(ls) : ls[j] # 0) => Rest(ls, i) >= 2 * (Len(ls) + 1 - i)
<1>1. PICK n \in 0 .. MaxComponents : ls \in [1 .. n -> 0 .. MaxLength]
  BY DEF Domains
<1>2. ls \in Seq(Nat) /\ Len(ls) = n /\ \A j \in 1 .. n : ls[j] \in 0 .. MaxLength
  BY <1>1, SizesTyped
<1> DEFINE K == MaxLength + 1
           none == \A j \in 1 .. n : ls[j] # 0
           R(m) == Rest(ls, (n + 1) - m)
           P == {m \in 0 .. n : /\ m <= R(m) /\ R(m) <= m * K
                                /\ none => 2 * m <= R(m)}
<1>3. /\ R(0) = 0
      /\ \A m \in 1 .. n : R(m) = R(m - 1) + 1 + ls[(n + 1) - m]
      /\ \A m \in 0 .. n : R(m) \in Nat
  <2>1. R(0) = 0
    <3>1. (n + 1) - 0 = n + 1
      OBVIOUS
    <3>2. Rest(ls, n + 1) = 0
      BY <1>2, RestSteps, Zenon
    <3> QED
      BY <3>1, <3>2, Zenon
  <2>2. ASSUME NEW m \in 1 .. n PROVE R(m) = R(m - 1) + 1 + ls[(n + 1) - m]
    <3>1. PICK i \in 1 .. n : i = (n + 1) - m /\ (n + 1) - (m - 1) = i + 1
      OBVIOUS
    <3>2. Rest(ls, i) = Rest(ls, i + 1) + 1 + ls[i]
      BY <1>2, RestSteps, Zenon
    <3> QED
      BY <3>1, <3>2, Zenon
  <2>3. ASSUME NEW m \in 0 .. n PROVE R(m) \in Nat
    <3>1. (n + 1) - m \in 1 .. n + 1
      OBVIOUS
    <3> QED
      BY <1>2, <3>1, RestSteps, Zenon
  <2> QED
    BY <2>1, <2>2, <2>3
<1> HIDE DEF R
<1>4. K \in Nat /\ 0 * K = 0 /\ \A m \in 1 .. n : m * K = (m - 1) * K + K
  BY SizesTyped
<1>5. 0 \in P
  BY <1>3, <1>4
<1>6. ASSUME NEW m \in 1 .. n, m - 1 \in P PROVE m \in P
  <2> DEFINE j == (n + 1) - m
             a == m * K
             b == (m - 1) * K
  <2>1. j \in 1 .. n /\ m - 1 \in 0 .. n /\ m \in 0 .. n
    OBVIOUS
  <2>2. ls[j] \in 0 .. MaxLength /\ R(m) = R(m - 1) + 1 + ls[j]
        /\ R(m) \in Nat /\ R(m - 1) \in Nat
    BY <1>2, <1>3, <2>1
  <2>3. a = b + K /\ a \in Nat /\ b \in Nat /\ K \in Nat
    <3>1. K \in Nat /\ m \in Nat /\ m - 1 \in Nat /\ a = b + K
      BY <1>4, <2>1
    <3> HIDE DEF K
    <3> QED
      BY <3>1
  <2>4. m - 1 <= R(m - 1) /\ R(m - 1) <= b /\ (none => 2 * (m - 1) <= R(m - 1))
    BY <1>6
  <2>5. none => ls[j] # 0
    BY <2>1
  <2> HIDE DEF j, none, a, b
  <2>6. m <= R(m) /\ R(m) <= a /\ (none => 2 * m <= R(m))
    BY <2>1, <2>2, <2>3, <2>4, <2>5, SizesTyped
  <2> QED
    BY <2>1, <2>6 DEF a
<1> HIDE DEF P
<1>7. 0 .. n \subseteq P
  BY <1>5, <1>6, UpTo
<1>8. \A m \in 0 .. n : m * K < NPos
  <2> SUFFICES ASSUME NEW m \in 0 .. n PROVE m * K < NPos
    OBVIOUS
  <2>1. PICK d \in Nat : MaxComponents = m + d
    <3>1. MaxComponents - m \in Nat /\ MaxComponents = m + (MaxComponents - m)
      BY SizesTyped
    <3> QED
      BY <3>1
  <2>2. MaxComponents * K = m * K + d * K /\ d * K \in Nat /\ m * K \in Nat
    BY <1>4, <2>1
  <2>3. MaxComponents * K < NPos /\ NPos \in Nat
    BY SizesAssumption
  <2> QED
    BY <2>2, <2>3
<1>9. ASSUME NEW i \in 1 .. n + 1
      PROVE  /\ Rest(ls, i) >= n + 1 - i /\ Rest(ls, i) < NPos
             /\ none => Rest(ls, i) >= 2 * (n + 1 - i)
  <2>1. PICK m \in 0 .. n : m = (n + 1) - i /\ i = (n + 1) - m
    OBVIOUS
  <2>2. Rest(ls, i) = R(m) /\ R(m) \in Nat
    BY <1>3, <2>1 DEF R
  <2>3. m <= R(m) /\ R(m) <= m * K /\ (none => 2 * m <= R(m))
    BY <1>7 DEF P
  <2>4. m * K < NPos /\ m * K \in Nat
    BY <1>4, <1>8
  <2> HIDE DEF none, K
  <2> QED
    BY <2>1, <2>2, <2>3, <2>4, SizesTyped
<1> QED
  BY <1>2, <1>9

\* Every component but the first has a separator before it.
First(i) == IF i = 1 THEN 1 ELSE 0

\* The text when the first k components are cut: two places for each of these, without
\* the first separator, and the rest in full.
LEMMA TextOf ==
  ASSUME lengths \in Seq(Nat), Len(lengths) # 0, NEW k \in 0 .. Len(lengths)
  PROVE  TextLength(1 .. k) = 2 * k + Rest(lengths, k + 1) - 1
<1> DEFINE n == Len(lengths)
           full == Full(lengths)
           F == Sums(full)
           Place(j) == (IF j = 1 THEN 0 ELSE 1) + (IF j \in 1 .. k THEN 1 ELSE lengths[j])
           text == [j \in DOMAIN lengths |-> Place(j)]
           T == Sums(text)
<1>1. /\ n \in Nat \ {0} /\ k \in 0 .. n
      /\ full \in Seq(Nat) /\ Len(full) = n
      /\ \A j \in 1 .. n : full[j] = 1 + lengths[j] /\ lengths[j] \in Nat
  <2>1. full \in Seq(Nat) /\ Len(full) = n /\ n \in Nat
    BY FullSteps, Zenon
  <2>2. \A j \in 1 .. n : full[j] = 1 + lengths[j] /\ lengths[j] \in Nat
    BY FullSteps, Zenon
  <2> HIDE DEF full, n
  <2>3. n # 0 /\ k \in 0 .. n
    BY Zenon DEF n
  <2> QED
    BY <2>1, <2>2, <2>3
<1>2. DOMAIN lengths = 1 .. n /\ \A j \in 1 .. n : Place(j) \in Nat
  BY <1>1
<1>3. TextLength(1 .. k) = T[n] /\ Rest(lengths, k + 1) = F[n] - F[(k + 1) - 1]
  BY Zenon DEF TextLength, Rest
<1>4. text \in Seq(Nat) /\ Len(text) = n /\ \A j \in 1 .. n : text[j] = Place(j)
  <2> HIDE DEF Place, n
  <2> QED
    BY <1>1, <1>2
<1> HIDE DEF full, text
<1>5. F \in [0 .. n -> Nat] /\ \A i \in 1 .. n : F[i] = F[i - 1] + full[i]
  BY <1>1, SumsSteps
<1>6. T \in [0 .. n -> Nat] /\ T[0] = 0 /\ \A i \in 1 .. n : T[i] = T[i - 1] + text[i]
  BY <1>4, SumsSteps
<1> HIDE DEF F, T, n
<1> DEFINE P == {j \in 0 .. n : T[j] + (IF j = 0 THEN 0 ELSE 1)
                                = IF j <= k THEN 2 * j ELSE (2 * k + F[j]) - F[k]}
<1>7. 0 \in P
  BY <1>1, <1>6
<1>8. ASSUME NEW j \in 1 .. n, j - 1 \in P PROVE j \in P
  <2>1. /\ T[j] = T[j - 1] + Place(j) /\ F[j] = F[j - 1] + (1 + lengths[j])
        /\ lengths[j] \in Nat
    <3> HIDE DEF Place, P
    <3>1. T[j] = T[j - 1] + text[j] /\ text[j] = Place(j)
      BY <1>4, <1>6, Zenon
    <3>2. F[j] = F[j - 1] + full[j] /\ full[j] = 1 + lengths[j] /\ lengths[j] \in Nat
      BY <1>1, <1>5, Zenon
    <3> QED
      BY <3>1, <3>2, Zenon
  <2>2. PICK l \in Nat, f \in Nat, g \in Nat, t \in Nat, u \in Nat, h \in Nat :
          /\ l = lengths[j] /\ f = F[j] /\ g = F[j - 1] /\ t = T[j] /\ u = T[j - 1]
          /\ h = F[k]
    <3>1. j \in 0 .. n /\ j - 1 \in 0 .. n /\ k \in 0 .. n
      BY <1>1
    <3> QED
      BY <1>5, <1>6, <2>1, <3>1
  <2>3. /\ t = u + Place(j) /\ f = g + (1 + l)
        /\ Place(j) = (IF j = 1 THEN 0 ELSE 1) + (IF j <= k THEN 1 ELSE l)
    <3>1. j \in 1 .. k <=> j <= k
      BY <1>1
    <3> QED
      BY <2>1, <2>2, <3>1, Zenon
  <2> HIDE DEF Place
  <2>4. u + (IF j - 1 = 0 THEN 0 ELSE 1) = IF j - 1 <= k THEN 2 * (j - 1) ELSE (2 * k + g) - h
    BY <1>8, <2>2
  <2>5. j - 1 = k => g = h
    BY <2>2
  <2>6. t + 1 = IF j <= k THEN 2 * j ELSE (2 * k + f) - h
    <3>1. j \in Nat \ {0} /\ k \in Nat
      BY <1>1
    <3> QED
      BY <2>3, <2>4, <2>5, <3>1
  <2> QED
    BY <2>2, <2>6
<1> HIDE DEF P
<1>9. 0 .. n \subseteq P
  BY <1>1, <1>7, <1>8, UpTo
<1>10. T[n] + 1 = IF n <= k THEN 2 * n ELSE (2 * k + F[n]) - F[k]
  BY <1>1, <1>9 DEF P
<1>11. PICK f \in Nat, h \in Nat, t \in Nat : f = F[n] /\ h = F[k] /\ t = T[n]
  <2>1. n \in 0 .. n
    BY <1>1
  <2>2. F[n] \in Nat /\ F[k] \in Nat
    BY ONLY <1>1, <1>5, <2>1
  <2>3. T[n] \in Nat
    BY ONLY <1>6, <2>1
  <2> QED
    BY <2>2, <2>3, Zenon
<1>12. TextLength(1 .. k) = t /\ Rest(lengths, k + 1) = f - h
  <2>1. (k + 1) - 1 = k
    BY <1>1
  <2> QED
    BY <1>3, <1>11, <2>1, Zenon
<1>13. t = 2 * k + (f - h) - 1
  <2>1. t + 1 = IF n <= k THEN 2 * n ELSE (2 * k + f) - h
    BY <1>10, <1>11, Zenon
  <2>2. n <= k => n = k /\ f = h
    BY <1>1, <1>11
  <2> QED
    BY <1>1, <2>1, <2>2
<1> QED
  BY <1>12, <1>13, Zenon

\* What is taken away fits: sizes do not wrap around.
LEMMA MinusExact ==
  ASSUME NEW m \in 0 .. NPos, NEW n \in 0 .. m
  PROVE  Minus(m, n) = m - n
<1> DEFINE b == NPos + 1
           d == m - n
<1>1. b \in Nat \ {0} /\ d \in 0 .. b - 1
  BY SizesTyped
<1>2. Minus(m, n) = (d + b) % b
  <2>1. m + b - n = d + b
    BY SizesTyped
  <2> QED
    BY <2>1, Zenon DEF Minus, Size
<1> HIDE DEF b, d
<1>3. (d + b) % b = d
  BY <1>1
<1> QED
  BY <1>2, <1>3 DEF d

\* Of a domain that is not empty, total is what the components take in full.
LEMMA TotalExact ==
  ASSUME lengths \in Domains, NEW i \in 1 .. Len(lengths)
  PROVE  Total(i) = Rest(lengths, i) - First(i)
<1> DEFINE b == NPos + 1
           r == Rest(lengths, i)
<1>1. b \in Nat \ {0} /\ r \in 1 .. b - 1 /\ b - 1 = NPos
  BY RestBounds, RestSteps, SizesTyped
<1>2. Total(i) = ((IF i = 1 THEN b - 1 ELSE 0) + r) % b
  BY <1>1, Zenon DEF Total, Size, RestFrom, Rest, Full
<1> HIDE DEF b, r
<1>3. CASE i = 1
  <2>1. Total(i) = ((b - 1) + r) % b
    BY <1>2, <1>3, Zenon
  <2>2. ((b - 1) + r) % b = r - 1
    BY <1>1
  <2> QED
    BY <1>3, <2>1, <2>2 DEF First, r
<1>4. CASE i # 1
  <2>1. Total(i) = (0 + r) % b
    BY <1>2, <1>4, Zenon
  <2>2. (0 + r) % b = r - 0
    BY <1>1
  <2> QED
    BY <1>4, <2>1, <2>2 DEF First, r
<1> QED
  BY <1>3, <1>4

-----------------------------------------------------------------------------
(***************************************************************************)
(* What is cut                                                             *)
(***************************************************************************)

\* The first k components are cut.  With the last of these in full the text would not
\* fit.  What is left is enough for all the others cut, if all were so far, and else for
\* the rest in full.
CutTo(k) ==
  /\ Cut = 1 .. k
  /\ target + 2 * k + Rest(lengths, k + 1) + First(di) = width + 1 + Rest(lengths, di)
  /\ IF k = di - 1 THEN target + First(di) >= 2 * (Len(lengths) - di + 1)
     ELSE Rest(lengths, di) <= target
  /\ k > 0 => Rest(lengths, k) + 2 * (k - 1) > width + 1

\* Two places of the width are used for each component, as long as there are two.
Used ==
  /\ di = 1 => target = width
  /\ di > 1 /\ 2 * di <= width + 3 => target = width + 3 - 2 * di
  /\ \A i \in 1 .. di - 1 : i = 1 \/ 2 * i <= width + 3 => cut[i]

\* The inductive invariant: the one if the width is enough for every component cut, the
\* other if it is not.
Fitting ==
  /\ lengths \in Domains
  /\ width # NoWidth =>
       IF WideEnough THEN \E k \in 0 .. di - 1 : CutTo(k)
       ELSE 0 \notin {lengths[i] : i \in DOMAIN lengths} => Used

\* A component more is cut or is not.
LEMMA CutMore ==
  ASSUME FormatTypeOK, NEW short \in BOOLEAN, cut' = Append(cut, short)
  PROVE  /\ Cut' = IF short THEN Cut \cup {di} ELSE Cut
         /\ cut'[di] = short /\ \A i \in 1 .. di - 1 : cut'[i] = cut[i]
         /\ Cut \subseteq 1 .. di - 1
<1>1. PICK i \in Nat \ {0} : i = di /\ cut \in Seq(BOOLEAN) /\ Len(cut) = i - 1
  BY DEF FormatTypeOK
<1>2. /\ DOMAIN cut = 1 .. i - 1 /\ DOMAIN cut' = 1 .. i /\ cut'[i] = short
      /\ \A j \in 1 .. i - 1 : cut'[j] = cut[j]
  BY <1>1
<1>3. \A j : j \in 1 .. i <=> j \in 1 .. i - 1 \/ j = i
  BY <1>1
<1>4. Cut' = {j \in DOMAIN cut' : cut'[j]}
  BY Zenon DEF Cut
<1>5. \A j : j \in Cut' <=> (j \in 1 .. i - 1 /\ cut[j]) \/ (j = i /\ short)
  <2>1. i \notin 1 .. i - 1
    BY <1>1
  <2> QED
    BY <1>2, <1>3, <1>4, <2>1, Zenon
<1>6. \A j : j \in Cut <=> j \in 1 .. i - 1 /\ cut[j]
  BY <1>2, Zenon DEF Cut
<1>7. Cut' = IF short THEN Cut \cup {i} ELSE Cut
  <2>1. CASE short
    <3>1. \A j : j \in Cut' <=> j \in Cut \/ j = i
      BY <1>5, <1>6, <2>1, Zenon
    <3>2. Cut' = Cut \cup {i}
      BY <3>1
    <3> QED
      BY <2>1, <3>2
  <2>2. CASE ~short
    <3>1. Cut' = Cut
      BY <1>5, <1>6, <2>2, Zenon
    <3> QED
      BY <2>2, <3>1
  <2> QED
    BY <2>1, <2>2
<1> QED
  BY <1>1, <1>2, <1>6, <1>7, Zenon

\* A turn of the loop keeps it.
LEMMA TurnFits == FormatTypeOK /\ Fitting /\ WriteComponent => Fitting'
<1> SUFFICES ASSUME FormatTypeOK, Fitting, WriteComponent PROVE Fitting'
  OBVIOUS
<1>1. PICK i, n, w, t, short :
        /\ i = di /\ n = Len(lengths) /\ w = width /\ t = target /\ short = (Total(di) > target)
  OBVIOUS
<1>2. /\ i \in 1 .. n /\ n \in Nat /\ i \in Nat /\ w \in Nat /\ t \in 0 .. NPos
      /\ short \in BOOLEAN /\ width # NoWidth
      /\ lengths' = lengths /\ width' = w /\ di' = i + 1 /\ (i + 1) - 1 = i
  BY <1>1, SizesTyped DEF FormatTypeOK, WriteComponent
<1> DEFINE R(j) == Rest(lengths, j)
           NoneEmpty == 0 \notin {lengths[j] : j \in DOMAIN lengths}
<1>3. /\ cut' = Append(cut, short)
      /\ target' = Minus(t, Taken(i, short))
  BY <1>1, Zenon DEF WriteComponent
<1>4. PICK r \in Nat, s \in Nat, l \in Nat, f \in 0 .. 1 :
        r = R(i) /\ s = R(i + 1) /\ l = lengths[i] /\ f = First(i)
  <2>1. /\ lengths \in Domains /\ lengths \in Seq(Nat) /\ i + 1 \in 1 .. n + 1
        /\ i \in 1 .. n + 1
    BY <1>2, RestBounds DEF Fitting
  <2>2. R(i) \in Nat /\ R(i + 1) \in Nat
    BY <1>1, <1>2, <2>1, RestSteps, Zenon
  <2>3. lengths[i] \in Nat
    BY <1>1, <1>2, <2>1
  <2>4. First(i) \in 0 .. 1
    BY DEF First
  <2> HIDE DEF R
  <2> QED
    BY <2>2, <2>3, <2>4
<1>5. /\ r \in Nat /\ s \in Nat /\ l \in Nat /\ r = s + 1 + l /\ s >= n - i
      /\ f \in {0, 1} /\ (i = 1 <=> f = 1) /\ First(i + 1) = 0
      /\ i \in 1 .. n /\ n \in Nat /\ i \in Nat /\ w \in Nat /\ t \in 0 .. NPos
      /\ NPos \in Nat
  <2>1. /\ lengths \in Domains /\ lengths \in Seq(Nat) /\ i + 1 \in 1 .. n + 1
        /\ (n + 1) - (i + 1) = n - i
    BY <1>2, RestBounds DEF Fitting
  <2>2. R(i) = R(i + 1) + 1 + lengths[i]
    BY <1>1, <1>2, <2>1, RestSteps, Zenon
  <2>3. R(i + 1) >= n + 1 - (i + 1)
    BY <1>1, <2>1, RestBounds, Zenon
  <2>4. r = s + 1 + l /\ s >= n + 1 - (i + 1)
    BY <1>4, <2>2, <2>3, Zenon
  <2>5. (i = 1 <=> f = 1) /\ First(i + 1) = 0
    BY <1>2, <1>4 DEF First
  <2> QED
    BY <1>2, <2>4, <2>5, SizesTyped
<1>6. NoneEmpty => s >= 2 * (n - i) /\ l # 0
  <2> SUFFICES ASSUME NoneEmpty PROVE s >= 2 * (n - i) /\ l # 0
    OBVIOUS
  <2>1. lengths \in Domains /\ lengths \in Seq(Nat) /\ DOMAIN lengths = 1 .. n
    BY <1>1, <1>2, RestBounds DEF Fitting
  <2>2. \A j \in 1 .. n : lengths[j] # 0
    BY <2>1, Zenon
  <2>3. i + 1 \in 1 .. n + 1
    BY <1>5
  <2>4. R(i + 1) >= 2 * (n + 1 - (i + 1))
    BY <1>1, <2>1, <2>2, <2>3, RestBounds, Zenon
  <2>5. s >= 2 * (n + 1 - (i + 1)) /\ l # 0
    BY <1>2, <1>4, <2>2, <2>4, Zenon
  <2> QED
    BY <1>5, <2>5
<1> HIDE DEF R, NoneEmpty
<1>7. (short => r - f > t) /\ (~short => r - f <= t)
  <2>1. Total(i) = r - f
    BY <1>1, <1>2, <1>4, TotalExact, Zenon DEF Fitting, R
  <2>2. short = (r - f > t)
    BY <1>1, <2>1, Zenon
  <2>3. r - f > t \/ r - f <= t
    BY ONLY <1>5
  <2> QED
    BY <2>2, <2>3, Zenon
<1>8. /\ short /\ 2 - f <= t => target' = t - (2 - f)
      /\ ~short => target' = t - (1 + l - f)
  <2>1. /\ short => Taken(i, short) = (IF i = 1 THEN 0 ELSE 1) + 1
        /\ ~short => Taken(i, short) = (IF i = 1 THEN 0 ELSE 1) + l
    BY <1>4, Zenon DEF Taken
  <2>2. (IF i = 1 THEN 0 ELSE 1) + 1 = 2 - f /\ (IF i = 1 THEN 0 ELSE 1) + l = 1 + l - f
    BY ONLY <1>5
  <2>3. r - f <= t => 1 + l - f \in 0 .. t
    BY ONLY <1>5
  <2>4. 2 - f <= t => 2 - f \in 0 .. t
    BY ONLY <1>5
  <2> QED
    BY <1>2, <1>3, <1>7, <2>1, <2>2, <2>3, <2>4, MinusExact, Zenon
<1>9. /\ Cut' = IF short THEN Cut \cup {i} ELSE Cut
      /\ cut'[i] = short /\ \A j \in 1 .. i - 1 : cut'[j] = cut[j]
  BY <1>1, <1>2, <1>3, CutMore, Zenon
<1>10. /\ WideEnough' = WideEnough /\ (WideEnough <=> w + 1 >= 2 * n)
       /\ NoneEmpty' = NoneEmpty
  BY <1>1, <1>2, Zenon DEF WideEnough, NoneEmpty
<1>11. ASSUME WideEnough PROVE \E k \in 0 .. i : CutTo(k)'
  <2>1. PICK k \in 0 .. i - 1 : CutTo(k)
    BY <1>1, <1>2, <1>11, Zenon DEF Fitting
  <2>2. PICK q \in Nat, v \in Nat : q = R(k + 1) /\ (k > 0 => v = R(k))
    <3>1. lengths \in Seq(Nat) /\ n = Len(lengths)
      BY <1>1, RestBounds DEF Fitting
    <3>2. k + 1 \in 1 .. n + 1 /\ (k > 0 => k \in 1 .. n + 1)
      BY <1>5
    <3>3. R(k + 1) \in Nat /\ (k > 0 => R(k) \in Nat)
      BY <3>1, <3>2, RestSteps, Zenon DEF R
    <3> QED
      BY <3>3
  <2>3. /\ t + 2 * k + q + f = w + 1 + r
        /\ IF k = i - 1 THEN t + f >= 2 * (n - i + 1) ELSE r <= t
        /\ k > 0 => v + 2 * (k - 1) > w + 1
    BY <1>1, <1>4, <2>1, <2>2, Zenon DEF CutTo, R
  <2>4. k \in Nat /\ k <= i - 1 /\ q \in Nat /\ v \in Nat
    BY <1>5
  <2>5. Cut = 1 .. k
    BY <2>1, Zenon DEF CutTo
  <2>6. CASE short
    <3>1. r - f > t
      BY <1>7, <2>6, Zenon
    <3>2. k = i - 1 /\ k + 1 = i
      BY ONLY <1>5, <2>3, <2>4, <3>1
    <3>3. q = r
      BY <1>4, <2>2, <3>2, Zenon
    <3>4. 2 - f <= t
      BY ONLY <1>5, <2>3, <2>4, <3>2
    <3>5. target' = t - (2 - f)
      BY <1>8, <2>6, <3>4, Zenon
    <3>6. /\ target' + 2 * i + s + 0 = w + 1 + s
          /\ target' + 0 >= 2 * (n - (i + 1) + 1)
          /\ r + 2 * (i - 1) > w + 1
      BY ONLY <1>5, <2>3, <2>4, <3>1, <3>2, <3>3, <3>5
    <3>7. Cut' = 1 .. i
      <4>1. Cut' = (1 .. k) \cup {i}
        BY <1>9, <2>5, <2>6, Zenon
      <4> QED
        BY ONLY <1>5, <2>4, <3>2, <4>1
    <3>8. CutTo(i)'
      BY <1>1, <1>2, <1>4, <1>5, <3>6, <3>7, Zenon DEF CutTo, R
    <3> QED
      BY <1>5, <3>8
  <2>7. CASE ~short
    <3>1. r - f <= t /\ target' = t - (1 + l - f) /\ Cut' = 1 .. k
      BY <1>7, <1>8, <1>9, <2>5, <2>7, Zenon
    <3>2. /\ target' + 2 * k + q + 0 = w + 1 + s
          /\ s <= target' /\ k # i
      BY ONLY <1>5, <2>3, <2>4, <3>1
    <3>3. CutTo(k)'
      BY <1>1, <1>2, <1>4, <1>5, <2>2, <2>3, <3>1, <3>2, Zenon DEF CutTo, R
    <3> QED
      BY <1>5, <3>3
  <2> QED
    BY <2>6, <2>7
<1>12. ASSUME ~WideEnough, NoneEmpty PROVE Used'
  <2>1. /\ i = 1 => t = w
        /\ i > 1 /\ 2 * i <= w + 3 => t = w + 3 - 2 * i
        /\ \A j \in 1 .. i - 1 : j = 1 \/ 2 * j <= w + 3 => cut[j]
    BY <1>1, <1>2, <1>12, Zenon DEF Fitting, Used, NoneEmpty
  <2>2. /\ i = 1 => t = w
        /\ i > 1 /\ 2 * i <= w + 3 => t = w + 3 - 2 * i
        /\ ~(w + 1 >= 2 * n) /\ s >= 2 * (n - i) /\ l # 0
    BY <1>6, <1>10, <1>12, <2>1, Zenon
  <2>3. i = 1 \/ 2 * i <= w + 3 => short
    <3>1. i = 1 \/ 2 * i <= w + 3 => ~(r - f <= t)
      BY ONLY <1>5, <2>2
    <3> QED
      BY <1>7, <3>1, Zenon
  <2>4. 2 * (i + 1) <= w + 3 => target' = w + 3 - 2 * (i + 1)
    <3>1. 2 * (i + 1) <= w + 3 =>
            2 * i <= w + 3 /\ 2 - f <= t /\ t - (2 - f) = w + 3 - 2 * (i + 1)
      BY ONLY <1>5, <2>2
    <3> QED
      BY <1>8, <2>3, <3>1, Zenon
  <2>5. ASSUME NEW j \in 1 .. i, j = 1 \/ 2 * j <= w + 3 PROVE cut'[j]
    <3>1. CASE j = i
      BY <1>9, <2>3, <2>5, <3>1, Zenon
    <3>2. CASE j # i
      <4>1. j \in 1 .. i - 1
        BY <1>5, <3>2
      <4> QED
        BY <1>9, <2>1, <2>5, <4>1, Zenon
    <3> QED
      BY <3>1, <3>2
  <2>6. i + 1 # 1
    BY <1>5
  <2> QED
    BY <1>2, <2>4, <2>5, <2>6, Zenon DEF Used
<1>13. lengths' \in Domains /\ width' # NoWidth
  BY <1>1, <1>2, Zenon DEF Fitting
<1> QED
  BY <1>2, <1>10, <1>11, <1>12, <1>13, Zenon DEF Fitting, NoneEmpty

\* It holds where a line begins, too.
LEMMA BeginFits ==
  ASSUME NEW width0, NEW domain \in Domains, WriteDomain(width0, domain),
         width0 \in Nat \cup {NoWidth}
  PROVE  Fitting'
<1>1. /\ lengths' = domain /\ lengths' \in Domains /\ width' = width0 /\ di' = 1 /\ cut' = <<>>
      /\ target' = IF width0 = NoWidth THEN 0 ELSE width0
  BY DEF WriteDomain
<1> SUFFICES ASSUME width0 # NoWidth
             PROVE  IF WideEnough' THEN \E k \in 0 .. di' - 1 : CutTo(k)'
                    ELSE 0 \notin {lengths[i] : i \in DOMAIN lengths}' => Used'
  BY <1>1, Zenon DEF Fitting
<1>2. target' = width0 /\ width0 \in Nat
  BY <1>1
<1>3. PICK n \in Nat, r \in Nat : n = Len(domain) /\ r = Rest(domain, 1)
  <2>1. domain \in Seq(Nat)
    BY RestBounds
  <2>2. Len(domain) \in Nat /\ 1 \in 1 .. Len(domain) + 1
    BY <2>1
  <2>3. Rest(domain, 1) \in Nat
    BY <2>1, <2>2, RestSteps, Zenon
  <2> QED
    BY <2>2, <2>3
<1>4. ASSUME WideEnough' PROVE CutTo(0)'
  <2>1. width0 + 1 >= 2 * n
    BY <1>1, <1>3, <1>4, Zenon DEF WideEnough
  <2>2. Cut' = 1 .. 0
    <3>1. DOMAIN cut' = {}
      BY <1>1
    <3> QED
      BY <3>1 DEF Cut
  <2>3. First(1) = 1 /\ 0 + 1 = 1 /\ 0 = 1 - 1 /\ ~(0 > 0)
    BY DEF First
  <2>4. /\ width0 + 2 * 0 + r + 1 = width0 + 1 + r
        /\ width0 + 1 >= 2 * (n - 1 + 1)
    BY <1>2, <1>3, <2>1
  <2> QED
    BY <1>1, <1>2, <1>3, <2>2, <2>3, <2>4, Zenon DEF CutTo
<1>5. Used'
  <2>1. ~(1 > 1) /\ \A i \in 1 .. 1 - 1 : FALSE
    OBVIOUS
  <2> QED
    BY <1>1, <1>2, <2>1, Zenon DEF Used
<1>6. 0 \in 0 .. di' - 1
  BY <1>1
<1> QED
  BY <1>4, <1>5, <1>6, Zenon

\* It holds at any time.
LEMMA FittingAlways == Spec => []Fitting
<1>1. <<>> \in Domains
  <2>1. 0 \in 0 .. MaxComponents /\ <<>> \in [1 .. 0 -> 0 .. MaxLength]
    BY SizesTyped
  <2> QED
    BY <2>1, Zenon DEF Domains
<1>2. Init => Fitting
  BY <1>1, Zenon DEF Init, Nothing, Fitting
<1>3. Typed /\ Fitting /\ [Next]_vars => Fitting'
  <2> SUFFICES ASSUME Typed, Fitting, [Next]_vars PROVE Fitting'
    OBVIOUS
  <2>1. ASSUME UNCHANGED format PROVE Fitting'
    BY <2>1, Zenon DEF format, Fitting, WideEnough, CutTo, Used, Cut
  <2>2. CASE UNCHANGED vars
    BY <2>1, <2>2, Zenon DEF vars
  <2>3. ASSUME NEW w \in Writers,
               NewConsole(w) \/ NewSyslog(w) \/ NewSyslogBare(w) \/ Delete(w)
        PROVE  Fitting'
    BY <2>1, <2>3, Zenon DEF NewConsole, NewSyslog, NewSyslogBare, Constructed, Delete
  <2>4. ASSUME NEW w \in Writers, NEW domain \in Domains, Message(w, domain) PROVE Fitting'
    <3>1. AsOptional(widths[w]) \in Nat \cup {NoWidth}
      BY <2>4, WritersAssumption, SizesTyped DEF Typed, WritersTyped, Message, AsOptional
    <3> QED
      BY <2>4, <3>1, BeginFits, Zenon DEF Message
  <2>5. CASE WriteStep
    <3>1. CASE WriteAll
      BY <3>1, Zenon DEF WriteAll, Fitting
    <3>2. CASE WriteComponent
      BY <3>2, TurnFits, Zenon DEF Typed
    <3> QED
      BY <2>5, <3>1, <3>2, Zenon DEF WriteStep
  <2>6. CASE Sent
    BY <1>1, <2>6, Zenon DEF Sent, Fitting
  <2> QED
    BY <2>2, <2>3, <2>4, <2>5, <2>6, Zenon DEF Next
<1> QED
  BY <1>2, <1>3, TypedAlways, PTL DEF Spec

\* A line that is written, whose width is enough for every component cut.
LEMMA WrittenWide ==
  ASSUME FormatTypeOK, Fitting, Written, WideEnough
  PROVE  \E k \in 0 .. Len(cut) :
           /\ Cut = 1 .. k
           /\ TextLength(1 .. k) <= width
           /\ k > 0 => TextLength(1 .. (k - 1)) > width
<1>1. PICK n, w, t : n = Len(lengths) /\ w = width /\ t = target
  OBVIOUS
<1>2. /\ lengths \in Seq(Nat) /\ n \in Nat /\ w \in Nat /\ t \in Nat
      /\ di = n + 1 /\ di - 1 = n /\ Len(cut) = n
  BY <1>1, SizesTyped DEF FormatTypeOK, Written, WideEnough
<1>3. PICK k \in 0 .. n : CutTo(k)
  BY <1>2, Zenon DEF Fitting, WideEnough
<1>4. Rest(lengths, n + 1) = 0
  BY <1>1, <1>2, RestSteps, Zenon
<1>5. k \in Nat /\ k <= n /\ k \in 0 .. n /\ (k > 0 => k - 1 \in 0 .. n /\ (k - 1) + 1 = k)
  BY <1>2
<1>6. PICK q \in Nat, v \in Nat : q = Rest(lengths, k + 1) /\ (k > 0 => v = Rest(lengths, k))
  <2>1. k + 1 \in 1 .. n + 1 /\ (k > 0 => k \in 1 .. n + 1)
    BY <1>2
  <2>2. Rest(lengths, k + 1) \in Nat /\ (k > 0 => Rest(lengths, k) \in Nat)
    BY <1>1, <1>2, <2>1, RestSteps, Zenon
  <2> QED
    BY <2>2
<1>7. /\ t + 2 * k + q + First(n + 1) = w + 1 + 0
      /\ k > 0 => v + 2 * (k - 1) > w + 1
      /\ Cut = 1 .. k
  BY <1>1, <1>2, <1>3, <1>4, <1>6, Zenon DEF CutTo
<1>8. CASE n = 0
  <2>1. TextLength(1 .. k) = 0
    <3>1. lengths = <<>>
      <4>1. lengths \in Seq(Nat) /\ Len(lengths) = 0
        BY <1>1, <1>2, <1>8, Zenon
      <4> QED
        BY <4>1, EmptySeq, Zenon
    <3> DEFINE text == [j \in DOMAIN lengths |->
                          (IF j = 1 THEN 0 ELSE 1) + (IF j \in 1 .. k THEN 1 ELSE lengths[j])]
    <3>2. text \in Seq(Nat)
      BY <3>1
    <3> HIDE DEF text
    <3>3. Sums(text)[0] = 0
      BY <3>2, SumsSteps, Zenon
    <3>4. TextLength(1 .. k) = Sums(text)[Len(lengths)]
      BY Zenon DEF TextLength, text
    <3> QED
      BY <1>1, <1>8, <3>3, <3>4, Zenon
  <2>2. ~(k > 0) /\ 0 <= w
    BY <1>2, <1>5, <1>8
  <2> QED
    BY <1>1, <1>2, <1>7, <2>1, <2>2, Zenon
<1>9. CASE n # 0
  <2>1. TextLength(1 .. k) = 2 * k + q - 1
    BY <1>1, <1>2, <1>5, <1>6, <1>9, TextOf, Zenon
  <2>2. k > 0 => TextLength(1 .. (k - 1)) = 2 * (k - 1) + v - 1
    BY <1>1, <1>2, <1>5, <1>6, <1>9, TextOf, Zenon
  <2>3. First(n + 1) = 0
    BY <1>2, <1>9 DEF First
  <2>4. /\ 2 * k + q - 1 <= w
        /\ k > 0 => 2 * (k - 1) + v - 1 > w
    <3>1. q \in Nat /\ v \in Nat
      OBVIOUS
    <3>2. /\ t + 2 * k + q + 0 = w + 1 + 0
          /\ k > 0 => v + 2 * (k - 1) > w + 1
      BY <1>7, <2>3, Zenon
    <3> QED
      BY ONLY <1>2, <1>5, <3>1, <3>2
  <2> QED
    BY <1>1, <1>2, <1>7, <2>1, <2>2, <2>4, Zenon
<1> QED
  BY <1>8, <1>9

\* Whatever the domain and the width, the text fits if one of characters alone would.
THEOREM FitsAlways == Spec => []FitsTheWidth
<1>1. FormatTypeOK /\ Fitting => FitsTheWidth
  BY WrittenWide, Zenon DEF FitsTheWidth
<1>2. Typed => FormatTypeOK
  BY DEF Typed
<1> QED
  BY <1>1, <1>2, TypedAlways, FittingAlways, PTL

\* No component is cut that could have been written in full, and in a width too small
\* none is written in full that could have been cut.
THEOREM CutsAsFewAsItCan == Spec => []CutsNoMoreThanNeeded
<1>1. FormatTypeOK /\ Fitting => CutsNoMoreThanNeeded
  <2> SUFFICES ASSUME FormatTypeOK, Fitting, Written, width # NoWidth
               PROVE  IF WideEnough
                      THEN /\ \E k \in 0 .. Len(cut) : Cut = 1 .. k
                           /\ \A i \in Cut : i + 1 \notin Cut => TextLength(Cut \ {i}) > width
                      ELSE 0 \notin {lengths[i] : i \in DOMAIN lengths} =>
                             \A i \in DOMAIN lengths : i = 1 \/ 2 * i <= width + 3 => cut[i]
    BY Zenon DEF CutsNoMoreThanNeeded
  <2>1. CASE WideEnough
    <3>1. PICK k \in 0 .. Len(cut) : /\ Cut = 1 .. k
                                     /\ k > 0 => TextLength(1 .. (k - 1)) > width
      BY <2>1, WrittenWide, Zenon
    <3>2. ASSUME NEW i \in Cut, i + 1 \notin Cut PROVE TextLength(Cut \ {i}) > width
      <4>1. i \in 1 .. k /\ i + 1 \notin 1 .. k /\ k \in Nat
        <5>1. k \in Nat
          BY DEF FormatTypeOK
        <5> QED
          BY <3>1, <3>2, <5>1, Zenon
      <4>2. i = k /\ k > 0 /\ (1 .. k) \ {i} = 1 .. (k - 1)
        BY ONLY <4>1
      <4> QED
        BY <3>1, <4>2, Zenon
    <3> QED
      BY <2>1, <3>1, <3>2, Zenon
  <2>2. CASE ~WideEnough
    <3> SUFFICES ASSUME 0 \notin {lengths[i] : i \in DOMAIN lengths},
                        NEW i \in DOMAIN lengths, i = 1 \/ 2 * i <= width + 3
                 PROVE  cut[i]
      BY <2>2, Zenon
    <3>1. Used
      BY <2>2, Zenon DEF Fitting
    <3>2. i \in 1 .. di - 1
      BY DEF FormatTypeOK, Written
    <3> QED
      BY <3>1, <3>2, Zenon DEF Used
  <2> QED
    BY <2>1, <2>2
<1>2. Typed => FormatTypeOK
  BY DEF Typed
<1> QED
  BY <1>1, <1>2, TypedAlways, FittingAlways, PTL
=============================================================================
