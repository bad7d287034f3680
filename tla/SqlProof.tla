------------------------------ MODULE SqlProof -------------------------------
(***************************************************************************)
(* Proofs about Sql: of every script, however long, and whatever it names. *)
(***************************************************************************)
EXTENDS Sql, PrefixesProof

Texts == Statements \cup Connectors \cup Options

\* What stands in a line that the precompiler comes to.
LEMMA LineTypes ==
  ASSUME TypeOK, NEW kind, Reads(kind)
  PROVE  /\ pos \in 1 .. Len(file) /\ pos + 1 \in 1 .. Len(file) + 1
         /\ kind = "connector" => file[pos][2] \in Connectors
         /\ kind = "option" => file[pos][2] \in Options
         /\ kind = "sql" => file[pos][2] \in Statements
<1>1. /\ file \in Seq(FileLines) /\ pos \in 1 .. Len(file) + 1
      /\ pos <= Len(file) /\ file[pos][1] = kind
  BY Zenon DEF TypeOK, Reads
<1>2. pos \in 1 .. Len(file) /\ pos + 1 \in 1 .. Len(file) + 1
  BY ONLY <1>1
<1>3. file[pos] \in FileLines
  BY ONLY <1>1, <1>2
<1> QED
  BY <1>1, <1>2, <1>3 DEF FileLines

\* Some numbers have a least one.
LEMMA LeastOne ==
  ASSUME NEW S, S \subseteq Nat, S # {}
  PROVE  \E n \in S : \A m \in S : n <= m
<1> DEFINE R == OpToRel(<, Nat)
<1>1. PICK n \in S : \A m \in S : ~ (<<m, n>> \in R)
  <2>1. IsWellFoundedOn(R, Nat)
    BY NatLessThanWellFounded
  <2> HIDE DEF R
  <2> QED
    BY <2>1, WFMin
<1>2. ASSUME NEW m \in S PROVE n <= m
  <2>1. ~ (m < n)
    BY <1>1 DEF OpToRel
  <2> QED
    BY <2>1
<1> QED
  BY <1>2

\* Each key of a map made of an initialiser has the first of its values.
LEMMA MapFirst ==
  ASSUME NEW X, NEW pairs \in Seq(X)
  PROVE  /\ DOMAIN MapOf(pairs) = {pairs[i][1] : i \in DOMAIN pairs}
         /\ \A k \in DOMAIN MapOf(pairs) : \E i \in DOMAIN pairs :
              pairs[i][1] = k /\ MapOf(pairs)[k] = pairs[i][2]
         /\ \A i \in DOMAIN pairs : (\A j \in 1 .. i - 1 : pairs[j][1] # pairs[i][1]) =>
              MapOf(pairs)[pairs[i][1]] = pairs[i][2]
<1> DEFINE First(k, i) == pairs[i][1] = k /\ \A j \in 1 .. i - 1 : pairs[j][1] # k
           Where(k) == CHOOSE i \in DOMAIN pairs : First(k, i)
<1>1. DOMAIN pairs = 1 .. Len(pairs) /\ Len(pairs) \in Nat
  OBVIOUS
<1>2. ASSUME NEW i \in DOMAIN pairs PROVE \E n \in DOMAIN pairs : First(pairs[i][1], n)
  <2> DEFINE P(n) == n \in DOMAIN pairs /\ pairs[n][1] = pairs[i][1]
             S == {n \in DOMAIN pairs : P(n)}
  <2>1. S \subseteq Nat /\ i \in S
    BY <1>1
  <2>2. PICK n \in S : \A m \in S : n <= m
    <3> HIDE DEF S
    <3> QED
      BY <2>1, LeastOne
  <2>3. ASSUME NEW j \in 1 .. n - 1, pairs[j][1] = pairs[i][1] PROVE FALSE
    <3>1. j \in S
      BY <1>1, <2>1, <2>2, <2>3
    <3>2. n <= j /\ n \in Nat
      BY <2>1, <2>2, <3>1
    <3> QED
      BY <2>3, <3>2
  <2> QED
    BY <2>2, <2>3
<1>3. ASSUME NEW k, NEW i \in DOMAIN pairs, NEW n \in DOMAIN pairs, First(k, i), First(k, n)
      PROVE  i = n
  <2>1. i \in Nat /\ n \in Nat /\ 1 <= i /\ 1 <= n
    BY <1>1
  <2>2. ASSUME i < n PROVE FALSE
    BY <1>3, <2>1, <2>2
  <2>3. ASSUME n < i PROVE FALSE
    BY <1>3, <2>1, <2>3
  <2> QED
    BY <2>1, <2>2, <2>3
<1>4. MapOf(pairs) = [k \in {pairs[i][1] : i \in DOMAIN pairs} |-> pairs[Where(k)][2]]
  BY DEF MapOf
<1> HIDE DEF First
<1>5. \A i \in DOMAIN pairs : Where(pairs[i][1]) \in DOMAIN pairs
                              /\ First(pairs[i][1], Where(pairs[i][1]))
  BY <1>2
<1>6. ASSUME NEW k \in DOMAIN MapOf(pairs)
      PROVE  \E i \in DOMAIN pairs : pairs[i][1] = k /\ MapOf(pairs)[k] = pairs[i][2]
  <2>1. Where(k) \in DOMAIN pairs /\ First(k, Where(k)) /\ MapOf(pairs)[k] = pairs[Where(k)][2]
    BY <1>4, <1>5
  <2> HIDE DEF Where
  <2> QED
    BY <2>1, Zenon DEF First
<1>7. ASSUME NEW i \in DOMAIN pairs, \A j \in 1 .. i - 1 : pairs[j][1] # pairs[i][1]
      PROVE  MapOf(pairs)[pairs[i][1]] = pairs[i][2]
  <2>1. First(pairs[i][1], i)
    BY <1>7 DEF First
  <2>2. Where(pairs[i][1]) = i
    BY <1>3, <1>5, <2>1
  <2>3. MapOf(pairs)[pairs[i][1]] = pairs[Where(pairs[i][1])][2]
    BY <1>4
  <2> QED
    BY <2>2, <2>3, Zenon
<1> QED
  BY <1>4, <1>6, <1>7

\* The empty map is one.
LEMMA NoMap == <<>> \in Maps
<1>1. <<>> \in [{} -> {o[2] : o \in Options}]
  OBVIOUS
<1>2. {} \in SUBSET {o[1] : o \in Options}
  OBVIOUS
<1> QED
  BY <1>1, <1>2, Zenon DEF Maps

\* The step from a state with every variable of its type is one to such a state.
LEMMA TypeStep == TypeOK /\ [Next]_vars => TypeOK'
<1> SUFFICES ASSUME TypeOK, [Next]_vars PROVE TypeOK'
  OBVIOUS
<1>1. CASE SetConnector
  <2>1. pos + 1 \in 1 .. Len(file) + 1 /\ file[pos][2] \in Connectors
    BY <1>1, LineTypes, Zenon DEF SetConnector
  <2> QED
    BY <1>1, <2>1, Zenon DEF TypeOK, SetConnector, OnTo, input
<1>2. CASE AddOption
  <2>1. pos + 1 \in 1 .. Len(file) + 1 /\ file[pos][2] \in Options
    BY <1>2, LineTypes, Zenon DEF AddOption
  <2>2. map \in Seq(Options)
    BY DEF TypeOK
  <2>3. Append(map, file[pos][2]) \in Seq(Options)
    BY ONLY <2>1, <2>2
  <2> QED
    BY <1>2, <2>1, <2>3, Zenon DEF TypeOK, AddOption, Kept, OnTo, input
<1>3. CASE CopyLine
  <2>1. pos + 1 \in 1 .. Len(file) + 1 /\ file[pos][2] \in Statements
    BY <1>3, LineTypes, Zenon DEF CopyLine
  <2>2. text \in Seq(Statements)
    BY DEF TypeOK
  <2>3. Append(text, file[pos][2]) \in Seq(Statements)
    BY ONLY <2>1, <2>2
  <2> QED
    BY <1>3, <2>1, <2>3, Zenon DEF TypeOK, CopyLine, OnTo, input
<1>4. CASE CopyNothing
  <2>1. PICK e \in Statements : e = ""
    BY TextsAssumption, Zenon
  <2>2. text \in Seq(Statements)
    BY Zenon DEF TypeOK
  <2>3. Append(text, e) \in Seq(Statements)
    BY <2>2
  <2> QED
    BY <1>4, <2>1, <2>3, Zenon DEF TypeOK, CopyNothing, input
<1>5. CASE Compiled
  BY <1>5, Zenon DEF TypeOK, Compiled, input
<1>6. CASE Unlinked
  BY <1>6, Zenon DEF TypeOK, Unlinked, input
<1>7. CASE Terminated
  BY <1>7, Zenon DEF TypeOK, Terminated, input
<1>8. CASE Used
  <2>1. text \in Seq(Statements) /\ map \in Seq(Options) /\ connector \in Connectors
    BY Zenon DEF TypeOK
  <2>2. "" \in Connectors
    BY TextsAssumption, Zenon
  <2>3. <<>> \in Maps /\ MapOf(map) \in Maps
    <3>1. <<>> \in Maps
      BY NoMap
    <3>2. \A i \in DOMAIN map : map[i] \in Options
      BY <2>1
    <3> DEFINE keys == DOMAIN MapOf(map)
               V == {o[2] : o \in Options}
    <3>3. \A k \in keys : k \in {o[1] : o \in Options} /\ MapOf(map)[k] \in V
      <4> SUFFICES ASSUME NEW k \in keys
                   PROVE  k \in {o[1] : o \in Options} /\ MapOf(map)[k] \in V
        OBVIOUS
      <4>1. PICK i \in DOMAIN map : map[i][1] = k /\ MapOf(map)[k] = map[i][2]
        BY <2>1, MapFirst, Zenon
      <4> QED
        BY <3>2, <4>1, Zenon
    <3>4. MapOf(map) = [k \in keys |-> MapOf(map)[k]]
      BY DEF MapOf
    <3> HIDE DEF keys, V
    <3>5. MapOf(map) \in [keys -> V]
      BY <3>3, <3>4, Zenon
    <3> QED
      BY <3>1, <3>3, <3>5 DEF Maps, V
  <2>4. PICK c \in Connectors, o \in Maps :
          command' = [sql |-> text, connector |-> c, options |-> o]
    BY <1>8, <2>1, <2>2, <2>3, Zenon DEF Used
  <2>5. command' \in [sql : Seq(Statements), connector : Connectors, options : Maps]
    BY ONLY <2>1, <2>4
  <2> QED
    BY <1>8, <2>5, Zenon DEF TypeOK, Used, input
<1>9. CASE UNCHANGED vars
  BY <1>9, Zenon DEF TypeOK, vars, input
<1> QED
  BY <1>1, <1>2, <1>3, <1>4, <1>5, <1>6, <1>7, <1>8, <1>9, Zenon DEF Next

\* The variables have their types at the start.
LEMMA TypeAtStart == Init => TypeOK
<1> SUFFICES ASSUME Init PROVE TypeOK
  OBVIOUS
<1>1. PICK n \in 0 .. MaxLines : file \in [1 .. n -> FileLines]
  BY Zenon DEF Init
<1>2. n \in Nat
  BY <1>1, BoundsAssumption
<1>3. file \in Seq(FileLines) /\ 1 \in 1 .. Len(file) + 1
  BY ONLY <1>1, <1>2
<1>4. ended \in BOOLEAN /\ readable \in BOOLEAN
  BY Zenon DEF Init
<1>5. /\ \E ns \in Namespaces, dir \in Folders : sqlnsparts = ns \o dir
      /\ phase = "reading" /\ pos = 1 /\ given \in Connectors /\ connector = given
      /\ map = <<>> /\ text = <<>> /\ command = NoCommand
  BY Zenon DEF Init
<1>6. command \in [sql : Seq(Statements), connector : Connectors, options : Maps]
  <2>1. PICK c \in Connectors : c = ""
    BY TextsAssumption, Zenon
  <2>2. command = [sql |-> <<>>, connector |-> c, options |-> <<>>]
    BY <1>5, <2>1, Zenon DEF NoCommand
  <2> QED
    BY <2>2, NoMap
<1>7. <<>> \in Seq(Options) /\ <<>> \in Seq(Statements)
  OBVIOUS
<1> QED
  BY <1>3, <1>4, <1>5, <1>6, <1>7, Zenon DEF TypeOK

\* Every variable has its type: at any line of any script the connector is one, the
\* options are options and the literal is made of SQL lines.
THEOREM TypeCorrect == Spec => []TypeOK
  BY TypeAtStart, TypeStep, PTL DEF Spec

\* What the tool has at any line of a script is that of the lines so far; it stops at the
\* end of a script, and the program keeps what it got.
AsRead ==
  /\ file = <<>> => ended
  /\ phase # "reading" => readable /\ pos = Lines + 1
  /\ readable => /\ pos <= Lines + 1
                 /\ text = Of("sql")[pos - 1]
                 /\ map = Of("option")[pos - 1]
                 /\ connector = ItsConnector(pos - 1)
  /\ phase = "used" =>
       command = [sql |-> text, connector |-> IF WithOptions THEN connector ELSE "",
                  options |-> IF WithOptions THEN MapOf(map) ELSE <<>>]

\* The lines of a kind, one line of the script after another.
LEMMA OfSteps ==
  ASSUME TypeOK, NEW kind
  PROVE  /\ Of(kind)[0] = <<>>
         /\ \A n \in 1 .. Len(file) :
              /\ file[n][1] = kind => Of(kind)[n] = Append(Of(kind)[n - 1], file[n][2])
              /\ file[n][1] # kind => Of(kind)[n] = Of(kind)[n - 1]
         /\ Of(kind) \in [0 .. Len(file) -> Seq(Texts)]
<1> DEFINE s == [i \in DOMAIN file |-> file[i][2]]
           S == {i \in DOMAIN file : file[i][1] = kind}
<1>1. file \in Seq(FileLines)
  BY Zenon DEF TypeOK
<1>2. \A i \in 1 .. Len(file) : file[i][2] \in Texts
  <2> SUFFICES ASSUME NEW i \in 1 .. Len(file) PROVE file[i][2] \in Texts
    OBVIOUS
  <2>1. file[i] \in FileLines
    BY <1>1
  <2> QED
    BY <2>1 DEF FileLines, Texts
<1>3. s \in Seq(Texts) /\ Len(s) = Len(file)
  BY <1>1, <1>2
<1>4. \A n \in 1 .. Len(file) : s[n] = file[n][2] /\ (n \in S <=> file[n][1] = kind)
  BY <1>1
<1> HIDE DEF s, S
<1>5. Of(kind) = Picks(s, S)
  BY Zenon DEF Of, s, S
<1> DEFINE F == Picks(s, S)
<1>6. /\ F \in [0 .. Len(s) -> Seq(Texts)]
      /\ F[0] = <<>>
      /\ \A i \in 1 .. Len(s) :
           /\ i \in S => F[i] = Append(F[i - 1], s[i])
           /\ i \notin S => F[i] = F[i - 1]
  <2>1. PicksGo(Texts, s, S)
    BY <1>3, PicksSteps, Zenon
  <2> QED
    BY <2>1, Zenon DEF PicksGo
<1> HIDE DEF F
<1> QED
  BY <1>3, <1>4, <1>5, <1>6 DEF F

\* No step changes the script.
LEMMA SameScript ==
  ASSUME TypeOK, [Next]_vars
  PROVE  /\ file' = file /\ readable' = readable /\ given' = given /\ Lines' = Lines
         /\ \A kind : Of(kind)' = Of(kind)
<1>1. file' = file /\ ended' = ended /\ readable' = readable /\ given' = given
  BY Zenon DEF Next, SetConnector, AddOption, CopyLine, CopyNothing, Compiled, Unlinked,
               Terminated, Used, OnTo, vars, input
<1>2. Lines' = Lines
  BY <1>1, Zenon DEF Lines
<1>3. ASSUME NEW kind PROVE Of(kind)' = Of(kind)
  BY <1>1, Zenon DEF Of
<1> QED
  BY <1>1, <1>2, <1>3

\* A line may be lost.
LEMMA LinesType ==
  ASSUME TypeOK
  PROVE  Len(file) \in Nat /\ (Lines = Len(file) \/ (Lines = Len(file) - 1 /\ ~ended))
<1>1. file \in Seq(FileLines)
  BY Zenon DEF TypeOK
<1> QED
  BY <1>1, Zenon, LenProperties DEF Lines

\* What the lines of a kind and the connector are after one line more.
LEMMA LineRead ==
  ASSUME TypeOK, NEW n \in 1 .. Len(file)
  PROVE  /\ \A kind : /\ file[n][1] = kind => Of(kind)[n] = Append(Of(kind)[n - 1], file[n][2])
                      /\ file[n][1] # kind => Of(kind)[n] = Of(kind)[n - 1]
         /\ file[n][1] = "connector" => ItsConnector(n) = file[n][2]
         /\ file[n][1] # "connector" => ItsConnector(n) = ItsConnector(n - 1)
<1>1. \A kind : /\ file[n][1] = kind => Of(kind)[n] = Append(Of(kind)[n - 1], file[n][2])
                /\ file[n][1] # kind => Of(kind)[n] = Of(kind)[n - 1]
  BY OfSteps, Zenon
<1>2. ASSUME file[n][1] = "connector" PROVE ItsConnector(n) = file[n][2]
  <2> DEFINE c == Of("connector")
             x == file[n][2]
  <2>1. c[n] = Append(c[n - 1], x)
    BY <1>1, <1>2, Zenon
  <2>2. c[n - 1] \in Seq(Texts)
    <3>1. c \in [0 .. Len(file) -> Seq(Texts)]
      BY OfSteps, Zenon
    <3>2. Len(file) \in Nat
      BY DEF TypeOK
    <3> HIDE DEF c
    <3> QED
      BY ONLY <3>1, <3>2, n \in 1 .. Len(file)
  <2> HIDE DEF c, x
  <2>3. c[n] # <<>> /\ c[n][Len(c[n])] = x
    BY ONLY <2>1, <2>2
  <2> QED
    BY <2>3, Zenon DEF ItsConnector, c, x
<1>3. ASSUME file[n][1] # "connector" PROVE ItsConnector(n) = ItsConnector(n - 1)
  BY <1>1, <1>3, Zenon DEF ItsConnector
<1> QED
  BY <1>1, <1>2, <1>3

\* One line more is read as it should be.
LEMMA ReadStep ==
  ASSUME TypeOK, AsRead, [Next]_vars, NEW kind \in {"sql", "option", "connector"}, Reads(kind),
  OnTo,
         text' = IF kind = "sql" THEN Append(text, file[pos][2]) ELSE text,
         map' = IF kind = "option" THEN Append(map, file[pos][2]) ELSE map,
         connector' = IF kind = "connector" THEN file[pos][2] ELSE connector
  PROVE  AsRead'
<1>1. /\ phase = "reading" /\ phase' = "reading" /\ readable /\ ~Eof /\ pos' = pos + 1
      /\ file[pos][1] = kind
  BY Zenon DEF Reads, OnTo
<1>2. PICK n \in 1 .. Len(file) : n = pos
  BY LineTypes, Zenon
<1>3. /\ pos' <= Lines + 1 /\ pos' - 1 = n
  <2>1. ~ (n > Lines)
    BY <1>1, <1>2, Zenon DEF Eof
  <2>2. Len(file) \in Nat /\ (Lines = Len(file) \/ Lines = Len(file) - 1)
    BY LinesType
  <2> QED
    BY <1>1, <1>2, <2>1, <2>2
<1>4. /\ file = <<>> => ended
      /\ text = Of("sql")[n - 1] /\ map = Of("option")[n - 1] /\ connector = ItsConnector(n - 1)
  BY <1>1, <1>2, Zenon DEF AsRead
<1>5. text' = Of("sql")[n] /\ map' = Of("option")[n] /\ connector' = ItsConnector(n)
  <2> "sql" # "option" /\ "sql" # "connector" /\ "option" # "connector"
    OBVIOUS
  <2>1. CASE kind = "sql"
    BY <1>1, <1>2, <1>4, <2>1, LineRead, Zenon
  <2>2. CASE kind = "option"
    BY <1>1, <1>2, <1>4, <2>2, LineRead, Zenon
  <2>3. CASE kind = "connector"
    BY <1>1, <1>2, <1>4, <2>3, LineRead, Zenon
  <2> QED
    BY <2>1, <2>2, <2>3
<1>6. /\ file' = file /\ ended' = ended /\ Lines' = Lines
      /\ Of("sql")' = Of("sql") /\ Of("option")' = Of("option")
  BY SameScript, Zenon DEF OnTo, input
<1>7. ItsConnector(pos - 1)' = ItsConnector(n)
  <2>1. given' = given /\ Of("connector")' = Of("connector")
    BY SameScript, Zenon
  <2>2. Of("connector")'[pos' - 1] = Of("connector")[n]
    BY <1>3, <2>1, Zenon
  <2> QED
    BY <2>1, <2>2, Zenon DEF ItsConnector
<1>8. phase' # "used"
  BY <1>1
<1> QED
  BY <1>1, <1>3, <1>4, <1>5, <1>6, <1>7, <1>8, Zenon DEF AsRead

\* The steps after the script has been read.
LEMMA KeptStep ==
  ASSUME TypeOK, AsRead, readable /\ Eof,
         UNCHANGED <<input, pos, connector, map, text>>, phase' # "reading",
         phase' = "used" =>
           command' = [sql |-> text, connector |-> IF WithOptions THEN connector ELSE "",
                       options |-> IF WithOptions THEN MapOf(map) ELSE <<>>]
  PROVE  AsRead'
<1>1. /\ file' = file /\ ended' = ended /\ readable' = readable /\ given' = given
      /\ pos' = pos /\ connector' = connector /\ map' = map /\ text' = text
      /\ Lines' = Lines
  BY Zenon DEF input, Lines
<1>2. pos = Lines + 1
  <2>1. pos > Lines /\ pos <= Lines + 1
    BY Zenon DEF AsRead, Eof
  <2>2. pos \in 1 .. Len(file) + 1
    BY Zenon DEF TypeOK
  <2>3. Len(file) \in Nat /\ (Lines = Len(file) \/ Lines = Len(file) - 1)
    BY LinesType
  <2> QED
    BY ONLY <2>1, <2>2, <2>3
<1>3. WithOptions' <=> WithOptions
  BY <1>1, Zenon DEF WithOptions
<1>4. /\ file = <<>> => ended
      /\ pos <= Lines + 1 /\ text = Of("sql")[pos - 1] /\ map = Of("option")[pos - 1]
      /\ connector = ItsConnector(pos - 1)
  BY Zenon DEF AsRead
<1>5. /\ Of("sql")'[pos' - 1] = Of("sql")[pos - 1]
      /\ Of("option")'[pos' - 1] = Of("option")[pos - 1]
      /\ Of("connector")'[pos' - 1] = Of("connector")[pos - 1]
  BY <1>1, Zenon DEF Of
<1>6. ItsConnector(pos - 1)' = ItsConnector(pos - 1)
  BY <1>1, <1>5, Zenon DEF ItsConnector
<1> QED
  BY <1>1, <1>2, <1>3, <1>4, <1>5, <1>6, Zenon DEF AsRead

\* Every step keeps it.
LEMMA AsReadStep == TypeOK /\ AsRead /\ [Next]_vars => AsRead'
<1> SUFFICES ASSUME TypeOK, AsRead, [Next]_vars PROVE AsRead'
  OBVIOUS
<1>1. "sql" # "option" /\ "sql" # "connector" /\ "option" # "connector"
  OBVIOUS
<1>2. CASE SetConnector
  <2>1. /\ Reads("connector") /\ OnTo /\ connector' = file[pos][2] /\ map' = map /\ text' = text
    BY <1>2, Zenon DEF SetConnector
  <2> QED
    BY <1>1, <2>1, ReadStep, Zenon
<1>3. CASE AddOption
  <2>1. /\ Reads("option") /\ OnTo /\ connector' = connector /\ text' = text
        /\ map' = Append(map, file[pos][2])
    BY <1>3, Zenon DEF AddOption, Kept
  <2> QED
    BY <1>1, <2>1, ReadStep, Zenon
<1>4. CASE CopyLine
  <2>1. /\ Reads("sql") /\ OnTo /\ connector' = connector /\ map' = map
        /\ text' = Append(text, file[pos][2])
    BY <1>4, Zenon DEF CopyLine
  <2> QED
    BY <1>1, <2>1, ReadStep, Zenon
<1>5. CASE CopyNothing
  <2>1. /\ ~readable /\ phase = "reading" /\ file' = file /\ ended' = ended
        /\ readable' = readable /\ phase' = phase
    BY <1>5, Zenon DEF CopyNothing, input
  <2>2. phase' # "used"
    BY <2>1
  <2> QED
    BY <2>1, <2>2, Zenon DEF AsRead
<1>6. CASE Compiled
  <2>1. phase' # "reading" /\ phase' # "used"
    BY <1>6 DEF Compiled
  <2>2. readable /\ Eof /\ UNCHANGED <<input, pos, connector, map, text>>
    BY <1>6, Zenon DEF Compiled
  <2> QED
    BY <2>1, <2>2, KeptStep, Zenon
<1>7. CASE Unlinked \/ Terminated \/ Used
  <2>1. /\ phase = "compiled" /\ UNCHANGED <<input, pos, connector, map, text>>
        /\ phase' \in {"unlinked", "terminated", "used"}
    BY <1>7, Zenon DEF Unlinked, Terminated, Used
  <2>2. readable /\ pos = Lines + 1
    BY <2>1 DEF AsRead
  <2>3. Eof
    BY <2>2, LinesType DEF Eof
  <2>4. phase' # "reading"
    BY <2>1
  <2>5. phase' = "used" =>
          command' = [sql |-> text, connector |-> IF WithOptions THEN connector ELSE "",
                      options |-> IF WithOptions THEN MapOf(map) ELSE <<>>]
    <3> "used" # "unlinked" /\ "used" # "terminated"
      OBVIOUS
    <3> QED
      BY <1>7, Zenon DEF Unlinked, Terminated, Used
  <2> QED
    BY <2>1, <2>2, <2>3, <2>4, <2>5, KeptStep, Zenon
<1>8. CASE UNCHANGED vars
  <2>1. /\ file' = file /\ ended' = ended /\ readable' = readable /\ given' = given
        /\ phase' = phase /\ pos' = pos /\ connector' = connector /\ map' = map
        /\ text' = text /\ command' = command
    BY <1>8, Zenon DEF vars, input
  <2>2. Lines' = Lines /\ (WithOptions' <=> WithOptions)
    BY <2>1, Zenon DEF Lines, WithOptions
  <2>3. \A kind : Of(kind)' = Of(kind)
    BY <2>1, Zenon DEF Of
  <2>4. ItsConnector(pos - 1)' = ItsConnector(pos - 1)
    <3>1. Of("connector")'[pos' - 1] = Of("connector")[pos - 1]
      BY <2>1, <2>3, Zenon
    <3> QED
      BY <2>1, <3>1, Zenon DEF ItsConnector
  <2>5. /\ Of("sql")'[pos' - 1] = Of("sql")[pos - 1]
        /\ Of("option")'[pos' - 1] = Of("option")[pos - 1]
    BY <2>1, <2>3, Zenon
  <2> QED
    BY <2>1, <2>2, <2>4, <2>5, Zenon DEF AsRead
<1> QED
  BY <1>2, <1>3, <1>4, <1>5, <1>6, <1>7, <1>8, Zenon DEF Next

\* Between two turns of its loop the precompiler has put aside what the lines it has come
\* past say, each kind by itself.
THEOREM ReadsLineByLine == Spec => []AsRead
<1>1. Init => TypeOK /\ AsRead
  <2> SUFFICES ASSUME Init, TypeOK PROVE AsRead
    BY TypeAtStart
  <2>1. /\ phase = "reading" /\ pos = 1 /\ connector = given /\ map = <<>> /\ text = <<>>
        /\ file = <<>> => ended
    BY Zenon DEF Init
  <2>2. /\ Of("sql")[0] = <<>> /\ Of("option")[0] = <<>> /\ Of("connector")[0] = <<>>
    BY OfSteps, Zenon
  <2>3. pos - 1 = 0 /\ pos <= Lines + 1
    <3>1. file \in Seq(FileLines)
      BY Zenon DEF TypeOK
    <3>2. file = <<>> \/ Len(file) >= 1
      BY <3>1
    <3>3. Len(file) \in Nat /\ (Lines = Len(file) \/ (Lines = Len(file) - 1 /\ file # <<>>))
      BY <2>1, LinesType, Zenon
    <3> QED
      BY <2>1, <3>2, <3>3
  <2>4. ItsConnector(pos - 1) = given
    BY <2>2, <2>3, Zenon DEF ItsConnector
  <2>5. phase # "used"
    BY <2>1
  <2> QED
    BY <2>1, <2>2, <2>3, <2>4, <2>5, Zenon DEF AsRead
<1> QED
  BY <1>1, TypeStep, AsReadStep, PTL DEF Spec

\* A program's command is that of the script, all of it or without a last line that has no
\* newline, however many lines there are, wherever in the script the connector is named
\* and however often an option is.
THEOREM CommandOfScript == Spec => []CommandIsScript
<1>1. TypeOK /\ AsRead => CommandIsScript
  <2> SUFFICES ASSUME TypeOK, AsRead, phase = "used"
               PROVE  Says(IF ended THEN Len(file) ELSE Len(file) - 1)
    BY Zenon DEF CommandIsScript
  <2> DEFINE opts == Of("option")[Lines]
  <2>1. /\ text = Of("sql")[pos - 1] /\ map = Of("option")[pos - 1]
        /\ connector = ItsConnector(pos - 1)
        /\ command = [sql |-> text, connector |-> IF WithOptions THEN connector ELSE "",
                      options |-> IF WithOptions THEN MapOf(map) ELSE <<>>]
    BY "used" # "reading", Zenon DEF AsRead
  <2>2. pos - 1 = Lines
    <3>1. pos = Lines + 1
      BY "used" # "reading", Zenon DEF AsRead
    <3> QED
      BY <3>1, LinesType
  <2>3. command.sql = Of("sql")[Lines]
    BY <2>1, <2>2
  <2>4. map = opts /\ opts \in Seq(Options)
    BY <2>1, <2>2, Zenon DEF TypeOK
  <2>5. /\ command.options = IF WithOptions THEN MapOf(map) ELSE <<>>
        /\ command.connector = IF WithOptions THEN connector ELSE ""
    BY <2>1
  <2> HIDE DEF opts
  <2>6. DOMAIN command.options # {} => command.connector = ItsConnector(Lines)
    <3>1. CASE WithOptions
      BY <2>1, <2>2, <2>5, <3>1, Zenon
    <3>2. CASE ~WithOptions
      <4>1. command.options = <<>>
        BY <2>5, <3>2, Zenon
      <4> QED
        BY <4>1
    <3> QED
      BY <3>1, <3>2
  <2>7. ASSUME ItsConnector(Lines) # ""
        PROVE  /\ DOMAIN command.options = {opts[i][1] : i \in DOMAIN opts}
               /\ \A i \in DOMAIN opts :
                    (\A j \in 1 .. i - 1 : opts[j][1] # opts[i][1]) =>
                       command.options[opts[i][1]] = opts[i][2]
    <3>1. CASE opts = <<>>
      <4>1. command.options = <<>>
        BY <2>4, <2>5, <3>1, Zenon DEF WithOptions
      <4> QED
        BY <3>1, <4>1
    <3>2. CASE opts # <<>>
      <4>1. command.options = MapOf(opts)
        BY <2>1, <2>2, <2>4, <2>5, <2>7, <3>2, Zenon DEF WithOptions
      <4>2. /\ DOMAIN MapOf(opts) = {opts[i][1] : i \in DOMAIN opts}
            /\ \A i \in DOMAIN opts : (\A j \in 1 .. i - 1 : opts[j][1] # opts[i][1]) =>
                 MapOf(opts)[opts[i][1]] = opts[i][2]
        BY <2>4, MapFirst, Zenon
      <4> QED
        BY ONLY <4>1, <4>2
    <3> QED
      BY <3>1, <3>2
  <2>8. Says(Lines)
    BY <2>3, <2>6, <2>7, Zenon DEF Says, opts
  <2> QED
    BY <2>8, Zenon DEF Lines
<1> QED
  BY <1>1, TypeCorrect, ReadsLineByLine, PTL
=============================================================================
