----------------------------- MODULE MailProof -----------------------------
(***************************************************************************)
(* Theorems on Mail, and through it on the encoders of Mime, for any       *)
(* trees, widths and payloads: the types, the lines of base64 and      *)
(* those of quoted-printable, what a reader makes of these, and that a     *)
(* reader of the whole mail finds its parts.                               *)
(***************************************************************************)
EXTENDS Mail, PrefixesProof

\* The encoder's variables.
EncodingTyped ==
  /\ part \in {"text", "binary", None}
  /\ part # None => maxWidth \in Widths /\ maxWidth \in Nat /\ maxWidth >= 3
  /\ part = "text" => /\ input \in Seq(Chars)
                      /\ next \in 1 .. Len(input) + 1
                      /\ line \in 0 .. maxWidth
  /\ part = "binary" => /\ input \in Nat
                        /\ next \in 0 .. input + BlockSize

\* sendEmail's.
SendingTyped ==
  /\ tree \in Trees
  /\ pc \in {"idle", "writing", "written", "sent", "failed", "threw"}
  /\ at \in 1 .. Len(tree) + 1
  /\ level \in Nat
  /\ at <= Len(tree) => Node.depth <= level
  /\ session \in {"none", "open", "destroyed"}
  /\ stray \in BOOLEAN
  /\ part # None => at <= Len(tree) /\ Node.kind = part /\ pc = "writing"

Typed == EncodingTyped /\ SendingTyped

\* Every turn of the encoders keeps their types: the count of a line is no more than its
\* width.
LEMMA EncodeTyped == EncodingTyped /\ EncodeStep => EncodingTyped'
<1> SUFFICES ASSUME EncodingTyped, EncodeStep PROVE EncodingTyped'
  OBVIOUS
<1> USE NoneAssumption DEF EncodingTyped
<1>1. ASSUME Turn, OnTo, line' \in 0 .. maxWidth PROVE EncodingTyped'
  <2>1. /\ part = "text" /\ part' = "text" /\ UNCHANGED <<maxWidth, input>>
        /\ next \in Nat /\ next <= Len(input) /\ next' = next + 1
        /\ input \in Seq(Chars)
    BY <1>1 DEF Turn, OnTo
  <2>2. next' \in 1 .. Len(input) + 1
    BY <2>1
  <2> QED
    BY <1>1, <2>1, <2>2
<1>2. ASSUME NEW form \in {"plain", "escaped"}, Put(form), Turn
      PROVE  line' \in 0 .. maxWidth
  <2>1. Places[form] \in {1, 3}
    BY DEF Places
  <2>2. maxWidth \in Nat /\ maxWidth >= 3 /\ line \in 0 .. maxWidth
    BY <1>2 DEF Turn
  <2>3. \/ line' = Places[form]
        \/ line' = line + Places[form] /\ ~(line + Places[form] > maxWidth)
    BY <1>2 DEF Put, NeedsWrap
  <2> QED
    BY <2>1, <2>2, <2>3
<1>3. CASE DropReturn
  <2>1. line' = line
    BY <1>3 DEF DropReturn
  <2> QED
    BY <1>1, <1>3, <2>1 DEF DropReturn, Turn
<1>4. CASE NewLine
  <2>1. line' = 0 /\ part = "text"
    BY <1>4, Zenon DEF NewLine, Turn
  <2>2. line' \in 0 .. maxWidth
    BY <2>1
  <2> QED
    BY <1>1, <1>4, <2>2 DEF NewLine
<1>5. CASE LiteralSpace \/ Literal
  BY <1>1, <1>2, <1>5 DEF LiteralSpace, Literal
<1>6. CASE EscapedSpace \/ Escaped
  BY <1>1, <1>2, <1>6 DEF EscapedSpace, Escaped
<1>7. CASE EmptyInput
  <2>1. UNCHANGED <<part, maxWidth, input, next, line>>
    BY <1>7 DEF EmptyInput
  <2> QED
    BY <2>1 DEF BlockSize
<1>8. CASE Block
  <2>1. /\ part = "binary" /\ UNCHANGED <<part, maxWidth, input>>
        /\ next' = next + BlockSize /\ next < input /\ input \in Nat /\ next \in Nat
        /\ maxWidth \in Nat
    BY <1>8 DEF Block, BlockSize
  <2>2. BlockSize \in Nat /\ BlockSize' = BlockSize
    BY <2>1 DEF BlockSize
  <2>3. next' \in 0 .. input + BlockSize
    BY <2>1, <2>2
  <2> QED
    BY <2>1, <2>2, <2>3
<1> QED
  BY <1>3, <1>4, <1>5, <1>6, <1>7, <1>8 DEF EncodeStep

\* Every step of sendEmail keeps the types.
LEMMA StepTyped == Typed /\ [Next]_vars => Typed'
<1> SUFFICES ASSUME Typed, [Next]_vars PROVE Typed'
  OBVIOUS
<1> USE NoneAssumption DEF Typed, SendingTyped
<1>1. /\ DOMAIN tree = 1 .. Len(tree) /\ Len(tree) \in Nat
      /\ \A i \in 2 .. Len(tree) :
           /\ tree[i].depth \in 1 .. tree[i - 1].depth + 1
           /\ tree[i].depth = tree[i - 1].depth + 1 => tree[i - 1].kind = "multi"
      /\ \A i \in 1 .. Len(tree) :
           /\ tree[i].depth \in Nat
           /\ tree[i].kind = "text" => tree[i].payload \in Seq(Chars)
           /\ tree[i].kind = "binary" => tree[i].payload \in Nat
  BY TreesAssumption DEF WellFormed
<1>2. ASSUME UNCHANGED encoding PROVE EncodingTyped'
  BY <1>2 DEF encoding, EncodingTyped, BlockSize
<1>3. CASE UNCHANGED vars
  BY <1>2, <1>3 DEF vars, Node, encoding
<1>4. CASE SendEmail
  BY <1>2, <1>4 DEF SendEmail, Node, encoding
<1>5. CASE WriteMulti
  BY <1>1, <1>2, <1>5 DEF WriteMulti, AtNode, Node, encoding
<1>6. CASE WriteSingle
  <2>1. /\ part' \in {"text", "binary"} /\ part' = tree[at].kind
        /\ input' = tree[at].payload /\ at \in 1 .. Len(tree) /\ pc = "writing"
        /\ UNCHANGED <<tree, pc, at, level, session, stray>>
    BY <1>6 DEF WriteSingle, AtNode, Node, PartStarts
  <2>2. maxWidth' \in Widths
    BY <1>6, <2>1 DEF WriteSingle, AtNode, Node, PartStarts
  <2>3. maxWidth' \in Nat /\ maxWidth' >= 3
    BY <2>2, WidthsAssumption
  <2>4. line' = 0 /\ next' = IF part' = "text" THEN 1 ELSE 0
    BY <1>6, <2>1 DEF WriteSingle, PartStarts, Node
  <2>5. CASE part' = "text"
    <3>1. input' \in Seq(Chars) /\ next' \in 1 .. Len(input') + 1 /\ line' \in 0 .. maxWidth'
      <4>1. input' \in Seq(Chars) /\ next' = 1 /\ line' = 0
        BY <1>1, <2>1, <2>4, <2>5
      <4> QED
        BY ONLY <2>3, <4>1
    <3> QED
      BY <2>1, <2>2, <2>3, <2>5, <3>1 DEF EncodingTyped, Node
  <2>6. CASE part' = "binary"
    <3>1. \A w \in Nat : (w * 3) \div 4 \in Nat
      OBVIOUS
    <3>2. input' \in Nat /\ next' = 0
      BY <1>1, <2>1, <2>4, <2>6
    <3>3. next' \in 0 .. input' + (maxWidth' * 3) \div 4
      <4>1. (maxWidth' * 3) \div 4 \in Nat
        BY <2>3, <3>1
      <4> QED
        BY <3>2, <4>1
    <3>4. EncodingTyped'
      BY <2>2, <2>3, <2>6, <3>2, <3>3, NoneAssumption, Zenon DEF EncodingTyped, BlockSize
    <3> QED
      BY <2>1, <3>4 DEF Node
  <2> QED
    BY <2>1, <2>5, <2>6
<1>7. CASE Encode
  <2>1. part' = part
    BY <1>7, Zenon DEF Encode, EncodeStep, DropReturn, NewLine, LiteralSpace, EscapedSpace,
                       Literal, Escaped, EmptyInput, Block, OnTo
  <2> QED
    BY <1>7, <2>1, EncodeTyped DEF Encode, Node
<1>8. CASE SingleWritten
  <2>1. /\ part \in {"text", "binary"} /\ part' = None /\ at' = at + 1
        /\ UNCHANGED <<tree, pc, level, session>>
    BY <1>8 DEF SingleWritten, Done, PartEnds, EncodingTyped
  <2>2. stray' \in BOOLEAN
    BY <1>8, Zenon DEF SingleWritten, HasStray
  <2>3. at \in 1 .. Len(tree) /\ tree[at].kind # "multi" /\ tree[at].depth <= level
    BY <2>1 DEF Node
  <2>4. at' <= Len(tree) => tree[at'].depth <= level
    <3> SUFFICES ASSUME at' <= Len(tree) PROVE tree[at'].depth <= level
      OBVIOUS
    <3>1. at' \in 2 .. Len(tree) /\ at' - 1 = at
      BY <1>1, <2>1, <2>3
    <3>2. tree[at'].depth \in 1 .. tree[at].depth + 1 /\ tree[at'].depth # tree[at].depth + 1
      BY <1>1, <2>3, <3>1
    <3>3. tree[at].depth \in Nat
      BY <1>1, <2>3
    <3> QED
      BY <2>3, <3>2, <3>3
  <2> QED
    BY <2>1, <2>2, <2>3, <2>4 DEF EncodingTyped, Node
<1>9. CASE CloseMulti
  <2>1. /\ level' = level - 1 /\ level > 0 /\ part = None
        /\ at <= Len(tree) => tree[at].depth < level
        /\ UNCHANGED <<encoding, tree, pc, at, session, stray>>
    BY <1>9 DEF CloseMulti, Node
  <2>2. at <= Len(tree) => tree[at].depth \in Nat
    BY <1>1, TreesAssumption DEF WellFormed
  <2> QED
    BY <1>2, <2>1, <2>2 DEF Node, encoding
<1>10. CASE PartThrows
  BY <1>2, <1>10 DEF PartThrows, AtNode, Node, encoding
<1>11. CASE ContentWritten
  BY <1>2, <1>11 DEF ContentWritten, Node, encoding
<1>12. CASE SessionSent \/ SessionFails
  BY <1>2, <1>12 DEF SessionSent, SessionFails, Node, encoding
<1> QED
  BY <1>3, <1>4, <1>5, <1>6, <1>7, <1>8, <1>9, <1>10, <1>11, <1>12 DEF Next

\* Encoders and sendEmail keep their types at every moment.
THEOREM TypedAlways == Spec => []Typed
<1>1. Init => Typed
  <2> SUFFICES ASSUME Init PROVE Typed
    OBVIOUS
  <2>1. stray \in BOOLEAN /\ part = None /\ tree \in Trees /\ at = 1 /\ level = 0
    BY Zenon DEF Init, NoPart
  <2>2. Len(tree) \in Nat \ {0} /\ tree[1].depth = 0
    BY <2>1, TreesAssumption DEF WellFormed
  <2> QED
    BY <2>1, <2>2, NoneAssumption DEF Init, Typed, EncodingTyped, SendingTyped, Node
<1> QED
  BY <1>1, StepTyped, PTL DEF Spec

\* The lines and headers of a mail have their types at every moment: no line that
\* quotedPrintable counts is longer than its width, and the multiparts that are open are
\* those above the next part.
THEOREM TypeCorrect == Spec => []TypeOK
<1>1. Typed => TypeOK
  BY DEF Typed, EncodingTyped, SendingTyped, TypeOK, EncodingTypeOK
<1> QED
  BY <1>1, TypedAlways, PTL

(***************************************************************************)
(* base64                                                                  *)
(***************************************************************************)

\* Lines that others follow, or will follow, are full.
Blocks ==
  part = "binary" =>
    /\ out \in Seq([bytes : Nat, chars : Nat])
    /\ WholeGroups => \A i \in 1 .. Len(out) : out[i].chars <= maxWidth
    /\ \A i \in 1 .. Len(out) : i < Len(out) \/ next < input => out[i].bytes = BlockSize

\* Where a full line of base64 has whole groups of three bytes, they are four characters
\* each and fit, and another line is no longer.
LEMMA FullLines ==
  ASSUME NEW w \in Nat, ((w * 3) \div 4) % 3 = 0
  PROVE  \A n \in 0 .. (w * 3) \div 4 : Encoded(n) \in [bytes : Nat, chars : 0 .. w]
<1>1. PICK k \in Nat : (w * 3) \div 4 = 3 * k
  <2> DEFINE b == (w * 3) \div 4
  <2>1. b \in Nat /\ b % 3 = 0
    OBVIOUS
  <2> HIDE DEF b
  <2>2. b \div 3 \in Nat /\ b = 3 * (b \div 3)
    BY <2>1
  <2> QED
    BY <2>2 DEF b
<1>2. 4 * k <= w
  <2>1. 4 * (3 * k) <= w * 3
    BY <1>1
  <2> QED
    BY <2>1
<1>3. ASSUME NEW n \in 0 .. 3 * k PROVE (n + 2) \div 3 \in 0 .. k
  OBVIOUS
<1>4. ASSUME NEW n \in 0 .. 3 * k PROVE Encoded(n) \in [bytes : Nat, chars : 0 .. w]
  <2>1. PICK m \in 0 .. k : m = (n + 2) \div 3
    BY <1>3
  <2>2. 4 * m \in 0 .. w
    BY <1>2, <2>1
  <2> QED
    BY <2>1, <2>2 DEF Encoded
<1> QED
  BY <1>1, <1>4

\* They are, at every moment.
LEMMA BlocksAlways == Spec => []Blocks
<1>1. Init => Blocks
  BY NoneAssumption DEF Init, NoPart, Blocks
<1>2. Typed /\ Blocks /\ [Next]_vars => Blocks'
  <2> SUFFICES ASSUME Typed, Blocks, Next, part' = "binary" PROVE Blocks'
    BY DEF Blocks, vars, encoding, BlockSize, WholeGroups
  <2> USE NoneAssumption
  <2>1. ASSUME UNCHANGED encoding PROVE Blocks'
    BY <2>1 DEF encoding, Blocks, BlockSize, WholeGroups
  <2>2. CASE WriteSingle
    <3>1. out' = <<>>
      BY <2>2 DEF WriteSingle, PartStarts
    <3> QED
      BY <3>1 DEF Blocks
  <2>3. CASE SingleWritten
    BY <2>3 DEF SingleWritten, PartEnds
  <2>4. ASSUME EncodeStep PROVE Blocks'
    <3>1. CASE EmptyInput
      <4>1. /\ part = "binary" /\ UNCHANGED <<part, maxWidth, input, next>>
            /\ input = 0 /\ out' = <<Encoded(0)>> /\ maxWidth \in Nat
        BY <3>1 DEF EmptyInput, Typed, EncodingTyped
      <4>2. BlockSize \in Nat /\ next \in Nat
        BY <4>1 DEF BlockSize, Typed, EncodingTyped
      <4>3. Encoded(0) \in [bytes : Nat, chars : 0 .. maxWidth]
        BY <4>1 DEF Encoded
      <4> QED
        BY <4>1, <4>2, <4>3 DEF Blocks
    <3>2. CASE Block
      <4> DEFINE n == Min({BlockSize, input - next})
      <4>1. /\ part = "binary" /\ UNCHANGED <<part, maxWidth, input>>
            /\ next < input /\ next' = next + BlockSize /\ out' = Append(out, Encoded(n))
            /\ maxWidth \in Nat /\ input \in Nat
        BY <3>2 DEF Block, Typed, EncodingTyped
      <4>2. /\ BlockSize \in Nat /\ next \in Nat /\ BlockSize' = BlockSize
            /\ WholeGroups' <=> WholeGroups
        BY <4>1 DEF BlockSize, WholeGroups, Typed, EncodingTyped
      <4>3. /\ n \in {BlockSize, input - next} /\ n <= BlockSize /\ n <= input - next
        <5>1. \E x \in {BlockSize, input - next} : \A y \in {BlockSize, input - next} : x <= y
          BY <4>1, <4>2
        <5> QED
          BY <5>1 DEF Min
      <4> HIDE DEF n
      <4>4. n \in 0 .. BlockSize /\ (next' < input' => n = BlockSize)
        BY <4>1, <4>2, <4>3
      <4>5. /\ Encoded(n) \in [bytes : Nat, chars : Nat] /\ Encoded(n).bytes = n
            /\ WholeGroups => Encoded(n).chars <= maxWidth
        <5>1. WholeGroups => Encoded(n) \in [bytes : Nat, chars : 0 .. maxWidth]
          BY <4>1, <4>4, FullLines DEF BlockSize, WholeGroups
        <5>2. Encoded(n) \in [bytes : Nat, chars : Nat] /\ Encoded(n).bytes = n
          BY <4>2, <4>4 DEF Encoded
        <5>3. ASSUME Encoded(n) \in [bytes : Nat, chars : 0 .. maxWidth]
              PROVE  Encoded(n).chars <= maxWidth
          <6>1. Encoded(n).chars \in 0 .. maxWidth
            BY <5>3
          <6> QED
            BY <4>1, <6>1
        <5> QED
          BY <5>1, <5>2, <5>3
      <4>6. /\ out \in Seq([bytes : Nat, chars : Nat])
            /\ WholeGroups => \A i \in 1 .. Len(out) : out[i].chars <= maxWidth
            /\ \A i \in 1 .. Len(out) : out[i].bytes = BlockSize
        BY <4>1 DEF Blocks
      <4> DEFINE e == Encoded(n)
      <4>7. /\ e \in [bytes : Nat, chars : Nat] /\ e.bytes = n
            /\ WholeGroups => e.chars <= maxWidth
        BY <4>1, <4>5
      <4> HIDE DEF e
      <4>8. /\ out' \in Seq([bytes : Nat, chars : Nat]) /\ Len(out') = Len(out) + 1
            /\ Len(out) \in Nat
            /\ \A i \in 1 .. Len(out') :
                 out'[i] = IF i = Len(out) + 1 THEN e ELSE out[i]
        BY <4>1, <4>6, <4>7 DEF e
      <4> QED
        BY <4>1, <4>2, <4>4, <4>6, <4>7, <4>8 DEF Blocks
    <3>3. CASE ~EmptyInput /\ ~Block
      BY <2>4, <3>3 DEF EncodeStep, DropReturn, NewLine, LiteralSpace, EscapedSpace, Literal,
                        Escaped, OnTo, Turn
    <3> QED
      BY <3>1, <3>2, <3>3
  <2>5. CASE Encode
    BY <2>4, <2>5 DEF Encode
  <2>6. CASE ~WriteSingle /\ ~SingleWritten /\ ~Encode
    BY <2>1, <2>6 DEF Next, SendEmail, WriteMulti, CloseMulti, PartThrows, ContentWritten,
                      SessionSent, SessionFails
  <2> QED
    BY <2>2, <2>3, <2>5, <2>6
<1> QED
  BY <1>1, <1>2, TypedAlways, PTL DEF Spec

\* However many bytes there are, of a width for whole groups no line of base64 is longer
\* than it, and only the last may be padded.
THEOREM Base64Fits == Spec => []BlocksFit
<1>1. Typed /\ Blocks => BlocksFit
  <2> SUFFICES ASSUME Typed, Blocks, part = "binary", WholeGroups PROVE BlocksFit
    BY DEF BlocksFit
  <2>1. BlockSize % 3 = 0
    BY DEF WholeGroups
  <2>2. /\ Len(out) \in Nat
        /\ \A i \in 1 .. Len(out) : out[i].chars <= maxWidth
        /\ \A i \in 1 .. Len(out) : i < Len(out) => out[i].bytes = BlockSize
    BY DEF Blocks
  <2>3. \A i \in 1 .. Len(out) - 1 : i \in 1 .. Len(out) /\ i < Len(out)
    BY <2>2
  <2>4. \A i \in 1 .. Len(out) - 1 : out[i].bytes % 3 = 0
    <3> HIDE DEF BlockSize
    <3> QED
      BY ONLY <2>1, <2>2, <2>3
  <2> QED
    BY <2>2, <2>4, Zenon DEF BlocksFit
<1> QED
  BY <1>1, BlocksAlways, TypedAlways, PTL

\* The bytes in lines of base64.
Total(lines) == Sums([i \in DOMAIN lines |-> lines[i].bytes])[Len(lines)]

\* Another line adds its own.
LEMMA TotalAppend ==
  ASSUME NEW o \in Seq([bytes : Nat, chars : Nat]), NEW e \in [bytes : Nat, chars : Nat]
  PROVE  Total(<<>>) = 0 /\ Total(o) \in Nat /\ Total(Append(o, e)) = Total(o) + e.bytes
<1> DEFINE B(lines) == [i \in DOMAIN lines |-> lines[i].bytes]
<1>1. \A i \in 1 .. Len(o) : o[i].bytes \in Nat
  <2> SUFFICES ASSUME NEW i \in 1 .. Len(o) PROVE o[i].bytes \in Nat
    OBVIOUS
  <2>1. o[i] \in [bytes : Nat, chars : Nat]
    BY ElementOfSeq, Zenon
  <2> QED
    BY <2>1
<1>2. B(o) \in Seq(Nat) /\ Len(B(o)) = Len(o) /\ B(<<>>) \in Seq(Nat) /\ e.bytes \in Nat
  <2>1. DOMAIN o = 1 .. Len(o) /\ Len(o) \in Nat
    OBVIOUS
  <2>2. B(o) \in Seq(Nat) /\ Len(B(o)) = Len(o)
    BY ONLY <1>1, <2>1
  <2>3. B(<<>>) \in Seq(Nat)
    OBVIOUS
  <2> QED
    BY <2>2, <2>3
<1>3. B(Append(o, e)) = Append(B(o), e.bytes) /\ Len(Append(o, e)) = Len(o) + 1
  <2> DEFINE b == e.bytes
  <2>1. /\ Len(o) \in Nat /\ DOMAIN o = 1 .. Len(o) /\ DOMAIN Append(o, e) = 1 .. Len(o) + 1
        /\ \A i \in 1 .. Len(o) : Append(o, e)[i] = o[i]
        /\ Append(o, e)[Len(o) + 1] = e
    OBVIOUS
  <2>2. DOMAIN Append(B(o), b) = 1 .. Len(o) + 1 /\ Append(B(o), b)[Len(o) + 1] = b
        /\ \A i \in 1 .. Len(o) : Append(B(o), b)[i] = B(o)[i]
    BY <1>2
  <2>3. Append(B(o), b) = [i \in 1 .. Len(o) + 1 |-> Append(B(o), b)[i]]
    BY <1>2
  <2> QED
    BY <2>1, <2>2, <2>3
<1>4. Total(o) = Sums(B(o))[Len(o)] /\ Total(<<>>) = Sums(B(<<>>))[0]
      /\ Total(Append(o, e)) = Sums(B(Append(o, e)))[Len(o) + 1]
  BY <1>3 DEF Total
<1> DEFINE b == e.bytes
           S == B(o)
<1>5. Sums(Append(S, b))[Len(S) + 1] = Sums(S)[Len(S)] + b
  <2> HIDE DEF b, S
  <2> QED
    BY <1>2, SumsAppend DEF b, S
<1>6. Sums(S)[Len(S)] \in Nat /\ Sums(B(<<>>))[0] = 0
  <2>1. Len(S) \in 0 .. Len(S)
    BY <1>2
  <2> HIDE DEF S, B
  <2> QED
    BY <1>2, <2>1, SumsSteps DEF S
<1> QED
  BY <1>2, <1>3, <1>4, <1>5, <1>6

\* The bytes in the lines so far are those before next.
AllBytes ==
  part = "binary" => /\ next <= input => Total(out) = next
                     /\ next >= input => Total(out) = input

\* However many bytes there are, the lines of base64 hold every one of them, and together
\* are one encoding of the whole where the width is for whole groups.
THEOREM OneEncodingAlways == Spec => []OneEncoding
<1>1. Init => AllBytes
  BY NoneAssumption DEF Init, NoPart, AllBytes
<1>2. Typed /\ Blocks /\ AllBytes /\ [Next]_vars => AllBytes'
  <2> SUFFICES ASSUME Typed, Blocks, AllBytes, [Next]_vars, part' = "binary"
               PROVE  /\ next' <= input' => Total(out') = next'
                      /\ next' >= input' => Total(out') = input'
    BY Zenon DEF AllBytes
  <2> USE NoneAssumption
  <2>1. ASSUME UNCHANGED encoding
        PROVE  /\ next' <= input' => Total(out') = next'
               /\ next' >= input' => Total(out') = input'
    BY <2>1, Zenon DEF encoding, AllBytes
  <2>2. CASE WriteSingle
    <3>1. out' = <<>> /\ next' = 0 /\ input' \in Nat
      <4>1. out' = <<>> /\ next' = 0
        BY <2>2 DEF WriteSingle, PartStarts
      <4>2. input' \in Nat
        BY StepTyped, Zenon DEF Typed, EncodingTyped
      <4> QED
        BY <4>1, <4>2
    <3>2. Total(<<>>) = 0
      <4>1. \E e : e \in [bytes : Nat, chars : Nat]
        <5>1. [bytes |-> 0, chars |-> 0] \in [bytes : Nat, chars : Nat]
          OBVIOUS
        <5> QED
          BY <5>1
      <4>2. <<>> \in Seq([bytes : Nat, chars : Nat])
        OBVIOUS
      <4> QED
        BY <4>1, <4>2, TotalAppend, Zenon
    <3> QED
      BY <3>1, <3>2
  <2>3. CASE SingleWritten
    BY <2>3 DEF SingleWritten, PartEnds
  <2>4. CASE Encode
    <3>1. part = "binary" /\ (EmptyInput \/ Block)
      BY <2>4, Zenon DEF Encode, EncodeStep, DropReturn, NewLine, LiteralSpace, EscapedSpace,
                         Literal, Escaped, OnTo, Turn, EmptyInput, Block
    <3>2. /\ input \in Nat /\ BlockSize \in Nat /\ next \in Nat
      BY <3>1 DEF Typed, EncodingTyped, BlockSize
    <3>3. out \in Seq([bytes : Nat, chars : Nat])
      BY <3>1, Zenon DEF Blocks
    <3>4. \A n \in Nat : Encoded(n) \in [bytes : Nat, chars : Nat] /\ Encoded(n).bytes = n
      BY DEF Encoded
    <3>5. CASE EmptyInput
      <4>1. out = <<>> /\ out' = Append(out, Encoded(0)) /\ input = 0
            /\ UNCHANGED <<input, next>>
        <5>1. out = <<>> /\ out' = <<Encoded(0)>> /\ input = 0 /\ UNCHANGED <<input, next>>
          BY <3>5, Zenon DEF EmptyInput
        <5>2. Append(<<>>, Encoded(0)) = <<Encoded(0)>>
          OBVIOUS
        <5> QED
          BY <5>1, <5>2, Zenon
      <4>2. Total(out') = Total(out) + Encoded(0).bytes /\ Total(out) \in Nat
        BY <3>3, <3>4, <4>1, TotalAppend, Zenon
      <4>3. Total(out) = Total(<<>>) /\ Total(<<>>) = 0
        BY <3>3, <3>4, <4>1, TotalAppend, Zenon
      <4>4. Encoded(0).bytes = 0
        BY <3>4
      <4>5. Total(out') = 0 /\ input' = 0 /\ next' = next
        BY <4>1, <4>2, <4>3, <4>4
      <4> QED
        BY <3>2, <4>5
    <3>6. CASE Block
      <4> DEFINE n == Min({BlockSize, input - next})
      <4>1. /\ input' = input /\ next < input /\ next' = next + BlockSize
            /\ out' = Append(out, Encoded(n))
        BY <3>6, Zenon DEF Block
      <4>2. /\ n \in {BlockSize, input - next} /\ n <= BlockSize /\ n <= input - next
        <5>1. \E x \in {BlockSize, input - next} : \A y \in {BlockSize, input - next} : x <= y
          BY <3>2, <4>1
        <5> QED
          BY <5>1 DEF Min
      <4> HIDE DEF n
      <4>3. n \in Nat
        BY <3>2, <4>1, <4>2
      <4>4. Total(out') = Total(out) + n
        BY <3>3, <3>4, <4>1, <4>3, TotalAppend, Zenon
      <4>5. Total(out) = next
        <5>1. next <= input
          BY <3>2, <4>1
        <5> QED
          BY <3>1, <5>1, Zenon DEF AllBytes
      <4> QED
        BY <3>2, <4>1, <4>2, <4>3, <4>4, <4>5
    <3> QED
      BY <3>1, <3>5, <3>6
  <2>5. CASE ~WriteSingle /\ ~SingleWritten /\ ~Encode
    BY <2>1, <2>5, Zenon DEF Next, SendEmail, WriteMulti, CloseMulti, PartThrows,
                             ContentWritten, SessionSent, SessionFails, vars
  <2> QED
    BY <2>2, <2>3, <2>4, <2>5
<1>3. Typed /\ AllBytes /\ BlocksFit => OneEncoding
  <2> SUFFICES ASSUME Typed, AllBytes, part = "binary", Done PROVE Total(out) = input
    BY Zenon DEF OneEncoding, Total
  <2>1. next >= input
    BY DEF Done
  <2> QED
    BY <2>1, Zenon DEF AllBytes
<1>4. Spec => []Blocks
  BY BlocksAlways
<1> QED
  BY <1>1, <1>2, <1>3, <1>4, TypedAlways, Base64Fits, PTL DEF Spec

(***************************************************************************)
(* quotedPrintable                                                         *)
(***************************************************************************)

Symbols == {"plain", "escaped", "soft", "crlf"} \X (Chars \cup {""})

\* The symbols so far fit in lines of w, and l is what the last of these takes.
Fitting(o, w, l) ==
  /\ \A i \in 1 .. Len(o), s \in 0 .. Len(o) :
       s < i /\ InLine(o, s, i) =>
         /\ Taken(o)[i] - Taken(o)[s] <= w
         /\ i < Len(o) /\ o[i][1] = "soft" =>
              Taken(o)[i] - Taken(o)[s] + Places[o[i + 1][1]] > w
  /\ \A s \in 0 .. Len(o) :
       InLine(o, s, Len(o) + 1) => l = Taken(o)[Len(o)] - Taken(o)[s]

\* A symbol takes up to three places, none if it ends a line.
LEMMA SymbolPlaces ==
  ASSUME NEW x \in Symbols
  PROVE  Places[x[1]] \in 0 .. 3 /\ (Ends(x) => Places[x[1]] = 0)
<1>1. x[1] \in {"plain", "escaped", "soft", "crlf"}
  BY Zenon DEF Symbols
<1> QED
  BY <1>1 DEF Places, Ends

\* The places taken are numbers, and another symbol adds its own.
LEMMA TakenAppend ==
  ASSUME NEW o \in Seq(Symbols), NEW x \in Symbols
  PROVE  /\ \A i \in 0 .. Len(o) : Taken(o)[i] \in Nat /\ Taken(Append(o, x))[i] = Taken(o)[i]
         /\ Taken(Append(o, x))[Len(o) + 1] = Taken(o)[Len(o)] + Places[x[1]]
         /\ Taken(o)[0] = 0
<1> DEFINE P(q) == [i \in DOMAIN q |-> Places[q[i][1]]]
           e == Places[x[1]]
           t == Append(o, x)
<1>1. \A i \in 1 .. Len(o) : Places[o[i][1]] \in Nat
  <2> SUFFICES ASSUME NEW i \in 1 .. Len(o) PROVE Places[o[i][1]] \in Nat
    OBVIOUS
  <2>1. o[i] \in Symbols
    BY ElementOfSeq, Zenon
  <2>2. Places[o[i][1]] \in 0 .. 3
    BY <2>1, SymbolPlaces, Zenon
  <2> QED
    BY <2>2
<1>2. e \in Nat
  <2>1. e \in 0 .. 3
    BY SymbolPlaces, Zenon
  <2> QED
    BY <2>1
<1>3. DOMAIN o = 1 .. Len(o) /\ Len(o) \in Nat
  BY LenProperties, Zenon
<1>4. P(o) \in Seq(Nat) /\ Len(P(o)) = Len(o)
  BY ONLY <1>1, <1>3
<1>5. P(t) = Append(P(o), e)
  <2>1. /\ DOMAIN t = 1 .. Len(o) + 1 /\ t[Len(o) + 1] = x
        /\ \A i \in 1 .. Len(o) : t[i] = o[i]
    OBVIOUS
  <2>2. /\ DOMAIN Append(P(o), e) = 1 .. Len(o) + 1 /\ Append(P(o), e)[Len(o) + 1] = e
        /\ \A i \in 1 .. Len(o) : Append(P(o), e)[i] = P(o)[i]
    BY <1>4
  <2>3. Append(P(o), e) = [i \in 1 .. Len(o) + 1 |-> Append(P(o), e)[i]]
    BY <1>4
  <2>4. \A i \in 1 .. Len(o) + 1 : Append(P(o), e)[i] = Places[t[i][1]]
    <3> SUFFICES ASSUME NEW i \in 1 .. Len(o) + 1
                 PROVE  Append(P(o), e)[i] = Places[t[i][1]]
      OBVIOUS
    <3>1. CASE i = Len(o) + 1
      BY <2>1, <2>2, <3>1, Zenon
    <3>2. CASE i # Len(o) + 1
      <4>1. i \in 1 .. Len(o) /\ i \in DOMAIN o
        BY <1>3, <3>2
      <4> QED
        BY <2>1, <2>2, <4>1, Zenon
    <3> QED
      BY <3>1, <3>2
  <2> QED
    BY <2>1, <2>3, <2>4, Zenon
<1>6. Taken(o) = Sums(P(o)) /\ Taken(t) = Sums(P(t))
  BY Zenon DEF Taken
<1> DEFINE S == P(o)
<1>7. /\ \A i \in 0 .. Len(S) : Sums(Append(S, e))[i] = Sums(S)[i]
      /\ Sums(Append(S, e))[Len(S) + 1] = Sums(S)[Len(S)] + e
      /\ Sums(S) \in [0 .. Len(S) -> Nat] /\ Sums(S)[0] = 0
  <2> HIDE DEF S, e
  <2> QED
    BY <1>2, <1>4, SumsAppend, SumsSteps, Zenon DEF S
<1>8. \A i \in 0 .. Len(S) : Sums(S)[i] \in Nat
  BY <1>7, Zenon
<1> QED
  BY <1>4, <1>5, <1>6, <1>7, <1>8, Zenon

\* In what line a symbol is depends on those before it.
LEMMA InLineAppend ==
  ASSUME NEW o \in Seq(Symbols), NEW x \in Symbols,
         NEW s \in 0 .. Len(o), NEW i \in s + 1 .. Len(o) + 1
  PROVE  InLine(Append(o, x), s, i) <=> InLine(o, s, i)
<1>1. \A j \in 1 .. Len(o) : Append(o, x)[j] = o[j]
  OBVIOUS
<1>2. (s = 0 \/ s \in 1 .. Len(o)) /\ \A j \in s + 1 .. i - 1 : j \in 1 .. Len(o)
  OBVIOUS
<1> QED
  BY <1>1, <1>2, Zenon DEF InLine

\* A symbol more.  If it comes after a soft break, it must be what that was needed for.
LEMMA FitAppend ==
  ASSUME NEW o \in Seq(Symbols), NEW x \in Symbols, NEW w \in Nat, NEW l \in Nat, NEW m,
         Fitting(o, w, l), l + Places[x[1]] <= w,
         m = IF Ends(x) THEN 0 ELSE l + Places[x[1]],
         \A s \in 0 .. Len(o) - 1 :
           o[Len(o)][1] = "soft" /\ InLine(o, s, Len(o)) =>
             Taken(o)[Len(o)] - Taken(o)[s] + Places[x[1]] > w
  PROVE  Fitting(Append(o, x), w, m)
<1> DEFINE t == Append(o, x)
           n == Len(o)
           p == Places[x[1]]
           T == Taken(o)
           U == Taken(t)
<1>1. p \in Nat /\ (Ends(x) => p = 0)
  <2>1. p \in 0 .. 3 /\ (Ends(x) => p = 0)
    BY SymbolPlaces, Zenon
  <2> QED
    BY <2>1
<1>2. /\ \A i \in 0 .. n : T[i] \in Nat /\ U[i] = T[i]
      /\ U[n + 1] = T[n] + p
  BY TakenAppend, Zenon
<1>3. /\ n \in Nat /\ Len(t) = n + 1 /\ t[n + 1] = x /\ \A j \in 1 .. n : t[j] = o[j]
  OBVIOUS
<1>4. \A s \in 0 .. n, i \in 1 .. n + 1 : s < i => (InLine(t, s, i) <=> InLine(o, s, i))
  <2> SUFFICES ASSUME NEW s \in 0 .. n, NEW i \in 1 .. n + 1, s < i
               PROVE  InLine(t, s, i) <=> InLine(o, s, i)
    OBVIOUS
  <2>1. i \in s + 1 .. n + 1
    BY <1>3
  <2> QED
    BY <2>1, InLineAppend, Zenon
<1>5. \A s \in 0 .. n : InLine(o, s, n + 1) => l = T[n] - T[s]
  BY Zenon DEF Fitting
<1>6. \A i \in 1 .. n, s \in 0 .. n :
        s < i /\ InLine(o, s, i) => /\ T[i] - T[s] <= w
                                    /\ i < n /\ o[i][1] = "soft" =>
                                         T[i] - T[s] + Places[o[i + 1][1]] > w
  BY Zenon DEF Fitting
<1>7. \A s \in 0 .. n - 1 : o[n][1] = "soft" /\ InLine(o, s, n) => T[n] - T[s] + p > w
  OBVIOUS
<1> HIDE DEF t, n, p, T, U
<1>8. ASSUME NEW i \in 1 .. n + 1, NEW s \in 0 .. n + 1, s < i, InLine(t, s, i)
      PROVE  /\ U[i] - U[s] <= w
             /\ i < n + 1 /\ t[i][1] = "soft" => U[i] - U[s] + Places[t[i + 1][1]] > w
  <2>1. s \in 0 .. n /\ InLine(o, s, i) /\ U[s] = T[s] /\ T[s] \in Nat
    <3>1. s \in 0 .. n
      BY <1>3, <1>8
    <3> QED
      BY <1>2, <1>4, <1>8, <3>1, Zenon
  <2>2. CASE i = n + 1
    <3>1. l = T[n] - T[s]
      BY <1>5, <2>1, <2>2, Zenon
    <3>2. U[i] - U[s] = l + p
      <4>1. U[i] = T[n] + p /\ T[n] \in Nat
        <5>1. n \in 0 .. n
          BY <1>3
        <5> QED
          BY <1>2, <2>2, <5>1, Zenon
      <4> QED
        BY <1>1, <2>1, <3>1, <4>1
    <3>3. l + p <= w
      BY DEF p
    <3> QED
      BY <1>3, <2>2, <3>2, <3>3
  <2>3. CASE i # n + 1
    <3>1. i \in 1 .. n /\ i \in 0 .. n /\ (i < n \/ i = n)
      BY <1>3, <2>3
    <3>2. U[i] = T[i] /\ t[i] = o[i] /\ T[i] - T[s] <= w
      BY <1>2, <1>3, <1>6, <1>8, <2>1, <3>1, Zenon
    <3>3. CASE i < n
      <4>1. i + 1 \in 1 .. n
        BY <1>3, <3>1, <3>3
      <4>2. t[i + 1] = o[i + 1]
        BY <1>3, <4>1
      <4>3. o[i][1] = "soft" => T[i] - T[s] + Places[o[i + 1][1]] > w
        BY <1>6, <1>8, <2>1, <3>1, <3>3, Zenon
      <4> QED
        BY <2>1, <3>2, <4>2, <4>3, Zenon
    <3>4. CASE i = n
      <4>1. s \in 0 .. n - 1
        BY <1>3, <1>8, <2>1, <3>4
      <4>2. o[n][1] = "soft" => T[n] - T[s] + p > w
        BY <1>7, <2>1, <3>4, <4>1, Zenon
      <4>3. Places[t[i + 1][1]] = p
        BY <1>3, <3>4, Zenon DEF p
      <4> QED
        BY <2>1, <3>2, <3>4, <4>2, <4>3, Zenon
    <3> QED
      BY <3>1, <3>3, <3>4
  <2> QED
    BY <2>2, <2>3
<1>9. ASSUME NEW s \in 0 .. n + 1, InLine(t, s, n + 1 + 1) PROVE m = U[n + 1] - U[s]
  <2>1. CASE s = n + 1
    <3>1. Ends(x)
      <4>1. s # 0
        BY <1>3, <2>1
      <4> QED
        BY <1>3, <1>9, <2>1, <4>1, Zenon DEF InLine
    <3>2. U[n + 1] \in Nat
      <4>1. n \in 0 .. n
        BY <1>3
      <4>2. T[n] \in Nat
        BY <1>2, <4>1, Zenon
      <4> QED
        BY <1>1, <1>2, <4>2
    <3> QED
      BY <2>1, <3>1, <3>2
  <2>2. CASE s # n + 1
    <3>1. s \in 0 .. n /\ s < n + 1 /\ n + 1 \in 1 .. n + 1 /\ n \in 0 .. n
          /\ n + 1 \in s + 1 .. n + 1
      BY <1>3, <2>2
    <3>2. ~Ends(x) /\ InLine(t, s, n + 1)
      <4>1. /\ s = 0 \/ Ends(t[s])
            /\ \A j \in s + 1 .. (n + 1 + 1) - 1 : ~Ends(t[j])
        BY <1>9, Zenon DEF InLine
      <4>2. \A j \in s + 1 .. n + 1 : ~Ends(t[j])
        <5>1. \A j \in s + 1 .. n + 1 : j \in s + 1 .. (n + 1 + 1) - 1
          BY <1>3
        <5> QED
          BY <4>1, <5>1, Zenon
      <4>3. \A j \in s + 1 .. (n + 1) - 1 : j \in s + 1 .. n + 1
        BY <1>3
      <4>4. ~Ends(t[n + 1])
        BY <3>1, <4>2, Zenon
      <4>5. InLine(t, s, n + 1)
        BY <4>1, <4>2, <4>3, Zenon DEF InLine
      <4> QED
        BY <1>3, <4>4, <4>5, Zenon
    <3>3. l = T[n] - T[s]
      BY <1>4, <1>5, <3>1, <3>2, Zenon
    <3>4. m = l + p
      BY <3>2 DEF p
    <3>5. U[n + 1] = T[n] + p /\ U[s] = T[s] /\ T[s] \in Nat /\ T[n] \in Nat
      BY <1>2, <3>1, Zenon
    <3> QED
      BY <1>1, <3>3, <3>4, <3>5
  <2> QED
    BY <2>1, <2>2
<1> QED
  BY <1>3, <1>8, <1>9, Zenon DEF Fitting, t, U

\* The symbols that the encoder adds are symbols.
LEMMA SymbolTypes ==
  /\ <<"soft", "">> \in Symbols /\ <<"crlf", "">> \in Symbols
  /\ \A form \in {"plain", "escaped"}, c \in Chars : <<form, c>> \in Symbols
  BY Zenon DEF Symbols

\* After the end of a line, or with a character that fits, the lines fit.
LEMMA FitOne ==
  ASSUME NEW o \in Seq(Symbols), NEW x \in Symbols, NEW w \in Nat, NEW l \in 0 .. w,
         Fitting(o, w, l), o # <<>> => o[Len(o)][1] # "soft", l + Places[x[1]] <= w
  PROVE  Fitting(Append(o, x), w, IF Ends(x) THEN 0 ELSE l + Places[x[1]])
<1> DEFINE m == IF Ends(x) THEN 0 ELSE l + Places[x[1]]
<1>1. \A s \in 0 .. Len(o) - 1 :
        o[Len(o)][1] = "soft" /\ InLine(o, s, Len(o)) =>
          Taken(o)[Len(o)] - Taken(o)[s] + Places[x[1]] > w
  <2> SUFFICES ASSUME NEW s \in 0 .. Len(o) - 1, o[Len(o)][1] = "soft" PROVE FALSE
    OBVIOUS
  <2>1. Len(o) # 0
    <3>1. Len(o) \in Nat
      BY LenProperties, Zenon
    <3> QED
      BY <3>1
  <2>2. o # <<>>
    BY <2>1
  <2> QED
    BY <2>2, Zenon
<1>2. l \in Nat
  OBVIOUS
<1>3. m = IF Ends(x) THEN 0 ELSE l + Places[x[1]]
  OBVIOUS
<1> HIDE DEF m
<1>4. Fitting(Append(o, x), w, m)
  BY <1>1, <1>2, <1>3, FitAppend, Zenon
<1> QED
  BY <1>4 DEF m

\* After a soft break, which was needed for the character that follows it, they fit.
LEMMA FitTwo ==
  ASSUME NEW o \in Seq(Symbols), NEW b \in Symbols, NEW x \in Symbols, NEW w \in Nat,
         NEW l \in 0 .. w, Fitting(o, w, l), o # <<>> => o[Len(o)][1] # "soft",
         b[1] = "soft", ~Ends(x), Places[x[1]] <= w, l + Places[x[1]] > w
  PROVE  Fitting(Append(Append(o, b), x), w, Places[x[1]])
<1> DEFINE t == Append(o, b)
           n == Len(o)
           p == Places[x[1]]
<1>1. Ends(b) /\ Places[b[1]] = 0
  BY SymbolPlaces DEF Ends
<1>2. Fitting(t, w, 0)
  <2>1. l + Places[b[1]] <= w
    BY <1>1
  <2>2. Fitting(t, w, IF Ends(b) THEN 0 ELSE l + Places[b[1]])
    BY <2>1, FitOne, Zenon
  <2> QED
    BY <1>1, <2>2, Zenon
<1>3. /\ t \in Seq(Symbols) /\ Len(t) = n + 1 /\ n \in Nat
  OBVIOUS
<1>4. p \in Nat
  <2>1. p \in 0 .. 3
    BY SymbolPlaces, Zenon
  <2> QED
    BY <2>1
<1>5. /\ \A i \in 0 .. n : Taken(o)[i] \in Nat /\ Taken(t)[i] = Taken(o)[i]
      /\ Taken(t)[n + 1] = Taken(o)[n] + Places[b[1]]
  BY TakenAppend, Zenon
<1>6. \A s \in 0 .. Len(t) - 1 :
        t[Len(t)][1] = "soft" /\ InLine(t, s, Len(t)) =>
          Taken(t)[Len(t)] - Taken(t)[s] + p > w
  <2> SUFFICES ASSUME NEW s \in 0 .. n, InLine(t, s, n + 1)
               PROVE  Taken(t)[n + 1] - Taken(t)[s] + p > w
    BY <1>3
  <2>1. n + 1 \in s + 1 .. n + 1 /\ n \in 0 .. n
    BY <1>3
  <2>2. InLine(o, s, n + 1)
    BY <2>1, InLineAppend, Zenon
  <2>3. l = Taken(o)[n] - Taken(o)[s]
    BY <2>2, Zenon DEF Fitting
  <2>4. Taken(o)[n] \in Nat /\ Taken(o)[s] \in Nat /\ Taken(t)[s] = Taken(o)[s]
    BY <1>5, <2>1, Zenon
  <2> DEFINE a == Taken(o)[n]
             c == Taken(o)[s]
  <2>5. l + p > w /\ l = a - c /\ a \in Nat /\ c \in Nat
    BY <2>3, <2>4
  <2>6. Taken(t)[n + 1] = a + 0 /\ Taken(t)[s] = c
    BY <1>1, <1>5, <2>4, Zenon
  <2> HIDE DEF a, c, p
  <2> QED
    BY <1>4, <2>5, <2>6
<1> DEFINE m == IF Ends(x) THEN 0 ELSE 0 + Places[x[1]]
<1>7. m = p
  BY <1>4
<1>8. 0 + Places[x[1]] <= w /\ 0 \in Nat
  BY <1>4
<1>9. m = IF Ends(x) THEN 0 ELSE 0 + Places[x[1]]
  OBVIOUS
<1> HIDE DEF m, t, p
<1>10. Fitting(Append(t, x), w, m)
  BY <1>2, <1>3, <1>6, <1>8, <1>9, FitAppend, Zenon DEF p
<1> QED
  BY <1>7, <1>10, Zenon DEF t, p

\* The symbols so far are symbols that fit, and the last is not a soft break.
Wrapped ==
  part = "text" => /\ out \in Seq(Symbols)
                   /\ Fitting(out, maxWidth, line)
                   /\ out # <<>> => out[Len(out)][1] # "soft"

\* A symbol that is put, with the break before it that it may need, keeps this.
LEMMA PutWrapped ==
  ASSUME Typed, Wrapped, Turn, OnTo, NEW form \in {"plain", "escaped"}, Put(form)
  PROVE  Wrapped'
<1> DEFINE x == <<form, ch>>
           b == <<"soft", "">>
           need == Places[form]
<1>1. /\ part = "text" /\ part' = "text" /\ maxWidth' = maxWidth
      /\ next <= Len(input)
  BY Zenon DEF Turn, OnTo
<1>2. /\ maxWidth \in Nat /\ maxWidth >= 3 /\ line \in 0 .. maxWidth
      /\ input \in Seq(Chars) /\ next \in 1 .. Len(input) + 1
  BY <1>1, NoneAssumption DEF Typed, EncodingTyped
<1>3. x \in Symbols /\ b \in Symbols
  <2>1. next \in 1 .. Len(input)
    BY ONLY <1>1, <1>2
  <2>2. ch \in Chars
    BY <1>2, <2>1, ElementOfSeq, Zenon DEF ch
  <2> QED
    BY <2>2, SymbolTypes, Zenon
<1>4. need \in {1, 3} /\ x[1] = form /\ b[1] = "soft" /\ ~Ends(x) /\ form # "soft"
  BY DEF Places, Ends
<1>5. /\ out \in Seq(Symbols) /\ Fitting(out, maxWidth, line)
      /\ out # <<>> => out[Len(out)][1] # "soft"
  BY <1>1, Zenon DEF Wrapped
<1> HIDE DEF x, b
<1>6. CASE NeedsWrap(need)
  <2>1. out' = out \o <<b, x>> /\ line' = need
    BY <1>6, Zenon DEF Put, x, b
  <2>2. out' = Append(Append(out, b), x) /\ out' \in Seq(Symbols) /\ out' # <<>>
        /\ out'[Len(out')] = x
    BY ONLY <1>3, <1>5, <2>1
  <2>3. need <= maxWidth /\ line + need > maxWidth
    BY <1>2, <1>4, <1>6 DEF NeedsWrap
  <2>4. Fitting(Append(Append(out, b), x), maxWidth, Places[x[1]])
    BY <1>2, <1>3, <1>4, <1>5, <2>3, FitTwo, Zenon
  <2>5. Fitting(out', maxWidth', line')
    BY <1>1, <1>4, <2>1, <2>2, <2>4, Zenon
  <2> QED
    BY <1>4, <2>2, <2>5, Zenon DEF Wrapped
<1>7. CASE ~NeedsWrap(need)
  <2>1. out' = out \o <<x>> /\ line' = line + need
    BY <1>7, Zenon DEF Put, x
  <2>2. out' = Append(out, x) /\ out' \in Seq(Symbols) /\ out' # <<>> /\ out'[Len(out')] = x
    BY ONLY <1>3, <1>5, <2>1
  <2>3. line + need <= maxWidth
    BY <1>2, <1>4, <1>7 DEF NeedsWrap
  <2>4. Fitting(Append(out, x), maxWidth, IF Ends(x) THEN 0 ELSE line + Places[x[1]])
    BY <1>2, <1>3, <1>4, <1>5, <2>3, FitOne, Zenon
  <2>5. Fitting(out', maxWidth', line')
    BY <1>1, <1>4, <2>1, <2>2, <2>4, Zenon
  <2> QED
    BY <1>4, <2>2, <2>5, Zenon DEF Wrapped
<1> QED
  BY <1>6, <1>7

\* Of no symbols, none are in a line.
LEMMA FitNone == ASSUME NEW w PROVE Fitting(<<>>, w, 0)
<1> DEFINE o == <<>>
           T == Taken(o)
<1>1. o \in Seq(Symbols) /\ Len(o) = 0
  OBVIOUS
<1>2. \A i \in 0 .. Len(o) : T[i] \in Nat
  BY <1>1, SymbolTypes, TakenAppend, Zenon
<1> HIDE DEF o, T
<1>3. T[0] \in Nat
  BY <1>1, <1>2
<1>4. \A s \in 0 .. Len(o) : 0 = T[Len(o)] - T[s]
  BY <1>1, <1>3
<1>5. 1 .. Len(o) = {}
  BY <1>1
<1> QED
  BY <1>4, <1>5, Zenon DEF Fitting, o, T

\* A text begins a part's encoding with no symbols, and every turn keeps them wrapped.
LEMMA WrappedAlways == Spec => []Wrapped
<1>1. Init => Wrapped
  BY NoneAssumption DEF Init, NoPart, Wrapped
<1>2. Typed /\ Wrapped /\ [Next]_vars => Wrapped'
  <2> SUFFICES ASSUME Typed, Wrapped, [Next]_vars PROVE Wrapped'
    OBVIOUS
  <2>1. ASSUME UNCHANGED encoding PROVE Wrapped'
    BY <2>1, Zenon DEF encoding, Wrapped
  <2>2. CASE WriteSingle
    <3>1. out' = <<>> /\ line' = 0
      BY <2>2 DEF WriteSingle, PartStarts
    <3>2. <<>> \in Seq(Symbols)
      OBVIOUS
    <3> QED
      BY <3>1, <3>2, FitNone, Zenon DEF Wrapped
  <2>3. CASE SingleWritten
    <3>1. part' # "text"
      BY <2>3, NoneAssumption DEF SingleWritten, PartEnds
    <3> QED
      BY <3>1, Zenon DEF Wrapped
  <2>4. CASE Encode
    <3>1. CASE DropReturn
      <4>1. part' = part /\ maxWidth' = maxWidth /\ out' = out /\ line' = line
        BY <3>1, Zenon DEF DropReturn, OnTo
      <4> QED
        BY <4>1, Zenon DEF Wrapped
    <3>2. CASE NewLine
      <4> DEFINE x == <<"crlf", "">>
      <4>1. /\ part = "text" /\ maxWidth' = maxWidth /\ out' = Append(out, x)
            /\ line' = 0
        BY <3>2, Zenon DEF NewLine, Turn, OnTo
      <4>2. /\ maxWidth \in Nat /\ line \in 0 .. maxWidth
        BY <4>1, NoneAssumption DEF Typed, EncodingTyped
      <4>3. x \in Symbols /\ x[1] = "crlf"
        BY SymbolTypes, Zenon
      <4> HIDE DEF x
      <4>4. Ends(x) /\ x[1] # "soft" /\ line + Places[x[1]] <= maxWidth
        BY <4>2, <4>3 DEF Ends, Places
      <4>5. /\ out \in Seq(Symbols) /\ Fitting(out, maxWidth, line)
            /\ out # <<>> => out[Len(out)][1] # "soft"
        BY <4>1, Zenon DEF Wrapped
      <4>6. Fitting(Append(out, x), maxWidth, IF Ends(x) THEN 0 ELSE line + Places[x[1]])
        BY <4>2, <4>3, <4>4, <4>5, FitOne, Zenon
      <4>7. out' \in Seq(Symbols) /\ out'[Len(out')] = x
        BY ONLY <4>1, <4>3, <4>5
      <4> QED
        BY <4>1, <4>4, <4>6, <4>7, Zenon DEF Wrapped
    <3>3. CASE LiteralSpace \/ Literal
      <4>1. Turn /\ OnTo /\ Put("plain")
        BY <3>3, Zenon DEF LiteralSpace, Literal
      <4> QED
        BY <4>1, PutWrapped, Zenon
    <3>4. CASE EscapedSpace \/ Escaped
      <4>1. Turn /\ OnTo /\ Put("escaped")
        BY <3>4, Zenon DEF EscapedSpace, Escaped
      <4> QED
        BY <4>1, PutWrapped, Zenon
    <3>5. CASE EmptyInput \/ Block
      <4>1. part' # "text"
        BY <3>5 DEF EmptyInput, Block
      <4> QED
        BY <4>1, Zenon DEF Wrapped
    <3> QED
      BY <2>4, <3>1, <3>2, <3>3, <3>4, <3>5, Zenon DEF Encode, EncodeStep
  <2>5. CASE ~WriteSingle /\ ~SingleWritten /\ ~Encode
    BY <2>1, <2>5, Zenon DEF Next, SendEmail, WriteMulti, CloseMulti, PartThrows,
                             ContentWritten, SessionSent, SessionFails, vars
  <2> QED
    BY <2>2, <2>3, <2>4, <2>5
<1> QED
  BY <1>1, <1>2, TypedAlways, PTL DEF Spec

\* However long a text is and whatever the width, no line of quotedPrintable is longer, and
\* none is broken that has room for what comes next.
THEOREM LinesAlwaysFit == Spec => []LinesFit
<1>1. Wrapped => LinesFit
  <2> SUFFICES ASSUME part = "text" => Fitting(out, maxWidth, line) PROVE LinesFit
    BY Zenon DEF Wrapped
  <2> QED
    BY Zenon DEF LinesFit, Fitting
<1> QED
  BY <1>1, WrappedAlways, PTL

\* What the symbols stand for, soft breaks dropped and all white space kept.
Text(o)  == [i \in DOMAIN o |-> IF o[i][1] = "crlf" THEN "\n" ELSE o[i][2]]
Hard(o)  == {i \in DOMAIN o : o[i][1] # "soft"}
Hears(o) == Picks(Text(o), Hard(o))[Len(o)]

\* A symbol more is a character more, if it is no soft break.
LEMMA HearsAppend ==
  ASSUME NEW o \in Seq(Symbols), NEW x \in Symbols
  PROVE  /\ x[1] = "soft" => Hears(Append(o, x)) = Hears(o)
         /\ x[1] = "crlf" => Hears(Append(o, x)) = Append(Hears(o), "\n")
         /\ x[1] \notin {"soft", "crlf"} => Hears(Append(o, x)) = Append(Hears(o), x[2])
<1> DEFINE C == Chars \cup {""}
           Char(y) == IF y[1] = "crlf" THEN "\n" ELSE y[2]
           t == Append(o, x)
           n == Len(o)
           s == Text(o)
           e == Char(x)
<1>1. \A y \in Symbols : Char(y) \in C
  <2>1. "\n" \in C
    BY Zenon DEF Chars
  <2>2. \A y \in Symbols : y[2] \in C
    BY Zenon DEF Symbols
  <2> QED
    BY <2>1, <2>2, Zenon
<1> HIDE DEF C
<1>2. /\ n \in Nat /\ DOMAIN o = 1 .. n /\ t \in Seq(Symbols) /\ DOMAIN t = 1 .. n + 1
      /\ Len(t) = n + 1 /\ t[n + 1] = x /\ \A i \in 1 .. n : t[i] = o[i]
  OBVIOUS
<1>3. \A i \in 1 .. n : Char(o[i]) \in C
  <2> SUFFICES ASSUME NEW i \in 1 .. n PROVE Char(o[i]) \in C
    OBVIOUS
  <2>1. o[i] \in Symbols
    BY ElementOfSeq, Zenon
  <2> QED
    BY <1>1, <2>1, Zenon
<1>4. e \in C
  BY <1>1, Zenon
<1> HIDE DEF Char, e, t, n
<1>5. s = [i \in 1 .. n |-> Char(o[i])] /\ Text(t) = [i \in 1 .. n + 1 |-> Char(t[i])]
  BY <1>2, Zenon DEF Text, Char
<1> HIDE DEF s
<1>6. s \in Seq(C) /\ Len(s) = n
  BY ONLY <1>2, <1>3, <1>5
<1>7. Text(t) = Append(s, e)
  <2>1. /\ Append(s, e) = [i \in 1 .. n + 1 |-> Append(s, e)[i]]
        /\ \A i \in 1 .. n : Append(s, e)[i] = s[i]
        /\ Append(s, e)[n + 1] = e
    <3>1. /\ Append(s, e) = [i \in 1 .. Len(s) + 1 |-> Append(s, e)[i]]
          /\ \A i \in 1 .. Len(s) : Append(s, e)[i] = s[i]
          /\ Append(s, e)[Len(s) + 1] = e
      BY <1>4, <1>6, AppendAt
    <3> QED
      BY <1>6, <3>1
  <2>2. \A i \in 1 .. n + 1 : Append(s, e)[i] = Char(t[i])
    <3>1. \A i \in 1 .. n : s[i] = Char(t[i])
      BY <1>2, <1>5, Zenon
    <3>2. \A i \in 1 .. n + 1 : i \in 1 .. n \/ i = n + 1
      BY <1>2
    <3>3. e = Char(t[n + 1])
      BY <1>2, Zenon DEF e
    <3> QED
      BY <2>1, <3>1, <3>2, <3>3, Zenon
  <2> QED
    BY <1>5, <2>1, <2>2, Zenon
<1>8. /\ \A i \in 1 .. Len(s) : i \in Hard(o) <=> i \in Hard(t)
      /\ Len(s) + 1 \in Hard(t) <=> x[1] # "soft"
  <2>1. \A i \in 1 .. n : i \in Hard(o) <=> i \in Hard(t)
    <3>1. \A i \in 1 .. n : i \in 1 .. n + 1
      BY <1>2
    <3> QED
      BY <1>2, <3>1, Zenon DEF Hard
  <2>2. n + 1 \in 1 .. n + 1
    BY <1>2
  <2> QED
    BY <1>2, <1>6, <2>1, <2>2, Zenon DEF Hard
<1>9. /\ Len(s) + 1 \in Hard(t) =>
           Picks(Append(s, e), Hard(t))[Len(s) + 1] = Append(Picks(s, Hard(o))[Len(s)], e)
      /\ Len(s) + 1 \notin Hard(t) =>
           Picks(Append(s, e), Hard(t))[Len(s) + 1] = Picks(s, Hard(o))[Len(s)]
  <2> DEFINE S == Hard(o)
             T == Hard(t)
  <2>1. s \in Seq(C) /\ e \in C /\ \A i \in 1 .. Len(s) : i \in S <=> i \in T
    BY <1>4, <1>6, <1>8, Zenon
  <2> HIDE DEF S, T
  <2>2. /\ Len(s) + 1 \in T =>
             Picks(Append(s, e), T)[Len(s) + 1] = Append(Picks(s, S)[Len(s)], e)
        /\ Len(s) + 1 \notin T => Picks(Append(s, e), T)[Len(s) + 1] = Picks(s, S)[Len(s)]
    BY <2>1, PicksAppend
  <2> QED
    BY <2>2, Zenon DEF S, T
<1>10. /\ Hears(t) = Picks(Append(s, e), Hard(t))[Len(s) + 1]
       /\ Hears(o) = Picks(s, Hard(o))[Len(s)]
  BY <1>2, <1>6, <1>7, Zenon DEF Hears, s, n
<1>11. /\ x[1] = "crlf" => e = "\n"
       /\ x[1] # "crlf" => e = x[2]
  BY Zenon DEF e, Char
<1>12. "crlf" # "soft"
  OBVIOUS
<1> QED
  BY <1>8, <1>9, <1>10, <1>11, <1>12, Zenon DEF t

\* No white space comes right before the end of a line.
NoneLost(o) == \A i \in 1 .. Len(o) - 1 : White(o[i]) => o[i + 1][1] # "crlf"

\* It does not with a symbol more, unless that makes it so.
LEMMA NoneLostAppend ==
  ASSUME NEW o \in Seq(Symbols), NEW x \in Symbols, NoneLost(o),
         o # <<>> /\ White(o[Len(o)]) => x[1] # "crlf"
  PROVE  NoneLost(Append(o, x))
<1> DEFINE t == Append(o, x)
           n == Len(o)
<1>1. n \in Nat /\ Len(t) = n + 1 /\ t[n + 1] = x /\ \A i \in 1 .. n : t[i] = o[i]
  OBVIOUS
<1>2. n # 0 => o # <<>>
  OBVIOUS
<1> HIDE DEF t
<1>3. ASSUME NEW i \in 1 .. Len(t) - 1, White(t[i]) PROVE t[i + 1][1] # "crlf"
  <2>1. i \in 1 .. n /\ t[i] = o[i] /\ n # 0
    BY <1>1
  <2>2. CASE i = n
    <3>1. White(o[n])
      BY <1>3, <2>1, <2>2, Zenon
    <3>2. x[1] # "crlf"
      BY <1>2, <2>1, <3>1, Zenon
    <3> QED
      BY <1>1, <2>2, <3>2, Zenon
  <2>3. CASE i # n
    <3>1. i \in 1 .. n - 1 /\ i + 1 \in 1 .. n
      BY <1>1, <2>1, <2>3
    <3>2. o[i + 1][1] # "crlf"
      BY <1>3, <2>1, <3>1, Zenon DEF NoneLost
    <3> QED
      BY <1>1, <3>1, <3>2, Zenon
  <2> QED
    BY <2>2, <2>3
<1> QED
  BY <1>3, Zenon DEF NoneLost, t

\* A text without its returns, a character more.
LEMMA ReturnsSteps ==
  ASSUME NEW text \in Seq(Chars)
  PROVE  /\ WithoutReturns(text)[0] = <<>>
         /\ \A n \in 1 .. Len(text) :
              /\ text[n] = "\r" => WithoutReturns(text)[n] = WithoutReturns(text)[n - 1]
              /\ text[n] # "\r" =>
                   WithoutReturns(text)[n] = Append(WithoutReturns(text)[n - 1], text[n])
<1> DEFINE S == {i \in DOMAIN text : text[i] # "\r"}
<1>1. WithoutReturns(text) = Picks(text, S)
  BY Zenon DEF WithoutReturns
<1>2. \A n \in 1 .. Len(text) : n \in S <=> text[n] # "\r"
  OBVIOUS
<1> HIDE DEF S
<1>3. /\ Picks(text, S)[0] = <<>>
      /\ \A i \in 1 .. Len(text) :
           /\ i \in S => Picks(text, S)[i] = Append(Picks(text, S)[i - 1], text[i])
           /\ i \notin S => Picks(text, S)[i] = Picks(text, S)[i - 1]
  <2>1. PicksGo(Chars, text, S)
    BY PicksSteps, Zenon
  <2> QED
    BY <2>1, Zenon DEF PicksGo
<1> QED
  BY <1>1, <1>2, <1>3, Zenon

\* What the symbols stand for is the text before next without its returns; white space
\* before the end of a line is not plain, and if the last symbol is, no end of a line
\* comes next.
Same ==
  part = "text" =>
    /\ Hears(out) = WithoutReturns(input)[next - 1]
    /\ NoneLost(out)
    /\ out # <<>> /\ White(out[Len(out)]) =>
         IF next <= Len(input) THEN ~EndsLine(input[next])
         ELSE input # <<>> /\ input[Len(input)] = " "

\* A turn of the loop, at a rigid position n.
LEMMA TurnTypes ==
  ASSUME Typed, Wrapped, Turn, OnTo, NEW n, n = next
  PROVE  /\ part = "text" /\ part' = "text" /\ input' = input /\ input \in Seq(Chars)
         /\ n \in 1 .. Len(input) /\ next' = n + 1 /\ next' - 1 = n /\ input[n] \in Chars
         /\ out \in Seq(Symbols) /\ Len(input) \in Nat
<1>1. part = "text" /\ part' = "text" /\ input' = input /\ next <= Len(input)
      /\ next' = next + 1
  BY Zenon DEF Turn, OnTo
<1>2. /\ input \in Seq(Chars) /\ next \in 1 .. Len(input) + 1
  BY <1>1, Zenon DEF Typed, EncodingTyped
<1>3. n \in 1 .. Len(input) /\ next' = n + 1 /\ next' - 1 = n /\ Len(input) \in Nat
  BY ONLY <1>1, <1>2, n = next
<1>4. input[n] \in Chars
  BY <1>2, <1>3, ElementOfSeq, Zenon
<1>5. out \in Seq(Symbols)
  BY <1>1, Zenon DEF Wrapped
<1> QED
  BY <1>1, <1>2, <1>3, <1>4, <1>5, Zenon

\* A symbol that is put for a character that is no return keeps this, if white space goes
\* plain only where no end of a line comes next.
LEMMA PutSame ==
  ASSUME Typed, Wrapped, Same, Turn, OnTo, NEW form \in {"plain", "escaped"}, Put(form),
         ch # "\r", form = "plain" /\ ch = " " => ~EndsLine(nextCh)
  PROVE  Same'
<1>1. PICK n : n = next
  OBVIOUS
<1>2. /\ part = "text" /\ part' = "text" /\ input' = input /\ input \in Seq(Chars)
      /\ n \in 1 .. Len(input) /\ next' = n + 1 /\ next' - 1 = n /\ input[n] \in Chars
      /\ out \in Seq(Symbols) /\ Len(input) \in Nat
  BY <1>1, TurnTypes, Zenon
<1> DEFINE c == input[n]
           x == <<form, c>>
           b == <<"soft", "">>
           need == Places[form]
           o == out
<1>3. ch = c /\ c # "\r"
  BY <1>1, Zenon DEF ch
<1>4. x \in Symbols /\ b \in Symbols /\ x[1] = form /\ x[2] = c /\ b[1] = "soft"
  <2>1. x \in Symbols /\ b \in Symbols
    BY <1>2, SymbolTypes, Zenon
  <2> QED
    BY <2>1
<1>5. form \notin {"soft", "crlf"} /\ "soft" # "crlf" /\ ~White(b)
  BY DEF White
<1>6. /\ Hears(out) = WithoutReturns(input)[n - 1] /\ NoneLost(out)
  BY <1>1, <1>2, Zenon DEF Same
<1> HIDE DEF x, b, c
<1>7. /\ Hears(out') = Append(Hears(out), c) /\ NoneLost(out')
      /\ out' # <<>> /\ out'[Len(out')] = x
  <2>1. CASE NeedsWrap(need)
    <3> DEFINE t == Append(out, b)
    <3>1. out' = out \o <<b, x>>
      BY <1>3, <2>1, Zenon DEF Put, x, b
    <3>2. out' = Append(t, x) /\ t \in Seq(Symbols) /\ t # <<>> /\ t[Len(t)] = b
      BY ONLY <1>2, <1>4, <3>1
    <3>3. Hears(t) = Hears(out) /\ NoneLost(t)
      BY <1>2, <1>4, <1>5, <1>6, HearsAppend, NoneLostAppend, Zenon
    <3> HIDE DEF t
    <3>4. Hears(out') = Append(Hears(t), c) /\ NoneLost(out')
      BY <1>4, <1>5, <3>2, <3>3, HearsAppend, NoneLostAppend, Zenon
    <3>5. out' # <<>> /\ out'[Len(out')] = x
      BY ONLY <1>4, <3>2
    <3> QED
      BY <3>3, <3>4, <3>5, Zenon
  <2>2. CASE ~NeedsWrap(need)
    <3>1. out' = out \o <<x>>
      BY <1>3, <2>2, Zenon DEF Put, x
    <3>2. out' = Append(out, x) /\ out' # <<>> /\ out'[Len(out')] = x
      BY ONLY <1>2, <1>4, <3>1
    <3>3. Hears(out') = Append(Hears(out), c) /\ NoneLost(out')
      BY <1>2, <1>4, <1>5, <1>6, <3>2, HearsAppend, NoneLostAppend, Zenon
    <3> QED
      BY <3>2, <3>3, Zenon
  <2> QED
    BY <2>1, <2>2
<1>8. WithoutReturns(input)[n] = Append(WithoutReturns(input)[n - 1], c)
  BY <1>2, <1>3, ReturnsSteps, Zenon DEF c
<1>9. ASSUME White(x)
      PROVE  IF n + 1 <= Len(input) THEN ~EndsLine(input[n + 1])
             ELSE input # <<>> /\ input[Len(input)] = " "
  <2>1. form = "plain" /\ c = " "
    BY <1>9 DEF White, x
  <2>2. ~EndsLine(nextCh)
    BY <1>3, <2>1, Zenon
  <2>3. PICK l \in Nat : l = Len(input) /\ n \in 1 .. l
    BY <1>2, Zenon
  <2>4. CASE n < l
    <3>1. nextCh = input[n + 1]
      BY <1>1, <2>3, <2>4, Zenon DEF nextCh
    <3>2. n + 1 <= l
      BY ONLY <2>3, <2>4
    <3> QED
      BY <2>2, <2>3, <3>1, <3>2, Zenon
  <2>5. CASE ~(n < l)
    <3>1. n = l /\ ~(n + 1 <= l) /\ l # 0
      BY ONLY <2>3, <2>5
    <3>2. input # <<>>
      BY ONLY <2>3, <3>1
    <3> QED
      BY <2>1, <2>3, <3>1, <3>2, Zenon DEF c
  <2> QED
    BY <2>4, <2>5
<1> HIDE DEF o, need
<1> QED
  BY <1>2, <1>6, <1>7, <1>8, <1>9, Zenon DEF Same

\* The characters that go as they are: neither white space nor returns.
LEMMA PrintableChars == " " \notin Printable /\ "\r" \notin Printable
<1>1. \A i \in 1 .. 10 : Digits[i] # " " /\ Digits[i] # "\r"
  <2> SUFFICES ASSUME NEW i \in 1 .. 10 PROVE Digits[i] # " " /\ Digits[i] # "\r"
    OBVIOUS
  <2>1. \/ i = 1 \/ i = 2 \/ i = 3 \/ i = 4 \/ i = 5
        \/ i = 6 \/ i = 7 \/ i = 8 \/ i = 9 \/ i = 10
    OBVIOUS
  <2>2. /\ Digits[1] = "0" /\ Digits[2] = "1" /\ Digits[3] = "2" /\ Digits[4] = "3"
        /\ Digits[5] = "4" /\ Digits[6] = "5" /\ Digits[7] = "6" /\ Digits[8] = "7"
        /\ Digits[9] = "8" /\ Digits[10] = "9"
    BY DEF Digits
  <2>3. Digits[i] \in {"0", "1", "2", "3", "4", "5", "6", "7", "8", "9"}
    BY <2>1, <2>2, Zenon
  <2> QED
    BY <2>3
<1> QED
  BY <1>1 DEF Printable, DIVIDER

\* The text before next is what the symbols stand for, at any time.
LEMMA SameAlways == Spec => []Same
<1>1. Init => Same
  BY NoneAssumption DEF Init, NoPart, Same
<1>2. Typed /\ Typed' /\ Wrapped /\ Same /\ [Next]_vars => Same'
  <2> SUFFICES ASSUME Typed, Typed', Wrapped, Same, [Next]_vars PROVE Same'
    OBVIOUS
  <2>1. ASSUME UNCHANGED encoding PROVE Same'
    BY <2>1, Zenon DEF encoding, Same
  <2>2. CASE WriteSingle
    <3> SUFFICES ASSUME part' = "text" PROVE Same'
      BY Zenon DEF Same
    <3>1. out' = <<>> /\ next' = 1
      BY <2>2, Zenon DEF WriteSingle, PartStarts
    <3>2. input' \in Seq(Chars)
      BY Zenon DEF Typed, EncodingTyped
    <3>3. Hears(<<>>) = <<>> /\ NoneLost(<<>>)
      <4>1. Text(<<>>) = <<>> /\ Len(<<>>) = 0 /\ <<>> \in Seq(Chars)
        BY DEF Text
      <4>2. Picks(<<>>, Hard(<<>>))[0] = <<>>
        <5>1. PicksGo(Chars, <<>>, Hard(<<>>))
          BY <4>1, PicksSteps, Zenon
        <5> QED
          BY <5>1, Zenon DEF PicksGo
      <4>3. NoneLost(<<>>)
        BY DEF NoneLost
      <4> QED
        BY <4>1, <4>2, <4>3, Zenon DEF Hears
    <3>4. WithoutReturns(input')[0] = <<>>
      BY <3>2, ReturnsSteps, Zenon
    <3>5. next' - 1 = 0
      BY <3>1
    <3> QED
      BY <3>1, <3>3, <3>4, <3>5, Zenon DEF Same
  <2>3. CASE SingleWritten
    <3>1. part' # "text"
      BY <2>3, NoneAssumption DEF SingleWritten, PartEnds
    <3> QED
      BY <3>1, Zenon DEF Same
  <2>4. CASE Encode
    <3>1. CASE DropReturn
      <4>1. Turn /\ OnTo /\ ch = "\r" /\ out' = out
        BY <3>1, Zenon DEF DropReturn
      <4>2. PICK n : n = next
        OBVIOUS
      <4>3. /\ part = "text" /\ input' = input /\ input \in Seq(Chars)
            /\ n \in 1 .. Len(input) /\ next' - 1 = n
        BY <4>1, <4>2, TurnTypes, Zenon
      <4>4. n <= Len(input) /\ input[n] = "\r" /\ EndsLine(input[n])
        BY <4>1, <4>2, Zenon DEF ch, EndsLine, Turn
      <4>5. WithoutReturns(input)[n] = WithoutReturns(input)[n - 1]
        BY <4>3, <4>4, ReturnsSteps, Zenon
      <4>6. /\ Hears(out) = WithoutReturns(input)[n - 1] /\ NoneLost(out)
            /\ ~(out # <<>> /\ White(out[Len(out)]))
        BY <4>2, <4>3, <4>4, Zenon DEF Same
      <4> QED
        BY <4>1, <4>3, <4>5, <4>6, Zenon DEF Same
    <3>2. CASE NewLine
      <4> DEFINE x == <<"crlf", "">>
      <4>1. Turn /\ OnTo /\ ch = "\n" /\ out' = Append(out, x)
        BY <3>2, Zenon DEF NewLine
      <4>2. PICK n : n = next
        OBVIOUS
      <4>3. /\ part = "text" /\ input' = input /\ input \in Seq(Chars)
            /\ n \in 1 .. Len(input) /\ next' - 1 = n /\ out \in Seq(Symbols)
        BY <4>1, <4>2, TurnTypes, Zenon
      <4>4. n <= Len(input) /\ input[n] = "\n" /\ EndsLine(input[n]) /\ input[n] # "\r"
        <5>1. "\n" # "\r"
          OBVIOUS
        <5> QED
          BY <4>1, <4>2, <5>1, Zenon DEF ch, EndsLine, Turn
      <4>5. WithoutReturns(input)[n] = Append(WithoutReturns(input)[n - 1], "\n")
        BY <4>3, <4>4, ReturnsSteps, Zenon
      <4>6. /\ Hears(out) = WithoutReturns(input)[n - 1] /\ NoneLost(out)
            /\ ~(out # <<>> /\ White(out[Len(out)]))
        BY <4>2, <4>3, <4>4, Zenon DEF Same
      <4>7. x \in Symbols /\ x[1] = "crlf" /\ ~White(x)
        <5>1. x \in Symbols
          BY SymbolTypes, Zenon
        <5>2. x[1] = "crlf" /\ ~White(x)
          BY DEF White
        <5> QED
          BY <5>1, <5>2
      <4> HIDE DEF x
      <4>8. Hears(out') = Append(Hears(out), "\n") /\ NoneLost(out')
        BY <4>1, <4>3, <4>6, <4>7, HearsAppend, NoneLostAppend, Zenon
      <4>9. ~White(out'[Len(out')])
        <5>1. out'[Len(out')] = x
          BY ONLY <4>1, <4>3, <4>7
        <5> QED
          BY <4>7, <5>1, Zenon
      <4> QED
        BY <4>3, <4>5, <4>6, <4>8, <4>9, Zenon DEF Same
    <3>3. CASE LiteralSpace
      <4>1. Turn /\ OnTo /\ Put("plain") /\ ch = " " /\ ~EndsLine(nextCh)
        BY <3>3, Zenon DEF LiteralSpace
      <4>2. ch # "\r"
        BY <4>1
      <4> QED
        BY <4>1, <4>2, PutSame, Zenon
    <3>4. CASE Literal
      <4>1. Turn /\ OnTo /\ Put("plain") /\ ch \in Printable
        BY <3>4, Zenon DEF Literal
      <4>2. ch # "\r" /\ ch # " "
        BY <4>1, PrintableChars, Zenon
      <4> QED
        BY <4>1, <4>2, PutSame, Zenon
    <3>5. CASE EscapedSpace \/ Escaped
      <4>1. Turn /\ OnTo /\ Put("escaped") /\ ch \in {" ", "="}
        BY <3>5, Zenon DEF EscapedSpace, Escaped
      <4>2. ch # "\r" /\ "escaped" # "plain"
        BY <4>1
      <4> QED
        BY <4>1, <4>2, PutSame, Zenon
    <3>6. CASE EmptyInput \/ Block
      <4>1. part' # "text"
        BY <3>6 DEF EmptyInput, Block
      <4> QED
        BY <4>1, Zenon DEF Same
    <3> QED
      BY <2>4, <3>1, <3>2, <3>3, <3>4, <3>5, <3>6, Zenon DEF Encode, EncodeStep
  <2>5. CASE ~WriteSingle /\ ~SingleWritten /\ ~Encode
    BY <2>1, <2>5, Zenon DEF Next, SendEmail, WriteMulti, CloseMulti, PartThrows,
                             ContentWritten, SessionSent, SessionFails, vars
  <2> QED
    BY <2>2, <2>3, <2>4, <2>5
<1> QED
  BY <1>1, <1>2, TypedAlways, WrappedAlways, PTL DEF Spec

\* No white space is lost to a reader if none comes right before the end of a line.
LEMMA NoneIsLost ==
  ASSUME NEW o \in Seq(Symbols), NoneLost(o)
  PROVE  \A i \in 1 .. Len(o) : ~IsLost(o, i)
<1> SUFFICES ASSUME NEW i \in 1 .. Len(o), IsLost(o, i) PROVE FALSE
  OBVIOUS
<1>1. PICK j \in i + 1 .. Len(o) : o[j][1] = "crlf" /\ \A k \in i .. j - 1 : White(o[k])
  BY Zenon DEF IsLost
<1>2. PICK k \in 1 .. Len(o) - 1 : k \in i .. j - 1 /\ k + 1 = j
  <2>1. j - 1 \in 1 .. Len(o) - 1 /\ j - 1 \in i .. j - 1 /\ (j - 1) + 1 = j
    OBVIOUS
  <2> QED
    BY <2>1
<1> QED
  BY <1>1, <1>2, Zenon DEF NoneLost

\* Whatever a text, and whatever the width, a reader gets it back as it was sent, but for
\* its returns, unless it ends in a space.
THEOREM ReadsAlwaysAsSent == Spec => []ReadsAsSent
<1>1. Typed /\ Wrapped /\ Same => ReadsAsSent
  <2> DEFINE x == <<"crlf", "">>
             t == Append(out, x)
  <2> SUFFICES ASSUME Typed, Wrapped, Same, part = "text", Done,
                      input # <<>> => Last(input) # " "
               PROVE  Read(t) = Append(WithoutReturns(input)[Len(input)], "\n")
    BY Zenon DEF ReadsAsSent
  <2>1. out \in Seq(Symbols) /\ input \in Seq(Chars) /\ next \in 1 .. Len(input) + 1
    BY Zenon DEF Wrapped, Typed, EncodingTyped
  <2>2. next - 1 = Len(input) /\ ~(next <= Len(input))
    <3>1. next > Len(input)
      BY Zenon DEF Done
    <3> QED
      BY ONLY <2>1, <3>1
  <2>3. input # <<>> => input[Len(input)] # " "
    BY Zenon DEF Last
  <2>4. /\ Hears(out) = WithoutReturns(input)[Len(input)] /\ NoneLost(out)
        /\ ~(out # <<>> /\ White(out[Len(out)]))
    BY <2>2, <2>3, Zenon DEF Same
  <2>5. x \in Symbols /\ x[1] = "crlf"
    BY SymbolTypes, Zenon
  <2> HIDE DEF x
  <2>6. t \in Seq(Symbols) /\ DOMAIN t = 1 .. Len(t)
    BY ONLY <2>1, <2>5
  <2>7. Hears(t) = Append(Hears(out), "\n") /\ NoneLost(t)
    BY <2>1, <2>4, <2>5, HearsAppend, NoneLostAppend, Zenon
  <2> HIDE DEF t
  <2>8. \A i \in DOMAIN t : ~IsLost(t, i)
    BY <2>6, <2>7, NoneIsLost, Zenon
  <2>9. Hard(t) = {i \in DOMAIN t : t[i][1] # "soft" /\ ~IsLost(t, i)}
    BY <2>8, Zenon DEF Hard
  <2>10. Read(t) = Hears(t)
    BY <2>9, Zenon DEF Read, Hears, Text
  <2> QED
    BY <2>4, <2>7, <2>10, Zenon
<1> QED
  BY <1>1, TypedAlways, WrappedAlways, SameAlways, PTL

-----------------------------------------------------------------------------
(***************************************************************************)
(* The lines of a mail                                                     *)
(***************************************************************************)

\* The tokens that mails are written with.
Words == Chars \cup {"crlf", "MIME-Version", "header", "multipart", "encoding", "text", "binary",
                     "base64", "=XX", "=", "--", ""}

\* Those that sendEmail has.
LEMMA SomeWords ==
  /\ "crlf" \in Words /\ "MIME-Version" \in Words /\ "header" \in Words
  /\ "multipart" \in Words /\ "encoding" \in Words /\ "text" \in Words
  /\ "binary" \in Words /\ "base64" \in Words /\ "=XX" \in Words /\ "=" \in Words
  /\ "--" \in Words /\ "" \in Words /\ Chars \subseteq Words
BY Zenon DEF Words

\* A token more is added to the last line, or ends it.
LEMMA LineTurn ==
  ASSUME NEW m \in Seq(Words), NEW c \in Words
  PROVE  /\ LinesOf(m) \in Pieces(Words)
         /\ c = "crlf" => LinesOf(Append(m, c)) = Append(LinesOf(m), <<>>)
         /\ c # "crlf" => LinesOf(Append(m, c)) = Grow(LinesOf(m), c)
<1> DEFINE t == Append(m, c)
           n == Len(m)
           E == {i \in DOMAIN m : m[i] = "crlf"}
           I == {i \in DOMAIN t : t[i] = "crlf"}
<1>1. /\ n \in Nat /\ Len(t) = n + 1 /\ t[n + 1] = c /\ \A i \in 1 .. n : t[i] = m[i]
      /\ DOMAIN m = 1 .. n /\ DOMAIN t = 1 .. n + 1
  OBVIOUS
<1> HIDE DEF t
<1>2. (\A i \in 1 .. n : i \in E <=> i \in I) /\ (n + 1 \in I <=> c = "crlf")
  <2> HIDE DEF n
  <2>1. n + 1 \in 1 .. n + 1 /\ \A i \in 1 .. n : i \in 1 .. n + 1
    BY <1>1
  <2> QED
    BY <1>1, <2>1, Zenon
<1> HIDE DEF E, I
<1>3. SplitsGrow(Words, m, c, E, E, I, I)
  BY <1>2, SplitsAppend, Zenon DEF n
<1>4. LinesOf(m) = Splits(m, E, E)[n] /\ LinesOf(t) = Splits(t, I, I)[n + 1]
  BY <1>1, Zenon DEF LinesOf, E, I, n
<1> QED
  BY <1>2, <1>3, <1>4, Zenon DEF t, n, SplitsGrow

\* Nothing is one line, which is empty.
LEMMA NoLines == LinesOf(<<>>) = << <<>> >>
<1>1. <<>> \in Seq(Words) /\ Len(<<>>) = 0
  OBVIOUS
<1>2. ASSUME NEW E, NEW D PROVE Splits(<<>>, E, D)[0] = << <<>> >>
  <2>1. SplitsGo(Words, <<>>, E, D)
    BY <1>1, SplitsSteps, Zenon
  <2> QED
    BY <2>1, Zenon DEF SplitsGo
<1> QED
  BY <1>1, <1>2, Zenon DEF LinesOf

\* The tokens m are the lines ls and the line x, which has no end yet.
Ended(m, ls, x) == LinesOf(m) = Append(ls, x)

\* One token more, and the end of the line.
LEMMA EndedMore ==
  ASSUME NEW m \in Seq(Words), NEW ls \in Seq(Seq(Words)), NEW x \in Seq(Words),
         Ended(m, ls, x)
  PROVE  /\ \A c \in Words : c # "crlf" => Ended(Append(m, c), ls, Append(x, c))
         /\ Ended(Append(m, "crlf"), Append(ls, x), <<>>)
<1>1. ASSUME NEW c \in Words, c # "crlf" PROVE Ended(Append(m, c), ls, Append(x, c))
  <2>1. LinesOf(Append(m, c)) = Grow(Append(ls, x), c)
    BY <1>1, LineTurn, Zenon DEF Ended
  <2>2. Grow(Append(ls, x), c) = Append(ls, Append(x, c))
    BY ONLY c \in Words, ls \in Seq(Seq(Words)), x \in Seq(Words), GrowPiece
  <2> QED
    BY <2>1, <2>2, Zenon DEF Ended
<1>2. Ended(Append(m, "crlf"), Append(ls, x), <<>>)
  <2>1. "crlf" \in Words
    BY SomeWords, Zenon
  <2> QED
    BY <2>1, LineTurn, Zenon DEF Ended
<1> QED
  BY <1>1, <1>2

-----------------------------------------------------------------------------
(***************************************************************************)
(* A reader's states                                                       *)
(***************************************************************************)

Knows(o, h, t, p) == [open |-> o, head |-> h, type |-> t, parts |-> p]

\* The reader starts with headers, and takes a line after the other.
LEMMA ReadingSteps ==
  ASSUME NEW exact, NEW ls \in Seq(Seq(Words))
  PROVE  /\ Reading(exact, ls)[0] = Knows(<<>>, TRUE, <<>>, <<>>)
         /\ \A n \in 1 .. Len(ls) :
              Reading(exact, ls)[n] = ReadLine(exact, Reading(exact, ls)[n - 1], ls[n])
<1> DEFINE N == Len(ls)
           base == [open |-> <<>>, head |-> TRUE, type |-> <<>>, parts |-> <<>>]
           Is(f) == f = [n \in 0 .. N |-> IF n = 0 THEN base
                                          ELSE ReadLine(exact, f[n - 1], ls[n])]
           As(f, m) == f[0] = base /\ \A n \in 1 .. m : f[n] = ReadLine(exact, f[n - 1], ls[n])
           P == {m \in 0 .. N : \E f : As(f, m)}
<1>1. N \in Nat
  OBVIOUS
<1>2. Is(Reading(exact, ls)) \/ ~(\E f : Is(f))
  BY Zenon DEF Reading
<1> HIDE DEF base, N
<1>3. 0 \in P
  <2> DEFINE f == [i \in 0 .. N |-> base]
  <2>1. f[0] = base /\ 0 \in 0 .. N /\ 1 .. 0 = {}
    BY <1>1
  <2> HIDE DEF f
  <2>2. As(f, 0)
    BY <2>1, Zenon
  <2> QED
    BY <2>1, <2>2, Zenon
<1>4. ASSUME NEW m \in 1 .. N, m - 1 \in P PROVE m \in P
  <2>1. PICK f : As(f, m - 1)
    BY <1>4, Zenon
  <2> DEFINE g == [i \in 0 .. N |-> IF i = m THEN ReadLine(exact, f[m - 1], ls[m]) ELSE f[i]]
  <2>2. /\ 0 \in 0 .. N /\ m \in 0 .. N /\ m - 1 \in 0 .. N /\ m # 0 /\ m - 1 # m
        /\ \A i \in 1 .. m : i = m \/ (i \in 1 .. m - 1 /\ i \in 0 .. N /\ i - 1 \in 0 .. N
                                       /\ i # m /\ i - 1 # m)
    BY <1>1
  <2>3. \A i \in 0 .. N : i # m => g[i] = f[i]
    BY Zenon
  <2>4. g[m] = ReadLine(exact, f[m - 1], ls[m])
    BY <2>2, Zenon
  <2> HIDE DEF g
  <2>5. g[0] = base
    BY <2>1, <2>2, <2>3, Zenon
  <2>6. ASSUME NEW i \in 1 .. m PROVE g[i] = ReadLine(exact, g[i - 1], ls[i])
    <3>1. CASE i = m
      BY <2>2, <2>3, <2>4, <3>1, Zenon
    <3>2. CASE i # m
      BY <2>1, <2>2, <2>3, <3>2, Zenon
    <3> QED
      BY <3>1, <3>2
  <2>7. As(g, m)
    BY <2>5, <2>6, Zenon
  <2> QED
    BY <2>2, <2>7, Zenon
<1> HIDE DEF P
<1>5. 0 .. N \subseteq P
  BY <1>1, <1>3, <1>4, UpTo
<1>6. PICK f : As(f, N)
  <2>1. N \in P
    BY <1>1, <1>5
  <2> QED
    BY <2>1, Zenon DEF P
<1> DEFINE g == [n \in 0 .. N |-> f[n]]
<1>7. Is(g)
  <2>1. \A n \in 0 .. N : n = 0 \/ (n \in 1 .. N /\ n - 1 \in 0 .. N /\ n # 0)
    BY <1>1
  <2>2. ASSUME NEW n \in 0 .. N
        PROVE  f[n] = IF n = 0 THEN base ELSE ReadLine(exact, g[n - 1], ls[n])
    <3>1. CASE n = 0
      BY <1>6, <3>1, Zenon
    <3>2. CASE n # 0
      <4>1. n \in 1 .. N /\ n - 1 \in 0 .. N
        BY <2>1, <3>2, Zenon
      <4>2. g[n - 1] = f[n - 1]
        BY <4>1, Zenon
      <4> HIDE DEF g
      <4> QED
        BY <1>6, <3>2, <4>1, <4>2, Zenon
    <3> QED
      BY <3>1, <3>2
  <2> QED
    BY <2>2, Zenon
<1> HIDE DEF g
<1> DEFINE F == Reading(exact, ls)
<1>8. F = [n \in 0 .. N |-> IF n = 0 THEN base ELSE ReadLine(exact, F[n - 1], ls[n])]
  BY <1>2, <1>7, Zenon
<1> HIDE DEF F
<1>9. ASSUME NEW n \in 0 .. N
      PROVE  F[n] = IF n = 0 THEN base ELSE ReadLine(exact, F[n - 1], ls[n])
  BY <1>8, Zenon
<1>10. 0 \in 0 .. N /\ \A n \in 1 .. N : n \in 0 .. N /\ n # 0
  BY <1>1
<1>11. F[0] = base /\ \A n \in 1 .. N : F[n] = ReadLine(exact, F[n - 1], ls[n])
  BY <1>9, <1>10, Zenon
<1> QED
  BY <1>11, Zenon DEF F, N, base, Knows

\* One line more is read after the others.
LEMMA ReadingMore ==
  ASSUME NEW exact, NEW ls \in Seq(Seq(Words)), NEW l \in Seq(Words)
  PROVE  Reading(exact, Append(ls, l))[Len(ls) + 1]
           = ReadLine(exact, Reading(exact, ls)[Len(ls)], l)
<1> DEFINE t == Append(ls, l)
           n == Len(ls)
           F == Reading(exact, ls)
           G == Reading(exact, t)
<1>1. /\ n \in Nat /\ t \in Seq(Seq(Words)) /\ Len(t) = n + 1 /\ t[n + 1] = l
      /\ \A i \in 1 .. n : t[i] = ls[i]
  <2> DEFINE S == Seq(Words)
  <2>1. ls \in Seq(S) /\ l \in S
    OBVIOUS
  <2> HIDE DEF S
  <2>2. /\ n \in Nat /\ t \in Seq(S) /\ Len(t) = n + 1 /\ t[n + 1] = l
        /\ \A i \in 1 .. n : t[i] = ls[i]
    BY <2>1
  <2> QED
    BY <2>2 DEF S
<1> HIDE DEF t
<1>2. /\ F[0] = Knows(<<>>, TRUE, <<>>, <<>>)
      /\ \A i \in 1 .. n : F[i] = ReadLine(exact, F[i - 1], ls[i])
  BY ReadingSteps, Zenon
<1>3. /\ G[0] = Knows(<<>>, TRUE, <<>>, <<>>)
      /\ \A i \in 1 .. n + 1 : G[i] = ReadLine(exact, G[i - 1], t[i])
  <2>1. /\ G[0] = Knows(<<>>, TRUE, <<>>, <<>>)
        /\ \A i \in 1 .. Len(t) : G[i] = ReadLine(exact, G[i - 1], t[i])
    BY <1>1, ReadingSteps, Zenon
  <2> HIDE DEF G
  <2> QED
    BY <1>1, <2>1, Zenon
<1> HIDE DEF F, G, n
<1> DEFINE P == {i \in 0 .. n : F[i] = G[i]}
<1>4. 0 \in P
  <2>1. 0 \in 0 .. n
    BY <1>1
  <2> QED
    BY <1>2, <1>3, <2>1, Zenon
<1>5. ASSUME NEW i \in 1 .. n, i - 1 \in P PROVE i \in P
  <2>1. i \in 0 .. n /\ i \in 1 .. n + 1
    BY <1>1
  <2>2. F[i - 1] = G[i - 1] /\ t[i] = ls[i]
    BY <1>1, <1>5, Zenon
  <2>3. F[i] = G[i]
    BY <1>2, <1>3, <2>1, <2>2, Zenon
  <2> QED
    BY <2>1, <2>3, Zenon
<1> HIDE DEF P
<1>6. 0 .. n \subseteq P
  BY <1>1, <1>4, <1>5, UpTo
<1>7. F[n] = G[n]
  BY <1>1, <1>6 DEF P
<1>8. n + 1 \in 1 .. n + 1 /\ (n + 1) - 1 = n
  BY <1>1
<1> QED
  BY <1>1, <1>3, <1>7, <1>8, Zenon DEF F, G, t, n

-----------------------------------------------------------------------------
(***************************************************************************)
(* What a reader knows, and the line that has no end yet                   *)
(***************************************************************************)

\* After the tokens m a reader knows r, and x is the line that has no end yet.
Reads(exact, m, r, x) ==
  \E ls \in Seq(Seq(Words)) : Ended(m, ls, x) /\ Reading(exact, ls)[Len(ls)] = r

\* A reader of nothing knows nothing.
LEMMA ReadsNothing ==
  ASSUME NEW exact
  PROVE  Reads(exact, <<>>, Knows(<<>>, TRUE, <<>>, <<>>), <<>>)
<1>1. <<>> \in Seq(Seq(Words)) /\ Len(<<>>) = 0 /\ << <<>> >> = Append(<<>>, <<>>)
  OBVIOUS
<1>2. Ended(<<>>, <<>>, <<>>)
  BY <1>1, NoLines, Zenon DEF Ended
<1>3. Reading(exact, <<>>)[0] = Knows(<<>>, TRUE, <<>>, <<>>)
  BY <1>1, ReadingSteps, Zenon
<1> QED
  BY <1>1, <1>2, <1>3, Zenon DEF Reads

\* One token more says nothing to the reader before the line ends.
LEMMA ReadsWord ==
  ASSUME NEW exact, NEW r, NEW m \in Seq(Words), NEW x \in Seq(Words), Reads(exact, m, r, x)
  PROVE  /\ \A c \in Words : c # "crlf" => Reads(exact, Append(m, c), r, Append(x, c))
         /\ Reads(exact, Append(m, "crlf"), ReadLine(exact, r, x), <<>>)
<1>1. PICK ls \in Seq(Seq(Words)) : Ended(m, ls, x) /\ Reading(exact, ls)[Len(ls)] = r
  BY Zenon DEF Reads
<1>2. ASSUME NEW c \in Words, c # "crlf" PROVE Reads(exact, Append(m, c), r, Append(x, c))
  <2>1. Ended(Append(m, c), ls, Append(x, c))
    BY <1>1, <1>2, EndedMore, Zenon
  <2> QED
    BY <1>1, <2>1, Zenon DEF Reads
<1>3. Reads(exact, Append(m, "crlf"), ReadLine(exact, r, x), <<>>)
  <2> DEFINE t == Append(ls, x)
  <2>1. Ended(Append(m, "crlf"), t, <<>>)
    BY <1>1, EndedMore, Zenon
  <2>2. Reading(exact, t)[Len(ls) + 1] = ReadLine(exact, r, x)
    BY <1>1, ReadingMore, Zenon
  <2>3. t \in Seq(Seq(Words)) /\ Len(t) = Len(ls) + 1
    BY AppendProperties, Zenon
  <2> QED
    BY <2>1, <2>2, <2>3, Zenon DEF Reads
<1> QED
  BY <1>2, <1>3

\* A token more after two sequences of them, and none.
LEMMA WordsAppend ==
  ASSUME NEW m \in Seq(Words), NEW l \in Seq(Words)
  PROVE  /\ m \o l \in Seq(Words) /\ m \o <<>> = m /\ <<>> \o m = m
         /\ \A c \in Words : /\ Append(l, c) \in Seq(Words)
                             /\ m \o Append(l, c) = Append(m \o l, c)
                             /\ m \o <<c>> = Append(m, c)
<1>1. m \o l \in Seq(Words) /\ m \o <<>> = m /\ <<>> \o m = m
  BY ConcatProperties, ConcatEmptySeq, Zenon
<1>2. ASSUME NEW c \in Words
      PROVE  /\ Append(l, c) \in Seq(Words)
             /\ m \o Append(l, c) = Append(m \o l, c)
             /\ m \o <<c>> = Append(m, c)
  <2>1. Append(l, c) \in Seq(Words)
    BY AppendProperties, Zenon
  <2>2. m \o Append(l, c) = Append(m \o l, c)
    BY ONLY m \in Seq(Words), l \in Seq(Words), c \in Words, ConcatAppend
  <2>3. m \o <<c>> = Append(m, c)
    BY AppendIsConcat, Zenon
  <2> QED
    BY <2>1, <2>2, <2>3
<1> QED
  BY <1>1, <1>2

\* Nor do several.
LEMMA ReadsWords ==
  ASSUME NEW exact, NEW r, NEW m \in Seq(Words), NEW x \in Seq(Words), Reads(exact, m, r, x),
         NEW l \in Seq(Words \ {"crlf"})
  PROVE  /\ m \o l \in Seq(Words) /\ x \o l \in Seq(Words)
         /\ Reads(exact, m \o l, r, x \o l)
<1> DEFINE W == Words \ {"crlf"}
           Is(k) == k \in Seq(Words) /\ Reads(exact, m \o k, r, x \o k)
           P == {k \in Seq(W) : Is(k)}
<1>1. <<>> \in P
  <2>1. m \o <<>> = m /\ x \o <<>> = x
    BY WordsAppend, Zenon
  <2>2. <<>> \in Seq(Words) /\ <<>> \in Seq(W)
    OBVIOUS
  <2> QED
    BY <2>1, <2>2, Zenon
<1>2. ASSUME NEW k \in Seq(W), k \in P, NEW c \in W PROVE Append(k, c) \in P
  <2>1. Is(k) /\ c \in Words /\ c # "crlf"
    BY <1>2
  <2>2. m \o k \in Seq(Words) /\ x \o k \in Seq(Words)
    BY <2>1, WordsAppend, Zenon
  <2>3. Reads(exact, Append(m \o k, c), r, Append(x \o k, c))
    BY <2>1, <2>2, ReadsWord, Zenon
  <2>4. m \o Append(k, c) = Append(m \o k, c) /\ x \o Append(k, c) = Append(x \o k, c)
    BY ONLY m \in Seq(Words), x \in Seq(Words), k \in Seq(Words), c \in Words, <2>1,
            WordsAppend
  <2>5. Append(k, c) \in Seq(W) /\ Append(k, c) \in Seq(Words)
    BY <2>1, AppendProperties, Zenon
  <2> QED
    BY <2>3, <2>4, <2>5, Zenon
<1> HIDE DEF P, W
<1>3. Seq(W) \subseteq P
  BY <1>1, <1>2, EverySequence, Zenon
<1>4. l \in P
  BY <1>3 DEF W
<1>5. l \in Seq(Words) /\ Reads(exact, m \o l, r, x \o l)
  BY <1>4, Zenon DEF P
<1> QED
  BY <1>5, WordsAppend, Zenon

\* A text b, with the lines q and x, is read after m.
Passes(exact, m, r, b, q, x) ==
  /\ Ended(b, q, x)
  /\ (\A i \in 1 .. Len(q) : ReadLine(exact, r, q[i]) = r) => Reads(exact, m \o b, r, x)

\* Lines that say nothing to the reader leave what he knows.
LEMMA ReadsBody ==
  ASSUME NEW exact, NEW r, NEW m \in Seq(Words), NEW b \in Seq(Words),
         Reads(exact, m, r, <<>>),
         \A l \in ToSet(LinesOf(b)) : ReadLine(exact, r, l) = r
  PROVE  /\ m \o b \in Seq(Words) /\ m \o b \o <<"crlf">> \in Seq(Words)
         /\ Reads(exact, m \o b \o <<"crlf">>, r, <<>>)
<1> DEFINE Is(k) == \E q \in Seq(Seq(Words)), x \in Seq(Words) : Passes(exact, m, r, k, q, x)
           P == {k \in Seq(Words) : Is(k)}
<1>1. <<>> \in P
  <2>1. /\ << <<>> >> = Append(<<>>, <<>>) /\ <<>> \in Seq(Seq(Words)) /\ <<>> \in Seq(Words)
        /\ Len(<<>>) = 0
    OBVIOUS
  <2>2. Ended(<<>>, <<>>, <<>>) /\ m \o <<>> = m
    BY <2>1, NoLines, WordsAppend, Zenon DEF Ended
  <2> QED
    BY <2>1, <2>2, Zenon DEF Passes
<1>2. ASSUME NEW k \in Seq(Words), k \in P, NEW c \in Words PROVE Append(k, c) \in P
  <2>1. PICK q \in Seq(Seq(Words)), x \in Seq(Words) : Passes(exact, m, r, k, q, x)
    BY <1>2, Zenon
  <2>2. /\ Append(k, c) \in Seq(Words) /\ Append(x, c) \in Seq(Words)
        /\ m \o k \in Seq(Words) /\ m \o Append(k, c) = Append(m \o k, c)
    <3>1. Append(k, c) \in Seq(Words) /\ Append(x, c) \in Seq(Words)
      BY AppendProperties, Zenon
    <3>2. m \o k \in Seq(Words)
      BY WordsAppend, Zenon
    <3>3. m \o Append(k, c) = Append(m \o k, c)
      BY ONLY m \in Seq(Words), k \in Seq(Words), c \in Words, WordsAppend
    <3> QED
      BY <3>1, <3>2, <3>3
  <2>3. Ended(k, q, x)
    BY <2>1, Zenon DEF Passes
  <2>4. CASE c = "crlf"
    <3> DEFINE p == Append(q, x)
    <3>1. p \in Seq(Seq(Words)) /\ <<>> \in Seq(Words)
      <4>1. p \in Seq(Seq(Words))
        BY AppendProperties, Zenon
      <4>2. <<>> \in Seq(Words)
        OBVIOUS
      <4> QED
        BY <4>1, <4>2
    <3>2. Ended(Append(k, c), p, <<>>)
      BY <2>3, <2>4, EndedMore, Zenon
    <3>3. ASSUME \A i \in 1 .. Len(p) : ReadLine(exact, r, p[i]) = r
          PROVE  Reads(exact, m \o Append(k, c), r, <<>>)
      <4>1. /\ Len(q) + 1 \in 1 .. Len(p) /\ p[Len(q) + 1] = x
            /\ \A i \in 1 .. Len(q) : i \in 1 .. Len(p) /\ p[i] = q[i]
        <5> DEFINE S == Seq(Words)
        <5>1. q \in Seq(S) /\ x \in S
          OBVIOUS
        <5> HIDE DEF S
        <5> QED
          BY <5>1
      <4> HIDE DEF p
      <4>2. ReadLine(exact, r, x) = r /\ \A i \in 1 .. Len(q) : ReadLine(exact, r, q[i]) = r
        BY <3>3, <4>1, Zenon
      <4>3. Reads(exact, m \o k, r, x)
        BY <2>1, <4>2, Zenon DEF Passes
      <4>4. Reads(exact, Append(m \o k, "crlf"), ReadLine(exact, r, x), <<>>)
        BY <2>2, <4>3, ReadsWord, Zenon
      <4> QED
        BY <2>2, <2>4, <4>2, <4>4, Zenon
    <3> HIDE DEF p
    <3>4. Passes(exact, m, r, Append(k, c), p, <<>>)
      BY <3>2, <3>3, Zenon DEF Passes
    <3> QED
      BY <2>2, <3>1, <3>4, Zenon
  <2>5. CASE c # "crlf"
    <3>1. Ended(Append(k, c), q, Append(x, c))
      BY <2>3, <2>5, EndedMore, Zenon
    <3>2. ASSUME \A i \in 1 .. Len(q) : ReadLine(exact, r, q[i]) = r
          PROVE  Reads(exact, m \o Append(k, c), r, Append(x, c))
      <4>1. Reads(exact, m \o k, r, x)
        BY <2>1, <3>2, Zenon DEF Passes
      <4>2. Reads(exact, Append(m \o k, c), r, Append(x, c))
        BY <2>2, <2>5, <4>1, ReadsWord, Zenon
      <4> QED
        BY <2>2, <4>2, Zenon
    <3>3. Passes(exact, m, r, Append(k, c), q, Append(x, c))
      BY <3>1, <3>2, Zenon DEF Passes
    <3> QED
      BY <2>2, <3>3, Zenon
  <2> QED
    BY <2>4, <2>5
<1> HIDE DEF P
<1>3. Seq(Words) \subseteq P
  BY <1>1, <1>2, EverySequence, Zenon
<1>4. PICK q \in Seq(Seq(Words)), x \in Seq(Words) : Passes(exact, m, r, b, q, x)
  BY <1>3, Zenon DEF P
<1>5. LinesOf(b) = Append(q, x)
  BY <1>4, Zenon DEF Passes, Ended
<1>6. /\ x \in ToSet(Append(q, x))
      /\ \A i \in 1 .. Len(q) : q[i] \in ToSet(Append(q, x))
  <2> DEFINE S == Seq(Words)
             p == Append(q, x)
  <2>1. q \in Seq(S) /\ x \in S
    OBVIOUS
  <2> HIDE DEF S
  <2>2. /\ Len(q) + 1 \in DOMAIN p /\ p[Len(q) + 1] = x
        /\ \A i \in 1 .. Len(q) : i \in DOMAIN p /\ p[i] = q[i]
    BY <2>1
  <2> HIDE DEF p
  <2>3. x \in ToSet(p) /\ \A i \in 1 .. Len(q) : q[i] \in ToSet(p)
    BY <2>2, Zenon DEF ToSet
  <2> QED
    BY <2>3, Zenon DEF p
<1>7. ReadLine(exact, r, x) = r /\ \A i \in 1 .. Len(q) : ReadLine(exact, r, q[i]) = r
  BY <1>5, <1>6, Zenon
<1>8. Reads(exact, m \o b, r, x) /\ m \o b \in Seq(Words)
  BY <1>4, <1>7, WordsAppend, Zenon DEF Passes
<1>9. Reads(exact, Append(m \o b, "crlf"), r, <<>>)
  BY <1>7, <1>8, ReadsWord, Zenon
<1>10. /\ m \o b \o <<"crlf">> = Append(m \o b, "crlf")
       /\ Append(m \o b, "crlf") \in Seq(Words)
  BY <1>8, SomeWords, WordsAppend, Zenon
<1> QED
  BY <1>8, <1>9, <1>10, Zenon

-----------------------------------------------------------------------------
(***************************************************************************)
(* The number in a boundary                                                *)
(***************************************************************************)

Figures == {Digits[i] : i \in 1 .. 10}

\* A number is ten times what is before its last digit, and that digit.
LEMMA Tens ==
  ASSUME NEW n \in Nat
  PROVE  /\ n \div 10 \in Nat /\ n % 10 \in Nat /\ n % 10 < 10
         /\ n = 10 * (n \div 10) + (n % 10)
         /\ n > 0 => n \div 10 < n
         /\ n >= 10 => n \div 10 > 0
         /\ n = 0 => n \div 10 = 0
OBVIOUS

\* The digits are ten.
LEMMA TenFigures ==
  /\ \A i \in 1 .. 10 : Digits[i] \in Figures
  /\ \A i, j \in 1 .. 10 : Digits[i] = Digits[j] => i = j
  /\ Figures \subseteq Words \ {"crlf"}
  /\ DIVIDER \in Words \ {"crlf"} /\ DIVIDER \notin Figures /\ "--" \notin Figures
<1>1. \A i \in 1 .. 10 : \/ i = 1 \/ i = 2 \/ i = 3 \/ i = 4 \/ i = 5
                         \/ i = 6 \/ i = 7 \/ i = 8 \/ i = 9 \/ i = 10
  OBVIOUS
<1>2. /\ Digits[1] = "0" /\ Digits[2] = "1" /\ Digits[3] = "2" /\ Digits[4] = "3"
      /\ Digits[5] = "4" /\ Digits[6] = "5" /\ Digits[7] = "6" /\ Digits[8] = "7"
      /\ Digits[9] = "8" /\ Digits[10] = "9"
  BY DEF Digits
<1>3. \A i, j \in 1 .. 10 : Digits[i] = Digits[j] => i = j
  BY <1>1, <1>2
<1>4. ASSUME NEW f \in Figures
      PROVE  f \in Words /\ f # "crlf" /\ f # DIVIDER /\ f # "--"
  <2>1. PICK i \in 1 .. 10 : f = Digits[i]
    BY Zenon DEF Figures
  <2>2. f \in {"0", "1", "2", "3", "4", "5", "6", "7", "8", "9"}
    BY <1>1, <1>2, <2>1, Zenon
  <2>3. f # "crlf" /\ f # DIVIDER /\ f # "--"
    BY <2>2 DEF DIVIDER
  <2>4. f \in Words
    BY Zenon DEF Words, Chars, Printable, Figures
  <2> QED
    BY <2>3, <2>4
<1>5. DIVIDER \in Words /\ DIVIDER # "crlf"
  <2>1. DIVIDER \in Words
    BY Zenon DEF Words, Chars, Printable
  <2>2. DIVIDER # "crlf"
    BY DEF DIVIDER
  <2> QED
    BY <2>1, <2>2
<1>6. \A i \in 1 .. 10 : Digits[i] \in Figures
  BY Zenon DEF Figures
<1> QED
  BY <1>3, <1>4, <1>5, <1>6, Zenon

\* A number is written with one digit, or as what is before the last, and that.
LEMMA NumberSteps ==
  ASSUME NEW d \in Nat
  PROVE  /\ d < 10 => Number(d) = <<Digits[d + 1]>>
         /\ d >= 10 => Number(d) = Append(Number(d \div 10), Digits[(d % 10) + 1])
<1> DEFINE Written(n, v) == IF n < 10 THEN <<Digits[n + 1]>>
                         ELSE Append(v, Digits[(n % 10) + 1])
           Is(f, e) == f = [n \in 0 .. e |-> IF n < 10 THEN <<Digits[n + 1]>>
                                             ELSE Append(f[n \div 10], Digits[(n % 10) + 1])]
           As(f, e) == \A n \in 0 .. e : f[n] = Written(n, f[n \div 10])
<1>1. ASSUME NEW e \in Nat, NEW n \in 0 .. e
      PROVE  n \div 10 \in 0 .. e /\ (n > 0 => n \div 10 < n)
  BY Tens
<1>2. ASSUME NEW e \in Nat, NEW f, Is(f, e) PROVE As(f, e)
  <2> SUFFICES ASSUME NEW n \in 0 .. e PROVE f[n] = Written(n, f[n \div 10])
    OBVIOUS
  <2> QED
    BY <1>2, Zenon
<1>3. ASSUME NEW e \in Nat PROVE \E f : Is(f, e)
  <2> DEFINE P == {m \in 0 .. e : \E f : As(f, m)}
  <2> HIDE DEF Written
  <2>1. 0 \in P
    <3> DEFINE f == [n \in 0 .. e |-> Written(0, <<>>)]
    <3>1. 0 \in 0 .. e /\ 0 \div 10 = 0
      BY Tens
    <3>2. f[0] = Written(0, f[0 \div 10])
      <4>1. \A v : Written(0, v) = Written(0, <<>>)
        BY DEF Written
      <4> QED
        BY <3>1, <4>1, Zenon
    <3> HIDE DEF f
    <3>3. \A n \in 0 .. 0 : n = 0
      OBVIOUS
    <3>4. As(f, 0)
      BY <3>2, <3>3, Zenon
    <3> QED
      BY <3>1, <3>4, Zenon
  <2>2. ASSUME NEW m \in 1 .. e, m - 1 \in P PROVE m \in P
    <3>1. PICK f : As(f, m - 1)
      BY <2>2, Zenon
    <3> DEFINE g == [n \in 0 .. e |-> IF n = m THEN Written(m, f[m \div 10]) ELSE f[n]]
    <3>2. m \in 0 .. e /\ m \div 10 \in 0 .. m - 1 /\ m \div 10 \in 0 .. e
      BY Tens
    <3>3. \A n \in 0 .. m : n = m \/ (n \in 0 .. m - 1 /\ n # m)
      OBVIOUS
    <3>4. ASSUME NEW n \in 0 .. m - 1
          PROVE  n \div 10 \in 0 .. e /\ n \div 10 # m /\ n \in 0 .. e /\ n # m
      <4>1. n \in Nat
        OBVIOUS
      <4>2. n \div 10 \in Nat /\ (n > 0 => n \div 10 < n) /\ (n = 0 => n \div 10 = 0)
        BY <4>1, Tens, Zenon
      <4> DEFINE k == n \div 10
      <4> HIDE DEF k
      <4> QED
        BY <4>1, <4>2 DEF k
    <3>5. g[m] = Written(m, f[m \div 10])
      BY <3>2, Zenon
    <3>6. \A n \in 0 .. e : n # m => g[n] = f[n]
      BY Zenon
    <3> HIDE DEF g
    <3>7. ASSUME NEW n \in 0 .. m PROVE g[n] = Written(n, g[n \div 10])
      <4>1. CASE n = m
        <5>1. g[m \div 10] = f[m \div 10]
          <6>1. m \div 10 # m
            BY <3>2
          <6> QED
            BY <3>2, <3>6, <6>1, Zenon
        <5> QED
          BY <3>5, <4>1, <5>1, Zenon
      <4>2. CASE n # m
        <5>1. n \in 0 .. m - 1
          BY <3>3, <4>2, Zenon
        <5>2. g[n] = f[n] /\ g[n \div 10] = f[n \div 10]
          BY <3>4, <3>6, <5>1, Zenon
        <5> QED
          BY <3>1, <5>1, <5>2, Zenon
      <4> QED
        BY <4>1, <4>2
    <3>8. As(g, m)
      BY <3>7, Zenon
    <3> QED
      BY <3>2, <3>8, Zenon
  <2> HIDE DEF P
  <2>3. 0 .. e \subseteq P
    BY <2>1, <2>2, UpTo
  <2>4. PICK f : As(f, e)
    <3>1. e \in P
      BY <2>3
    <3> QED
      BY <3>1, Zenon DEF P
  <2> DEFINE g == [n \in 0 .. e |-> f[n]]
  <2>5. ASSUME NEW n \in 0 .. e PROVE f[n] = Written(n, g[n \div 10])
    <3>1. g[n \div 10] = f[n \div 10]
      BY <1>1, Zenon
    <3> HIDE DEF g
    <3> QED
      BY <2>4, <3>1, Zenon
  <2>6. g = [n \in 0 .. e |-> Written(n, g[n \div 10])]
    BY <2>5, Zenon
  <2>7. Is(g, e)
    <3> HIDE DEF g
    <3> QED
      BY <2>6, Zenon DEF Written
  <2> QED
    BY <2>7, Zenon
<1>4. ASSUME NEW e \in Nat PROVE \E f : As(f, e) /\ Number(e) = f[e]
  <2>1. \E f : Is(f, e) /\ Number(e) = f[e]
    BY <1>3, Zenon DEF Number
  <2>2. PICK f : Is(f, e) /\ Number(e) = f[e]
    BY <2>1, Zenon
  <2> HIDE DEF Is, As
  <2> QED
    BY <1>2, <2>2, Zenon
<1>5. ASSUME NEW e \in Nat, NEW f, NEW g, As(f, d), As(g, e), e <= d
      PROVE  \A n \in 0 .. e : f[n] = g[n]
  <2> HIDE DEF Written
  <2> DEFINE P == {m \in 0 .. e : \A n \in 0 .. m : f[n] = g[n]}
  <2>1. ASSUME NEW n \in 0 .. e, f[n \div 10] = g[n \div 10] PROVE f[n] = g[n]
    <3>1. n \in 0 .. d
      BY <1>5
    <3> QED
      BY <1>5, <2>1, <3>1, Zenon
  <2>2. 0 \in P
    <3>1. f[0] = Written(0, f[0 \div 10]) /\ g[0] = Written(0, g[0 \div 10])
      <4>1. 0 \in 0 .. d /\ 0 \in 0 .. e
        OBVIOUS
      <4> QED
        BY <1>5, <4>1, Zenon
    <3>2. \A v : Written(0, v) = Written(0, <<>>)
      BY DEF Written
    <3>3. 0 \in 0 .. e /\ \A n \in 0 .. 0 : n = 0
      OBVIOUS
    <3> QED
      BY <3>1, <3>2, <3>3, Zenon
  <2>3. ASSUME NEW m \in 1 .. e, m - 1 \in P PROVE m \in P
    <3>1. \A n \in 0 .. m - 1 : f[n] = g[n]
      BY <2>3, Zenon
    <3>2. m \in 0 .. e /\ m \div 10 \in 0 .. m - 1
      BY Tens
    <3>3. f[m] = g[m]
      BY <2>1, <3>1, <3>2, Zenon
    <3>4. \A n \in 0 .. m : n = m \/ n \in 0 .. m - 1
      OBVIOUS
    <3> QED
      BY <3>1, <3>2, <3>3, <3>4, Zenon
  <2> HIDE DEF P
  <2>4. 0 .. e \subseteq P
    BY <2>2, <2>3, UpTo
  <2>5. e \in P
    BY <2>4
  <2> QED
    BY <2>5, Zenon DEF P
<1>6. PICK f : As(f, d) /\ Number(d) = f[d]
  BY <1>4, Zenon
<1>7. Number(d) = Written(d, f[d \div 10])
  <2>1. d \in 0 .. d
    OBVIOUS
  <2> HIDE DEF Written
  <2> QED
    BY <1>6, <2>1, Zenon
<1>8. Number(d \div 10) = f[d \div 10]
  <2> DEFINE e == d \div 10
  <2>1. e \in Nat /\ e <= d
    BY Tens
  <2> HIDE DEF e, As
  <2>2. PICK g : As(g, e) /\ Number(e) = g[e]
    BY <1>4, <2>1, Zenon
  <2>3. e \in 0 .. e
    BY <2>1
  <2>4. ASSUME NEW n \in 0 .. e PROVE f[n] = g[n]
    BY ONLY <1>5, <1>6, <2>1, <2>2, e \in Nat
  <2>5. f[e] = g[e]
    BY ONLY <2>3, <2>4, Zenon
  <2> QED
    BY <2>2, <2>5, Zenon DEF e
<1> HIDE DEF As, Is
<1> QED
  BY <1>7, <1>8

\* Induction up to n from all the smaller ones.
LEMMA FromSmaller ==
  ASSUME NEW n \in Nat, NEW P, \A i \in 0 .. n : 0 .. i - 1 \subseteq P => i \in P
  PROVE  0 .. n \subseteq P
<1> DEFINE Q == {m \in 0 .. n : 0 .. m \subseteq P}
<1>1. 0 \in Q
  <2>1. 0 \in P
    <3>1. 0 \in 0 .. n /\ 0 .. 0 - 1 \subseteq P
      OBVIOUS
    <3> QED
      BY <3>1
  <2> QED
    BY <2>1
<1>2. ASSUME NEW i \in 1 .. n, i - 1 \in Q PROVE i \in Q
  <2>1. i \in 0 .. n /\ 0 .. i - 1 \subseteq P
    BY <1>2
  <2>2. i \in P
    BY <2>1
  <2> QED
    BY <2>1, <2>2
<1> HIDE DEF Q
<1>3. 0 .. n \subseteq Q
  BY <1>1, <1>2, UpTo
<1>4. n \in Q
  BY <1>3
<1> QED
  BY <1>4 DEF Q

\* A number is written with digits, with one if it is less than ten.
LEMMA NumberTyped ==
  ASSUME NEW d \in Nat
  PROVE  /\ Number(d) \in Seq(Figures) /\ Len(Number(d)) \in Nat /\ Len(Number(d)) >= 1
         /\ Len(Number(d)) = 1 <=> d < 10
<1> DEFINE Is(n) == /\ Number(n) \in Seq(Figures) /\ Len(Number(n)) >= 1
                    /\ Len(Number(n)) = 1 <=> n < 10
           P == {n \in 0 .. d : Is(n)}
<1>1. ASSUME NEW n \in 0 .. d, 0 .. n - 1 \subseteq P PROVE n \in P
  <2>1. CASE n < 10
    <3>1. Number(n) = <<Digits[n + 1]>>
      BY <2>1, NumberSteps
    <3>2. Digits[n + 1] \in Figures
      <4>1. n + 1 \in 1 .. 10
        BY <2>1
      <4> QED
        BY <4>1, TenFigures, Zenon
    <3> DEFINE f == Digits[n + 1]
    <3> HIDE DEF f
    <3>3. <<f>> \in Seq(Figures) /\ Len(<<f>>) = 1
      BY <3>2 DEF f
    <3>4. Number(n) \in Seq(Figures) /\ Len(Number(n)) = 1
      BY <3>1, <3>3, Zenon DEF f
    <3> HIDE DEF P
    <3>5. Is(n)
      BY <2>1, <3>4
    <3> QED
      BY <3>5, Zenon DEF P
  <2>2. CASE n >= 10
    <3> DEFINE k == n \div 10
               f == Digits[(n % 10) + 1]
    <3>1. n \in Nat /\ k \in 0 .. n - 1
      BY <2>2, Tens
    <3>2. Number(n) = Append(Number(k), f)
      BY <2>2, <3>1, NumberSteps
    <3>3. f \in Figures
      <4>1. (n % 10) + 1 \in 1 .. 10
        BY <3>1, Tens
      <4> QED
        BY <4>1, TenFigures, Zenon
    <3> HIDE DEF k, f
    <3>4. Number(k) \in Seq(Figures) /\ Len(Number(k)) >= 1
      BY <1>1, <3>1, Zenon
    <3> DEFINE p == Number(k)
    <3> HIDE DEF p
    <3>5. Append(p, f) \in Seq(Figures) /\ Len(Append(p, f)) >= 1
          /\ Len(Append(p, f)) # 1
      BY <3>3, <3>4 DEF p
    <3>6. Number(n) \in Seq(Figures) /\ Len(Number(n)) >= 1 /\ Len(Number(n)) # 1
      BY <3>2, <3>5 DEF p
    <3> HIDE DEF P
    <3>7. Is(n)
      BY <2>2, <3>6
    <3> QED
      BY <3>7, Zenon DEF P
  <2> QED
    BY <2>1, <2>2
<1> HIDE DEF P
<1>2. 0 .. d \subseteq P
  BY <1>1, FromSmaller
<1>3. d \in P
  BY <1>2
<1> QED
  BY <1>3 DEF P

\* No two numbers are written the same.
LEMMA NumberInjective ==
  ASSUME NEW c \in Nat, NEW d \in Nat, Number(c) = Number(d)
  PROVE  c = d
<1> DEFINE Is(n) == \A e \in Nat : Number(n) = Number(e) => n = e
           P == {n \in 0 .. c : Is(n)}
<1>1. ASSUME NEW n \in 0 .. c, 0 .. n - 1 \subseteq P PROVE n \in P
  <2> SUFFICES ASSUME NEW e \in Nat, Number(n) = Number(e) PROVE n = e
    OBVIOUS
  <2>1. Number(n) = Number(e)
    OBVIOUS
  <2>2. n \in Nat /\ (n < 10 <=> e < 10)
    <3>1. n \in Nat
      OBVIOUS
    <3>2. (Len(Number(n)) = 1 <=> n < 10) /\ (Len(Number(e)) = 1 <=> e < 10)
      BY <3>1, NumberTyped, Zenon
    <3> QED
      BY <2>1, <3>1, <3>2, Zenon
  <2>3. CASE n < 10
    <3>1. <<Digits[n + 1]>> = <<Digits[e + 1]>>
      BY <2>2, <2>3, NumberSteps
    <3>2. n + 1 \in 1 .. 10 /\ e + 1 \in 1 .. 10
      BY <2>2, <2>3
    <3>3. Digits[n + 1] = Digits[e + 1]
      BY <3>1
    <3>4. n + 1 = e + 1
      BY <3>2, <3>3, TenFigures, Zenon
    <3> QED
      BY <2>2, <3>4
  <2>4. CASE n >= 10
    <3> DEFINE k == n \div 10
               j == e \div 10
               f == Digits[(n % 10) + 1]
               g == Digits[(e % 10) + 1]
    <3>1. n \in Nat /\ k \in 0 .. n - 1 /\ k \in Nat /\ j \in Nat /\ e >= 10
      BY <2>2, <2>4, Tens
    <3>2. Number(n) = Append(Number(k), f) /\ Number(e) = Append(Number(j), g)
      BY <2>4, <3>1, NumberSteps
    <3>3. (n % 10) + 1 \in 1 .. 10 /\ (e % 10) + 1 \in 1 .. 10
      BY <3>1, Tens
    <3>4. f \in Figures /\ g \in Figures
      BY <3>3, TenFigures, Zenon
    <3>5. Number(k) \in Seq(Figures) /\ Number(j) \in Seq(Figures)
      BY <3>1, NumberTyped, Zenon
    <3> HIDE DEF k, j, f, g
    <3>6. Number(k) = Number(j) /\ f = g
      <4> DEFINE p == Number(k)
                 q == Number(j)
      <4>1. p \in Seq(Figures) /\ q \in Seq(Figures) /\ Append(p, f) = Append(q, g)
        BY <3>2, <3>5, Zenon
      <4> HIDE DEF p, q
      <4>2. p = q /\ f = g
        BY ONLY <3>4, <4>1, AppendInjective
      <4> QED
        BY <4>2 DEF p, q
    <3>7. k = j
      BY <1>1, <3>1, <3>6, Zenon
    <3>8. (n % 10) + 1 = (e % 10) + 1
      BY <3>3, <3>6, TenFigures, Zenon DEF f, g
    <3>9. n % 10 = e % 10
      BY <3>8, Tens
    <3>10. n = 10 * k + (n % 10) /\ e = 10 * j + (e % 10)
      BY <3>1, Tens DEF k, j
    <3> QED
      BY <3>7, <3>9, <3>10
  <2> QED
    BY <2>2, <2>3, <2>4
<1> HIDE DEF P
<1>2. 0 .. c \subseteq P
  BY <1>1, FromSmaller
<1>3. c \in P
  BY <1>2
<1> QED
  BY <1>3, Zenon DEF P

-----------------------------------------------------------------------------
(***************************************************************************)
(* The lines that are delimiters                                           *)
(***************************************************************************)

\* The boundary and the last delimiter of a multipart.
Close(d) == Append(Boundary(d), "--")

\* The boundaries that are open at a level.
Opens(n) == [k \in 1 .. n |-> Boundary(k - 1)]

\* A boundary is the divider and digits.
LEMMA BoundaryTyped ==
  ASSUME NEW d \in Nat
  PROVE  /\ Boundary(d) \in Seq(Words \ {"crlf"}) /\ Boundary(d) \in Seq(Words)
         /\ Len(Boundary(d)) = Len(Number(d)) + 1
         /\ Boundary(d)[1] = DIVIDER
         /\ \A i \in 1 .. Len(Number(d)) : Boundary(d)[i + 1] = Number(d)[i]
         /\ Boundary(d)[Len(Boundary(d))] \in Figures
<1> DEFINE num == Number(d)
           w == <<DIVIDER>>
<1>1. num \in Seq(Figures) /\ Len(num) \in Nat /\ Len(num) >= 1
  BY NumberTyped, Zenon
<1> HIDE DEF num
<1>2. num \in Seq(Words \ {"crlf"}) /\ num \in Seq(Words)
  <2>1. Figures \subseteq Words \ {"crlf"} /\ Figures \subseteq Words
    BY TenFigures
  <2> QED
    BY ONLY <1>1, <2>1
<1>3. w \in Seq(Words \ {"crlf"}) /\ w \in Seq(Words) /\ Len(w) = 1 /\ w[1] = DIVIDER
  <2>1. DIVIDER \in Words \ {"crlf"} /\ DIVIDER \in Words
    BY TenFigures, Zenon
  <2> DEFINE x == DIVIDER
  <2> HIDE DEF x
  <2>2. <<x>> \in Seq(Words \ {"crlf"}) /\ <<x>> \in Seq(Words) /\ Len(<<x>>) = 1 /\ <<x>>[1] = x
    BY <2>1 DEF x
  <2> QED
    BY <2>2, Zenon DEF x
<1> HIDE DEF w
<1> DEFINE b == w \o num
<1>4. b \in Seq(Words \ {"crlf"}) /\ b \in Seq(Words)
  BY <1>2, <1>3, ConcatProperties, Zenon
<1>5. /\ Len(b) = Len(num) + 1 /\ b[1] = DIVIDER
      /\ \A i \in 1 .. Len(num) : b[i + 1] = num[i]
  <2>1. /\ Len(b) = Len(w) + Len(num)
        /\ \A i \in 1 .. Len(w) + Len(num) :
             b[i] = IF i <= Len(w) THEN w[i] ELSE num[i - Len(w)]
    BY <1>2, <1>3, ConcatProperties, Zenon
  <2>2. /\ 1 \in 1 .. 1 + Len(num) /\ 1 <= 1 /\ 1 + Len(num) = Len(num) + 1
        /\ \A i \in 1 .. Len(num) : /\ i + 1 \in 1 .. 1 + Len(num)
                                    /\ ~(i + 1 <= 1) /\ (i + 1) - 1 = i
    BY <1>1
  <2> HIDE DEF b
  <2> QED
    BY <1>3, <2>1, <2>2, Zenon
<1>6. b[Len(b)] = num[Len(num)] /\ num[Len(num)] \in Figures
  <2>1. Len(num) \in 1 .. Len(num)
    BY <1>1
  <2>2. num[Len(num)] \in Figures
    BY <1>1, <2>1, ElementOfSeq, Zenon
  <2> HIDE DEF b
  <2> QED
    BY <1>5, <2>1, <2>2, Zenon
<1>7. Boundary(d) = b
  BY Zenon DEF Boundary, b, w, num
<1> HIDE DEF b
<1> QED
  BY <1>4, <1>5, <1>6, <1>7, Zenon DEF num

\* No two multiparts that are open have the same.
LEMMA BoundaryInjective ==
  ASSUME NEW c \in Nat, NEW d \in Nat, Boundary(c) = Boundary(d)
  PROVE  c = d
<1> DEFINE p == Number(c)
           q == Number(d)
           b == Boundary(c)
<1>1. /\ Len(b) = Len(p) + 1 /\ Len(b) = Len(q) + 1
      /\ \A i \in 1 .. Len(p) : b[i + 1] = p[i]
      /\ \A i \in 1 .. Len(q) : b[i + 1] = q[i]
  <2>1. Boundary(d) = b
    OBVIOUS
  <2>2. Len(b) = Len(p) + 1 /\ \A i \in 1 .. Len(p) : b[i + 1] = p[i]
    BY BoundaryTyped, Zenon
  <2>3. /\ Len(Boundary(d)) = Len(q) + 1
        /\ \A i \in 1 .. Len(q) : Boundary(d)[i + 1] = q[i]
    BY BoundaryTyped, Zenon
  <2> HIDE DEF b, p, q
  <2> QED
    BY <2>1, <2>2, <2>3, Zenon
<1>2. p \in Seq(Figures) /\ q \in Seq(Figures) /\ Len(p) \in Nat /\ Len(q) \in Nat
  BY NumberTyped, Zenon
<1> HIDE DEF p, q, b
<1>3. Len(p) = Len(q)
  BY <1>1, <1>2
<1>4. \A i \in 1 .. Len(p) : p[i] = q[i]
  BY <1>1, <1>3, Zenon
<1>5. p = q
  BY ONLY <1>2, <1>3, <1>4, SeqEqual
<1> QED
  BY <1>5, NumberInjective, Zenon DEF p, q

\* A prefix, place by place.
LEMMA PrefixAt ==
  ASSUME NEW s \in Seq(Words), NEW t \in Seq(Words)
  PROVE  IsPrefix(s, t) <=> Len(s) <= Len(t) /\ \A i \in 1 .. Len(s) : s[i] = t[i]
<1> SUFFICES ASSUME Len(s) <= Len(t)
             PROVE  SubSeq(s, 1, Len(s)) = SubSeq(t, 1, Len(s))
                      <=> \A i \in 1 .. Len(s) : s[i] = t[i]
  BY Zenon DEF IsPrefix
<1> DEFINE n == Len(s)
           u == SubSeq(t, 1, n)
<1>1. SubSeq(s, 1, n) = s
  BY SubSeqFull, Zenon
<1>2. /\ n \in Nat /\ u \in Seq(Words) /\ Len(u) = n
      /\ \A i \in 1 .. n : u[i] = t[i]
  OBVIOUS
<1> HIDE DEF u
<1>3. s = u <=> \A i \in 1 .. n : s[i] = u[i]
  <2>1. ASSUME \A i \in 1 .. n : s[i] = u[i] PROVE s = u
    BY <1>2, <2>1, SeqEqual
  <2> QED
    BY <2>1, Zenon
<1>4. s = u <=> \A i \in 1 .. n : s[i] = t[i]
  BY <1>2, <1>3, Zenon
<1> QED
  BY <1>1, <1>4, Zenon DEF u, n

\* The last delimiter is the boundary and a token more.
LEMMA CloseTyped ==
  ASSUME NEW d \in Nat
  PROVE  /\ Close(d) \in Seq(Words) /\ Close(d) \in Seq(Words \ {"crlf"})
         /\ Len(Close(d)) = Len(Boundary(d)) + 1
         /\ Close(d)[Len(Close(d))] = "--"
         /\ \A i \in 1 .. Len(Boundary(d)) : Close(d)[i] = Boundary(d)[i]
<1> DEFINE b == Boundary(d)
           e == "--"
<1>1. b \in Seq(Words) /\ b \in Seq(Words \ {"crlf"})
  BY BoundaryTyped, Zenon
<1>2. e \in Words /\ e \in Words \ {"crlf"}
  <2>1. e \in Words
    BY SomeWords, Zenon
  <2>2. e # "crlf"
    OBVIOUS
  <2> QED
    BY <2>1, <2>2, Zenon
<1> HIDE DEF b, e
<1> DEFINE c == Append(b, e)
<1>3. c \in Seq(Words) /\ c \in Seq(Words \ {"crlf"})
  BY <1>1, <1>2, AppendProperties, Zenon
<1>4. Len(c) = Len(b) + 1 /\ c[Len(c)] = e /\ \A i \in 1 .. Len(b) : c[i] = b[i]
  BY <1>1, <1>2
<1> HIDE DEF c
<1> QED
  BY <1>3, <1>4, Zenon DEF Close, b, c, e

\* A line that begins like no open boundary is no delimiter to any reader.
LEMMA HitsNothing ==
  ASSUME NEW exact \in BOOLEAN, NEW n \in Nat, NEW l \in Seq(Words),
         \A d \in 0 .. n - 1 : ~IsPrefix(Boundary(d), l)
  PROVE  Hits(exact, l, Opens(n)) = {}
<1> SUFFICES ASSUME NEW k \in 1 .. n
             PROVE  /\ l # Boundary(k - 1) /\ l # Close(k - 1)
                    /\ ~IsPrefix(Boundary(k - 1), l)
  <2>1. DOMAIN Opens(n) = 1 .. n /\ \A k \in 1 .. n : Opens(n)[k] = Boundary(k - 1)
    BY Zenon DEF Opens
  <2> QED
    BY <2>1, Zenon DEF Hits, Close
<1>1. k - 1 \in 0 .. n - 1 /\ k - 1 \in Nat
  OBVIOUS
<1> DEFINE d == k - 1
           b == Boundary(d)
<1>2. ~IsPrefix(b, l)
  BY <1>1, Zenon
<1>3. b \in Seq(Words) /\ Close(d) \in Seq(Words) /\ Len(Close(d)) = Len(b) + 1
      /\ \A i \in 1 .. Len(b) : Close(d)[i] = b[i]
  <2> HIDE DEF d
  <2>1. d \in Nat
    BY <1>1 DEF d
  <2>2. b \in Seq(Words)
    BY <2>1, BoundaryTyped, Zenon
  <2> QED
    BY <2>1, <2>2, CloseTyped, Zenon
<1> HIDE DEF b
<1>4. Len(b) \in Nat /\ Len(b) <= Len(b) /\ Len(b) <= Len(b) + 1
  BY <1>3
<1>5. IsPrefix(b, b)
  BY <1>3, <1>4, PrefixAt, Zenon
<1>6. IsPrefix(b, Close(d))
  <2>1. \A i \in 1 .. Len(b) : b[i] = Close(d)[i]
    BY <1>3, Zenon
  <2>2. Len(b) <= Len(Close(d))
    BY <1>3, <1>4, Zenon
  <2> HIDE DEF d
  <2> QED
    BY <1>3, <2>1, <2>2, PrefixAt, Zenon
<1> QED
  BY <1>2, <1>5, <1>6, Zenon DEF b

\* Nor is one that does not begin with the divider.
LEMMA HitsNone ==
  ASSUME NEW exact \in BOOLEAN, NEW n \in Nat, NEW l \in Seq(Words),
         l = <<>> \/ l[1] # DIVIDER
  PROVE  Hits(exact, l, Opens(n)) = {}
<1>1. ASSUME NEW d \in 0 .. n - 1, IsPrefix(Boundary(d), l) PROVE FALSE
  <2> DEFINE b == Boundary(d)
  <2>1. d \in Nat
    OBVIOUS
  <2>2. b \in Seq(Words) /\ Len(b) = Len(Number(d)) + 1 /\ b[1] = DIVIDER
    BY <2>1, BoundaryTyped, Zenon
  <2>3. Len(Number(d)) \in Nat
    BY <2>1, NumberTyped, Zenon
  <2> HIDE DEF b
  <2>4. 1 \in 1 .. Len(b)
    BY <2>2, <2>3
  <2>5. Len(b) <= Len(l) /\ b[1] = l[1]
    BY <1>1, <2>2, <2>4, PrefixAt, Zenon DEF b
  <2>6. l # <<>>
    BY <2>4, <2>5
  <2> QED
    BY <2>2, <2>5, <2>6, Zenon
<1> QED
  BY <1>1, HitsNothing, Zenon

\* A delimiter is one of its own multipart only: to a reader of beginnings as long as no
\* number has more than a digit.
LEMMA HitsOne ==
  ASSUME NEW exact \in BOOLEAN, NEW n \in Nat, exact \/ n <= 10, NEW d \in 0 .. n - 1,
         NEW l \in {Boundary(d), Close(d)}
  PROVE  Hits(exact, l, Opens(n)) = {d + 1}
<1>1. /\ d \in Nat /\ d + 1 \in 1 .. n /\ (d + 1) - 1 = d
      /\ \A k \in 1 .. n : k - 1 \in Nat /\ (k - 1 = d => k = d + 1)
  OBVIOUS
<1>2. DOMAIN Opens(n) = 1 .. n /\ \A k \in 1 .. n : Opens(n)[k] = Boundary(k - 1)
  BY Zenon DEF Opens
<1> DEFINE b == Boundary(d)
<1>3. /\ b \in Seq(Words) /\ Close(d) \in Seq(Words) /\ Len(Close(d)) = Len(b) + 1
      /\ b[Len(b)] # "--" /\ Close(d)[Len(Close(d))] = "--"
      /\ \A i \in 1 .. Len(b) : Close(d)[i] = b[i]
  <2>1. b \in Seq(Words) /\ b[Len(b)] \in Figures
    BY <1>1, BoundaryTyped, Zenon
  <2>2. b[Len(b)] # "--"
    BY <2>1, TenFigures, Zenon
  <2>3. /\ Close(d) \in Seq(Words) /\ Len(Close(d)) = Len(b) + 1
        /\ Close(d)[Len(Close(d))] = "--"
        /\ \A i \in 1 .. Len(b) : Close(d)[i] = b[i]
    BY <1>1, CloseTyped, Zenon
  <2> QED
    BY <2>1, <2>2, <2>3, Zenon
<1> HIDE DEF b
<1>4. l \in Seq(Words) /\ Len(b) <= Len(l) /\ \A i \in 1 .. Len(b) : l[i] = b[i]
  <2>1. l = b \/ l = Close(d)
    BY Zenon DEF b
  <2>2. Len(b) <= Len(b) /\ Len(b) <= Len(b) + 1
    BY <1>3
  <2> QED
    BY <1>3, <2>1, <2>2, Zenon
<1>5. CASE exact
  <2>1. ASSUME NEW e \in Nat, l \in {Boundary(e), Close(e)} PROVE e = d
    <3>1. Boundary(e) \in Seq(Words) /\ Boundary(e)[Len(Boundary(e))] # "--"
      <4>1. Boundary(e) \in Seq(Words) /\ Boundary(e)[Len(Boundary(e))] \in Figures
        BY BoundaryTyped, Zenon
      <4> QED
        BY <4>1, TenFigures, Zenon
    <3>2. Close(e)[Len(Close(e))] = "--"
      BY CloseTyped, Zenon
    <3>3. (l = b /\ l = Boundary(e)) \/ (l = Close(d) /\ l = Close(e))
      BY <1>3, <2>1, <3>1, <3>2, Zenon DEF b
    <3>4. b = Boundary(e)
      <4> DEFINE c == Boundary(e)
                 x == "--"
      <4>1. "--" \in Words
        BY SomeWords, Zenon
      <4>2. Append(b, x) = Append(c, x) \/ b = c
        BY <3>3, Zenon DEF Close, b
      <4>3. b \in Seq(Words) /\ c \in Seq(Words) /\ x \in Words
        BY <1>3, <3>1, <4>1, Zenon
      <4> HIDE DEF c, x
      <4>4. b = c
        BY ONLY <4>2, <4>3, AppendInjective
      <4> QED
        BY <4>4 DEF c
    <3> QED
      BY <1>1, <3>4, BoundaryInjective, Zenon DEF b
  <2>2. ASSUME NEW k \in 1 .. n, l \in {Boundary(k - 1), Close(k - 1)} PROVE k = d + 1
    BY <1>1, <2>1, <2>2, Zenon
  <2>3. Hits(exact, l, Opens(n)) = {k \in 1 .. n : l \in {Boundary(k - 1), Close(k - 1)}}
    BY <1>2, <1>5, Zenon DEF Hits, Close
  <2>4. l \in {Boundary((d + 1) - 1), Close((d + 1) - 1)}
    BY <1>1, Zenon
  <2> QED
    BY <1>1, <2>2, <2>3, <2>4, Zenon
<1>6. CASE ~exact
  <2>1. ASSUME NEW e \in 0 .. n - 1 PROVE IsPrefix(Boundary(e), l) <=> e = d
    <3> DEFINE c == Boundary(e)
    <3>1. e \in Nat /\ d \in Nat /\ e < 10 /\ d < 10 /\ e + 1 \in 1 .. 10 /\ d + 1 \in 1 .. 10
      BY <1>6
    <3>2. Number(e) = <<Digits[e + 1]>> /\ Number(d) = <<Digits[d + 1]>>
      BY <3>1, NumberSteps, Zenon
    <3>3. /\ Len(Number(e)) = 1 /\ Len(Number(d)) = 1
          /\ Number(e)[1] = Digits[e + 1] /\ Number(d)[1] = Digits[d + 1]
      BY <3>2
    <3>4. /\ c \in Seq(Words) /\ Len(c) = 1 + 1 /\ Len(b) = 1 + 1
          /\ c[1] = DIVIDER /\ b[1] = DIVIDER
          /\ c[1 + 1] = Digits[e + 1] /\ b[1 + 1] = Digits[d + 1]
      <4>1. 1 \in 1 .. 1
        OBVIOUS
      <4>2. /\ c \in Seq(Words) /\ Len(c) = Len(Number(e)) + 1 /\ c[1] = DIVIDER
            /\ \A i \in 1 .. Len(Number(e)) : c[i + 1] = Number(e)[i]
        BY <3>1, BoundaryTyped, Zenon
      <4>3. /\ Len(b) = Len(Number(d)) + 1 /\ b[1] = DIVIDER
            /\ \A i \in 1 .. Len(Number(d)) : b[i + 1] = Number(d)[i]
        BY <3>1, BoundaryTyped, Zenon DEF b
      <4> HIDE DEF c
      <4> QED
        BY <3>3, <4>1, <4>2, <4>3, Zenon
    <3>5. IsPrefix(c, l) <=> Len(c) <= Len(l) /\ \A i \in 1 .. Len(c) : c[i] = l[i]
      BY <1>4, <3>4, PrefixAt, Zenon
    <3> HIDE DEF c
    <3>6. /\ Len(c) <= Len(l) /\ 1 \in 1 .. Len(c) /\ 1 + 1 \in 1 .. Len(c)
          /\ \A i \in 1 .. Len(c) : i = 1 \/ i = 1 + 1
      <4>1. Len(c) <= Len(l)
        BY <1>4, <3>4, Zenon
      <4> QED
        BY ONLY <3>4, <4>1
    <3>7. l[1] = DIVIDER /\ l[1 + 1] = Digits[d + 1]
      BY <1>4, <3>4, <3>6, Zenon
    <3>8. IsPrefix(c, l) <=> Digits[e + 1] = Digits[d + 1]
      BY <3>4, <3>5, <3>6, <3>7, Zenon
    <3>9. Digits[e + 1] = Digits[d + 1] <=> e = d
      <4>1. e + 1 = d + 1 => e = d
        BY <3>1
      <4> QED
        BY <3>1, <4>1, TenFigures, Zenon
    <3> QED
      BY <3>8, <3>9 DEF c
  <2>2. Hits(exact, l, Opens(n)) = {k \in 1 .. n : IsPrefix(Boundary(k - 1), l)}
    BY <1>2, <1>6, Zenon DEF Hits
  <2>3. \A k \in 1 .. n : k - 1 \in 0 .. n - 1
    OBVIOUS
  <2> QED
    BY <1>1, <2>1, <2>2, <2>3, Zenon
<1> QED
  BY <1>5, <1>6

-----------------------------------------------------------------------------
(***************************************************************************)
(* What a line says to a reader                                            *)
(***************************************************************************)

\* The changes to what a reader knows.
Retyped(r, l)     == [r EXCEPT !.type = l]
Reopened(r, o, h) == [r EXCEPT !.open = o, !.head = h]
Begun(r, h, p, o) == [r EXCEPT !.head = h, !.parts = p, !.open = o]
Becomes(r, q)     == r = q

\* What the headers say.
LEMMA RetypedKnows ==
  ASSUME NEW o, NEW h, NEW t, NEW p, NEW l
  PROVE  Becomes(Retyped(Knows(o, h, t, p), l), Knows(o, h, l, p))
BY DEF Becomes, Retyped, Knows

\* What is open, and where the reader is.
LEMMA ReopenedKnows ==
  ASSUME NEW o, NEW h, NEW t, NEW p, NEW a, NEW b
  PROVE  Becomes(Reopened(Knows(o, h, t, p), a, b), Knows(a, b, t, p))
<1>1. /\ [Knows(o, h, t, p) EXCEPT !.open = a] = Knows(a, h, t, p)
      /\ [Knows(a, h, t, p) EXCEPT !.head = b] = Knows(a, b, t, p)
  BY DEF Knows
<1> QED
  BY <1>1 DEF Becomes, Reopened

\* That a part begins.
LEMMA BegunKnows ==
  ASSUME NEW o, NEW h, NEW t, NEW p, NEW a, NEW b, NEW c
  PROVE  Becomes(Begun(Knows(o, h, t, p), b, c, a), Knows(a, b, t, c))
<1>1. /\ [Knows(o, h, t, p) EXCEPT !.head = b] = Knows(o, b, t, p)
      /\ [Knows(o, b, t, p) EXCEPT !.parts = c] = Knows(o, b, t, c)
      /\ [Knows(o, b, t, c) EXCEPT !.open = a] = Knows(a, b, t, c)
  BY DEF Knows
<1> QED
  BY <1>1 DEF Becomes, Begun

\* One who knows r knows q after the line l.
Says(exact, r, l, q) == ReadLine(exact, r, l) = q

\* A line that is no delimiter says nothing outside of headers.
LEMMA ReadsText ==
  ASSUME NEW exact, NEW o, NEW t, NEW p, NEW l, Hits(exact, l, o) = {}
  PROVE  Says(exact, Knows(o, FALSE, t, p), l, Knows(o, FALSE, t, p))
<1> DEFINE r == Knows(o, FALSE, t, p)
           hits == Hits(exact, l, r.open)
<1>1. r.open = o /\ r.head = FALSE
  BY DEF Knows
<1>2. hits = {}
  BY <1>1, Zenon
<1> HIDE DEF r, hits
<1>3. ReadLine(exact, r, l) = r
  BY <1>1, <1>2 DEF ReadLine, hits
<1> QED
  BY <1>3, Zenon DEF r, Says

\* One in the headers is remembered.
LEMMA ReadsHeader ==
  ASSUME NEW exact, NEW o, NEW t, NEW p, NEW l, Hits(exact, l, o) = {}, l # <<>>
  PROVE  Says(exact, Knows(o, TRUE, t, p), l, Knows(o, TRUE, l, p))
<1> DEFINE r == Knows(o, TRUE, t, p)
           hits == Hits(exact, l, r.open)
<1>1. r.open = o /\ r.head = TRUE
  BY DEF Knows
<1>2. hits = {}
  BY <1>1, Zenon
<1>3. Becomes(Retyped(r, l), Knows(o, TRUE, l, p))
  BY RetypedKnows, Zenon
<1> HIDE DEF r, hits
<1>4. ReadLine(exact, r, l) = Retyped(r, l)
  BY <1>1, <1>2 DEF ReadLine, hits, Retyped
<1> QED
  BY <1>3, <1>4, Zenon DEF r, Becomes, Says

\* The empty line ends the headers: a part begins, and if it is a multipart its boundary
\* is the rest of the line.
LEMMA ReadsBlank ==
  ASSUME NEW exact, NEW o, NEW t, NEW p, Hits(exact, <<>>, o) = {}
  PROVE  Says(exact, Knows(o, TRUE, t, p), <<>>,
              Knows(IF t[1] = "multipart" THEN Append(o, Tail(t)) ELSE o, FALSE, t,
                    Append(p, <<Len(o), t[1]>>)))
<1> DEFINE r == Knows(o, TRUE, t, p)
           hits == Hits(exact, <<>>, r.open)
           a == Append(p, <<Len(o), t[1]>>)
           b == IF t[1] = "multipart" THEN Append(o, Tail(t)) ELSE o
<1>1. r.open = o /\ r.head = TRUE /\ r.type = t /\ r.parts = p
  BY DEF Knows
<1>2. hits = {}
  BY <1>1, Zenon
<1> HIDE DEF a, b
<1>3. Becomes(Begun(r, FALSE, a, b), Knows(b, FALSE, t, a))
  BY BegunKnows, Zenon
<1> HIDE DEF r, hits
<1>4. ReadLine(exact, r, <<>>)
        = [r EXCEPT !.head = FALSE, !.parts = Append(@, <<Len(r.open), r.type[1]>>),
                    !.open = IF r.type[1] = "multipart" THEN Append(@, Tail(r.type)) ELSE @]
  BY <1>1, <1>2 DEF ReadLine, hits
<1>5. Append(r.parts, <<Len(r.open), r.type[1]>>) = a
  BY <1>1, Zenon DEF a
<1>6. (IF r.type[1] = "multipart" THEN Append(r.open, Tail(r.type)) ELSE r.open) = b
  BY <1>1, Zenon DEF b
<1>7. ReadLine(exact, r, <<>>) = Begun(r, FALSE, a, b)
  BY <1>4, <1>5, <1>6 DEF Begun
<1> QED
  BY <1>3, <1>7, Zenon DEF r, a, b, Becomes, Says

\* A delimiter closes the multiparts in its own, and that as well if it is the last.
LEMMA ReadsDelimiter ==
  ASSUME NEW exact, NEW o, NEW h, NEW t, NEW p, NEW l, NEW k \in Nat, Hits(exact, l, o) = {k}
  PROVE  /\ l[Len(l)] = "--" =>
              Says(exact, Knows(o, h, t, p), l, Knows(SubSeq(o, 1, k - 1), FALSE, t, p))
         /\ l[Len(l)] # "--" =>
              Says(exact, Knows(o, h, t, p), l, Knows(SubSeq(o, 1, k), TRUE, t, p))
<1> DEFINE r == Knows(o, h, t, p)
           hits == Hits(exact, l, r.open)
           a == SubSeq(o, 1, k - 1)
           b == SubSeq(o, 1, k)
<1>1. r.open = o
  BY DEF Knows
<1>2. hits = {k} /\ Min({k}) = k
  <2>1. hits = {k}
    BY <1>1, Zenon
  <2>2. Min({k}) = k
    BY DEF Min
  <2> QED
    BY <2>1, <2>2
<1>3. hits # {} /\ Min(hits) = k
  BY <1>2
<1> HIDE DEF a, b
<1>4. /\ Becomes(Reopened(r, a, FALSE), Knows(a, FALSE, t, p))
      /\ Becomes(Reopened(r, b, TRUE), Knows(b, TRUE, t, p))
  BY ReopenedKnows, Zenon
<1> HIDE DEF r, hits
<1>5. CASE l[Len(l)] = "--"
  <2>1. ReadLine(exact, r, l) = [r EXCEPT !.open = SubSeq(@, 1, k - 1), !.head = FALSE]
    BY <1>3, <1>5 DEF ReadLine, hits, Last
  <2>2. SubSeq(r.open, 1, k - 1) = a
    BY <1>1, Zenon DEF a
  <2>3. ReadLine(exact, r, l) = Reopened(r, a, FALSE)
    BY <2>1, <2>2 DEF Reopened
  <2> QED
    BY <1>4, <1>5, <2>3, Zenon DEF r, a, Becomes, Says
<1>6. CASE l[Len(l)] # "--"
  <2>1. ReadLine(exact, r, l) = [r EXCEPT !.open = SubSeq(@, 1, k), !.head = TRUE]
    BY <1>3, <1>6 DEF ReadLine, hits, Last
  <2>2. SubSeq(r.open, 1, k) = b
    BY <1>1, Zenon DEF b
  <2>3. ReadLine(exact, r, l) = Reopened(r, b, TRUE)
    BY <2>1, <2>2 DEF Reopened
  <2> QED
    BY <1>4, <1>6, <2>3, Zenon DEF r, b, Becomes, Says
<1> QED
  BY <1>5, <1>6

\* What is open at a level, and one deeper.
LEMMA OpensTyped ==
  ASSUME NEW n \in Nat
  PROVE  /\ Opens(n) \in Seq(Seq(Words)) /\ Len(Opens(n)) = n
         /\ Append(Opens(n), Boundary(n)) = Opens(n + 1)
         /\ SubSeq(Opens(n), 1, n) = Opens(n)
         /\ SubSeq(Opens(n + 1), 1, n) = Opens(n)
<1> DEFINE S == Seq(Words)
           F(k) == Boundary(k - 1)
<1>1. \A k \in 1 .. n + 1 : k - 1 \in Nat
  OBVIOUS
<1>2. \A k \in 1 .. n + 1 : F(k) \in S
  BY <1>1, BoundaryTyped, Zenon
<1>3. F(n + 1) = Boundary(n)
  <2>1. (n + 1) - 1 = n
    OBVIOUS
  <2> QED
    BY <2>1, Zenon
<1> HIDE DEF S, F
<1> DEFINE u == [k \in 1 .. n |-> F(k)]
           v == [k \in 1 .. n + 1 |-> F(k)]
<1>4. Opens(n) = u /\ Opens(n + 1) = v
  BY Zenon DEF Opens, F
<1>5. /\ u \in Seq(S) /\ Len(u) = n /\ v \in Seq(S) /\ Len(v) = n + 1
      /\ v[n + 1] = F(n + 1) /\ F(n + 1) \in S
      /\ \A k \in 1 .. n : v[k] = u[k]
  BY <1>2
<1> HIDE DEF u, v
<1>6. Append(u, F(n + 1)) = v
  BY ONLY n \in Nat, <1>5, SeqEqual
<1>7. SubSeq(u, 1, n) = u
  BY <1>5, SubSeqFull, Zenon
<1>8. SubSeq(v, 1, n) = u
  BY ONLY n \in Nat, <1>5, SeqEqual
<1> QED
  BY <1>3, <1>4, <1>5, <1>6, <1>7, <1>8, Zenon DEF S

-----------------------------------------------------------------------------
(***************************************************************************)
(* What sendEmail writes, to a reader                                      *)
(***************************************************************************)

\* After the tokens m, where no line has begun, the reader has n multiparts open, is in
\* headers if h, the last of which is t, and has found the parts p.
Found(exact, m, n, h, t, p) ==
  m \in Seq(Words) /\ Reads(exact, m, Knows(Opens(n), h, t, p), <<>>)

\* Two tokens more, and a line.
LEMMA WordsLine ==
  ASSUME NEW m \in Seq(Words), NEW l \in Seq(Words), NEW c \in Words, NEW e \in Words
  PROVE  /\ m \o (l \o <<c>>) = Append(m \o l, c)
         /\ m \o <<c, e>> = Append(m \o <<c>>, e)
         /\ <<c>> \in Seq(Words)
<1>1. l \o <<c>> = Append(l, c)
  BY ONLY l \in Seq(Words), c \in Words, WordsAppend
<1>2. m \o Append(l, c) = Append(m \o l, c)
  BY ONLY m \in Seq(Words), l \in Seq(Words), c \in Words, WordsAppend
<1>3. <<c>> \in Seq(Words) /\ <<c, e>> = Append(<<c>>, e)
  BY ONLY c \in Words, e \in Words
<1> DEFINE w == <<c>>
<1> HIDE DEF w
<1>4. m \o Append(w, e) = Append(m \o w, e)
  <2>1. w \in Seq(Words)
    BY <1>3 DEF w
  <2> QED
    BY ONLY m \in Seq(Words), w \in Seq(Words), <2>1, e \in Words, WordsAppend
<1> QED
  BY <1>1, <1>2, <1>3, <1>4, Zenon DEF w

\* Three sequences of tokens.
LEMMA WordsConcat ==
  ASSUME NEW a \in Seq(Words), NEW b \in Seq(Words), NEW c \in Seq(Words)
  PROVE  /\ a \o b \in Seq(Words)
         /\ (a \o b) \o c = a \o (b \o c)
<1>1. a \o b \in Seq(Words)
  BY ConcatProperties, Zenon
<1>2. (a \o b) \o c = a \o (b \o c)
  BY ConcatAssociative
<1> QED
  BY <1>1, <1>2

\* What a line says.
LEMMA ReadsLine ==
  ASSUME NEW exact, NEW r, NEW m \in Seq(Words), Reads(exact, m, r, <<>>),
         NEW l \in Seq(Words \ {"crlf"})
  PROVE  /\ Append(m \o l, "crlf") \in Seq(Words)
         /\ \A q : Says(exact, r, l, q) => Reads(exact, Append(m \o l, "crlf"), q, <<>>)
<1>1. <<>> \in Seq(Words) /\ l \in Seq(Words)
  OBVIOUS
<1>2. /\ m \o l \in Seq(Words) /\ <<>> \o l \in Seq(Words)
      /\ Reads(exact, m \o l, r, <<>> \o l)
  BY <1>1, ReadsWords, Zenon
<1>3. <<>> \o l = l
  BY <1>1, WordsAppend, Zenon
<1>4. Reads(exact, Append(m \o l, "crlf"), ReadLine(exact, r, l), <<>>)
  BY <1>1, <1>2, <1>3, ReadsWord, Zenon
<1>5. Append(m \o l, "crlf") \in Seq(Words)
  BY <1>2, SomeWords, AppendProperties, Zenon
<1> QED
  BY <1>4, <1>5, Zenon DEF Says

\* A delimiter begins the headers of a part.
LEMMA FoundDelimiter ==
  ASSUME NEW exact \in BOOLEAN, NEW m, NEW n \in Nat, NEW t, NEW p,
         Found(exact, m, n + 1, FALSE, t, p), exact \/ n + 1 <= 10
  PROVE  Found(exact, m \o Before(n + 1), n + 1, TRUE, t, p)
<1> DEFINE d == n + 1
           l == Boundary(n)
<1>1. m \in Seq(Words) /\ Reads(exact, m, Knows(Opens(d), FALSE, t, p), <<>>)
  BY Zenon DEF Found
<1>2. n \in Nat /\ d \in Nat /\ n \in 0 .. d - 1 /\ d # 0 /\ d - 1 = n /\ (exact \/ d <= 10)
  OBVIOUS
<1>3. l \in Seq(Words \ {"crlf"}) /\ l \in Seq(Words) /\ l[Len(l)] # "--"
  <2>1. l \in Seq(Words \ {"crlf"}) /\ l \in Seq(Words) /\ l[Len(l)] \in Figures
    BY BoundaryTyped, Zenon
  <2> QED
    BY <2>1, TenFigures, Zenon
<1>4. Hits(exact, l, Opens(d)) = {d}
  <2> HIDE DEF d
  <2>1. \A x \in {Boundary(n), Close(n)} : Hits(exact, x, Opens(d)) = {n + 1}
    BY <1>2, HitsOne
  <2> QED
    BY <2>1, Zenon DEF d
<1> HIDE DEF l, d
<1>5. SubSeq(Opens(d), 1, d) = Opens(d)
  BY <1>2, OpensTyped, Zenon
<1>6. Says(exact, Knows(Opens(d), FALSE, t, p), l, Knows(SubSeq(Opens(d), 1, d), TRUE, t, p))
  BY <1>2, <1>3, <1>4, ReadsDelimiter, Zenon
<1>7. /\ Append(m \o l, "crlf") \in Seq(Words)
      /\ Reads(exact, Append(m \o l, "crlf"), Knows(Opens(d), TRUE, t, p), <<>>)
  BY <1>1, <1>3, <1>5, <1>6, ReadsLine, Zenon
<1>8. m \o Before(d) = Append(m \o l, "crlf")
  <2> DEFINE c == "crlf"
  <2>1. c \in Words
    BY SomeWords, Zenon
  <2> HIDE DEF c
  <2>2. m \o (l \o <<c>>) = Append(m \o l, c)
    BY ONLY <1>1, <1>3, <2>1, WordsLine
  <2> QED
    BY <1>2, <2>2, Zenon DEF Before, l, c
<1> QED
  BY <1>7, <1>8, Zenon DEF Found, d

\* Before the root there is none.
LEMMA FoundRoot ==
  ASSUME NEW exact, NEW m, NEW t, NEW p, Found(exact, m, 0, TRUE, t, p)
  PROVE  Found(exact, m \o Before(0), 0, TRUE, t, p)
<1>1. m \in Seq(Words)
  BY Zenon DEF Found
<1>2. m \o Before(0) = m
  <2>1. m \o <<>> = m
    BY <1>1, WordsAppend, Zenon
  <2>2. Before(0) = <<>>
    BY DEF Before
  <2> QED
    BY <2>1, <2>2, Zenon
<1> QED
  BY <1>2

\* A line of headers that does not begin with the divider.
LEMMA FoundHeader ==
  ASSUME NEW exact \in BOOLEAN, NEW m, NEW n \in Nat, NEW t, NEW p,
         Found(exact, m, n, TRUE, t, p),
         NEW l \in Seq(Words \ {"crlf"}), l # <<>>, l[1] # DIVIDER
  PROVE  Found(exact, Append(m \o l, "crlf"), n, TRUE, l, p)
<1>1. m \in Seq(Words) /\ Reads(exact, m, Knows(Opens(n), TRUE, t, p), <<>>)
  BY Zenon DEF Found
<1>2. l \in Seq(Words)
  OBVIOUS
<1>3. Hits(exact, l, Opens(n)) = {}
  BY <1>2, HitsNone, Zenon
<1>4. Says(exact, Knows(Opens(n), TRUE, t, p), l, Knows(Opens(n), TRUE, l, p))
  BY <1>3, ReadsHeader, Zenon
<1> QED
  BY <1>1, <1>4, ReadsLine, Zenon DEF Found

\* The empty line, after which the part's body comes.
LEMMA FoundBlank ==
  ASSUME NEW exact \in BOOLEAN, NEW m, NEW n \in Nat, NEW t, NEW p,
         Found(exact, m, n, TRUE, t, p)
  PROVE  /\ t[1] # "multipart" =>
              Found(exact, Append(m, "crlf"), n, FALSE, t, Append(p, <<n, t[1]>>))
         /\ t[1] = "multipart" /\ Tail(t) = Boundary(n) =>
              Found(exact, Append(m, "crlf"), n + 1, FALSE, t, Append(p, <<n, t[1]>>))
<1>1. m \in Seq(Words) /\ Reads(exact, m, Knows(Opens(n), TRUE, t, p), <<>>)
  BY Zenon DEF Found
<1>2. <<>> \in Seq(Words)
  OBVIOUS
<1>3. Hits(exact, <<>>, Opens(n)) = {}
  BY <1>2, HitsNone, Zenon
<1>4. Len(Opens(n)) = n /\ Append(Opens(n), Boundary(n)) = Opens(n + 1)
  BY OpensTyped, Zenon
<1> DEFINE o == IF t[1] = "multipart" THEN Append(Opens(n), Tail(t)) ELSE Opens(n)
           q == Append(p, <<Len(Opens(n)), t[1]>>)
           f == Append(m, "crlf")
<1>5. Says(exact, Knows(Opens(n), TRUE, t, p), <<>>, Knows(o, FALSE, t, q))
  BY <1>3, ReadsBlank, Zenon
<1>6. q = Append(p, <<n, t[1]>>)
  BY <1>4, Zenon
<1>7. /\ t[1] # "multipart" => o = Opens(n)
      /\ t[1] = "multipart" /\ Tail(t) = Boundary(n) => o = Opens(n + 1)
  BY <1>4, Zenon
<1> HIDE DEF o, q
<1>8. f \in Seq(Words) /\ Reads(exact, f, Knows(o, FALSE, t, q), <<>>)
  <2>1. f \in Seq(Words)
    BY <1>1, SomeWords, AppendProperties, Zenon
  <2>2. Reads(exact, f, ReadLine(exact, Knows(Opens(n), TRUE, t, p), <<>>), <<>>)
    BY <1>1, <1>2, ReadsWord, Zenon
  <2> QED
    BY <1>5, <2>1, <2>2, Zenon DEF Says
<1> HIDE DEF f
<1>9. /\ t[1] # "multipart" => Found(exact, f, n, FALSE, t, q)
      /\ t[1] = "multipart" /\ Tail(t) = Boundary(n) => Found(exact, f, n + 1, FALSE, t, q)
  BY <1>7, <1>8, Zenon DEF Found
<1> QED
  BY <1>6, <1>9, Zenon DEF f

\* The words that headers begin with, and that a delimiter does not.
LEMMA HeaderWords ==
  ASSUME NEW w \in {"MIME-Version", "header", "multipart", "encoding", "text", "binary"}
  PROVE  w \in Words /\ w \in Words \ {"crlf"} /\ w # DIVIDER
<1>1. w \in Words
  BY SomeWords, Zenon
<1>2. w # "crlf" /\ w # DIVIDER
  BY DEF DIVIDER
<1> QED
  BY <1>1, <1>2, Zenon

\* A header of one of these words.
LEMMA FoundWord ==
  ASSUME NEW exact \in BOOLEAN, NEW m, NEW n \in Nat, NEW t, NEW p,
         Found(exact, m, n, TRUE, t, p),
         NEW w \in {"MIME-Version", "header", "multipart", "encoding", "text", "binary"}
  PROVE  Found(exact, m \o <<w, "crlf">>, n, TRUE, <<w>>, p)
<1> DEFINE l == <<w>>
<1>1. w \in Words /\ w \in Words \ {"crlf"} /\ w # DIVIDER /\ "crlf" \in Words
  BY HeaderWords, SomeWords, Zenon
<1>2. m \in Seq(Words)
  BY Zenon DEF Found
<1>3. l \in Seq(Words \ {"crlf"}) /\ l # <<>> /\ l[1] # DIVIDER
  <2>1. ASSUME NEW S, w \in S PROVE l \in Seq(S) /\ l # <<>> /\ l[1] = w
    BY <2>1
  <2> HIDE DEF l
  <2> QED
    BY <1>1, <2>1, Zenon
<1> HIDE DEF l
<1>4. Found(exact, Append(m \o l, "crlf"), n, TRUE, l, p)
  BY <1>3, FoundHeader, Zenon
<1>5. m \o <<w, "crlf">> = Append(m \o l, "crlf")
  BY <1>1, <1>2, WordsLine DEF l
<1> QED
  BY <1>4, <1>5, Zenon DEF l

\* The headers that a program has given a part.
LEMMA FoundHeaders ==
  ASSUME NEW exact \in BOOLEAN, NEW m, NEW n \in Nat, NEW t, NEW p,
         Found(exact, m, n, TRUE, t, p), NEW hs \in Seq(STRING)
  PROVE  \E u : Found(exact, m \o Headers(hs), n, TRUE, u, p)
<1> DEFINE one == <<"header", "crlf">>
           S == {<<>>, one}
           Go(k) == /\ k \in Seq(Seq(Words)) /\ Flat(k) \in Seq(Words)
                    /\ \E u : Found(exact, m \o Flat(k), n, TRUE, u, p)
           P == {k \in Seq(S) : Go(k)}
<1>1. m \in Seq(Words)
  BY Zenon DEF Found
<1>2. one \in Seq(Words) /\ <<>> \in Seq(Words)
  <2> DEFINE a == "header"
             b == "crlf"
  <2>1. a \in Words /\ b \in Words
    BY SomeWords, Zenon
  <2> HIDE DEF a, b
  <2>2. <<a, b>> \in Seq(Words) /\ <<>> \in Seq(Words)
    BY <2>1
  <2> QED
    BY <2>2, Zenon DEF a, b
<1>3. <<>> \in P
  <2>1. <<>> \in Seq(Seq(Words)) /\ Len(<<>>) = 0 /\ <<>> \in Seq(S)
    OBVIOUS
  <2>2. Flat(<<>>) = <<>>
    BY FlatNothing, Zenon
  <2>3. m \o Flat(<<>>) = m
    BY <1>1, <2>2, WordsAppend, Zenon
  <2> QED
    BY <1>2, <2>1, <2>2, <2>3, Zenon
<1>4. ASSUME NEW k \in Seq(S), k \in P, NEW e \in S PROVE Append(k, e) \in P
  <2>1. k \in Seq(Seq(Words)) /\ Flat(k) \in Seq(Words) /\ e \in Seq(Words)
    BY <1>2, <1>4, Zenon
  <2>2. PICK u : Found(exact, m \o Flat(k), n, TRUE, u, p)
    BY <1>4, Zenon
  <2>3. e = <<>> \/ e = one
    BY <1>4, Zenon
  <2> HIDE DEF one, S
  <2>4. Append(k, e) \in Seq(S) /\ Append(k, e) \in Seq(Seq(Words))
    BY <2>1, AppendProperties, Zenon
  <2>5. Flat(Append(k, e)) \in Seq(Words) /\ Flat(Append(k, e)) = Flat(k) \o e
    BY <2>1, FlatAppend
  <2>6. m \o (Flat(k) \o e) = (m \o Flat(k)) \o e
    BY ONLY <1>1, <2>1, WordsConcat
  <2>7. m \o Flat(k) \in Seq(Words)
    BY <2>2, Zenon DEF Found
  <2>8. \E v : Found(exact, (m \o Flat(k)) \o e, n, TRUE, v, p)
    <3>1. CASE e = <<>>
      BY <2>2, <2>7, <3>1, WordsAppend, Zenon
    <3>2. CASE e = one
      <4>1. Found(exact, (m \o Flat(k)) \o <<"header", "crlf">>, n, TRUE, <<"header">>, p)
        BY <2>2, FoundWord
      <4> QED
        BY <3>2, <4>1, Zenon DEF one
    <3> QED
      BY <2>3, <3>1, <3>2
  <2> QED
    BY <2>4, <2>5, <2>6, <2>8, Zenon
<1> DEFINE F == [i \in DOMAIN hs |-> IF hs[i] = "" THEN <<>> ELSE <<"header", "crlf">>]
<1>5. F \in Seq(S)
  <2> DEFINE F2(i) == IF hs[i] = "" THEN <<>> ELSE <<"header", "crlf">>
  <2>1. \A i \in DOMAIN hs : F2(i) \in S
    BY Zenon
  <2>2. DOMAIN hs = 1 .. Len(hs) /\ Len(hs) \in Nat
    BY LenProperties, Zenon
  <2> HIDE DEF F2, S
  <2>3. [i \in DOMAIN hs |-> F2(i)] \in Seq(S)
    BY ONLY <2>1, <2>2
  <2> QED
    BY <2>3, Zenon DEF F2
<1> HIDE DEF P, S, F
<1>6. Seq(S) \subseteq P
  BY <1>3, <1>4, EverySequence, Zenon
<1>7. F \in P
  BY <1>5, <1>6
<1>8. Headers(hs) = Flat(F)
  BY Zenon DEF Headers, F
<1> QED
  BY <1>7, <1>8, Zenon DEF P

\* The header and the empty line of a multipart, in which the reader now is.
LEMMA FoundMulti ==
  ASSUME NEW exact \in BOOLEAN, NEW m, NEW n \in Nat, NEW t, NEW p,
         Found(exact, m, n, TRUE, t, p)
  PROVE  \E u : Found(exact, m \o <<"multipart">> \o Boundary(n) \o <<"crlf", "crlf">>, n + 1,
                      FALSE, u, Append(p, <<n, "multipart">>))
<1> DEFINE w == "multipart"
           c == "crlf"
           b == Boundary(n)
           l == <<w>> \o b
<1>1. /\ w \in Words /\ w \in Words \ {"crlf"} /\ w # DIVIDER /\ c \in Words
      /\ b \in Seq(Words) /\ b \in Seq(Words \ {"crlf"})
  BY HeaderWords, SomeWords, BoundaryTyped, Zenon
<1>2. m \in Seq(Words)
  BY Zenon DEF Found
<1> HIDE DEF w, b
<1>3. ASSUME NEW S, w \in S, b \in Seq(S)
      PROVE  <<w>> \in Seq(S) /\ l \in Seq(S) /\ l # <<>> /\ l[1] = w /\ Tail(l) = b
  <2>1. <<w>> \in Seq(S) /\ Len(<<w>>) = 1 /\ <<w>>[1] = w /\ Len(b) \in Nat
    BY <1>3
  <2>2. l \in Seq(S) /\ Len(l) = 1 + Len(b)
        /\ \A i \in 1 .. 1 + Len(b) : l[i] = IF i <= 1 THEN w ELSE b[i - 1]
    BY <1>3
  <2> HIDE DEF l
  <2>3. l # <<>> /\ l[1] = w
    BY <2>1, <2>2
  <2>4. Tail(l) = b
    BY <1>3, <2>2, <2>3
  <2> QED
    BY <2>1, <2>2, <2>3, <2>4
<1>4. /\ l \in Seq(Words) /\ l \in Seq(Words \ {"crlf"}) /\ l # <<>> /\ l[1] = w
      /\ Tail(l) = b /\ <<w>> \in Seq(Words)
  BY <1>1, <1>3, Zenon
<1>5. m \o l \in Seq(Words) /\ m \o <<w>> \o b = m \o l
  BY <1>1, <1>2, <1>4, WordsConcat, Zenon
<1> HIDE DEF l, c
<1>6. (m \o l) \o <<c, c>> = Append(Append(m \o l, c), c)
  <2> DEFINE z == m \o l
  <2>1. z \in Seq(Words)
    BY <1>5
  <2> HIDE DEF z
  <2>2. z \o <<c, c>> = Append(z \o <<c>>, c)
    BY ONLY <1>1, <2>1, WordsLine
  <2>3. z \o <<c>> = Append(z, c)
    BY ONLY <1>1, <2>1, WordsAppend
  <2> QED
    BY <2>2, <2>3, Zenon DEF z
<1>7. Found(exact, Append(m \o l, c), n, TRUE, l, p)
  BY <1>1, <1>4, FoundHeader, Zenon DEF c
<1>8. Found(exact, Append(Append(m \o l, c), c), n + 1, FALSE, l, Append(p, <<n, w>>))
  <2>1. l[1] = "multipart" /\ Tail(l) = Boundary(n)
    BY <1>4, Zenon DEF w, b
  <2>2. Found(exact, Append(Append(m \o l, c), "crlf"), n + 1, FALSE, l, Append(p, <<n, l[1]>>))
    BY <1>7, <2>1, FoundBlank, Zenon
  <2> QED
    BY <1>4, <2>2, Zenon DEF c
<1> QED
  BY <1>5, <1>6, <1>8, Zenon DEF w, b, c

\* Five tokens are a header, another one and one more token.
LEMMA WordsFive ==
  ASSUME NEW m \in Seq(Words), NEW a \in Words, NEW b \in Words, NEW c \in Words,
         NEW d \in Words, NEW e \in Words
  PROVE  m \o <<a, b, c, d, e>> = Append((m \o <<a, b>>) \o <<c, d>>, e)
<1> DEFINE x == <<a, b>>
           y == <<c, d>>
<1>1. x \in Seq(Words) /\ y \in Seq(Words) /\ <<a, b, c, d, e>> = Append(x \o y, e)
  <2>1. x \in Seq(Words) /\ y \in Seq(Words)
    OBVIOUS
  <2>2. x \o y = <<a, b, c, d>>
    <3>1. <<a, b, c>> = Append(x, c) /\ <<a, b, c, d>> = Append(<<a, b, c>>, d)
      OBVIOUS
    <3> HIDE DEF x
    <3>2. x \o <<c, d>> = Append(x \o <<c>>, d)
      BY <2>1, WordsLine
    <3>3. x \o <<c>> = Append(x, c)
      BY <2>1, WordsAppend
    <3> QED
      BY <3>1, <3>2, <3>3, Zenon
  <2>3. <<a, b, c, d, e>> = Append(<<a, b, c, d>>, e)
    OBVIOUS
  <2> QED
    BY <2>1, <2>3, <2>2, Zenon
<1> HIDE DEF x, y
<1>2. x \o y \in Seq(Words) /\ m \o (x \o y) = (m \o x) \o y
  BY <1>1, WordsConcat, Zenon
<1> DEFINE z == x \o y
<1> HIDE DEF z
<1>3. m \o Append(z, e) = Append(m \o z, e)
  <2>1. z \in Seq(Words)
    BY <1>2 DEF z
  <2> QED
    BY ONLY m \in Seq(Words), <2>1, e \in Words, WordsAppend
<1> QED
  BY <1>1, <1>2, <1>3, Zenon DEF x, y, z

\* The headers and the empty line of another part.
LEMMA FoundSingle ==
  ASSUME NEW exact \in BOOLEAN, NEW m, NEW n \in Nat, NEW t, NEW p,
         Found(exact, m, n, TRUE, t, p), NEW kind \in {"text", "binary"}
  PROVE  \E u : Found(exact, m \o <<"encoding", "crlf", kind, "crlf", "crlf">>, n, FALSE, u,
                      Append(p, <<n, kind>>))
<1> DEFINE a == m \o <<"encoding", "crlf">>
           b == a \o <<kind, "crlf">>
<1>1. Found(exact, a, n, TRUE, <<"encoding">>, p)
  BY FoundWord
<1>2. kind \in {"MIME-Version", "header", "multipart", "encoding", "text", "binary"}
  OBVIOUS
<1> HIDE DEF a
<1>3. Found(exact, b, n, TRUE, <<kind>>, p)
  BY <1>1, <1>2, FoundWord
<1> HIDE DEF b
<1>4. Found(exact, Append(b, "crlf"), n, FALSE, <<kind>>, Append(p, <<n, kind>>))
  <2> DEFINE l == <<kind>>
  <2>1. l[1] = kind /\ kind # "multipart"
    OBVIOUS
  <2> HIDE DEF l
  <2>2. Found(exact, b, n, TRUE, l, p) /\ l[1] # "multipart"
    BY <1>3, <2>1 DEF l
  <2>3. Found(exact, Append(b, "crlf"), n, FALSE, l, Append(p, <<n, l[1]>>))
    BY <2>2, FoundBlank, Zenon
  <2> QED
    BY <2>1, <2>3, Zenon DEF l
<1>5. m \o <<"encoding", "crlf", kind, "crlf", "crlf">> = Append(b, "crlf")
  <2> DEFINE v == "encoding"
             c == "crlf"
  <2>1. m \in Seq(Words) /\ v \in Words /\ c \in Words /\ kind \in Words
    BY <1>2, HeaderWords, SomeWords, Zenon DEF Found
  <2> HIDE DEF v, c
  <2>2. m \o <<v, c, kind, c, c>> = Append((m \o <<v, c>>) \o <<kind, c>>, c)
    BY ONLY <2>1, WordsFive
  <2> QED
    BY <2>2, Zenon DEF a, b, v, c
<1> QED
  BY <1>4, <1>5, Zenon

\* The last delimiter of the multipart the reader is in.
LEMMA FoundClose ==
  ASSUME NEW exact \in BOOLEAN, NEW m, NEW n \in Nat, NEW t, NEW p,
         Found(exact, m, n + 1, FALSE, t, p), exact \/ n + 1 <= 10
  PROVE  Found(exact, m \o Boundary(n) \o <<"--", "crlf">>, n, FALSE, t, p)
<1> DEFINE d == n + 1
           b == Boundary(n)
           l == Close(n)
           c == "crlf"
           e == "--"
<1>1. m \in Seq(Words) /\ Reads(exact, m, Knows(Opens(d), FALSE, t, p), <<>>)
  BY Zenon DEF Found
<1>2. n \in Nat /\ d \in Nat /\ n \in 0 .. d - 1 /\ d - 1 = n /\ (exact \/ d <= 10)
  OBVIOUS
<1>3. /\ l \in Seq(Words \ {"crlf"}) /\ l \in Seq(Words) /\ l[Len(l)] = "--"
      /\ b \in Seq(Words) /\ l = Append(b, e) /\ c \in Words /\ e \in Words
  BY CloseTyped, BoundaryTyped, SomeWords, Zenon DEF Close
<1>4. Hits(exact, l, Opens(d)) = {d}
  <2> HIDE DEF d
  <2>1. \A x \in {Boundary(n), Close(n)} : Hits(exact, x, Opens(d)) = {n + 1}
    BY <1>2, HitsOne
  <2> QED
    BY <2>1, Zenon DEF d
<1>5. SubSeq(Opens(d), 1, d - 1) = Opens(n)
  BY <1>2, OpensTyped, Zenon
<1> HIDE DEF l, d, b, c, e
<1>6. Says(exact, Knows(Opens(d), FALSE, t, p), l, Knows(Opens(n), FALSE, t, p))
  <2>1. Says(exact, Knows(Opens(d), FALSE, t, p), l,
             Knows(SubSeq(Opens(d), 1, d - 1), FALSE, t, p))
    BY <1>2, <1>3, <1>4, ReadsDelimiter, Zenon
  <2> QED
    BY <1>5, <2>1
<1>7. /\ Append(m \o l, c) \in Seq(Words)
      /\ Reads(exact, Append(m \o l, c), Knows(Opens(n), FALSE, t, p), <<>>)
  BY <1>1, <1>3, <1>6, ReadsLine, Zenon DEF c
<1>8. m \o b \o <<e, c>> = Append(m \o l, c)
  <2> DEFINE z == m \o b
  <2>1. z \in Seq(Words) /\ m \o Append(b, e) = Append(z, e)
    BY ONLY <1>1, <1>3, WordsAppend
  <2> HIDE DEF z
  <2>2. z \o <<e, c>> = Append(z \o <<e>>, c)
    BY ONLY <2>1, <1>3, WordsLine
  <2>3. z \o <<e>> = Append(z, e)
    BY ONLY <2>1, <1>3, WordsAppend
  <2> QED
    BY <1>3, <2>1, <2>2, <2>3, Zenon DEF z
<1> QED
  BY <1>7, <1>8, Zenon DEF Found, b, c, e

\* A body of which no line begins like a delimiter, and the end of its last line.
LEMMA FoundBody ==
  ASSUME NEW exact \in BOOLEAN, NEW m, NEW n \in Nat, NEW t, NEW p,
         Found(exact, m, n, FALSE, t, p), NEW b \in Seq(Words),
         \A l \in ToSet(LinesOf(b)), d \in 0 .. n - 1 : ~IsPrefix(Boundary(d), l)
  PROVE  Found(exact, m \o b \o <<"crlf">>, n, FALSE, t, p)
<1> DEFINE r == Knows(Opens(n), FALSE, t, p)
<1>1. m \in Seq(Words) /\ Reads(exact, m, r, <<>>)
  BY Zenon DEF Found
<1>2. ASSUME NEW l \in ToSet(LinesOf(b)) PROVE ReadLine(exact, r, l) = r
  <2>1. LinesOf(b) \in Pieces(Words)
    <3>1. "crlf" \in Words
      BY SomeWords, Zenon
    <3> QED
      BY <3>1, LineTurn, Zenon
  <2>2. l \in Seq(Words)
    <3> DEFINE ls == LinesOf(b)
    <3>1. PICK i \in DOMAIN ls : l = ls[i]
      BY Zenon DEF ToSet
    <3>2. ls \in Seq(Seq(Words))
      BY <2>1, Zenon DEF Pieces
    <3> HIDE DEF ls
    <3>3. i \in 1 .. Len(ls)
      BY <3>1, <3>2, LenProperties, Zenon
    <3> QED
      BY <3>1, <3>2, <3>3, ElementOfSeq, Zenon
  <2>3. \A d \in 0 .. n - 1 : ~IsPrefix(Boundary(d), l)
    BY <1>2
  <2>4. Hits(exact, l, Opens(n)) = {}
    BY <2>2, <2>3, HitsNothing, Zenon
  <2>5. Says(exact, r, l, r)
    BY <2>4, ReadsText, Zenon
  <2> QED
    BY <2>5, Zenon DEF Says
<1> HIDE DEF r
<1>3. /\ m \o b \o <<"crlf">> \in Seq(Words)
      /\ Reads(exact, m \o b \o <<"crlf">>, r, <<>>)
  BY <1>1, <1>2, ReadsBody
<1> QED
  BY <1>3, Zenon DEF Found, r

\* The mail begins with a header of its own.
LEMMA FoundStart ==
  ASSUME NEW exact \in BOOLEAN
  PROVE  \E u : Found(exact, <<"MIME-Version", "crlf">>, 0, TRUE, u, <<>>)
<1>1. Opens(0) = <<>> /\ <<>> \in Seq(Words)
  BY DEF Opens
<1>2. Reads(exact, <<>>, Knows(Opens(0), TRUE, <<>>, <<>>), <<>>)
  BY <1>1, ReadsNothing, Zenon
<1>3. Found(exact, <<>>, 0, TRUE, <<>>, <<>>)
  BY <1>1, <1>2, Zenon DEF Found
<1> DEFINE w == "MIME-Version"
<1>4. w \in {"MIME-Version", "header", "multipart", "encoding", "text", "binary"}
  BY Zenon
<1> HIDE DEF w
<1>5. Found(exact, <<>> \o <<w, "crlf">>, 0, TRUE, <<w>>, <<>>)
  BY <1>3, <1>4, FoundWord
<1>6. <<>> \o <<w, "crlf">> = <<w, "crlf">>
  OBVIOUS
<1> QED
  BY <1>5, <1>6, Zenon DEF w

\* What the whole mail says.
LEMMA FoundAll ==
  ASSUME NEW exact \in BOOLEAN, NEW t, NEW p, Found(exact, mail, 0, FALSE, t, p)
  PROVE  ReadMail(exact).parts = p /\ ReadMail(exact).open = <<>>
<1> DEFINE r == Knows(Opens(0), FALSE, t, p)
<1>1. PICK ls \in Seq(Seq(Words)) : Ended(mail, ls, <<>>) /\ Reading(exact, ls)[Len(ls)] = r
  BY Zenon DEF Found, Reads
<1>2. <<>> \in Seq(Words) /\ Opens(0) = <<>> /\ 0 \in Nat
  BY DEF Opens
<1>3. Says(exact, r, <<>>, r)
  <2>1. Hits(exact, <<>>, Opens(0)) = {}
    BY <1>2, HitsNone, Zenon
  <2> QED
    BY <2>1, ReadsText, Zenon
<1>4. r.parts = p /\ r.open = <<>>
  BY <1>2 DEF Knows
<1> HIDE DEF r
<1> DEFINE z == Append(ls, <<>>)
<1>5. Reading(exact, z)[Len(ls) + 1] = r
  <2>1. Reading(exact, z)[Len(ls) + 1] = ReadLine(exact, Reading(exact, ls)[Len(ls)], <<>>)
    BY <1>2, ReadingMore, Zenon
  <2> QED
    BY <1>1, <1>3, <2>1, Zenon DEF Says
<1>6. Len(z) = Len(ls) + 1
  BY <1>2, AppendProperties, Zenon
<1>7. ReadMail(exact) = r
  BY <1>1, <1>5, <1>6, Zenon DEF ReadMail, Ended
<1> QED
  BY <1>4, <1>7, Zenon

-----------------------------------------------------------------------------
(***************************************************************************)
(* The parts of a mail                                                     *)
(***************************************************************************)

\* The tokens of what an encoder has written are tokens of a mail.
LEMMA BodyTyped ==
  ASSUME Wrapped, Blocks, part \in {"text", "binary"}
  PROVE  Body \in Seq(Words)
<1> DEFINE F(i) == Tokens(out[i])
<1>1. ASSUME NEW c \in Words PROVE <<c>> \in Seq(Words)
  BY <1>1
<1>2. ASSUME NEW c \in Words, NEW e \in Words PROVE <<c, e>> \in Seq(Words)
  BY <1>2
<1>3. <<>> \in Seq(Words)
  OBVIOUS
<1>4. /\ DOMAIN out = 1 .. Len(out) /\ Len(out) \in Nat
      /\ \A i \in 1 .. Len(out) : F(i) \in Seq(Words)
  <2>1. CASE part = "text"
    <3>1. out \in Seq(Symbols)
      BY <2>1, Zenon DEF Wrapped
    <3>2. DOMAIN out = 1 .. Len(out) /\ Len(out) \in Nat
      BY <3>1, LenProperties, Zenon
    <3>3. ASSUME NEW i \in 1 .. Len(out) PROVE F(i) \in Seq(Words)
      <4> DEFINE symbol == out[i]
      <4>1. symbol \in Symbols
        BY <3>1, ElementOfSeq, Zenon
      <4>2. symbol[1] \in {"plain", "escaped", "soft", "crlf"} /\ symbol[2] \in Words
        <5>1. symbol[1] \in {"plain", "escaped", "soft", "crlf"} /\ symbol[2] \in Chars \cup {""}
          BY <4>1, Zenon DEF Symbols
        <5> QED
          BY <5>1, SomeWords, Zenon
      <4>3. part # "binary"
        BY <2>1
      <4> HIDE DEF symbol
      <4>4. CASE symbol[1] = "plain"
        <5>1. Tokens(symbol) = <<symbol[2]>>
          BY <4>3, <4>4 DEF Tokens
        <5> QED
          BY <1>1, <4>2, <5>1, Zenon DEF symbol
      <4>5. CASE symbol[1] = "escaped"
        <5>1. Tokens(symbol) = <<"=XX">>
          BY <4>3, <4>5 DEF Tokens
        <5> QED
          BY <1>1, <5>1, SomeWords, Zenon DEF symbol
      <4>6. CASE symbol[1] = "soft"
        <5>1. Tokens(symbol) = <<"=", "crlf">>
          BY <4>3, <4>6 DEF Tokens
        <5> QED
          BY <1>2, <5>1, SomeWords, Zenon DEF symbol
      <4>7. CASE symbol[1] = "crlf"
        <5>1. Tokens(symbol) = <<"crlf">>
          BY <4>3, <4>7 DEF Tokens
        <5> QED
          BY <1>1, <5>1, SomeWords, Zenon DEF symbol
      <4> QED
        BY <4>2, <4>4, <4>5, <4>6, <4>7
    <3> QED
      BY <3>2, <3>3
  <2>2. CASE part = "binary"
    <3>1. out \in Seq([bytes : Nat, chars : Nat])
      BY <2>2, Zenon DEF Blocks
    <3>2. DOMAIN out = 1 .. Len(out) /\ Len(out) \in Nat
      BY <3>1, LenProperties, Zenon
    <3>3. ASSUME NEW i \in 1 .. Len(out) PROVE F(i) \in Seq(Words)
      <4> DEFINE x == IF out[i].bytes = 0 THEN <<>> ELSE <<"base64">>
      <4>1. F(i) = x \o <<"crlf">>
        BY <2>2 DEF Tokens
      <4>2. x \in Seq(Words) /\ <<"crlf">> \in Seq(Words)
        BY <1>1, <1>3, SomeWords, Zenon
      <4> HIDE DEF x
      <4> QED
        BY <4>1, <4>2, WordsConcat, Zenon
    <3> QED
      BY <3>2, <3>3
  <2> QED
    BY <2>1, <2>2
<1>5. Body = Flat([i \in DOMAIN out |-> F(i)])
  BY Zenon DEF Body
<1>6. [i \in DOMAIN out |-> F(i)] \in Seq(Seq(Words))
  <2> DEFINE S == Seq(Words)
  <2> HIDE DEF S, F
  <2>1. DOMAIN out = 1 .. Len(out) /\ Len(out) \in Nat /\ \A i \in 1 .. Len(out) : F(i) \in S
    BY <1>4 DEF S
  <2>2. [i \in DOMAIN out |-> F(i)] \in Seq(S)
    BY ONLY <2>1
  <2> QED
    BY <2>2 DEF S
<1> HIDE DEF F
<1>7. Flat([i \in DOMAIN out |-> F(i)]) \in Seq(Words)
  BY <1>3, <1>6, FlatAppend
<1> QED
  BY <1>5, <1>7

\* What the reader is to find of the i-th node.
PartOf(t, i) == <<t[i].depth, IF t[i].kind = "multi" THEN "multipart" ELSE t[i].kind>>

\* The parts are those before the i-th, and that.
LEMMA PartsOf ==
  ASSUME tree \in Trees
  PROVE  /\ SubSeq(Parts, 1, 0) = <<>>
         /\ SubSeq(Parts, 1, Len(tree)) = Parts
         /\ \A i \in 1 .. Len(tree) :
              Append(SubSeq(Parts, 1, i - 1), PartOf(tree, i)) = SubSeq(Parts, 1, i)
<1> DEFINE n == Len(tree)
           F(i) == PartOf(tree, i)
           S == {F(i) : i \in 1 .. n}
<1>1. DOMAIN tree = 1 .. n /\ n \in Nat
  BY TreesAssumption, Zenon DEF WellFormed
<1>2. Parts = [i \in DOMAIN tree |-> F(i)]
  BY Zenon DEF Parts, PartOf
<1>3. \A i \in 1 .. n : F(i) \in S
  BY Zenon
<1> HIDE DEF n, F, S
<1> DEFINE u == [i \in 1 .. n |-> F(i)]
<1>4. u \in Seq(S) /\ Len(u) = n /\ \A i \in 1 .. n : u[i] = F(i)
  BY <1>1, <1>3
<1>5. Parts = u
  BY <1>1, <1>2
<1> HIDE DEF u
<1>6. SubSeq(u, 1, 0) = <<>>
  BY <1>4
<1>7. SubSeq(u, 1, n) = u
  BY <1>4, SubSeqFull, Zenon
<1>8. ASSUME NEW i \in 1 .. n PROVE Append(SubSeq(u, 1, i - 1), F(i)) = SubSeq(u, 1, i)
  <2> DEFINE a == SubSeq(u, 1, i - 1)
             b == SubSeq(u, 1, i)
  <2>1. /\ a \in Seq(S) /\ Len(a) = i - 1 /\ \A k \in 1 .. i - 1 : a[k] = u[k]
        /\ b \in Seq(S) /\ Len(b) = i /\ \A k \in 1 .. i : b[k] = u[k]
    BY <1>1, <1>4
  <2>2. F(i) \in S /\ u[i] = F(i)
    BY <1>3, <1>4
  <2> HIDE DEF a, b
  <2>3. Append(a, F(i)) = b
    BY ONLY <1>1, i \in 1 .. n, <2>1, <2>2, SeqEqual
  <2> QED
    BY <2>3 DEF a, b
<1> QED
  BY <1>5, <1>6, <1>7, <1>8, Zenon DEF n, F

\* No number in a boundary has a second digit.
Shallow == \A i \in DOMAIN tree : tree[i].kind = "multi" => tree[i].depth < 10

\* A reader of what there is of the mail has found the first k parts.
Tells(exact, h, k) == \E t : Found(exact, mail, level, h, t, SubSeq(Parts, 1, k))

\* He is in the headers at the beginning only, and behind every header that is written.
Telling ==
  /\ pc = "idle" => at = 1 /\ part = None
  /\ at = 1 => level = 0
  /\ Shallow => level <= 10
  /\ pc \in {"written", "sent"} => part = None /\ level = 0 /\ at = Len(tree) + 1
  /\ pc \in {"writing", "written", "sent"} /\ ~stray =>
       \A exact \in BOOLEAN : exact \/ Shallow =>
         /\ part = None /\ at = 1 => Tells(exact, TRUE, 0)
         /\ part = None /\ at # 1 => Tells(exact, FALSE, at - 1)
         /\ part # None => Tells(exact, FALSE, at)

\* The headers of the next node, and the delimiter before them, can be read after the
\* parts before it.
LEMMA TellsBefore ==
  ASSUME Typed, Telling, ~stray, NEW kinds, AtNode(kinds),
         NEW exact \in BOOLEAN, exact \/ Shallow
  PROVE  \E u : Found(exact, mail \o Before(level) \o Headers(Node.headers), level, TRUE, u,
                      SubSeq(Parts, 1, at - 1))
<1> DEFINE p == SubSeq(Parts, 1, at - 1)
<1>1. /\ tree \in Trees /\ at \in 1 .. Len(tree) /\ level \in Nat /\ pc = "writing"
      /\ part = None /\ tree[at].depth = level
  BY DEF Typed, SendingTyped, AtNode, Node
<1>2. /\ Len(tree) \in Nat /\ tree[1].depth = 0
      /\ \A i \in 2 .. Len(tree) : tree[i].depth \in 1 .. tree[i - 1].depth + 1
      /\ \A i \in 1 .. Len(tree) : tree[i].headers \in Seq(STRING)
  BY <1>1, TreesAssumption, Zenon DEF WellFormed
<1>3. level <= 10 \/ exact
  BY DEF Telling
<1>4. \E t : Found(exact, mail \o Before(level), level, TRUE, t, p)
  <2>1. CASE at = 1
    <3>1. level = 0 /\ at - 1 = 0
      BY <1>1, <1>2, <2>1
    <3>2. PICK t : Found(exact, mail, 0, TRUE, t, SubSeq(Parts, 1, 0))
      <4>1. Tells(exact, TRUE, 0)
        BY <1>1, <2>1, Zenon DEF Telling
      <4> QED
        BY <3>1, <4>1, Zenon DEF Tells
    <3>3. Found(exact, mail \o Before(0), 0, TRUE, t, SubSeq(Parts, 1, 0))
      BY <3>2, FoundRoot, Zenon
    <3> QED
      BY <3>1, <3>3, Zenon
  <2>2. CASE at # 1
    <3> DEFINE n == level - 1
    <3>1. at \in 2 .. Len(tree)
      BY <1>1, <2>2
    <3>2. n \in Nat /\ level = n + 1
      BY <1>1, <1>2, <3>1
    <3> HIDE DEF n
    <3>3. PICK t : Found(exact, mail, level, FALSE, t, p)
      <4>1. Tells(exact, FALSE, at - 1)
        BY <1>1, <2>2, Zenon DEF Telling
      <4> QED
        BY <4>1, Zenon DEF Tells
    <3> HIDE DEF p
    <3>4. Found(exact, mail, n + 1, FALSE, t, p) /\ (exact \/ n + 1 <= 10)
      BY <1>3, <3>2, <3>3
    <3>5. Found(exact, mail \o Before(n + 1), n + 1, TRUE, t, p)
      BY <3>2, <3>4, FoundDelimiter, Zenon
    <3> QED
      BY <3>2, <3>5
  <2> QED
    BY <2>1, <2>2
<1>5. Node.headers \in Seq(STRING)
  BY <1>1, <1>2, Zenon DEF Node
<1> HIDE DEF p
<1>6. PICK t : Found(exact, mail \o Before(level), level, TRUE, t, p)
  BY <1>4
<1>7. \E u : Found(exact, mail \o Before(level) \o Headers(Node.headers), level, TRUE, u, p)
  BY <1>1, <1>5, <1>6, FoundHeaders, Zenon
<1> QED
  BY <1>7 DEF p

\* A multipart that is begun is found.
LEMMA TellsMulti == Typed /\ Telling /\ WriteMulti => Telling'
<1> SUFFICES ASSUME Typed, Telling, WriteMulti PROVE Telling'
  OBVIOUS
<1>1. /\ AtNode({"multi"}) /\ at' = at + 1 /\ level' = level + 1
      /\ mail' = mail \o Before(level) \o Headers(Node.headers)
                   \o <<"multipart">> \o Boundary(level) \o <<"crlf", "crlf">>
      /\ UNCHANGED <<part, tree, pc, stray>>
  BY Zenon DEF WriteMulti, encoding
<1>2. /\ tree \in Trees /\ at \in 1 .. Len(tree) /\ level \in Nat /\ pc = "writing"
      /\ part = None /\ tree[at].depth = level /\ tree[at].kind = "multi"
  BY <1>1 DEF Typed, SendingTyped, AtNode, Node
<1>3. Len(tree) \in Nat /\ DOMAIN tree = 1 .. Len(tree)
  BY <1>2, TreesAssumption, Zenon DEF WellFormed
<1>4. ASSUME NEW exact \in BOOLEAN, exact \/ Shallow, ~stray
      PROVE  Tells(exact, FALSE, at - 1)'
  <2>1. PICK t : Found(exact, mail \o Before(level) \o Headers(Node.headers), level, TRUE, t,
                       SubSeq(Parts, 1, at - 1))
    BY <1>1, <1>4, TellsBefore, Zenon
  <2>2. \E u : Found(exact, mail', level', FALSE, u,
                     Append(SubSeq(Parts, 1, at - 1), <<level, "multipart">>))
    BY <1>1, <1>2, <2>1, FoundMulti, Zenon
  <2>3. Append(SubSeq(Parts, 1, at - 1), <<level, "multipart">>) = SubSeq(Parts, 1, at)
    <3>1. PartOf(tree, at) = <<level, "multipart">>
      BY <1>2, Zenon DEF PartOf
    <3> QED
      BY <1>2, <3>1, PartsOf, Zenon
  <2>4. Parts' = Parts
    BY <1>1, Zenon DEF Parts
  <2>5. at' - 1 = at
    BY <1>1, <1>2
  <2> QED
    BY <2>2, <2>3, <2>4, <2>5, Zenon DEF Tells
<1>5. Shallow' = Shallow
  BY <1>1, Zenon DEF Shallow
<1>6. Shallow => level' <= 10
  BY <1>1, <1>2, <1>3 DEF Shallow
<1>7. at' # 1 /\ part' = None /\ pc' = "writing" /\ stray' = stray
  BY <1>1, <1>2
<1> QED
  BY <1>4, <1>5, <1>6, <1>7, Zenon DEF Telling

\* Another part that is begun is found.
LEMMA TellsSingle == Typed /\ Telling /\ WriteSingle => Telling'
<1> SUFFICES ASSUME Typed, Telling, WriteSingle PROVE Telling'
  OBVIOUS
<1>1. /\ AtNode({"text", "binary"}) /\ part' = Node.kind
      /\ mail' = mail \o Before(level) \o Headers(Node.headers)
                   \o <<"encoding", "crlf", Node.kind, "crlf", "crlf">>
      /\ UNCHANGED <<tree, pc, at, level, stray>>
  BY Zenon DEF WriteSingle, PartStarts
<1>2. /\ tree \in Trees /\ at \in 1 .. Len(tree) /\ level \in Nat /\ pc = "writing"
      /\ tree[at].depth = level /\ Node.kind \in {"text", "binary"}
  BY <1>1 DEF Typed, SendingTyped, AtNode, Node
<1>3. ASSUME NEW exact \in BOOLEAN, exact \/ Shallow, ~stray
      PROVE  Tells(exact, FALSE, at)'
  <2>1. PICK t : Found(exact, mail \o Before(level) \o Headers(Node.headers), level, TRUE, t,
                       SubSeq(Parts, 1, at - 1))
    BY <1>1, <1>3, TellsBefore, Zenon
  <2>2. \E u : Found(exact, mail', level, FALSE, u,
                     Append(SubSeq(Parts, 1, at - 1), <<level, Node.kind>>))
    BY <1>1, <1>2, <2>1, FoundSingle, Zenon
  <2>3. Append(SubSeq(Parts, 1, at - 1), <<level, Node.kind>>) = SubSeq(Parts, 1, at)
    <3>1. Node.kind # "multi"
      BY <1>2
    <3>2. PartOf(tree, at) = <<level, Node.kind>>
      BY <1>2, <3>1, Zenon DEF PartOf, Node
    <3> QED
      BY <1>2, <3>2, PartsOf, Zenon
  <2>4. Parts' = Parts
    BY <1>1, Zenon DEF Parts
  <2> QED
    BY <1>1, <2>2, <2>3, <2>4, Zenon DEF Tells
<1>4. Shallow' = Shallow
  BY <1>1, Zenon DEF Shallow
<1>5. part' # None
  BY <1>1, <1>2, NoneAssumption
<1>6. pc' = "writing" /\ "writing" \notin {"idle", "written", "sent"}
  BY <1>1, <1>2
<1> QED
  BY <1>1, <1>3, <1>4, <1>5, <1>6, Zenon DEF Telling

\* Its body does not disturb the reader, unless a line looks like a delimiter.
LEMMA TellsBody == Typed /\ Wrapped /\ Blocks /\ Telling /\ SingleWritten => Telling'
<1> SUFFICES ASSUME Typed, Wrapped, Blocks, Telling, SingleWritten PROVE Telling'
  OBVIOUS
<1>1. /\ Done /\ mail' = mail \o Body \o <<"crlf">> /\ stray' = (stray \/ HasStray)
      /\ part' = None /\ at' = at + 1
      /\ UNCHANGED <<tree, pc, level>>
  BY Zenon DEF SingleWritten, PartEnds
<1>2. part \in {"text", "binary"} /\ part # None
  BY <1>1, NoneAssumption DEF Done
<1>3. /\ tree \in Trees /\ at \in 1 .. Len(tree) /\ level \in Nat /\ pc = "writing"
      /\ at' # 1 /\ at' - 1 = at
  BY <1>1, <1>2 DEF Typed, SendingTyped
<1>4. ASSUME NEW exact \in BOOLEAN, exact \/ Shallow, ~stray'
      PROVE  Tells(exact, FALSE, at - 1)'
  <2>1. ~stray /\ ~HasStray
    BY <1>1, <1>4
  <2>2. Tells(exact, FALSE, at)
    BY <1>2, <1>3, <1>4, <2>1, Zenon DEF Telling
  <2>3. PICK t : Found(exact, mail, level, FALSE, t, SubSeq(Parts, 1, at))
    BY <2>2, Zenon DEF Tells
  <2>4. Body \in Seq(Words)
    BY <1>2, BodyTyped
  <2>5. \A l \in ToSet(LinesOf(Body)), d \in 0 .. level - 1 : ~IsPrefix(Boundary(d), l)
    BY <2>1, Zenon DEF HasStray
  <2> DEFINE b == Body
  <2> HIDE DEF b
  <2>6. Found(exact, mail \o b \o <<"crlf">>, level, FALSE, t, SubSeq(Parts, 1, at))
    BY <1>3, <2>3, <2>4, <2>5, FoundBody DEF b
  <2>7. Parts' = Parts
    BY <1>1, Zenon DEF Parts
  <2> QED
    BY <1>1, <1>3, <2>6, <2>7, Zenon DEF Tells, b
<1>5. Shallow' = Shallow
  BY <1>1, Zenon DEF Shallow
<1>6. pc' = "writing" /\ "writing" \notin {"idle", "written", "sent"}
  BY <1>1, <1>3
<1>7. Shallow => level <= 10
  BY Zenon DEF Telling
<1> QED
  BY <1>1, <1>3, <1>4, <1>5, <1>6, <1>7, Zenon DEF Telling

\* The last delimiter of a multipart ends that and no other.
LEMMA TellsClose == Typed /\ Telling /\ CloseMulti => Telling'
<1> SUFFICES ASSUME Typed, Telling, CloseMulti PROVE Telling'
  OBVIOUS
<1> DEFINE n == level - 1
<1>1. /\ pc = "writing" /\ part = None /\ level > 0 /\ level' = n
      /\ mail' = mail \o Boundary(n) \o <<"--", "crlf">>
      /\ UNCHANGED <<part, tree, pc, at, stray>>
  BY Zenon DEF CloseMulti, encoding
<1>2. level \in Nat
  BY DEF Typed, SendingTyped
<1>3. n \in Nat /\ level = n + 1 /\ level # 0
  BY <1>1, <1>2
<1>4. at # 1
  BY <1>3, Zenon DEF Telling
<1>5. level <= 10 => n <= 10
  BY <1>2
<1> HIDE DEF n
<1>6. ASSUME NEW exact \in BOOLEAN, exact \/ Shallow, ~stray
      PROVE  Tells(exact, FALSE, at - 1)'
  <2>1. Tells(exact, FALSE, at - 1)
    BY <1>1, <1>4, <1>6, Zenon DEF Telling
  <2> DEFINE p == SubSeq(Parts, 1, at - 1)
  <2>2. PICK t : Found(exact, mail, level, FALSE, t, p)
    BY <2>1, Zenon DEF Tells
  <2> HIDE DEF p
  <2>3. exact \/ level <= 10
    BY <1>6, Zenon DEF Telling
  <2>4. Found(exact, mail, n + 1, FALSE, t, p) /\ (exact \/ n + 1 <= 10)
    BY <1>3, <2>2, <2>3
  <2>5. Found(exact, mail \o Boundary(n) \o <<"--", "crlf">>, n, FALSE, t, p)
    BY <1>3, <2>4, FoundClose, Zenon
  <2>6. Parts' = Parts
    BY <1>1, Zenon DEF Parts
  <2> QED
    BY <1>1, <2>5, <2>6, Zenon DEF Tells, p
<1>7. Shallow' = Shallow
  BY <1>1, Zenon DEF Shallow
<1>8. pc' = "writing" /\ "writing" \notin {"idle", "written", "sent"}
  BY <1>1
<1>9. Shallow => level' <= 10
  BY <1>1, <1>5 DEF Telling
<1> QED
  BY <1>1, <1>4, <1>6, <1>7, <1>8, <1>9, Zenon DEF Telling

\* A mail that is begun tells nothing yet, and the other steps write nothing.
LEMMA TellsAlways == Spec => []Telling
<1>1. Init => Telling
  <2> SUFFICES ASSUME Init PROVE Telling
    OBVIOUS
  <2>1. pc = "idle" /\ at = 1 /\ level = 0 /\ part = None
    BY Zenon DEF Init, NoPart
  <2> QED
    BY <2>1 DEF Telling
<1>2. Typed /\ Wrapped /\ Blocks /\ Telling /\ [Next]_vars => Telling'
  <2> SUFFICES ASSUME Typed, Wrapped, Blocks, Telling, [Next]_vars PROVE Telling'
    OBVIOUS
  <2>1. CASE SendEmail
    <3>1. /\ pc = "idle" /\ pc' = "writing" /\ mail' = <<"MIME-Version", "crlf">>
          /\ UNCHANGED <<part, tree, at, level, stray>>
      BY <2>1, Zenon DEF SendEmail, encoding
    <3>2. at = 1 /\ part = None /\ level = 0 /\ tree \in Trees
      BY <3>1, Zenon DEF Telling, Typed, SendingTyped
    <3>3. ASSUME NEW exact \in BOOLEAN PROVE Tells(exact, TRUE, 0)'
      <4>1. \E u : Found(exact, <<"MIME-Version", "crlf">>, 0, TRUE, u, <<>>)
        BY FoundStart, Zenon
      <4>2. SubSeq(Parts, 1, 0) = <<>> /\ Parts' = Parts
        BY <3>1, <3>2, PartsOf, Zenon DEF Parts
      <4> QED
        BY <3>1, <3>2, <4>1, <4>2, Zenon DEF Tells
    <3>4. pc' = "writing" /\ "writing" \notin {"idle", "written", "sent"} /\ 0 <= 10
      BY <3>1
    <3> QED
      BY <3>1, <3>2, <3>3, <3>4, Zenon DEF Telling
  <2>2. ASSUME UNCHANGED <<part, tree, at, level, mail, stray>>,
               pc' = pc \/ pc' = "threw" \/ ContentWritten \/ SessionSent \/ SessionFails
        PROVE  Telling'
    <3>1. Parts' = Parts /\ Shallow' = Shallow
      BY <2>2, Zenon DEF Parts, Shallow
    <3>2. \A exact, h, k : Tells(exact, h, k)' <=> Tells(exact, h, k)
      BY <2>2, <3>1, Zenon DEF Tells
    <3>3. CASE pc' = pc
      BY <2>2, <3>1, <3>2, <3>3, Zenon DEF Telling
    <3>4. CASE pc' = "threw"
      <4>1. pc' \notin {"idle", "writing", "written", "sent"}
        BY <3>4
      <4> QED
        BY <2>2, <3>1, <4>1, Zenon DEF Telling
    <3>5. CASE ContentWritten
      <4>1. pc = "writing" /\ pc' = "written" /\ part = None /\ level = 0 /\ at > Len(tree)
        BY <3>5, Zenon DEF ContentWritten
      <4>2. at = Len(tree) + 1 /\ pc' # "idle"
        <5>1. Len(tree) \in Nat
          BY TreesAssumption, Zenon DEF WellFormed, Typed, SendingTyped
        <5> QED
          BY <4>1, <5>1 DEF Typed, SendingTyped
      <4> QED
        BY <2>2, <3>1, <3>2, <4>1, <4>2, Zenon DEF Telling
    <3>6. CASE SessionSent \/ SessionFails
      <4>1. pc = "written" /\ pc' \in {"sent", "failed"}
        BY <3>6, Zenon DEF SessionSent, SessionFails
      <4>2. pc' # "idle"
        BY <4>1
      <4> QED
        BY <2>2, <3>1, <3>2, <4>1, <4>2, Zenon DEF Telling
    <3> QED
      BY <2>2, <3>3, <3>4, <3>5, <3>6
  <2>3. CASE Encode
    <3>1. part' = part /\ UNCHANGED <<tree, pc, at, level, mail, session, stray>>
      BY <2>3, Zenon DEF Encode, EncodeStep, DropReturn, NewLine, LiteralSpace, EscapedSpace,
                         Literal, Escaped, EmptyInput, Block, OnTo
    <3> QED
      BY <2>2, <3>1, Zenon
  <2>4. CASE PartThrows \/ ContentWritten \/ SessionSent \/ SessionFails \/ UNCHANGED vars
    BY <2>2, <2>4, Zenon DEF PartThrows, ContentWritten, SessionSent, SessionFails, vars,
       encoding
  <2> QED
    BY <2>1, <2>3, <2>4, TellsMulti, TellsSingle, TellsBody, TellsClose, Zenon DEF Next
<1> QED
  BY <1>1, <1>2, TypedAlways, WrappedAlways, BlocksAlways, PTL DEF Spec

\* Whatever a mail is made of, if no line of a text looks like a delimiter a reader finds
\* its parts again, each in its place, and every multipart is closed; one who looks at how
\* lines begin needs that no number in a boundary has a second digit.
THEOREM PartsAlwaysFound == Spec => []PartsAreFound
<1>1. Typed /\ Telling => PartsAreFound
  <2> SUFFICES ASSUME Typed, Telling, pc \in {"written", "sent"}, ~stray,
                      NEW exact \in BOOLEAN, exact \/ Shallow
               PROVE  ReadMail(exact).parts = Parts /\ ReadMail(exact).open = <<>>
    BY Zenon DEF PartsAreFound, Shallow
  <2>1. part = None /\ level = 0 /\ at = Len(tree) + 1
    BY Zenon DEF Telling
  <2>2. tree \in Trees /\ Len(tree) \in Nat \ {0}
    BY TreesAssumption, Zenon DEF Typed, SendingTyped, WellFormed
  <2>3. at # 1 /\ at - 1 = Len(tree)
    BY <2>1, <2>2
  <2>4. Tells(exact, FALSE, at - 1)
    BY <2>1, <2>3, Zenon DEF Telling
  <2>5. PICK t : Found(exact, mail, 0, FALSE, t, SubSeq(Parts, 1, Len(tree)))
    BY <2>1, <2>3, <2>4, Zenon DEF Tells
  <2>6. SubSeq(Parts, 1, Len(tree)) = Parts
    BY <2>2, PartsOf, Zenon
  <2> QED
    BY <2>5, <2>6, FoundAll, Zenon
<1> QED
  BY <1>1, TypedAlways, TellsAlways, PTL
=============================================================================
