---------------------------- MODULE DomainFormat ----------------------------
(***************************************************************************)
(* AbstractLogWriter::writeDomain in icetray/icetray/logger.cpp: a domain  *)
(* is written with '.' between its components, and components are cut to   *)
(* their first character, from the left, while what is left does not fit   *)
(* the width.  Only the lengths of the components matter.  Sizes are       *)
(* size_t: they wrap around.  LogLines, which extends this module, has the *)
(* writers that call it.                                                   *)
(***************************************************************************)
EXTENDS Naturals, Sequences, Prefixes

CONSTANTS
  NPos,          \* std::string::npos, the greatest size_t
  MaxComponents, \* bound: components of a domain
  MaxLength,     \* bound: characters of a component
  MaxWidth,      \* bound: width asked for
  NoWidth        \* std::nullopt

ASSUME SizesAssumption == /\ {NPos, MaxComponents, MaxLength, MaxWidth} \subseteq Nat
                          /\ MaxWidth < NPos /\ MaxComponents * (MaxLength + 1) < NPos
                          /\ NoWidth \notin Nat

VARIABLES
  lengths, \* the domain
  width,   \* the width asked for
  di,      \* the component to write next
  target,  \* what is left of the width
  cut      \* cut[i]: whether component i was cut to its first character

format == <<lengths, width, di, target, cut>>

Size(n) == n % (NPos + 1)

\* Fault: the difference is not reduced.
MinusWide(m, n) == m + (NPos + 1) - n

Minus(m, n) == Size(m + (NPos + 1) - n)

Nothing == lengths = <<>> /\ width = NoWidth /\ di = 1 /\ target = 0 /\ cut = <<>>

Domains == UNION {[1 .. n -> 0 .. MaxLength] : n \in 0 .. MaxComponents}

\* writeDomain is called.
WriteDomain(w, domain) ==
  /\ lengths' = domain
  /\ width' = w
  /\ di' = 1
  /\ target' = IF w = NoWidth THEN 0 ELSE w
  /\ cut' = <<>>

\* The sum of 1 + length over the components from i on.
RestFrom(i) ==
  LET sums == Sums([j \in DOMAIN lengths |-> 1 + lengths[j]])
  IN  sums[Len(lengths)] - sums[i - 1]

\* Fault: the separator is counted for the first component as well.
TotalFrom0(i) == Size(RestFrom(i))

\* total: what the components from i on take in full.  The first has no separator
\* before it: its sum starts at npos, which is -1.
Total(i) == Size((IF i = 1 THEN NPos ELSE 0) + RestFrom(i))

\* Fault: the separator of a cut component is forgotten.
TakenForgetful(i, short) == (IF i = 1 \/ short THEN 0 ELSE 1) + (IF short THEN 1 ELSE lengths[i])

\* The characters written for component i; a cut one is front(), even of "".
Taken(i, short) == (IF i = 1 THEN 0 ELSE 1) + (IF short THEN 1 ELSE lengths[i])

\* No width: every component in full.
WriteAll ==
  /\ width = NoWidth
  /\ di <= Len(lengths)
  /\ cut' = Append(cut, FALSE)
  /\ di' = di + 1
  /\ UNCHANGED <<lengths, width, target>>

\* One turn of the loop.
WriteComponent ==
  LET short == Total(di) > target IN
  /\ width # NoWidth
  /\ di <= Len(lengths)
  /\ cut' = Append(cut, short)
  /\ target' = Minus(target, Taken(di, short))
  /\ di' = di + 1
  /\ UNCHANGED <<lengths, width>>

-----------------------------------------------------------------------------
(***************************************************************************)
(* Properties                                                              *)
(***************************************************************************)

\* The variables have their types; a component is written after the other.
FormatTypeOK ==
  /\ lengths \in Seq(Nat)
  /\ width \in 0 .. MaxWidth \cup {NoWidth}
  /\ di \in 1 .. Len(lengths) + 1
  /\ target \in 0 .. NPos
  /\ cut \in Seq(BOOLEAN) /\ Len(cut) = di - 1

Written == di > Len(lengths)

\* Length of the text when the components in S are cut.
TextLength(S) ==
  Sums([j \in DOMAIN lengths |->
          (IF j = 1 THEN 0 ELSE 1) + (IF j \in S THEN 1 ELSE lengths[j])])[Len(lengths)]

Cut == {i \in DOMAIN cut : cut[i]}

\* Each component can have one character and each separator its place.
WideEnough == width # NoWidth /\ width + 1 >= 2 * Len(lengths)

\* Cutting one component after the other, with what the ones before have left, gives
\* a text that fits whenever cutting every one would.
FitsTheWidth == Written /\ WideEnough => TextLength(Cut) <= width

\* No more is cut than has to be: the cut components come first, and with the last
\* of them in full the text would not fit.  In a width too small even for components cut
\* to one character, those that are reached while some of it is left are cut.  (After
\* that target wraps around, and the rest is written in full.)
CutsNoMoreThanNeeded ==
  Written /\ width # NoWidth =>
    IF WideEnough
    THEN /\ \E k \in 0 .. Len(cut) : Cut = 1 .. k
         /\ \A i \in Cut : i + 1 \notin Cut => TextLength(Cut \ {i}) > width
    ELSE 0 \notin {lengths[i] : i \in DOMAIN lengths} =>
           \A i \in DOMAIN lengths : i = 1 \/ 2 * i <= width + 3 => cut[i]
=============================================================================
