----------------------------- MODULE LogDomains -----------------------------
(***************************************************************************)
(* How a log writer decides from which level on it wants the messages of a *)
(* domain (AbstractLogWriter in icetray/icetray/logger.cpp).               *)
(*                                                                         *)
(* A constructor fills a std::map from domains to levels; the one that     *)
(* reads properties takes "<prefix>.domains.<name>" one by one, in the     *)
(* order Ice::PropertyDict has them, and then "<prefix>.default".  level() *)
(* and lowestLevel() answer from the map.  A character is its code, a      *)
(* string a sequence of characters and a domain a sequence of strings.     *)
(***************************************************************************)
EXTENDS DomainText

CONSTANTS
  Names,    \* the names properties may configure, as a sequence in their order
  Domains,  \* the domains asked about
  Inputs,   \* the strings splitDomain is asked about
  DEBUG,    \* the last LogLevel
  WARNING,  \* the level of a writer without properties
  Bad,      \* a text that is no level's name
  Unset,    \* no such property
  None      \* Ice::None

Levels  == 0 .. DEBUG
Strings == Seq(Nat)

ASSUME LevelsAssumption == /\ DEBUG \in Nat
                           /\ WARNING \in Levels
                           /\ {Bad, Unset, None} \cap Levels = {}
                           /\ Bad # Unset
ASSUME NamesAssumption == Names \in Seq(Strings)
ASSUME DomainsAssumption == Domains \subseteq Seq(Strings) /\ Inputs \subseteq Strings

VARIABLES
  props,       \* props[i]: the text of the property named Names[i]
  default,     \* the text of "<prefix>.default"
  next,        \* the property to read next
  logDomains,  \* the map, as a function on a set of domains
  state        \* "new", "loading", "ready" or "thrown"

vars == <<props, default, next, logDomains, state>>

(***************************************************************************)
(* The order of std::map's keys                                            *)
(***************************************************************************)

\* a comes before b: at the first place where they differ a has ended or is less.
Lexicographic(a, b, less(_, _)) ==
  \E i \in 1 .. Len(b) :
    /\ i <= Len(a) + 1
    /\ \A j \in 1 .. i - 1 : a[j] = b[j]
    /\ i <= Len(a) => less(a[i], b[i])

CharBefore(c, d)   == c < d
StringBefore(s, t) == Lexicographic(s, t, CharBefore)
DomainBefore(d, e) == Lexicographic(d, e, StringBefore)

StartsWith(d, prefix) ==
  Len(prefix) <= Len(d) /\ \A i \in 1 .. Len(prefix) : d[i] = prefix[i]

(***************************************************************************)
(* Answers                                                                 *)
(***************************************************************************)

Matches(map, d) == {k \in DOMAIN map : StartsWith(d, k)}

\* Fault: the search runs forwards.
LastMatchForwards(map, d) ==
  {k \in Matches(map, d) : \A j \in Matches(map, d) : ~DomainBefore(j, k)}

\* find_if(rbegin, rend, ...): the match with no other after it.
LastMatch(map, d) ==
  {k \in Matches(map, d) : \A j \in Matches(map, d) : ~DomainBefore(k, j)}

\* AbstractLogWriter::level
Level(map, d) ==
  IF LastMatch(map, d) = {} THEN None ELSE map[CHOOSE k \in LastMatch(map, d) : TRUE]

\* Fault: the comparison is the wrong way round.
LowestLevelLeast(map) ==
  LET levels == {map[k] : k \in DOMAIN map}
  IN  IF levels = {} THEN None ELSE CHOOSE m \in levels : \A n \in levels : n >= m

\* AbstractLogWriter::lowestLevel: the most detailed level of any domain.
LowestLevel(map) ==
  LET levels == {map[k] : k \in DOMAIN map}
  IN  IF levels = {} THEN None ELSE CHOOSE m \in levels : \A n \in levels : n <= m

(***************************************************************************)
(* Constructors                                                            *)
(***************************************************************************)

Texts == Levels \cup {Bad, Unset}
Empty == [d \in {} |-> 0]

\* Fault: operator[]= in place of insert.
WithOverwrite(map, d, level) ==
  [k \in DOMAIN map \cup {d} |-> IF k = d THEN level ELSE map[k]]

\* std::map::insert: a key that is there keeps its value.
With(map, d, level) ==
  [k \in DOMAIN map \cup {d} |-> IF k \in DOMAIN map THEN map[k] ELSE level]

Init ==
  /\ props \in [1 .. Len(Names) -> Texts]
  /\ default \in Texts
  /\ next = 1
  /\ logDomains = Empty
  /\ state = "new"

\* AbstractLogWriter(): no domain is wanted.
Plain ==
  /\ state = "new"
  /\ state' = "ready"
  /\ UNCHANGED <<props, default, next, logDomains>>

\* AbstractLogWriter(level)
OfLevel(level) ==
  /\ state = "new"
  /\ logDomains' = With(logDomains, <<>>, level)
  /\ state' = "ready"
  /\ UNCHANGED <<props, default, next>>

\* AbstractLogWriter(prefix, p) without a prefix or without properties
NoProperties == OfLevel(WARNING)

\* AbstractLogWriter(prefix, p): the loop over getPropertiesForPrefix begins.
OfProperties ==
  /\ state = "new"
  /\ state' = "loading"
  /\ UNCHANGED <<props, default, next, logDomains>>

\* Fault: a text that is no level's name is kept.
LoadDomainUnchecked ==
  /\ state = "loading"
  /\ next <= Len(Names)
  /\ logDomains' = IF props[next] = Unset THEN logDomains
                   ELSE With(logDomains, SplitDomain(Names[next]), props[next])
  /\ next' = next + 1
  /\ UNCHANGED <<props, default, state>>

\* One property of the loop; an unset one is not in the dictionary.
LoadDomain ==
  /\ state = "loading"
  /\ next <= Len(Names)
  /\ props[next] # Bad
  /\ logDomains' = IF props[next] = Unset THEN logDomains
                   ELSE With(logDomains, SplitDomain(Names[next]), props[next])
  /\ next' = next + 1
  /\ UNCHANGED <<props, default, state>>

\* The default level, for the empty domain.
LoadDefault ==
  /\ state = "loading"
  /\ next > Len(Names)
  /\ default # Bad
  /\ logDomains' = IF default = Unset THEN logDomains ELSE With(logDomains, <<>>, default)
  /\ state' = "ready"
  /\ UNCHANGED <<props, default, next>>

\* lookup throws Slicer::InvalidEnumerationSymbol: there is no writer.
BadLevel ==
  /\ state = "loading"
  /\ IF next <= Len(Names) THEN props[next] = Bad ELSE default = Bad
  /\ state' = "thrown"
  /\ UNCHANGED <<props, default, next, logDomains>>

Next ==
  \/ Plain \/ NoProperties \/ OfProperties \/ LoadDomain \/ LoadDefault \/ BadLevel
  \/ \E level \in Levels : OfLevel(level)

Spec == Init /\ [][Next]_vars

-----------------------------------------------------------------------------
(***************************************************************************)
(* Properties                                                              *)
(***************************************************************************)

\* The variables have their types.
TypeOK ==
  /\ props \in [1 .. Len(Names) -> Texts]
  /\ default \in Texts
  /\ next \in 1 .. Len(Names) + 1
  /\ DOMAIN logDomains \subseteq Seq(Strings)
  /\ \A k \in DOMAIN logDomains : logDomains[k] \in Levels
  /\ state \in {"new", "loading", "ready", "thrown"}

\* The configured domains that contain d and are as long as any that does.
LongestMatch(map, d) ==
  {k \in Matches(map, d) : \A j \in Matches(map, d) : Len(j) <= Len(k)}

\* A backwards search in the order of the map's keys finds the most specific
\* configured domain that contains the one asked about: however the components of
\* the others compare, none that also contains it comes later in the map.
LongestPrefixWins == \A d \in Domains : LastMatch(logDomains, d) = LongestMatch(logDomains, d)

\* What level() says is never more than lowestLevel() says: who filters by the
\* latter loses no message.
LowestLevelBounds ==
  \A d \in Domains : Level(logDomains, d) # None =>
    Level(logDomains, d) <= LowestLevel(logDomains)

\* The index of the first property read so far for domain d.
IsFirstFor(i, d) ==
  /\ i \in 1 .. next - 1
  /\ props[i] # Unset
  /\ SplitDomain(Names[i]) = d
  /\ \A j \in 1 .. i - 1 : props[j] # Unset => SplitDomain(Names[j]) # d

\* Two names may be one domain ("a.b" and "a:b").  The one read first holds, and
\* nothing read is dropped without such a rival.
FirstSettingHolds ==
  state = "loading" =>
    /\ \A i \in 1 .. next - 1 : props[i] # Unset => SplitDomain(Names[i]) \in DOMAIN logDomains
    /\ \A d \in DOMAIN logDomains : \E i \in 1 .. next - 1 :
         IsFirstFor(i, d) /\ logDomains[d] = props[i]

\* splitDomain has no state: one state is enough to look at every input in.
NothingConfigured ==
  state = "new" /\ default = Unset /\ \A i \in DOMAIN props : props[i] = Unset

\* Every string is split into the components it has, and these stay what they are.
SplitIsStable == NothingConfigured => \A s \in Inputs : IsStable(s)
=============================================================================
