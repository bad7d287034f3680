----------------------------- MODULE DomainText -----------------------------
(***************************************************************************)
(* AbstractLogWriter::splitDomain in icetray/icetray/logger.cpp: a string  *)
(* becomes a domain.  A character is its code, a string a sequence of      *)
(* characters.                                                             *)
(***************************************************************************)
EXTENDS Prefixes

Separators == {46, 58}  \* '.' and ':'

\* Fault: each separator ends a component.
EndsUncompressed(s) == {i \in DOMAIN s : s[i] \in Separators}

\* token_compress_on: the first of a run of separators ends a component.
Ends(s) == {i \in DOMAIN s : s[i] \in Separators /\ (i = 1 \/ s[i - 1] \notin Separators)}

\* boost::split by any of ".:"; the empty string has no component at all.
SplitDomain(s) ==
  IF s = <<>> THEN <<>>
  ELSE Splits(s, Ends(s), {i \in DOMAIN s : s[i] \in Separators})[Len(s)]

-----------------------------------------------------------------------------
(***************************************************************************)
(* Properties                                                              *)
(***************************************************************************)

\* The components of d with '.' between them.
Joined(d) == Joins(d, <<46>>)[Len(d)]

\* Splitting s gives components without separators of which only the first and last may
\* be empty, keeps every other character in its order, and joining the components by '.'
\* and splitting again changes nothing.
IsStable(s) ==
  LET d == SplitDomain(s) IN
  /\ \A i \in DOMAIN d : \A j \in DOMAIN d[i] : d[i][j] \notin Separators
  /\ \A i \in 2 .. Len(d) - 1 : d[i] # <<>>
  /\ Flat(d) = Picks(s, {i \in DOMAIN s : s[i] \notin Separators})[Len(s)]
  /\ Len(d) > 1 => SplitDomain(Joined(d)) = d
=============================================================================
