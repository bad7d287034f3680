---------------------------- MODULE MCLogDomains ----------------------------
(***************************************************************************)
(* LogDomains with names of characters 'a', 'b', '.' and ':'.              *)
(***************************************************************************)
EXTENDS LogDomains, FiniteSets

a == 97
b == 98

\* "", "a", "a-", "a.b", "a:b" and "b" in the order of std::string ('-' is 45)
MCNames == << <<>>, <<a>>, <<a, 45>>, <<a, 46, b>>, <<a, 58, b>>, <<b>> >>
MCDomains == {<<>>} \cup {<<s>> : s \in {<<>>, <<a>>, <<a, 45>>, <<b>>}}
             \cup {<<s, t>> : s \in {<<a>>, <<b>>}, t \in {<<a>>, <<b>>}}
             \cup {<< <<a>>, <<b>>, <<a>> >>}

MCInputs == UNION {[1 .. n -> {a, 46, 58}] : n \in 0 .. 5}

ASSUME NamesSorted ==
  \A i, j \in 1 .. Len(Names) : i < j => StringBefore(Names[i], Names[j])
=============================================================================
