----------------------------- MODULE MCService -----------------------------
(***************************************************************************)
(* Instances of Service for TLC: one service that adds an object and a     *)
(* plugin, and one that adds nothing to the cube, so that it can be        *)
(* started again after a stop.  Writers' factories, DryIce objects and     *)
(* clients are interchangeable.                                            *)
(***************************************************************************)
EXTENDS Service, FiniteSets, TLC

CONSTANTS s1, s2, test, plugin

MCAdds   == [s \in Services |-> IF s = s1 THEN <<test, plugin>> ELSE <<>>]
MCTypeOf == [n \in Names |-> IF n = plugin THEN "Cube" ELSE "Prx"]

Interchangeable == Permutations(Factories) \cup Permutations(DryIces) \cup Permutations(Clients)

\* Bound: while two services are alive, which takes a build without assertions and no
\* Options, there is no more than one client.
FewClients ==
  \/ Cardinality({s \in Services : stage[s] \notin {"none", "gone", "lost"}}) <= 1
  \/ Cardinality({k \in Clients : clients[k] # None}) <= 1
=============================================================================
