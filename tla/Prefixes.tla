------------------------------ MODULE Prefixes ------------------------------
(***************************************************************************)
(* What a loop over a sequence has added up or put aside after each of its *)
(* turns: functions of the number of elements it has come past.  (They are *)
(* recursive functions, which can be reasoned about; PrefixesProof has the *)
(* lemmas.)                                                                *)
(***************************************************************************)
EXTENDS Naturals, Sequences

\* The sums of the first i numbers of s.
Sums(s) ==
  LET sum[i \in 0 .. Len(s)] == IF i = 0 THEN 0 ELSE sum[i - 1] + s[i]
  IN  sum

\* The elements at the places in S among the first i of s, in their order.
Picks(s, S) ==
  LET pick[i \in 0 .. Len(s)] == IF i = 0 THEN <<>>
                                 ELSE IF i \in S THEN Append(pick[i - 1], s[i])
                                 ELSE pick[i - 1]
  IN  pick

\* The first i sequences of d one after the other, sep between them.
Joins(d, sep) ==
  LET join[i \in 0 .. Len(d)] == IF i = 0 THEN <<>>
                                 ELSE IF i = 1 THEN d[1]
                                 ELSE join[i - 1] \o sep \o d[i]
  IN  join

\* All of them, with nothing between.
Flat(d) == Joins(d, <<>>)[Len(d)]

\* What the first i elements of s are split into, if those at the places in E end a piece,
\* and neither these nor those at the places in D are kept.
Splits(s, E, D) ==
  LET split[i \in 0 .. Len(s)] ==
        LET d == split[i - 1] IN
        IF i = 0 THEN << <<>> >>
        ELSE IF i \in E THEN Append(d, <<>>)
        ELSE IF i \in D THEN d
        ELSE [d EXCEPT ![Len(d)] = Append(@, s[i])]
  IN  split
=============================================================================
