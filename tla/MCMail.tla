------------------------------- MODULE MCMail -------------------------------
(***************************************************************************)
(* Mails for TLC: a part alone with any short text or number of bytes;     *)
(* small trees whose texts may hold a delimiter; and chains of multiparts, *)
(* with and without a part after the last of them, so deep that the number *)
(* in a delimiter just has one digit or has two.                           *)
(***************************************************************************)
EXTENDS Mail

CONSTANTS
  MaxLength, \* bound: characters of a text alone
  MaxNested, \* bound: characters of a text in a multipart
  MaxBytes,  \* bound: bytes of a part
  Levels     \* bounds: of the chains

Texts(chars, max) == UNION {[1 .. n -> chars] : n \in 0 .. max}

Part(d, kind, payload) ==
  [depth |-> d, kind |-> kind, headers |-> <<"", "v">>, payload |-> payload]
Multi(d) == Part(d, "multi", <<>>)

Alone == {<<Part(0, "text", t)>> : t \in Texts({"A", "=", " ", "\n", "\r"}, MaxLength)}
         \cup {<<Part(0, "binary", n)>> : n \in 0 .. MaxBytes}

Nested == UNION {{<<Multi(0), Part(1, "text", t), Part(1, "binary", 4)>>,
                  <<Multi(0), Multi(1), Part(2, "text", t), Multi(1), Part(1, "text", t)>>,
                  <<Multi(0), Multi(1), Part(2, "binary", 0), Part(2, "text", t),
                    Part(1, "other", 0)>>}
                 : t \in Texts({"A", DIVIDER, "0", "1", "\n"}, MaxNested)}

Chain(n) == [i \in 1 .. n |-> Multi(i - 1)]

MCTrees == Alone \cup Nested \cup {Chain(n) : n \in Levels}
           \cup {Append(Chain(n), Part(d, "text", <<"A">>)) : n \in Levels, d \in {1, 10}}
=============================================================================
