-------------------------------- MODULE Mail --------------------------------
(***************************************************************************)
(* LibesmtpMailServer::sendEmail (mailServer.cpp in icetray/icetray/) and  *)
(* the writing of the parts it sends (mimeImpl.cpp), down to the turns of  *)
(* the encoders in Mime.  libesmtp is external.                            *)
(*                                                                         *)
(* The tree of parts is the sequence of its nodes, parents before their    *)
(* children, each with its depth: the recursion of write() walks along it, *)
(* and the multiparts that are open are as many as level says.             *)
(* What is written is a sequence of tokens: a header line's name, a        *)
(* character of a body, or "crlf".                                         *)
(***************************************************************************)
EXTENDS Mime

CONSTANT Trees \* the mails: sequences of [depth, kind, headers, payload]

\* A part below the root is one deeper than the multipart it is in.  "other" parts are
\* classes of a program of their own.
WellFormed(t) ==
  /\ DOMAIN t = 1 .. Len(t) /\ Len(t) \in Nat \ {0}
  /\ t[1].depth = 0
  /\ \A i \in 2 .. Len(t) :
       /\ t[i].depth \in 1 .. t[i - 1].depth + 1
       /\ t[i].depth = t[i - 1].depth + 1 => t[i - 1].kind = "multi"
  /\ \A i \in 1 .. Len(t) :
       /\ t[i].kind \in {"multi", "text", "binary", "other"}
       /\ t[i].depth \in Nat /\ t[i].headers \in Seq(STRING)
       /\ t[i].kind = "text" => t[i].payload \in Seq(Chars)
       /\ t[i].kind = "binary" => t[i].payload \in Nat

ASSUME TreesAssumption == \A t \in Trees : WellFormed(t)

VARIABLES
  tree,
  pc,      \* where sendEmail is: "idle", "writing", "written", "sent", "failed", "threw"
  at,      \* the node to write next
  level,   \* how many multiparts are open
  mail,    \* the tokens in the MemStream
  session, \* libesmtp's: "none", "open", "destroyed"
  stray    \* for the properties: whether a line of a text begins like a delimiter

vars == <<encoding, tree, pc, at, level, mail, session, stray>>

Init ==
  /\ NoPart
  /\ tree \in Trees
  /\ pc = "idle"
  /\ at = 1
  /\ level = 0
  /\ mail = <<>>
  /\ session = "none"
  /\ stray = FALSE

(***************************************************************************)
(* What is written                                                         *)
(***************************************************************************)

\* "%d" of a depth.
Number(d) ==
  LET number[n \in 0 .. d] == IF n < 10 THEN <<Digits[n + 1]>>
                              ELSE Append(number[n \div 10], Digits[(n % 10) + 1])
  IN  number[d]

\* Fault: every multipart has the same boundary.
SameBoundary(d) == <<DIVIDER, "0">>

Boundary(d) == <<DIVIDER>> \o Number(d)

\* PartHelper::writeHeaders
Headers(headers) ==
  Flat([i \in DOMAIN headers |-> IF headers[i] = "" THEN <<>> ELSE <<"header", "crlf">>])

\* The delimiter before a part that is in a multipart.
Before(d) == IF d = 0 THEN <<>> ELSE Boundary(d - 1) \o <<"crlf">>

\* What the encoders have written.
Tokens(symbol) ==
  IF part = "binary" THEN (IF symbol.bytes = 0 THEN <<>> ELSE <<"base64">>) \o <<"crlf">>
  ELSE CASE symbol[1] = "plain"   -> <<symbol[2]>>
         [] symbol[1] = "escaped" -> <<"=XX">>
         [] symbol[1] = "soft"    -> <<"=", "crlf">>
         [] symbol[1] = "crlf"    -> <<"crlf">>

Body == Flat([i \in DOMAIN out |-> Tokens(out[i])])

LinesOf(tokens) == LET breaks == {i \in DOMAIN tokens : tokens[i] = "crlf"}
                   IN  Splits(tokens, breaks, breaks)[Len(tokens)]

\* A line of the body, soft line breaks make one, begins like the delimiter of a
\* multipart the part is in.
HasStray == \E l \in ToSet(LinesOf(Body)), d \in 0 .. level - 1 : IsPrefix(Boundary(d), l)

(***************************************************************************)
(* sendEmail                                                               *)
(***************************************************************************)

Node == tree[at]

\* The next node is to be written, in the multipart that is open.
AtNode(kinds) == /\ pc = "writing" /\ part = None
                 /\ at <= Len(tree) /\ Node.depth = level /\ Node.kind \in kinds

\* The session is created; writeEmailContent begins.
SendEmail ==
  /\ pc = "idle"
  /\ session' = "open"
  /\ mail' = <<"MIME-Version", "crlf">>
  /\ pc' = "writing"
  /\ UNCHANGED <<encoding, tree, at, level, stray>>

\* MultiPart::write, up to its loop.
WriteMulti ==
  /\ AtNode({"multi"})
  /\ mail' = mail \o Before(level) \o Headers(Node.headers)
                  \o <<"multipart">> \o Boundary(level) \o <<"crlf", "crlf">>
  /\ at' = at + 1
  /\ level' = level + 1
  /\ UNCHANGED <<encoding, tree, pc, session, stray>>

\* TextPart::write and BinaryViewPart::write, up to the call of the encoder.
WriteSingle ==
  /\ AtNode({"text", "binary"})
  /\ mail' = mail \o Before(level) \o Headers(Node.headers)
                  \o <<"encoding", "crlf", Node.kind, "crlf", "crlf">>
  /\ PartStarts(Node.kind, Node.payload)
  /\ UNCHANGED <<tree, pc, at, level, session, stray>>

Encode == EncodeStep /\ UNCHANGED <<tree, pc, at, level, mail, session, stray>>

\* The "\r\n" with which both writes end.
SingleWritten ==
  /\ Done
  /\ mail' = mail \o Body \o <<"crlf">>
  /\ stray' = (stray \/ HasStray)
  /\ PartEnds
  /\ at' = at + 1
  /\ UNCHANGED <<tree, pc, level, session>>

\* MultiPart::write, after its loop.
CloseMulti ==
  /\ pc = "writing" /\ part = None /\ level > 0
  /\ at <= Len(tree) => Node.depth < level
  /\ mail' = mail \o Boundary(level - 1) \o <<"--", "crlf">>
  /\ level' = level - 1
  /\ UNCHANGED <<encoding, tree, pc, at, session, stray>>

\* write() of a program's own part throws: nobody destroys the session.
PartThrows ==
  /\ AtNode({"other"})
  /\ pc' = "threw"
  /\ UNCHANGED <<encoding, tree, at, level, mail, session, stray>>

ContentWritten ==
  /\ pc = "writing" /\ part = None /\ level = 0 /\ at > Len(tree)
  /\ pc' = "written"
  /\ UNCHANGED <<encoding, tree, at, level, mail, session, stray>>

\* smtp_start_session: the server takes the mail; the session is destroyed at the end of
\* sendEmail.
SessionSent ==
  /\ pc = "written"
  /\ pc' = "sent"
  /\ session' = "destroyed"
  /\ UNCHANGED <<encoding, tree, at, level, mail, stray>>

\* It does not: the session is destroyed where SendEmailFailed is thrown.
SessionFails ==
  /\ pc = "written"
  /\ pc' = "failed"
  /\ session' = "destroyed"
  /\ UNCHANGED <<encoding, tree, at, level, mail, stray>>

Next == \/ SendEmail \/ WriteMulti \/ WriteSingle \/ Encode \/ SingleWritten \/ CloseMulti
        \/ PartThrows \/ ContentWritten \/ SessionSent \/ SessionFails

Spec == Init /\ [][Next]_vars

(***************************************************************************)
(* Properties                                                              *)
(***************************************************************************)

\* Every variable has its type, the encoder's as well; the multiparts that are open are
\* those above the next part.
TypeOK ==
  /\ EncodingTypeOK
  /\ tree \in Trees
  /\ pc \in {"idle", "writing", "written", "sent", "failed", "threw"}
  /\ at \in 1 .. Len(tree) + 1
  /\ level \in Nat
  /\ at <= Len(tree) => Node.depth <= level
  /\ session \in {"none", "open", "destroyed"}
  /\ stray \in BOOLEAN

\* The boundaries that l is a delimiter of, to a reader who is exact and wants the whole
\* line, or to one who, as RFC 2046 has it, looks at how it begins.
Hits(exact, l, boundaries) ==
  {k \in DOMAIN boundaries : IF exact THEN l \in {boundaries[k], Append(boundaries[k], "--")}
                             ELSE IsPrefix(boundaries[k], l)}

\* A reader of the mail that knows of a multipart what its Content-Type says: the
\* boundaries that are open, whether it reads headers, what they say, and the parts.
ReadLine(exact, r, l) ==
  LET hits == Hits(exact, l, r.open)
      k    == Min(hits)
  IN  CASE hits # {} /\ Last(l) = "--" -> [r EXCEPT !.open = SubSeq(@, 1, k - 1), !.head = FALSE]
        [] hits # {} /\ Last(l) # "--" -> [r EXCEPT !.open = SubSeq(@, 1, k), !.head = TRUE]
        [] hits = {} /\ ~r.head        -> r
        [] hits = {} /\ r.head /\ l = <<>> ->
             [r EXCEPT !.head = FALSE, !.parts = Append(@, <<Len(r.open), r.type[1]>>),
                       !.open = IF r.type[1] = "multipart" THEN Append(@, Tail(r.type)) ELSE @]
        [] OTHER -> [r EXCEPT !.type = l]

\* What it knows after the first n lines.
Reading(exact, ls) ==
  LET read[n \in 0 .. Len(ls)] ==
        IF n = 0 THEN [open |-> <<>>, head |-> TRUE, type |-> <<>>, parts |-> <<>>]
        ELSE ReadLine(exact, read[n - 1], ls[n])
  IN  read

ReadMail(exact) == LET ls == LinesOf(mail) IN Reading(exact, ls)[Len(ls)]

\* The parts of the tree; each one's children are the next of greater depth.
Parts == [i \in DOMAIN tree |-> <<tree[i].depth, IF tree[i].kind = "multi" THEN "multipart"
                                                 ELSE tree[i].kind>>]

\* If no line of a text looks like a delimiter, multiparts and the parts in them are found
\* again, each in its place, and every multipart is closed: by a reader who compares
\* lines at any depth, by one who compares the beginnings of lines if there are no more
\* than ten levels of multiparts.
PartsAreFound ==
  pc \in {"written", "sent"} /\ ~stray =>
    \A exact \in BOOLEAN :
      exact \/ (\A i \in DOMAIN tree : tree[i].kind = "multi" => tree[i].depth < 10) =>
        ReadMail(exact).parts = Parts /\ ReadMail(exact).open = <<>>
=============================================================================
