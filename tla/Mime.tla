-------------------------------- MODULE Mime --------------------------------
(***************************************************************************)
(* The encodings of mail parts (mimeImpl.cpp in icetray/icetray/): a text  *)
(* goes out quoted-printable, a turn of the loop for every character, and  *)
(* bytes go out in base64, a turn for every block.  Mail, which extends    *)
(* this module, starts and ends the parts.                                 *)
(*                                                                         *)
(* A character is one of: "A" and those of a delimiter, printable; "=" not *)
(* to be written as it is; " " white space; "\n" and "\r".  Of bytes only  *)
(* their number matters.                                                   *)
(***************************************************************************)
EXTENDS Naturals, Sequences, SequencesExt, FiniteSetsExt, Prefixes

CONSTANTS
  Widths, \* the values of maxWidth
  None

Digits == <<"0", "1", "2", "3", "4", "5", "6", "7", "8", "9">>

\* "--//divider//", which begins every delimiter; a character here.
DIVIDER == "D"

Printable == {"A", DIVIDER} \cup {Digits[i] : i \in 1 .. 10}
Chars     == Printable \cup {"=", " ", "\n", "\r"}

\* A line must have room for "=XX", and base64's for a block that is not empty, without
\* which its loop would not end.
ASSUME WidthsAssumption == Widths \subseteq Nat \ (0 .. 2)
ASSUME NoneAssumption == None \notin {"text", "binary"}

VARIABLES
  part,     \* "text" or "binary", None between parts
  maxWidth,
  input,    \* the text; the number of bytes
  next,     \* the index of the character, or the offset of the byte, to write next
  line,     \* quotedPrintable's count of what is in the line
  out       \* what has been written

encoding == <<part, maxWidth, input, next, line, out>>

NoPart == part = None /\ maxWidth = 0 /\ input = 0 /\ next = 0 /\ line = 0 /\ out = <<>>

PartEnds == part' = None /\ maxWidth' = 0 /\ input' = 0 /\ next' = 0 /\ line' = 0 /\ out' = <<>>

\* quotedPrintable or base64 is called.
PartStarts(kind, payload) ==
  /\ part' = kind
  /\ maxWidth' \in Widths
  /\ input' = payload
  /\ next' = IF kind = "text" THEN 1 ELSE 0
  /\ line' = 0
  /\ out' = <<>>

(***************************************************************************)
(* quotedPrintable                                                         *)
(*                                                                         *)
(* out is a sequence of symbols <<form, character>>: a character plain or  *)
(* as "=XX", a soft line break "=\r\n", or the end of a line.              *)
(***************************************************************************)

ch == input[next]

\* *(&ch + 1), for the last character the NUL that ends a std::string.
nextCh == IF next < Len(input) THEN input[next + 1] ELSE "NUL"

\* Fault: a character still fits if only its first place does.
NeedsWrapLate(need) == line >= maxWidth

\* wrapIfNeeded
NeedsWrap(need) == line + need > maxWidth

Places == [plain |-> 1, escaped |-> 3, soft |-> 0, crlf |-> 0]

Put(form) ==
  LET need == Places[form] IN
  /\ out' = out \o IF NeedsWrap(need) THEN <<<<"soft", "">>, <<form, ch>>>> ELSE <<<<form, ch>>>>
  /\ line' = IF NeedsWrap(need) THEN need ELSE line + need

Turn == part = "text" /\ next <= Len(input)

OnTo == next' = next + 1 /\ UNCHANGED <<part, maxWidth, input>>

DropReturn == /\ Turn /\ ch = "\r"
              /\ OnTo /\ UNCHANGED <<line, out>>

\* Fault: the count goes on over the end of the line.
NewLineCounting == /\ Turn /\ ch = "\n"
                   /\ out' = Append(out, <<"crlf", "">>) /\ line' = line + 1
                   /\ OnTo

NewLine == /\ Turn /\ ch = "\n"
           /\ out' = Append(out, <<"crlf", "">>) /\ line' = 0
           /\ OnTo

\* Fault: only "\n" ends a line.
EndsLineByLF(c) == c = "\n"

EndsLine(c) == c \in {"\r", "\n"}

LiteralSpace == /\ Turn /\ ch = " " /\ ~EndsLine(nextCh)
                /\ Put("plain") /\ OnTo

EscapedSpace == /\ Turn /\ ch = " " /\ EndsLine(nextCh)
                /\ Put("escaped") /\ OnTo

Literal == /\ Turn /\ ch \in Printable
           /\ Put("plain") /\ OnTo

Escaped == /\ Turn /\ ch = "="
           /\ Put("escaped") /\ OnTo

(***************************************************************************)
(* base64                                                                  *)
(*                                                                         *)
(* out is a sequence of lines: [bytes, chars].                             *)
(***************************************************************************)

\* Fault: as many bytes as there are places.
BlockSizeFull == maxWidth

BlockSize == (maxWidth * 3) \div 4

\* BIO_write and BIO_flush: three bytes in four characters, a rest is padded.
Encoded(n) == [bytes |-> n, chars |-> 4 * ((n + 2) \div 3)]

EmptyInput == /\ part = "binary" /\ input = 0 /\ out = <<>>
              /\ out' = <<Encoded(0)>>
              /\ UNCHANGED <<part, maxWidth, input, next, line>>

Block == /\ part = "binary" /\ next < input
         /\ out' = Append(out, Encoded(Min({BlockSize, input - next})))
         /\ next' = next + BlockSize
         /\ UNCHANGED <<part, maxWidth, input, line>>

EncodeStep == \/ DropReturn \/ NewLine \/ LiteralSpace \/ EscapedSpace \/ Literal \/ Escaped
              \/ EmptyInput \/ Block

(***************************************************************************)
(* Properties                                                              *)
(***************************************************************************)

Done == CASE part = "text"   -> next > Len(input)
          [] part = "binary" -> next >= input /\ out # <<>>
          [] OTHER           -> FALSE

\* Every variable has its type; the count is that of the places taken in the line.
EncodingTypeOK ==
  /\ part \in {"text", "binary", None}
  /\ part # None => maxWidth \in Widths
  /\ part = "text" => /\ next \in 1 .. Len(input) + 1
                      /\ line \in 0 .. maxWidth
  /\ part = "binary" => next \in 0 .. input + BlockSize

\* The places that the first i symbols take, without the "=" of soft breaks.
Taken(symbols) == Sums([i \in DOMAIN symbols |-> Places[symbols[i][1]]])

Ends(symbol) == symbol[1] \in {"soft", "crlf"}

\* The i-th symbol is in the line that starts after the s-th.
InLine(symbols, s, i) == /\ s = 0 \/ Ends(symbols[s])
                         /\ \A j \in s + 1 .. i - 1 : ~Ends(symbols[j])

\* No line that quotedPrintable writes is longer than the width allows, "=" of the soft
\* break not counted, and none is broken that has room for the next character.
LinesFit ==
  part = "text" =>
    \A i \in 1 .. Len(out), s \in 0 .. Len(out) :
      s < i /\ InLine(out, s, i) =>
        LET places == Taken(out)[i] - Taken(out)[s]
        IN  /\ places <= maxWidth
            /\ i < Len(out) /\ out[i][1] = "soft" => places + Places[out[i + 1][1]] > maxWidth

White(symbol) == symbol = <<"plain", " ">>

\* White space at the end of a line.
IsLost(symbols, i) ==
  \E j \in i + 1 .. Len(symbols) : /\ symbols[j][1] = "crlf"
                                   /\ \A k \in i .. j - 1 : White(symbols[k])

\* What a reader of quoted-printable makes of it: white space as it is at the end of a
\* line is not the sender's, soft breaks are dropped.
Read(symbols) ==
  Picks([i \in DOMAIN symbols |-> IF symbols[i][1] = "crlf" THEN "\n" ELSE symbols[i][2]],
        {i \in DOMAIN symbols : symbols[i][1] # "soft" /\ ~IsLost(symbols, i)})[Len(symbols)]

WithoutReturns(text) == Picks(text, {i \in DOMAIN text : text[i] # "\r"})

\* Reading a part that TextPart::write has written, which ends the last line, gives the
\* text that was sent, white space before line ends included; only returns are lost.
\* (A text that itself ends in white space loses that.)
ReadsAsSent ==
  part = "text" /\ Done /\ (input # <<>> => Last(input) # " ") =>
    Read(Append(out, <<"crlf", "">>)) = Append(WithoutReturns(input)[Len(input)], "\n")

\* What a whole line of base64 holds needs no padding: so it is if the width, or the width
\* less one, is a multiple of four.
WholeGroups == BlockSize % 3 = 0

\* Then the lines of base64 fit, and only the last may be padded.  (With another width
\* each of them is, and too long.)
BlocksFit ==
  part = "binary" /\ WholeGroups =>
    /\ \A i \in 1 .. Len(out) : out[i].chars <= maxWidth
    /\ \A i \in 1 .. Len(out) - 1 : out[i].bytes % 3 = 0

\* Of any width the lines hold every byte, and with one for whole groups they are one
\* encoding of the whole, not several.
OneEncoding ==
  /\ BlocksFit
  /\ part = "binary" /\ Done => Sums([i \in DOMAIN out |-> out[i].bytes])[Len(out)] = input
=============================================================================
