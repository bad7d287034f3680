-------------------------------- MODULE Sql ---------------------------------
(***************************************************************************)
(* A script on its way from the SQL precompiler (icetraySql.cpp in         *)
(* icetray/tool/) over the generated StaticSqlSource (staticSqlSource.cpp  *)
(* in icetray/icetray/) to the command that a program makes with it        *)
(* (sqlSource.cpp).  The C++ compiler and libdbpp are external.            *)
(*                                                                         *)
(* A line is <<kind, text>>: "sql", or a comment for libdbpp that names    *)
(* its "connector" or has an "option".                                     *)
(***************************************************************************)
EXTENDS Naturals, Sequences, SequencesExt, Prefixes

CONSTANTS
  Statements, \* the texts of SQL lines, "" among them
  Connectors, \* the connectors a line or the command line may name; "" is none
  Options,    \* <<key, value>>, the value "" for one that has no ":"
  Loaded,     \* the connectors whose CommandOptions the program has
  Namespaces, \* the parts of --namespace; <<"">> without it
  Folders,    \* the directories from --basedir to the script
  MaxLines,   \* bound: lines of a script
  MaxJunk     \* bound: lines written for a stream that cannot be read

ASSUME TextsAssumption == "" \in Statements \cap Connectors /\ "" \notin Loaded
ASSUME BoundsAssumption == {MaxLines, MaxJunk} \subseteq Nat

FileLines == ({"sql"} \X Statements) \cup ({"connector"} \X Connectors) \cup ({"option"} \X Options)

VARIABLES
  file,       \* the script
  ended,      \* whether its last line ends in a newline
  readable,   \* whether its stream is good
  phase,      \* "reading", "compiled", and then "unlinked", "terminated" or "used"
  pos,        \* the line to read next
  sqlnsparts,
  given,      \* --connector
  connector,
  map,        \* the initialiser written so far: the options in the order of their lines
  text,       \* the literal so far
  command     \* what the program makes: [sql, connector, options], the last a map

input == <<file, ended, readable, given, sqlnsparts>>
vars  == <<input, phase, pos, connector, map, text, command>>

NoCommand == [sql |-> <<>>, connector |-> "", options |-> <<>>]

\* The arguments are stored; sqlnsparts is split and the folders are appended.
Init ==
  /\ \E n \in 0 .. MaxLines : file \in [1 .. n -> FileLines]
  /\ ended \in IF file = <<>> \/ Last(file) = <<"sql", "">> THEN {TRUE} ELSE BOOLEAN
  /\ readable \in IF file = <<>> THEN BOOLEAN ELSE {TRUE}
  /\ given \in Connectors
  /\ \E ns \in Namespaces, dir \in Folders : sqlnsparts = ns \o dir
  /\ phase = "reading"
  /\ pos = 1
  /\ connector = given
  /\ map = <<>>
  /\ text = <<>>
  /\ command = NoCommand

(***************************************************************************)
(* The precompiler's loop                                                  *)
(***************************************************************************)

\* Fault: the loop waits for a newline.
EofAtNewline == pos > Len(file) /\ ended

\* The lines before getline comes to the end of the file: a last line without a newline
\* is not one, and is lost.
Lines == IF ended THEN Len(file) ELSE Len(file) - 1

Eof == pos > Lines

Reads(kind) == /\ phase = "reading" /\ readable /\ ~Eof
               /\ pos <= Len(file) /\ file[pos][1] = kind

OnTo == pos' = pos + 1 /\ UNCHANGED <<input, phase, command>>

\* Fault: the comment's whole text is taken.
SetConnectorWhole == /\ Reads("connector")
                     /\ connector' = "-- libdbpp-" \o file[pos][2]
                     /\ OnTo /\ UNCHANGED <<map, text>>

SetConnector == /\ Reads("connector")
                /\ connector' = file[pos][2]
                /\ OnTo /\ UNCHANGED <<map, text>>

\* Fault: options before the line that names the connector are dropped.
KeptIfConnector == IF connector = "" THEN map ELSE Append(map, file[pos][2])

\* CPPConnectorOpt and CPPConnectorOptFlag.
Kept == Append(map, file[pos][2])

AddOption == /\ Reads("option")
             /\ map' = Kept
             /\ OnTo /\ UNCHANGED <<connector, text>>

CopyLine == /\ Reads("sql")
            /\ text' = Append(text, file[pos][2])
            /\ OnTo /\ UNCHANGED <<connector, map>>

\* A stream that is bad but not at its end: getline leaves buf empty, for ever.
CopyNothing == /\ phase = "reading" /\ ~readable /\ Len(text) < MaxJunk
               /\ text' = Append(text, "")
               /\ UNCHANGED <<input, phase, pos, connector, map, command>>

Compiled == /\ phase = "reading" /\ readable /\ Eof
            /\ phase' = "compiled"
            /\ UNCHANGED <<input, pos, connector, map, text, command>>

(***************************************************************************)
(* The program                                                             *)
(***************************************************************************)

\* CPPConnectorOpts is written: the second constructor.
WithOptions == connector # "" /\ map # <<>>

\* The joined parts are a namespace; without --namespace the header declares the source
\* in an unnamed one, and with "::" first it is no C++.
Linkable == \A i \in DOMAIN sqlnsparts : sqlnsparts[i] # ""

Unlinked == /\ phase = "compiled" /\ ~Linkable
            /\ phase' = "unlinked"
            /\ UNCHANGED <<input, pos, connector, map, text, command>>

\* CommandOptionsFactory::createNew throws out of the initialisation of a global.
Terminated == /\ phase = "compiled" /\ Linkable
              /\ WithOptions /\ connector \notin Loaded
              /\ phase' = "terminated"
              /\ UNCHANGED <<input, pos, connector, map, text, command>>

\* A CommandOptionsMap is made of the initialiser: the first of two values for a key stays.
MapOf(pairs) ==
  [key \in {pairs[i][1] : i \in DOMAIN pairs} |->
     pairs[CHOOSE i \in DOMAIN pairs : /\ pairs[i][1] = key
                                       /\ \A j \in 1 .. i - 1 : pairs[j][1] # key][2]]

\* StaticSqlSource's constructor, and SqlSource::select or modify.
Used == /\ phase = "compiled" /\ Linkable
        /\ WithOptions => connector \in Loaded
        /\ command' = [sql |-> text, connector |-> IF WithOptions THEN connector ELSE "",
                       options |-> IF WithOptions THEN MapOf(map) ELSE <<>>]
        /\ phase' = "used"
        /\ UNCHANGED <<input, pos, connector, map, text>>

Next == \/ SetConnector \/ AddOption \/ CopyLine \/ CopyNothing \/ Compiled
        \/ Unlinked \/ Terminated \/ Used

\* The tool and the program run on.
Spec == Init /\ [][Next]_vars /\ WF_vars(Next)

(***************************************************************************)
(* Properties                                                              *)
(***************************************************************************)

\* The maps of some keys to values.
Maps == UNION {[keys -> {o[2] : o \in Options}] : keys \in SUBSET {o[1] : o \in Options}}

\* Every variable has its type.
TypeOK ==
  /\ file \in Seq(FileLines)
  /\ ended \in BOOLEAN /\ readable \in BOOLEAN
  /\ phase \in {"reading", "compiled", "unlinked", "terminated", "used"}
  /\ pos \in 1 .. Len(file) + 1
  /\ \E ns \in Namespaces, dir \in Folders : sqlnsparts = ns \o dir
  /\ {given, connector} \subseteq Connectors
  /\ map \in Seq(Options)
  /\ text \in Seq(Statements)
  /\ command \in [sql : Seq(Statements), connector : Connectors, options : Maps]

\* The lines of a kind: those among the first n of the script, for each n.
Of(kind) == Picks([i \in DOMAIN file |-> file[i][2]], {i \in DOMAIN file : file[i][1] = kind})

\* The connector of the script's first n lines: the last they name, or that of the
\* command line.
ItsConnector(n) == LET named == Of("connector")[n]
                   IN  IF named = <<>> THEN given ELSE named[Len(named)]

\* The command has what the first n lines say: those of SQL in order; each option they
\* name, with the value that comes first, if they name a connector anywhere; and that.
Says(n) ==
  LET opts == Of("option")[n]
  IN  /\ command.sql = Of("sql")[n]
      /\ ItsConnector(n) # "" =>
           /\ DOMAIN command.options = {opts[i][1] : i \in DOMAIN opts}
           /\ \A i \in DOMAIN opts : (\A j \in 1 .. i - 1 : opts[j][1] # opts[i][1]) =>
                command.options[opts[i][1]] = opts[i][2]
      /\ DOMAIN command.options # {} => command.connector = ItsConnector(n)

\* A program's command is the script's, if its last line ends in a newline; if not, that
\* line is lost without a word, be it SQL, an option or the connector of all of them.
\* (Without any connector the options are lost, and of two values for one option the
\* second.)
CommandIsScript == phase = "used" => Says(IF ended THEN Len(file) ELSE Len(file) - 1)

\* The precompiler comes to an end for every script that can be read.  (It does not for
\* one that cannot.)
ToolEnds == (phase = "reading" /\ readable) ~> phase # "reading"
=============================================================================
