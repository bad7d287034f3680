------------------------------ MODULE LogLines ------------------------------
(***************************************************************************)
(* The console and syslog writers of a process (logWriterConsole.cpp and   *)
(* logWriterSyslog.cpp in icetray/icetray/): they are created from         *)
(* properties or without any, write messages, and are destroyed.  The      *)
(* level chooses cerr or cout, or is syslog's priority, and is left out.   *)
(*                                                                         *)
(* What openlog and closelog change belongs to the process; the C library  *)
(* is external.                                                            *)
(***************************************************************************)
EXTENDS DomainFormat, Integers

CONSTANTS
  Consoles,
  Syslogs,
  Configured, \* Configured[w]: the values that w's width property may have
  Facilities, \* the values that the facility property may have
  None

Writers == Consoles \cup Syslogs

ASSUME WritersAssumption == /\ Consoles \cap Syslogs = {} /\ None \notin Writers \cup Int
                            /\ Configured \in [Writers -> SUBSET (0 .. MaxWidth)]
                            /\ None \notin Facilities

VARIABLES
  widths,    \* widths[w]: ConsoleLogWriter::width or SyslogLogWriter::width; None: no w
  busy,      \* the writer that has a message
  ident,     \* what syslog holds: "program", its own, or "gone", a string that is no more
  connected, \* whether syslog has a descriptor
  option,    \* the option and the facility that openlog was given last, None before
  facility

syslog == <<ident, connected, option, facility>>
vars   == <<format, widths, busy, syslog>>

Init ==
  /\ Nothing
  /\ widths = [w \in Writers |-> None]
  /\ busy = None
  /\ ident = "program"
  /\ connected = FALSE
  /\ option = None /\ facility = None

(***************************************************************************)
(* Constructors and destructors                                            *)
(***************************************************************************)

Idle == busy = None

\* The width property, -1 without it or without properties.
Constructed(w, values) ==
  /\ Idle /\ widths[w] = None
  /\ \E value \in values : widths' = [widths EXCEPT ![w] = value]
  /\ UNCHANGED <<format, busy>>

NewConsole(w) == /\ w \in Consoles
                 /\ Constructed(w, Configured[w] \cup {-1})
                 /\ UNCHANGED syslog

\* With the option LOG_NDELAY openlog connects at once.
Options == {"delay", "ndelay"}

\* openlog keeps the pointer, to a temporary that is destroyed with the statement.
OpenLog ==
  /\ ident' = "gone"
  /\ option' \in Options /\ facility' \in Facilities
  /\ connected' = (connected \/ option' = "ndelay")

NewSyslog(w) == /\ w \in Syslogs
                /\ Constructed(w, Configured[w] \cup {-1})
                /\ OpenLog

NewSyslogBare(w) == /\ w \in Syslogs
                    /\ Constructed(w, {-1})
                    /\ UNCHANGED syslog

\* Fault: the descriptor is closed, what openlog was given stays.
Disconnected == connected' = FALSE /\ UNCHANGED <<ident, option, facility>>

\* closelog leaves option and facility as they are.
CloseLog == connected' = FALSE /\ ident' = "program" /\ UNCHANGED <<option, facility>>

Delete(w) ==
  /\ Idle /\ widths[w] # None
  /\ widths' = [widths EXCEPT ![w] = None]
  /\ IF w \in Syslogs THEN CloseLog ELSE UNCHANGED syslog
  /\ UNCHANGED <<format, busy>>

(***************************************************************************)
(* message                                                                 *)
(***************************************************************************)

\* StreamWriterT('D')
AsOptional(n) == IF n >= 0 THEN n ELSE NoWidth

Message(w, domain) ==
  /\ Idle /\ widths[w] # None
  /\ busy' = w
  /\ WriteDomain(AsOptional(widths[w]), domain)
  /\ UNCHANGED <<widths, syslog>>

WriteStep == /\ busy # None
             /\ WriteAll \/ WriteComponent
             /\ UNCHANGED <<widths, busy, syslog>>

\* The line is in the stream; syslog() connects if it has to.
Sent == /\ busy # None /\ Written
        /\ busy' = None
        /\ connected' = (connected \/ busy \in Syslogs)
        /\ lengths' = <<>> /\ width' = NoWidth /\ di' = 1 /\ target' = 0 /\ cut' = <<>>
        /\ UNCHANGED <<widths, ident, option, facility>>

Next == \/ \E w \in Writers : \/ NewConsole(w) \/ NewSyslog(w) \/ NewSyslogBare(w)
                              \/ Delete(w)
                              \/ \E domain \in Domains : Message(w, domain)
        \/ WriteStep
        \/ Sent

Spec == Init /\ [][Next]_vars

(***************************************************************************)
(* Properties                                                              *)
(***************************************************************************)

\* Every variable has its type; a line is being made only for a writer that is there.
TypeOK ==
  /\ FormatTypeOK
  /\ \A w \in Writers : widths[w] \in Configured[w] \cup {-1, None}
  /\ busy = None \/ widths[busy] # None
  /\ busy = None => Nothing
  /\ ident \in {"program", "gone"}
  /\ connected \in BOOLEAN
  /\ option \in Options \cup {None}
  /\ facility \in Facilities \cup {None}

\* Syslog is closed once all of its writers are destroyed, in whatever order, whichever
\* had properties and whichever connected at once or with a message: the process has no
\* descriptor and no pointer of theirs.  (It is not as it was before them: option and
\* facility stay those of the last openlog, for whatever else logs in the process.)
SyslogIsClosed == (\A w \in Syslogs : widths[w] = None) => ident = "program" /\ ~connected

\* The ident that a writer was given is there when a message of one is sent.
IdentIsThere == busy \in Syslogs /\ Written => ident # "gone"
=============================================================================
