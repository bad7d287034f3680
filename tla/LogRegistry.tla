---------------------------- MODULE LogRegistry ----------------------------
(***************************************************************************)
(* What the logging core promises its callers, without threads' program    *)
(* counters, locks or iterators: a registry of writers, loggers that each  *)
(* hold a view of it, and messages in progress.                            *)
(*                                                                         *)
(*   - a view is replaced as a whole, by what the registry says at that    *)
(*     moment, and never under a message that is being delivered;          *)
(*   - a message is told to a writer at most once;                         *)
(*   - a call looks for the writers that want its message, and returns     *)
(*     only if there are none, if there is no text to send, or if each of  *)
(*     them that has stayed in the view since has been told;               *)
(*   - it ends otherwise only by a writer that throws, and that one has    *)
(*     not been told.                                                      *)
(***************************************************************************)
EXTENDS Naturals

CONSTANTS
  Threads, Writers, Loggers, Statics, Levels, None, LevelOf,
  Faulty,     \* the writers that may throw
  Formatters  \* the threads whose messages are formatted, and may come to nothing

VARIABLES
  registry, \* the registered writers
  known,    \* the loggers a change of the registry is published to
  view,     \* view[l][k]: the writers that want messages of level k from l
  asking,   \* the logger of a thread whose message has not looked yet, or None
  priority, \* the level of that message
  talking,  \* the logger whose message a thread is delivering, or None
  waiting,  \* the logger of a thread whose message has looked at the view, or None
  due,      \* the writers that message has to reach
  done      \* the writers it has reached

vars == <<registry, known, view, asking, priority, talking, waiting, due, done>>

ViewOf(reg, l) == [k \in Levels |-> {w \in reg : LevelOf[w][l] = k}]
Members(table) == UNION {table[k] : k \in Levels}

Init ==
  /\ registry = {}
  /\ known = Statics
  /\ view = [l \in Loggers |-> [k \in Levels |-> {}]]
  /\ asking = [t \in Threads |-> None]
  /\ priority = [t \in Threads |-> 0]
  /\ talking = [t \in Threads |-> None]
  /\ waiting = [t \in Threads |-> None]
  /\ due = [t \in Threads |-> {}]
  /\ done = [t \in Threads |-> {}]

\* The registry changes by one writer.
Change(w) ==
  /\ registry' \in {registry \cup {w}, registry \ {w}}
  /\ UNCHANGED <<known, view, asking, priority, talking, waiting, due, done>>

\* A logger's view becomes what the registry says; no message is under way on it.
Publish(l) ==
  /\ \A t \in Threads : talking[t] # l
  /\ view' = [view EXCEPT ![l] = ViewOf(registry, l)]
  /\ due' = [t \in Threads |-> IF waiting[t] = l
                                 THEN due[t] \cap Members(view'[l]) ELSE due[t]]
  /\ UNCHANGED <<registry, known, asking, priority, talking, waiting, done>>

Admit(l) ==
  /\ known' = known \cup {l}
  /\ UNCHANGED <<registry, view, asking, priority, talking, waiting, due, done>>

\* A call has a message of level p for l.
Send(t, l, p) ==
  /\ {asking[t], waiting[t], talking[t]} = {None}
  /\ asking' = [asking EXCEPT ![t] = l]
  /\ priority' = [priority EXCEPT ![t] = p]
  /\ UNCHANGED <<registry, known, view, talking, waiting, due, done>>

Over(t) ==
  /\ asking' = [asking EXCEPT ![t] = None]
  /\ priority' = [priority EXCEPT ![t] = 0]
  /\ talking' = [talking EXCEPT ![t] = None]
  /\ waiting' = [waiting EXCEPT ![t] = None]
  /\ due' = [due EXCEPT ![t] = {}]
  /\ done' = [done EXCEPT ![t] = {}]
  /\ UNCHANGED <<registry, known, view>>

\* The writers that want what the call of t has to say.
Wanting(t) == UNION {view[asking[t]][k] : k \in {j \in Levels : j >= priority[t]}}

\* It looks for them, and returns if there are none.
Look(t) ==
  /\ asking[t] # None
  /\ Wanting(t) # {}
  /\ waiting' = [waiting EXCEPT ![t] = asking[t]]
  /\ asking' = [asking EXCEPT ![t] = None]
  /\ priority' = [priority EXCEPT ![t] = 0]
  /\ due' = [due EXCEPT ![t] = Wanting(t)]
  /\ UNCHANGED <<registry, known, view, talking, done>>

Unwanted(t) == asking[t] # None /\ Wanting(t) = {} /\ Over(t)

Begin(t) ==
  /\ waiting[t] # None
  /\ talking' = [talking EXCEPT ![t] = waiting[t]]
  /\ waiting' = [waiting EXCEPT ![t] = None]
  /\ UNCHANGED <<registry, known, view, asking, priority, due, done>>

Tell(t, w) ==
  /\ talking[t] # None
  /\ w \in Members(view[talking[t]]) \ done[t]
  /\ done' = [done EXCEPT ![t] = @ \cup {w}]
  /\ UNCHANGED <<registry, known, view, asking, priority, talking, waiting, due>>

\* The call returns: everybody it owed the message has had it.
End(t) ==
  /\ talking[t] # None
  /\ due[t] \subseteq done[t]
  /\ Over(t)

\* A formatted message turns out to have no text, or its formatting throws.
NoText(t) == t \in Formatters /\ waiting[t] # None /\ Over(t)

\* A writer throws instead of taking the message: the others do without it, too.
Fail(t) ==
  /\ talking[t] # None
  /\ (Members(view[talking[t]]) \ done[t]) \cap Faulty # {}
  /\ Over(t)

Next ==
  \/ \E w \in Writers : Change(w)
  \/ \E l \in Loggers : Publish(l) \/ Admit(l)
  \/ \E t \in Threads, l \in Loggers, p \in Levels : Send(t, l, p)
  \/ \E t \in Threads : \/ Look(t) \/ Unwanted(t) \/ NoText(t)
                        \/ Begin(t) \/ (\E w \in Writers : Tell(t, w))
                        \/ End(t) \/ Fail(t)

Spec == Init /\ [][Next]_vars
=============================================================================
