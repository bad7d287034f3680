----------------------------- MODULE LogManager -----------------------------
(***************************************************************************)
(* The concurrent core of IceTray::Logging (icetray/icetray/logger.cpp):   *)
(* one LogManager, the Logger objects it has handed out, the LogWriter     *)
(* proxies registered with it, and threads that call addWriter,            *)
(* removeWriter, getLogger and Logger::message at the same time.           *)
(*                                                                         *)
(* Both classes are guarded by a std::shared_mutex.  No variable stands    *)
(* for a lock: who holds one is read off the program counters (see Locks). *)
(* A critical section is one step when it makes a single access to what    *)
(* the lock protects, and several steps otherwise.                         *)
(***************************************************************************)
EXTENDS Naturals, FiniteSets

CONSTANTS
  Threads,    \* the threads that use the manager
  Writers,    \* the LogWriter proxies
  Loggers,    \* the Logger objects (addresses) that may exist
  Statics,    \* the loggers that exist before the threads start (static LoggerPtr)
  DEBUG,      \* the last LogLevel; EMERG is 0
  NoLevel,    \* what level() answers for a domain the writer does not want
  None,       \* no writer, no logger
  LevelOf,    \* LevelOf[w][l]: what w answers to level() for the domain of l
  Faulty,     \* the writers a call to which may throw
  Formatters, \* the threads that call messagef, messagebf or messagectf, not message
  Releasable, \* the loggers whose last LoggerPtr may be dropped
  MaxCalls    \* bound: the calls each thread makes

Levels == 0 .. DEBUG

ASSUME DebugAssumption == DEBUG \in Nat
ASSUME WritersAssumption == /\ None \notin Writers \cup Loggers
                            /\ NoLevel \notin Levels
                            /\ LevelOf \in [Writers -> [Loggers -> Levels \cup {NoLevel}]]
                            /\ Faulty \subseteq Writers
ASSUME LoggersAssumption == Statics \subseteq Loggers /\ Releasable \subseteq Loggers
ASSUME CallsAssumption == MaxCalls \in Nat

VARIABLES
  logWriters, \* LogManager::logWriters, those addWriter has been called with
  loggers,    \* LogManager::loggers, a set of raw pointers
  live,       \* the loggers some LoggerPtr still owns
  logs,       \* logs[l][k]: the writers logger l tells about messages of level <= k
  pc,         \* where each thread is
  writer,     \* the argument of the addWriter or removeWriter call
  logger,     \* the logger the thread works on
  todo,       \* the loggers updateLoggerWriters has still to refresh
  asked,      \* the writers getLogsForDomain has had an answer from
  fl,         \* the priority asked for, then the iterator of Logger::message
  left,       \* the writers of level fl still to be told
  calls,      \* how many calls each thread has made
  \* history, read by no guard
  owed,       \* the writers that wanted the message when the call looked, and still do
  told,       \* the writers told of the message in this call
  astray      \* loggers left out of step by an unsynchronised getLogger or a throw

shared == <<logWriters, loggers, live, logs, astray>>
locals == <<writer, logger, todo, asked, fl, left, owed, told>>
vars   == <<shared, pc, locals, calls>>

(***************************************************************************)
(* Data                                                                    *)
(***************************************************************************)

\* (A definition whose comment begins with "Fault:" is a wrong version of the one
\* after it.  No specification uses it: it shows which property the right one is
\* there for.)

\* Fault: a writer is put at every level it wants, not only at its own.
LogsForDomainAtEvery(registry, l) ==
  [k \in Levels |-> {w \in registry : LevelOf[w][l] # NoLevel /\ LevelOf[w][l] >= k}]

\* LogManager::getLogsForDomain: the registered writers, by the level each answers.
LogsForDomain(registry, l) == [k \in Levels |-> {w \in registry : LevelOf[w][l] = k}]

\* The writers a table of logs holds at level k or above.
From(table, k) == UNION {table[j] : j \in {i \in Levels : i >= k}}

\* Fault: any level that has a writer will do.
IsFirstAny(table, p, k) == k >= p /\ table[k] # {}

\* k is the first level from p on that has a writer.
IsFirst(table, p, k) ==
  k >= p /\ table[k] # {} /\ \A j \in Levels : p <= j /\ j < k => table[j] = {}

(***************************************************************************)
(* Locks                                                                   *)
(***************************************************************************)

Writing   == {"add", "erase"}                       \* holds the manager's lock alone
Iterating == {"update", "lock", "shareAgain", "ask"}  \* shares it, in updateLoggerWriters
Sharing   == Iterating \cup {"getAsk"}

\* Fault: a writer of the registry does not wait for those who read it.
CanLockManagerNow == \A t \in Threads : pc[t] \notin Writing

\* Fault: a thread that waits to write keeps new readers out.
CanShareManagerInTurn ==
  \A t \in Threads : pc[t] \notin Writing \cup {"wantAdd", "wantErase"}

\* LogManager::_lock.  glibc's shared_mutex prefers readers: a thread that only
\* waits to write does not stop another from sharing.
CanLockManager  == \A t \in Threads : pc[t] \notin Writing \cup Sharing
CanShareManager == \A t \in Threads : pc[t] \notin Writing

\* LoggerBase::_lock of l: held alone by a refresh, shared by a delivery.
Refreshing(t, l) == pc[t] \in {"shareAgain", "ask"} /\ logger[t] = l
Delivering(t, l) == pc[t] = "deliver" /\ logger[t] = l

\* Fault: a refresh does not wait for the messages under way.
CanLockLoggerNow(l) == \A t \in Threads : ~Refreshing(t, l)

\* Fault: a message does not wait for a refresh.
CanShareLoggerNow(l) == l \in Loggers

CanLockLogger(l) == \A t \in Threads : ~Refreshing(t, l) /\ ~Delivering(t, l)
CanShareLogger(l) == \A t \in Threads : ~Refreshing(t, l)

(***************************************************************************)
(* Control                                                                 *)
(***************************************************************************)

Goto(t, label) == pc' = [pc EXCEPT ![t] = label]

\* Thread t starts a call.
Call(t, label) ==
  /\ pc[t] = "idle"
  /\ calls[t] < MaxCalls
  /\ calls' = [calls EXCEPT ![t] = @ + 1]
  /\ Goto(t, label)

\* The call of t returns or throws; its locals go.
Return(t) ==
  /\ Goto(t, "idle")
  /\ writer' = [writer EXCEPT ![t] = None]
  /\ logger' = [logger EXCEPT ![t] = None]
  /\ todo'   = [todo EXCEPT ![t] = {}]
  /\ asked'  = [asked EXCEPT ![t] = {}]
  /\ fl'     = [fl EXCEPT ![t] = 0]
  /\ left'   = [left EXCEPT ![t] = {}]
  /\ owed'   = [owed EXCEPT ![t] = {}]
  /\ told'   = [told EXCEPT ![t] = {}]

Init ==
  /\ logWriters = {}
  /\ loggers = Statics
  /\ live = Statics
  /\ logs = [l \in Loggers |-> [k \in Levels |-> {}]]
  /\ pc = [t \in Threads |-> "idle"]
  /\ writer = [t \in Threads |-> None]
  /\ logger = [t \in Threads |-> None]
  /\ todo = [t \in Threads |-> {}]
  /\ asked = [t \in Threads |-> {}]
  /\ fl = [t \in Threads |-> 0]
  /\ left = [t \in Threads |-> {}]
  /\ calls = [t \in Threads |-> 0]
  /\ owed = [t \in Threads |-> {}]
  /\ told = [t \in Threads |-> {}]
  /\ astray = {}

(***************************************************************************)
(* addWriter and removeWriter                                              *)
(***************************************************************************)

AddWriter(t, w) ==
  /\ Call(t, "wantAdd")
  /\ writer' = [writer EXCEPT ![t] = w]
  /\ UNCHANGED <<shared, logger, todo, asked, fl, left, owed, told>>

RemoveWriter(t, w) ==
  /\ Call(t, "wantErase")
  /\ writer' = [writer EXCEPT ![t] = w]
  /\ UNCHANGED <<shared, logger, todo, asked, fl, left, owed, told>>

\* ScopeLock(_lock)
LockManager(t) ==
  /\ CanLockManager
  /\ \/ pc[t] = "wantAdd" /\ Goto(t, "add")
     \/ pc[t] = "wantErase" /\ Goto(t, "erase")
  /\ UNCHANGED <<shared, locals, calls>>

\* The body of the ScopeLock and its release.
Insert(t) ==
  /\ pc[t] = "add"
  /\ logWriters' = logWriters \cup {writer[t]}
  /\ Goto(t, "share")
  /\ UNCHANGED <<loggers, live, logs, astray, locals, calls>>

Erase(t) ==
  /\ pc[t] = "erase"
  /\ logWriters' = logWriters \ {writer[t]}
  /\ Goto(t, "share")
  /\ UNCHANGED <<loggers, live, logs, astray, locals, calls>>

\* SharedLock(_lock), kept until the call returns; updateLoggerWriters starts to
\* iterate over loggers.
ShareManager(t) ==
  /\ pc[t] = "share"
  /\ CanShareManager
  /\ todo' = [todo EXCEPT ![t] = loggers]
  /\ Goto(t, "update")
  /\ UNCHANGED <<shared, writer, logger, asked, fl, left, owed, told, calls>>

\* Fault: the iterator is used without a look at loggers.end().
NextLoggerPastEnd(t) ==
  /\ pc[t] = "update"
  /\ \E l \in todo[t] \cup {None} : logger' = [logger EXCEPT ![t] = l]
  /\ Goto(t, "lock")
  /\ UNCHANGED <<shared, writer, todo, asked, fl, left, owed, told, calls>>

\* The next logger of the loop; loggers is ordered by address, which is arbitrary.
NextLogger(t) ==
  /\ pc[t] = "update"
  /\ \E l \in todo[t] : logger' = [logger EXCEPT ![t] = l]
  /\ Goto(t, "lock")
  /\ UNCHANGED <<shared, writer, todo, asked, fl, left, owed, told, calls>>

\* Lock(logger->_lock)
LockLogger(t) ==
  /\ pc[t] = "lock"
  /\ CanLockLogger(logger[t])
  /\ Goto(t, "shareAgain")
  /\ UNCHANGED <<shared, locals, calls>>

\* getLogsForDomain takes the manager's lock again, which this thread shares already.
ShareAgain(t) ==
  /\ pc[t] = "shareAgain"
  /\ CanShareManager
  /\ Goto(t, "ask")
  /\ UNCHANGED <<shared, locals, calls>>

\* log->level(domain), a remote call, for one of the registered writers.
Ask(t, w) ==
  /\ pc[t] \in {"ask", "getAsk"}
  /\ w \in logWriters \ asked[t]
  /\ asked' = [asked EXCEPT ![t] = @ \cup {w}]
  /\ UNCHANGED <<shared, pc, writer, logger, todo, fl, left, owed, told, calls>>

\* All have answered: the table is replaced, and the logger's lock and the inner
\* shared lock are released.
Refresh(t) ==
  LET l   == logger[t]
      new == LogsForDomain(asked[t], l)
  IN  /\ pc[t] = "ask"
      /\ logWriters \subseteq asked[t]
      /\ logs' = [logs EXCEPT ![l] = new]
      /\ todo' = [todo EXCEPT ![t] = @ \ {l}]
      /\ asked' = [asked EXCEPT ![t] = {}]
      /\ logger' = [logger EXCEPT ![t] = None]
      /\ owed' = [s \in Threads |-> IF pc[s] = "enter" /\ logger[s] = l
                                      THEN owed[s] \cap From(new, 0) ELSE owed[s]]
      /\ astray' = astray \ {l}
      /\ Goto(t, "update")
      /\ UNCHANGED <<logWriters, loggers, live, writer, fl, left, told, calls>>

\* A writer throws from level(): the call unwinds, releasing every lock, and the
\* loggers it had not reached keep what they had.
RefreshThrows(t) ==
  /\ pc[t] = "ask"
  /\ (logWriters \ asked[t]) \cap Faulty # {}
  /\ astray' = astray \cup {l \in todo[t] : logs[l] # LogsForDomain(logWriters, l)}
  /\ Return(t)
  /\ UNCHANGED <<logWriters, loggers, live, logs, calls>>

\* Fault: the loop stops one logger early.
UpdateDoneEarly(t) ==
  /\ pc[t] = "update"
  /\ Cardinality(todo[t]) <= 1
  /\ Return(t)
  /\ UNCHANGED <<shared, calls>>

\* The loop is over; the shared lock is released and the call returns.
UpdateDone(t) ==
  /\ pc[t] = "update"
  /\ todo[t] = {}
  /\ Return(t)
  /\ UNCHANGED <<shared, calls>>

(***************************************************************************)
(* getLogger                                                               *)
(***************************************************************************)

\* make_shared: a new object, perhaps at the address of one that is gone and that the
\* manager still points to.  (What its table is until GetRefresh fills it nobody sees.)
GetLogger(t, l) ==
  /\ l \notin live
  /\ \A s \in Threads : logger[s] = l => pc[s] \in Iterating
  /\ Call(t, "getShare")
  /\ logger' = [logger EXCEPT ![t] = l]
  /\ UNCHANGED <<shared, writer, todo, asked, fl, left, owed, told>>

GetShare(t) ==
  /\ pc[t] = "getShare"
  /\ CanShareManager
  /\ Goto(t, "getAsk")
  /\ UNCHANGED <<shared, locals, calls>>

\* logger->logs = getLogsForDomain(domain); the shared lock is released.
GetRefresh(t) ==
  /\ pc[t] = "getAsk"
  /\ logWriters \subseteq asked[t]
  /\ logs' = [logs EXCEPT ![logger[t]] = LogsForDomain(asked[t], logger[t])]
  /\ asked' = [asked EXCEPT ![t] = {}]
  /\ astray' = astray \ {logger[t]}
  /\ Goto(t, "register")
  /\ UNCHANGED <<logWriters, loggers, live, writer, logger, todo, fl, left, owed, told, calls>>

\* A writer throws from level(): the new logger is destroyed.
GetThrows(t) ==
  /\ pc[t] = "getAsk"
  /\ (logWriters \ asked[t]) \cap Faulty # {}
  /\ Return(t)
  /\ UNCHANGED <<shared, calls>>

\* loggers.insert(logger.get()), under no lock.  A thread that iterates over the
\* set may or may not come across the new element, and of two insertions at
\* the same time one may be lost.
Register(t) ==
  LET l == logger[t] IN
  /\ pc[t] = "register"
  /\ \/ loggers' = loggers \cup {l}
     \/ /\ \E s \in Threads \ {t} : pc[s] = "register"
        /\ loggers' = loggers
  /\ live' = live \cup {l}
  /\ astray' = IF logs[l] = LogsForDomain(logWriters, l) THEN astray ELSE astray \cup {l}
  /\ Goto(t, "idle")
  /\ logger' = [logger EXCEPT ![t] = None]
  /\ \E seen \in SUBSET {s \in Threads : pc[s] \in Iterating} :
       todo' = [s \in Threads |-> todo[s] \cup (IF s \in seen THEN loggers' \ loggers ELSE {})]
  /\ UNCHANGED <<logWriters, logs, writer, asked, fl, left, owed, told, calls>>

\* The last LoggerPtr to l goes; ~LoggerBase leaves the manager's pointer where it is.
Release(l) ==
  /\ l \in Releasable \cap live
  /\ \A t \in Threads : logger[t] = l => pc[t] \in Iterating
  /\ live' = live \ {l}
  /\ UNCHANGED <<logWriters, loggers, logs, astray, pc, locals, calls>>

(***************************************************************************)
(* Logger::message, messagef, messagebf and messagectf                     *)
(***************************************************************************)

Message(t, l, priority) ==
  /\ l \in live
  /\ Call(t, "find")
  /\ logger' = [logger EXCEPT ![t] = l]
  /\ fl' = [fl EXCEPT ![t] = priority]
  /\ UNCHANGED <<shared, writer, todo, asked, left, owed, told>>

\* firstFor: the first level from the priority on that has a writer.
FirstFor(t) ==
  /\ pc[t] = "find"
  /\ CanShareLogger(logger[t])
  /\ \E k \in Levels : /\ IsFirst(logs[logger[t]], fl[t], k)
                       /\ fl' = [fl EXCEPT ![t] = k]
  /\ owed' = [owed EXCEPT ![t] = From(logs[logger[t]], fl[t])]
  /\ Goto(t, "enter")
  /\ UNCHANGED <<shared, writer, logger, todo, asked, left, told, calls>>

\* firstFor finds nobody (logs.end()).
NobodyWants(t) ==
  /\ pc[t] = "find"
  /\ CanShareLogger(logger[t])
  /\ From(logs[logger[t]], fl[t]) = {}
  /\ Return(t)
  /\ UNCHANGED <<shared, calls>>

\* messagef formats an empty text, or a formatter throws: nothing is sent.
NoText(t) ==
  /\ pc[t] = "enter" /\ t \in Formatters
  /\ Return(t)
  /\ UNCHANGED <<shared, calls>>

\* SharedLock(_lock), a second time; the iterator firstFor found is still used.
Enter(t) ==
  /\ pc[t] = "enter"
  /\ CanShareLogger(logger[t])
  /\ left' = [left EXCEPT ![t] = logs[logger[t]][fl[t]]]
  /\ Goto(t, "deliver")
  /\ UNCHANGED <<shared, writer, logger, todo, asked, fl, owed, told, calls>>

\* log->message(priority, domain, msg)
Deliver(t, w) ==
  /\ pc[t] = "deliver"
  /\ w \in left[t]
  /\ left' = [left EXCEPT ![t] = @ \ {w}]
  /\ told' = [told EXCEPT ![t] = @ \cup {w}]
  /\ UNCHANGED <<shared, pc, writer, logger, todo, asked, fl, owed, calls>>

\* The writer throws: message unwinds and the writers after it are not told.
DeliverThrows(t) ==
  /\ pc[t] = "deliver"
  /\ left[t] \cap Faulty # {}
  /\ Return(t)
  /\ UNCHANGED <<shared, calls>>

\* fl++
NextLevel(t) ==
  /\ pc[t] = "deliver"
  /\ left[t] = {}
  /\ fl[t] < DEBUG
  /\ fl' = [fl EXCEPT ![t] = @ + 1]
  /\ left' = [left EXCEPT ![t] = logs[logger[t]][fl[t] + 1]]
  /\ UNCHANGED <<shared, pc, writer, logger, todo, asked, owed, told, calls>>

\* Fault: only the writers of the first level that has some are told.
MessageDoneEarly(t) ==
  /\ pc[t] = "deliver"
  /\ left[t] = {}
  /\ Return(t)
  /\ UNCHANGED <<shared, calls>>

\* fl is logs.end()
MessageDone(t) ==
  /\ pc[t] = "deliver"
  /\ left[t] = {}
  /\ fl[t] = DEBUG
  /\ Return(t)
  /\ UNCHANGED <<shared, calls>>

-----------------------------------------------------------------------------

\* A step inside a call.
Step(t) ==
  \/ LockManager(t) \/ Insert(t) \/ Erase(t) \/ ShareManager(t)
  \/ NextLogger(t) \/ LockLogger(t) \/ ShareAgain(t)
  \/ (\E w \in Writers : Ask(t, w)) \/ Refresh(t) \/ RefreshThrows(t) \/ UpdateDone(t)
  \/ GetShare(t) \/ GetRefresh(t) \/ GetThrows(t) \/ Register(t)
  \/ FirstFor(t) \/ NobodyWants(t) \/ NoText(t) \/ Enter(t)
  \/ (\E w \in Writers : Deliver(t, w)) \/ DeliverThrows(t)
  \/ NextLevel(t) \/ MessageDone(t)

Start(t) ==
  \/ \E w \in Writers : AddWriter(t, w) \/ RemoveWriter(t, w)
  \/ \E l \in Loggers : GetLogger(t, l)
  \/ \E l \in Loggers, priority \in Levels : Message(t, l, priority)

Next == \/ \E t \in Threads : Start(t) \/ Step(t)
        \/ \E l \in Loggers : Release(l)

Spec == Init /\ [][Next]_vars

\* The scheduler runs every thread that can take a step of its call.
FairSpec == Spec /\ \A t \in Threads : WF_vars(Step(t))
-----------------------------------------------------------------------------
(***************************************************************************)
(* Properties                                                              *)
(***************************************************************************)

Labels == {"idle", "wantAdd", "wantErase", "getShare", "register", "find", "enter",
           "deliver", "share"} \cup Writing \cup Sharing

NeedLogger == {"lock", "shareAgain", "ask", "getShare", "getAsk", "register", "find",
               "enter", "deliver"}
NeedWriter == {"wantAdd", "wantErase", "share"} \cup Writing \cup Iterating

\* The variables have their types, and a thread has the locals its place needs.
TypeOK ==
  /\ logWriters \subseteq Writers
  /\ loggers \subseteq Loggers
  /\ live \subseteq Loggers
  /\ logs \in [Loggers -> [Levels -> SUBSET Writers]]
  /\ pc \in [Threads -> Labels]
  /\ writer \in [Threads -> Writers \cup {None}]
  /\ logger \in [Threads -> Loggers \cup {None}]
  /\ todo \in [Threads -> SUBSET Loggers]
  /\ asked \in [Threads -> SUBSET Writers]
  /\ fl \in [Threads -> Levels]
  /\ left \in [Threads -> SUBSET Writers]
  /\ calls \in [Threads -> 0 .. MaxCalls]
  /\ owed \in [Threads -> SUBSET Writers]
  /\ told \in [Threads -> SUBSET Writers]
  /\ astray \subseteq Loggers
  /\ \A t \in Threads :
       /\ pc[t] \in NeedLogger => logger[t] # None
       /\ pc[t] \in NeedWriter => writer[t] # None
       /\ pc[t] \notin {"enter", "deliver"} => owed[t] = {}
       /\ pc[t] # "deliver" => told[t] = {}

\* Thread t has still to publish its change of the registry to logger l.
Pending(t, l) == pc[t] = "share" \/ (pc[t] \in Iterating /\ l \in todo[t])

\* Somebody is adding or removing w and has not come to l yet.
InFlight(w, l) == \E t \in Threads : writer[t] = w /\ Pending(t, l)

\* w is where the registry says in the table of l: at its level, or nowhere.
InStep(w, l) ==
  \A k \in Levels : w \in logs[l][k] <=> w \in LogsForDomain(logWriters, l)[k]

\* However calls overlap, a registered logger differs from the registry only about
\* a writer whose addWriter or removeWriter has not returned: no other order of
\* two updates leaves a logger with a writer that is gone or without one that is
\* there.  Loggers in astray are excepted (see NoLoggerAstray).
ViewsFollowRegistry ==
  \A l \in loggers \ astray, w \in Writers : InStep(w, l) \/ InFlight(w, l)

\* The loggers that updates have passed by: while getLogger was between its question to
\* the writers and its insertion, which may also have been lost, or because a writer
\* threw before the update came to them.
PassedBy(l) == l \in astray \/ l \notin loggers

\* When removeWriter(w) has returned, no message on its way will still call w, those that
\* began before the call included, unless its logger is one that the removal passed by.
\* (So a caller who destroys w then is not safe from a getLogger that raced the removal:
\* the table of its logger has w until the next update, or for ever.)
RemovedWriterIsQuiet ==
  \A t \in Threads : pc[t] = "deliver" =>
    \A w \in left[t] \ logWriters : InFlight(w, logger[t]) \/ PassedBy(logger[t])

\* The writers Logger::message has yet to reach with the iterators it has.
Ahead(t) == left[t] \cup From(logs[logger[t]], fl[t] + 1)

\* firstFor's iterator is used after the lock it was read under is gone.  Still a
\* message misses no writer that wanted it when the call looked and has not been
\* taken out of the table since: it has had it, or is ahead of the iterator.
NobodyLeftOut ==
  \A t \in Threads : pc[t] = "deliver" => owed[t] \subseteq told[t] \cup Ahead(t)

\* No writer is told of one message twice, whatever is added meanwhile.
ToldOnce ==
  \A t \in Threads : pc[t] = "deliver" => told[t] \cap Ahead(t) = {}

\* The registry is not changed under a thread that asks its writers one by one, nor
\* between the loggers of one update.
RegistryStable ==
  [][\A t \in Threads : pc[t] \in Sharing => logWriters' = logWriters]_vars

\* The table Logger::message iterates over is not replaced under it.
TableStable ==
  [][\A t \in Threads : pc[t] = "deliver" => logs'[logger[t]] = logs[logger[t]]]_vars

\* Every call returns or throws: the two locks, one of them taken twice by an
\* update, never leave threads waiting for each other.
CallsReturn == \A t \in Threads : pc[t] # "idle" ~> pc[t] = "idle"

\* The table of a logger is in step with the registry whenever no call is in
\* progress, getLogger racing addWriter included.
NoLoggerAstray ==
  (\A t \in Threads : pc[t] = "idle") =>
    \A l \in live, w \in Writers : InStep(w, l)

\* updateLoggerWriters works on loggers that exist.
NoDanglingLogger == \A t \in Threads : pc[t] \in Iterating => todo[t] \subseteq live

(***************************************************************************)
(* The inductive invariant behind them                                     *)
(***************************************************************************)

\* What the guards of the lock steps amount to.
LocksHeld ==
  \A s, t \in Threads : s # t =>
    /\ pc[s] \in Writing => pc[t] \notin Writing \cup Sharing
    /\ pc[s] \in {"shareAgain", "ask"} /\ logger[t] = logger[s]
         => pc[t] \notin {"shareAgain", "ask", "deliver"}

\* A logger under construction is nobody's but for an update that came across its
\* address before, an update stays within the registered loggers, and a message holds
\* its logger alive.
LoggersOwned ==
  \A t \in Threads :
    /\ pc[t] \in {"getShare", "getAsk", "register"} =>
         /\ logger[t] \notin live
         /\ \A s \in Threads \ {t} : logger[s] = logger[t] => pc[s] \in Iterating
    /\ todo[t] \subseteq loggers
    /\ pc[t] \in {"lock", "shareAgain", "ask"} => logger[t] \in todo[t]
    /\ pc[t] \in {"find", "enter", "deliver"} => logger[t] \in live

\* An answer is in hand only while the registry it came from is locked.
AnswersCurrent ==
  \A t \in Threads : IF pc[t] \in {"ask", "getAsk"} THEN asked[t] \subseteq logWriters
                                                    ELSE asked[t] = {}

\* A writer is in a logger's table at the level it answered, so at one level.
OneLevelEach ==
  \A l \in Loggers, k \in Levels : \A w \in logs[l][k] : LevelOf[w][l] = k

\* Where the iterators of a message are.
IteratorsValid ==
  \A t \in Threads :
    /\ pc[t] = "enter" => owed[t] \subseteq From(logs[logger[t]], fl[t])
    /\ pc[t] = "deliver" =>
         /\ left[t] \subseteq logs[logger[t]][fl[t]]
         /\ told[t] \cap left[t] = {}
         /\ \A w \in told[t] : LevelOf[w][logger[t]] \in 0 .. fl[t]

Inductive ==
  /\ LocksHeld
  /\ LoggersOwned
  /\ AnswersCurrent
  /\ OneLevelEach
  /\ IteratorsValid
  /\ NobodyLeftOut
  /\ ViewsFollowRegistry

(***************************************************************************)
(* LogRegistry is what the manager promises; where its locks and iterators *)
(* are is hidden.                                                          *)
(***************************************************************************)
Registry == INSTANCE LogRegistry WITH
  registry <- logWriters,
  known    <- loggers,
  view     <- logs,
  asking   <- [t \in Threads |-> IF pc[t] = "find" THEN logger[t] ELSE None],
  priority <- [t \in Threads |-> IF pc[t] = "find" THEN fl[t] ELSE 0],
  talking  <- [t \in Threads |-> IF pc[t] = "deliver" THEN logger[t] ELSE None],
  waiting  <- [t \in Threads |-> IF pc[t] = "enter" THEN logger[t] ELSE None],
  due      <- owed,
  done     <- told

\* Every behaviour of the locks and threads is one of the registry's.
ImplementsRegistry == Registry!Spec
=============================================================================
