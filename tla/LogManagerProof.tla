-------------------------- MODULE LogManagerProof --------------------------
(***************************************************************************)
(* TLAPS proofs about LogManager, for any number of threads, writers,      *)
(* loggers, levels and calls.                                              *)
(***************************************************************************)
EXTENDS LogManager, TLAPS

USE DebugAssumption, CallsAssumption

AllLabels == {"idle", "wantAdd", "wantErase", "add", "erase", "share", "update", "lock",
              "shareAgain", "ask", "getShare", "getAsk", "register", "find", "enter",
              "deliver"}

\* The sets of labels, written out for the provers.
LEMMA LabelsUnfolded ==
  /\ Labels = AllLabels
  /\ Writing = {"add", "erase"}
  /\ Iterating = {"update", "lock", "shareAgain", "ask"}
  /\ Sharing = {"update", "lock", "shareAgain", "ask", "getAsk"}
  /\ NeedWriter = {"wantAdd", "wantErase", "share", "add", "erase", "update", "lock",
                   "shareAgain", "ask"}
BY DEF Labels, AllLabels, Writing, Iterating, Sharing, NeedWriter

\* A table built from any registry has its type.
LEMMA LogsForDomainType ==
  ASSUME NEW registry \in SUBSET Writers, NEW l \in Loggers
  PROVE  LogsForDomain(registry, l) \in [Levels -> SUBSET Writers]
BY DEF LogsForDomain

\* The writers of a table are writers.
LEMMA FromType ==
  ASSUME NEW table \in [Levels -> SUBSET Writers], NEW k
  PROVE  From(table, k) \subseteq Writers
BY DEF From

\* The variables always have their types, and a call has the locals it needs.
THEOREM TypeCorrect == Spec => []TypeOK
<1>1. Init => TypeOK
  BY LabelsUnfolded, LoggersAssumption DEF Init, TypeOK, AllLabels, NeedLogger, Levels
<1>2. TypeOK /\ [Next]_vars => TypeOK'
  <2> SUFFICES ASSUME TypeOK, [Next]_vars PROVE TypeOK'
    OBVIOUS
  <2> USE LabelsUnfolded DEF TypeOK, AllLabels, NeedLogger, Goto, shared, locals
  <2>1. CASE UNCHANGED vars
    BY <2>1 DEF vars
  <2>2. ASSUME NEW t \in Threads, NEW w \in Writers, AddWriter(t, w) \/ RemoveWriter(t, w)
        PROVE  TypeOK'
    <3>1. CASE AddWriter(t, w)
      BY <3>1, WritersAssumption DEF AddWriter, Call
    <3>2. CASE RemoveWriter(t, w)
      BY <3>2, WritersAssumption DEF RemoveWriter, Call
    <3> QED
      BY <2>2, <3>1, <3>2
  <2>3. ASSUME NEW t \in Threads, NEW l \in Loggers, GetLogger(t, l)
        PROVE  TypeOK'
    BY <2>3, WritersAssumption DEF GetLogger, Call
  <2>4. ASSUME NEW t \in Threads, NEW l \in Loggers, NEW p \in Levels, Message(t, l, p)
        PROVE  TypeOK'
    <3>1. fl' \in [Threads -> Levels] /\ calls' \in [Threads -> 0 .. MaxCalls]
      BY <2>4 DEF Message, Call
    <3>2. logger' \in [Threads -> Loggers \cup {None}] /\ l # None
      BY <2>4, WritersAssumption DEF Message
    <3> QED
      BY <2>4, <3>1, <3>2 DEF Message, Call
  <2>5. ASSUME NEW t \in Threads, LockManager(t) \/ LockLogger(t) \/ ShareAgain(t) \/ GetShare(t)
        PROVE  TypeOK'
    <3>1. CASE LockManager(t)
      BY <3>1 DEF LockManager
    <3>2. CASE LockLogger(t) \/ ShareAgain(t)
      BY <3>2 DEF LockLogger, ShareAgain
    <3>3. CASE GetShare(t)
      BY <3>3 DEF GetShare
    <3> QED
      BY <2>5, <3>1, <3>2, <3>3
  <2>6. ASSUME NEW t \in Threads, Insert(t) \/ Erase(t)
        PROVE  TypeOK'
    BY <2>6 DEF Insert, Erase
  <2>7. ASSUME NEW t \in Threads, ShareManager(t) \/ NextLogger(t)
        PROVE  TypeOK'
    <3>1. CASE ShareManager(t)
      BY <3>1 DEF ShareManager
    <3>2. CASE NextLogger(t)
      <4>1. PICK l \in todo[t] : logger' = [logger EXCEPT ![t] = l]
        BY <3>2 DEF NextLogger
      <4> QED
        BY <3>2, <4>1, WritersAssumption DEF NextLogger
    <3> QED
      BY <2>7, <3>1, <3>2
  <2>8. ASSUME NEW t \in Threads, NEW w \in Writers, Ask(t, w)
        PROVE  TypeOK'
    BY <2>8 DEF Ask
  <2>9. ASSUME NEW t \in Threads, Refresh(t)
        PROVE  TypeOK'
    <3> DEFINE new == LogsForDomain(asked[t], logger[t])
    <3>1. new \in [Levels -> SUBSET Writers]
      BY <2>9, LogsForDomainType DEF Refresh
    <3>2. From(new, 0) \subseteq Writers
      BY <3>1, FromType
    <3> QED
      BY <2>9, <3>1, <3>2 DEF Refresh
  <2>10. ASSUME NEW t \in Threads, Return(t), UNCHANGED <<logWriters, loggers, live, logs, calls>>,
                astray' \subseteq Loggers
         PROVE  TypeOK'
    BY <2>10 DEF Return, Levels
  <2>11. ASSUME NEW t \in Threads,
                \/ RefreshThrows(t) \/ UpdateDone(t) \/ GetThrows(t) \/ NobodyWants(t)
                \/ NoText(t) \/ DeliverThrows(t) \/ MessageDone(t)
         PROVE  TypeOK'
    BY <2>10, <2>11 DEF RefreshThrows, UpdateDone, GetThrows, NobodyWants, NoText,
                        DeliverThrows, MessageDone
  <2>12. ASSUME NEW t \in Threads, GetRefresh(t)
         PROVE  TypeOK'
    <3>1. LogsForDomain(asked[t], logger[t]) \in [Levels -> SUBSET Writers]
      BY <2>12, LogsForDomainType DEF GetRefresh
    <3> QED
      BY <2>12, <3>1 DEF GetRefresh
  <2>13. ASSUME NEW t \in Threads, Register(t)
         PROVE  TypeOK'
    BY <2>13 DEF Register
  <2>14. ASSUME NEW l \in Loggers, Release(l)
         PROVE  TypeOK'
    BY <2>14 DEF Release
  <2>15. ASSUME NEW t \in Threads, FirstFor(t)
         PROVE  TypeOK'
    <3>1. From(logs[logger[t]], fl[t]) \subseteq Writers
      BY <2>15, FromType DEF FirstFor
    <3> QED
      BY <2>15, <3>1 DEF FirstFor
  <2>16. ASSUME NEW t \in Threads, Enter(t)
         PROVE  TypeOK'
    BY <2>16 DEF Enter
  <2>17. ASSUME NEW t \in Threads, NEW w \in Writers, Deliver(t, w)
         PROVE  TypeOK'
    BY <2>17 DEF Deliver
  <2>18. ASSUME NEW t \in Threads, NextLevel(t)
         PROVE  TypeOK'
    BY <2>18 DEF NextLevel, Levels
  <2> QED
    BY <2>1, <2>2, <2>3, <2>4, <2>5, <2>6, <2>7, <2>8, <2>9, <2>11, <2>12, <2>13, <2>14,
       <2>15, <2>16, <2>17, <2>18 DEF Next, Start, Step
<1> QED
  BY <1>1, <1>2, PTL DEF Spec
-----------------------------------------------------------------------------
(***************************************************************************)
(* The inductive invariant, part by part                                   *)
(***************************************************************************)

\* A call ends: what Return leaves of the thread's own state.
ReturnStep(t) ==
  /\ Return(t)
  /\ UNCHANGED <<logWriters, loggers, live, logs, calls>>

\* The steps that end a call, under one name.
LEMMA EndsAreReturns ==
  ASSUME NEW t \in Threads,
         \/ RefreshThrows(t) \/ UpdateDone(t) \/ GetThrows(t) \/ NobodyWants(t)
         \/ NoText(t) \/ DeliverThrows(t) \/ MessageDone(t)
  PROVE  ReturnStep(t)
BY DEF RefreshThrows, UpdateDone, GetThrows, NobodyWants, NoText, DeliverThrows,
       MessageDone, ReturnStep, shared

\* An exclusive holder of either lock is alone, by the guards of the lock steps.
LEMMA LocksStep ==
  ASSUME TypeOK, LocksHeld, LoggersOwned, [Next]_vars
  PROVE  LocksHeld'
<1> USE LabelsUnfolded DEF TypeOK, AllLabels, LocksHeld, Goto, shared, locals
<1>1. CASE UNCHANGED vars
  BY <1>1 DEF vars
<1>2. ASSUME NEW t \in Threads, NEW w \in Writers, AddWriter(t, w) \/ RemoveWriter(t, w)
      PROVE  LocksHeld'
  BY <1>2 DEF AddWriter, RemoveWriter, Call
<1>3. ASSUME NEW t \in Threads, NEW l \in Loggers, GetLogger(t, l)
      PROVE  LocksHeld'
  BY <1>3 DEF GetLogger, Call
<1>4. ASSUME NEW t \in Threads, NEW l \in Loggers, NEW p \in Levels, Message(t, l, p)
      PROVE  LocksHeld'
  BY <1>4 DEF Message, Call
<1>5. ASSUME NEW t \in Threads, LockManager(t)
      PROVE  LocksHeld'
  BY <1>5 DEF LockManager, CanLockManager
<1>6. ASSUME NEW t \in Threads, LockLogger(t)
      PROVE  LocksHeld'
  BY <1>6 DEF LockLogger, CanLockLogger, Refreshing, Delivering, NeedLogger
<1>7. ASSUME NEW t \in Threads, ShareAgain(t) \/ GetShare(t) \/ ShareManager(t)
      PROVE  LocksHeld'
  BY <1>7 DEF ShareAgain, GetShare, ShareManager, CanShareManager
<1>8. ASSUME NEW t \in Threads, Insert(t) \/ Erase(t)
      PROVE  LocksHeld'
  BY <1>8 DEF Insert, Erase
<1>9. ASSUME NEW t \in Threads, NextLogger(t)
      PROVE  LocksHeld'
  BY <1>9 DEF NextLogger
<1>10. ASSUME NEW t \in Threads, NEW w \in Writers, Ask(t, w) \/ Deliver(t, w)
       PROVE  LocksHeld'
  BY <1>10 DEF Ask, Deliver
<1>11. ASSUME NEW t \in Threads, Refresh(t) \/ GetRefresh(t)
       PROVE  LocksHeld'
  BY <1>11 DEF Refresh, GetRefresh
<1>12. ASSUME NEW t \in Threads, ReturnStep(t)
       PROVE  LocksHeld'
  BY <1>12 DEF ReturnStep, Return
<1>13. ASSUME NEW t \in Threads, Register(t)
       PROVE  LocksHeld'
  BY <1>13 DEF Register
<1>14. ASSUME NEW l \in Loggers, Release(l)
       PROVE  LocksHeld'
  BY <1>14 DEF Release
<1>15. ASSUME NEW t \in Threads, FirstFor(t) \/ NextLevel(t)
       PROVE  LocksHeld'
  BY <1>15 DEF FirstFor, NextLevel
<1>16. ASSUME NEW t \in Threads, Enter(t)
       PROVE  LocksHeld'
  BY <1>16 DEF Enter, CanShareLogger, Refreshing, NeedLogger
<1> QED
  BY <1>1, <1>2, <1>3, <1>4, <1>5, <1>6, <1>7, <1>8, <1>9, <1>10, <1>11, <1>12, <1>13,
     <1>14, <1>15, <1>16, EndsAreReturns DEF Next, Start, Step
\* A logger being made is nobody else's, because getLogger takes an address no
\* logger has; an update walks over registered loggers only.
LEMMA LoggersOwnedStep ==
  ASSUME TypeOK, LocksHeld, LoggersOwned, [Next]_vars
  PROVE  LoggersOwned'
<1> USE LabelsUnfolded DEF TypeOK, AllLabels, LoggersOwned, Goto, shared, locals, NeedLogger
<1>1. CASE UNCHANGED vars
  BY <1>1 DEF vars
<1>2. ASSUME NEW t \in Threads, NEW w \in Writers, AddWriter(t, w) \/ RemoveWriter(t, w)
      PROVE  LoggersOwned'
  BY <1>2, WritersAssumption DEF AddWriter, RemoveWriter, Call
<1>3. ASSUME NEW t \in Threads, NEW l \in Loggers, GetLogger(t, l)
      PROVE  LoggersOwned'
  BY <1>3 DEF GetLogger, Call
<1>4. ASSUME NEW t \in Threads, NEW l \in Loggers, NEW p \in Levels, Message(t, l, p)
      PROVE  LoggersOwned'
  BY <1>4 DEF Message, Call
<1>5. ASSUME NEW t \in Threads, LockManager(t) \/ Insert(t) \/ Erase(t)
      PROVE  LoggersOwned'
  BY <1>5 DEF LockManager, Insert, Erase
<1>6. ASSUME NEW t \in Threads, LockLogger(t) \/ ShareAgain(t) \/ GetShare(t)
      PROVE  LoggersOwned'
  BY <1>6 DEF LockLogger, ShareAgain, GetShare
<1>7. ASSUME NEW t \in Threads, ShareManager(t)
      PROVE  LoggersOwned'
  BY <1>7 DEF ShareManager
<1>8. ASSUME NEW t \in Threads, NextLogger(t)
      PROVE  LoggersOwned'
  BY <1>8 DEF NextLogger
<1>9. ASSUME NEW t \in Threads, NEW w \in Writers, Ask(t, w)
      PROVE  LoggersOwned'
  BY <1>9 DEF Ask
<1>10. ASSUME NEW t \in Threads, NEW w \in Writers, Deliver(t, w)
       PROVE  LoggersOwned'
  BY <1>10 DEF Deliver
<1>11. ASSUME NEW t \in Threads, Refresh(t)
       PROVE  LoggersOwned'
  BY <1>11 DEF Refresh
<1>12. ASSUME NEW t \in Threads, GetRefresh(t)
       PROVE  LoggersOwned'
  BY <1>12 DEF GetRefresh
<1>13. ASSUME NEW t \in Threads, ReturnStep(t)
       PROVE  LoggersOwned'
  BY <1>13 DEF ReturnStep, Return
<1>14. ASSUME NEW t \in Threads, Register(t)
       PROVE  LoggersOwned'
  BY <1>14 DEF Register
<1>15. ASSUME NEW l \in Loggers, Release(l)
       PROVE  LoggersOwned'
  BY <1>15 DEF Release
<1>16. ASSUME NEW t \in Threads, FirstFor(t) \/ NextLevel(t)
       PROVE  LoggersOwned'
  BY <1>16 DEF FirstFor, NextLevel
<1>17. ASSUME NEW t \in Threads, Enter(t)
       PROVE  LoggersOwned'
  BY <1>17 DEF Enter
<1> QED
    BY <1>1, <1>2, <1>3, <1>4, <1>5, <1>6, <1>7, <1>8, <1>9, <1>10, <1>11, <1>12, <1>13,
     <1>14, <1>15, <1>16, <1>17, EndsAreReturns DEF Next, Start, Step

\* The registry a thread asks about is locked until the answers are used.
LEMMA AnswersCurrentStep ==
  ASSUME TypeOK, LocksHeld, LoggersOwned, AnswersCurrent, [Next]_vars
  PROVE  AnswersCurrent'
<1> USE LabelsUnfolded DEF TypeOK, AllLabels, AnswersCurrent, Goto, shared, locals
<1>1. CASE UNCHANGED vars
  BY <1>1 DEF vars
<1>2. ASSUME NEW t \in Threads, NEW w \in Writers, AddWriter(t, w) \/ RemoveWriter(t, w)
      PROVE  AnswersCurrent'
  BY <1>2 DEF AddWriter, RemoveWriter, Call
<1>3. ASSUME NEW t \in Threads, NEW l \in Loggers, GetLogger(t, l)
      PROVE  AnswersCurrent'
  BY <1>3 DEF GetLogger, Call
<1>4. ASSUME NEW t \in Threads, NEW l \in Loggers, NEW p \in Levels, Message(t, l, p)
      PROVE  AnswersCurrent'
  BY <1>4 DEF Message, Call
<1>5. ASSUME NEW t \in Threads, LockManager(t)
      PROVE  AnswersCurrent'
  BY <1>5 DEF LockManager
<1>6. ASSUME NEW t \in Threads, Insert(t) \/ Erase(t)
      PROVE  AnswersCurrent'
  BY <1>6 DEF Insert, Erase, LocksHeld
<1>7. ASSUME NEW t \in Threads, LockLogger(t) \/ ShareAgain(t) \/ GetShare(t)
      PROVE  AnswersCurrent'
  BY <1>7 DEF LockLogger, ShareAgain, GetShare
<1>8. ASSUME NEW t \in Threads, ShareManager(t)
      PROVE  AnswersCurrent'
  BY <1>8 DEF ShareManager
<1>9. ASSUME NEW t \in Threads, NextLogger(t)
      PROVE  AnswersCurrent'
  BY <1>9 DEF NextLogger
<1>10. ASSUME NEW t \in Threads, NEW w \in Writers, Ask(t, w)
       PROVE  AnswersCurrent'
  BY <1>10 DEF Ask
<1>11. ASSUME NEW t \in Threads, NEW w \in Writers, Deliver(t, w)
       PROVE  AnswersCurrent'
  BY <1>11 DEF Deliver
<1>12. ASSUME NEW t \in Threads, Refresh(t)
       PROVE  AnswersCurrent'
  BY <1>12 DEF Refresh
<1>13. ASSUME NEW t \in Threads, GetRefresh(t)
       PROVE  AnswersCurrent'
  BY <1>13 DEF GetRefresh
<1>14. ASSUME NEW t \in Threads, ReturnStep(t)
       PROVE  AnswersCurrent'
  BY <1>14 DEF ReturnStep, Return
<1>15. ASSUME NEW t \in Threads, Register(t)
       PROVE  AnswersCurrent'
  BY <1>15 DEF Register
<1>16. ASSUME NEW l \in Loggers, Release(l)
       PROVE  AnswersCurrent'
  BY <1>16 DEF Release
<1>17. ASSUME NEW t \in Threads, FirstFor(t) \/ NextLevel(t)
       PROVE  AnswersCurrent'
  BY <1>17 DEF FirstFor, NextLevel
<1>18. ASSUME NEW t \in Threads, Enter(t)
       PROVE  AnswersCurrent'
  BY <1>18 DEF Enter
<1> QED
    BY <1>1, <1>2, <1>3, <1>4, <1>5, <1>6, <1>7, <1>8, <1>9, <1>10, <1>11, <1>12, <1>13,
     <1>14, <1>15, <1>16, <1>17, <1>18, EndsAreReturns DEF Next, Start, Step

\* Every table comes from getLogsForDomain, which puts a writer at one level.
LEMMA OneLevelEachStep ==
  ASSUME TypeOK, OneLevelEach, [Next]_vars
  PROVE  OneLevelEach'
<1> USE LabelsUnfolded DEF TypeOK, AllLabels, OneLevelEach, Goto, shared, locals
<1>1. CASE UNCHANGED vars
  BY <1>1 DEF vars
<1>2. ASSUME NEW t \in Threads, NEW w \in Writers,
             \/ AddWriter(t, w) \/ RemoveWriter(t, w) \/ Ask(t, w) \/ Deliver(t, w)
      PROVE  OneLevelEach'
  BY <1>2 DEF AddWriter, RemoveWriter, Call, Ask, Deliver
<1>3. ASSUME NEW t \in Threads, NEW l \in Loggers, GetLogger(t, l)
      PROVE  OneLevelEach'
  BY <1>3 DEF GetLogger, Call
<1>4. ASSUME NEW t \in Threads, NEW l \in Loggers, NEW p \in Levels, Message(t, l, p)
      PROVE  OneLevelEach'
  BY <1>4 DEF Message, Call
<1>5. ASSUME NEW t \in Threads, LockManager(t) \/ Insert(t) \/ Erase(t)
      PROVE  OneLevelEach'
  BY <1>5 DEF LockManager, Insert, Erase
<1>6. ASSUME NEW t \in Threads,
             \/ LockLogger(t) \/ ShareAgain(t) \/ GetShare(t) \/ ShareManager(t)
             \/ NextLogger(t)
      PROVE  OneLevelEach'
  BY <1>6 DEF LockLogger, ShareAgain, GetShare, ShareManager, NextLogger
<1>7. ASSUME NEW t \in Threads, Refresh(t)
      PROVE  OneLevelEach'
  BY <1>7 DEF Refresh, LogsForDomain, NeedLogger
<1>8. ASSUME NEW t \in Threads, GetRefresh(t)
      PROVE  OneLevelEach'
  BY <1>8 DEF GetRefresh, LogsForDomain, NeedLogger
<1>9. ASSUME NEW t \in Threads, ReturnStep(t)
      PROVE  OneLevelEach'
  BY <1>9 DEF ReturnStep, Return
<1>10. ASSUME NEW t \in Threads, Register(t)
       PROVE  OneLevelEach'
  BY <1>10 DEF Register
<1>11. ASSUME NEW l \in Loggers, Release(l)
       PROVE  OneLevelEach'
  BY <1>11 DEF Release
<1>12. ASSUME NEW t \in Threads, FirstFor(t) \/ NextLevel(t) \/ Enter(t)
       PROVE  OneLevelEach'
  BY <1>12 DEF FirstFor, NextLevel, Enter
<1> QED
    BY <1>1, <1>2, <1>3, <1>4, <1>5, <1>6, <1>7, <1>8, <1>9, <1>10, <1>11, <1>12,
     EndsAreReturns DEF Next, Start, Step
\* Who is in a table from level k up.
LEMMA FromMember ==
  ASSUME NEW table, NEW k, NEW w
  PROVE  w \in From(table, k) <=> \E j \in Levels : j >= k /\ w \in table[j]
BY DEF From

\* A writer that was at level k or above and is in the new table is there at level k
\* or above as well: its level for a logger does not change.
LEMMA StaysAbove ==
  ASSUME TypeOK, OneLevelEach, NEW l \in Loggers, NEW registry \in SUBSET Writers, NEW k,
         NEW w, w \in From(logs[l], k), w \in From(LogsForDomain(registry, l), 0)
  PROVE  w \in From(LogsForDomain(registry, l), k)
<1>1. PICK i \in Levels : i >= k /\ w \in logs[l][i]
  BY FromMember
<1>2. PICK j \in Levels : w \in LogsForDomain(registry, l)[j]
  BY FromMember
<1>3. LevelOf[w][l] = i /\ LevelOf[w][l] = j
  BY <1>1, <1>2 DEF OneLevelEach, LogsForDomain
<1> QED
  BY <1>1, <1>2, <1>3, FromMember

\* A message's iterators stay good: while it waits for the lock a second time its
\* logger may be refreshed, which takes writers away or leaves them where they were.
LEMMA IteratorsValidStep ==
  ASSUME TypeOK, LocksHeld, LoggersOwned, AnswersCurrent, OneLevelEach, IteratorsValid,
         [Next]_vars
  PROVE  IteratorsValid'
<1> USE LabelsUnfolded DEF TypeOK, AllLabels, IteratorsValid, Goto, shared, locals
<1>1. CASE UNCHANGED vars
  BY <1>1 DEF vars
<1>2. ASSUME NEW t \in Threads, NEW w \in Writers, AddWriter(t, w) \/ RemoveWriter(t, w)
      PROVE  IteratorsValid'
  BY <1>2 DEF AddWriter, RemoveWriter, Call
<1>3. ASSUME NEW t \in Threads, NEW l \in Loggers, GetLogger(t, l)
      PROVE  IteratorsValid'
  BY <1>3 DEF GetLogger, Call
<1>4. ASSUME NEW t \in Threads, NEW l \in Loggers, NEW p \in Levels, Message(t, l, p)
      PROVE  IteratorsValid'
  BY <1>4 DEF Message, Call
<1>5. ASSUME NEW t \in Threads, LockManager(t) \/ Insert(t) \/ Erase(t)
      PROVE  IteratorsValid'
  BY <1>5 DEF LockManager, Insert, Erase
<1>6. ASSUME NEW t \in Threads, LockLogger(t) \/ ShareAgain(t) \/ GetShare(t)
      PROVE  IteratorsValid'
  BY <1>6 DEF LockLogger, ShareAgain, GetShare
<1>7. ASSUME NEW t \in Threads, ShareManager(t)
      PROVE  IteratorsValid'
  BY <1>7 DEF ShareManager
<1>8. ASSUME NEW t \in Threads, NextLogger(t)
      PROVE  IteratorsValid'
  BY <1>8 DEF NextLogger
<1>9. ASSUME NEW t \in Threads, NEW w \in Writers, Ask(t, w)
      PROVE  IteratorsValid'
  BY <1>9 DEF Ask
<1>10. ASSUME NEW t \in Threads, NEW w \in Writers, Deliver(t, w)
       PROVE  IteratorsValid'
  <2>1. LevelOf[w][logger[t]] = fl[t]
    BY <1>10 DEF Deliver, OneLevelEach, NeedLogger
  <2> QED
    BY <1>10, <2>1 DEF Deliver, Levels
<1>11. ASSUME NEW t \in Threads, Refresh(t)
       PROVE  IteratorsValid'
  <2> DEFINE new == LogsForDomain(asked[t], logger[t])
  <2>1. logger[t] \in Loggers /\ asked[t] \in SUBSET Writers
    BY <1>11 DEF Refresh, NeedLogger
  <2> SUFFICES ASSUME NEW s \in Threads PROVE IteratorsValid!(s)'
    BY Zenon
  <2>2. CASE pc[s] = "enter" /\ logger[s] = logger[t]
    <3>1. owed'[s] = owed[s] \cap From(new, 0) /\ logs'[logger'[s]] = new /\ s # t
      BY <1>11, <2>1, <2>2 DEF Refresh
    <3>2. owed'[s] \subseteq From(new, fl[s])
      BY <2>1, <2>2, <3>1, StaysAbove
    <3> QED
      BY <1>11, <2>2, <3>1, <3>2 DEF Refresh
  <2>3. CASE ~(pc[s] = "enter" /\ logger[s] = logger[t])
    <3>1. pc'[s] \in {"enter", "deliver"} => /\ pc'[s] = pc[s] /\ logger'[s] = logger[s]
                                             /\ logs'[logger[s]] = logs[logger[s]]
                                             /\ owed'[s] = owed[s]
      BY <1>11, <2>1, <2>3 DEF Refresh, LocksHeld, NeedLogger
    <3> QED
      BY <1>11, <3>1 DEF Refresh
  <2> QED
    BY <2>2, <2>3
<1>12. ASSUME NEW t \in Threads, GetRefresh(t)
       PROVE  IteratorsValid'
  BY <1>12 DEF GetRefresh, LoggersOwned, NeedLogger
<1>13. ASSUME NEW t \in Threads, ReturnStep(t)
       PROVE  IteratorsValid'
  BY <1>13 DEF ReturnStep, Return
<1>14. ASSUME NEW t \in Threads, Register(t)
       PROVE  IteratorsValid'
  BY <1>14 DEF Register
<1>15. ASSUME NEW l \in Loggers, Release(l)
       PROVE  IteratorsValid'
  BY <1>15 DEF Release
<1>16. ASSUME NEW t \in Threads, FirstFor(t)
       PROVE  IteratorsValid'
  <2>1. PICK k \in Levels : IsFirst(logs[logger[t]], fl[t], k) /\ fl' = [fl EXCEPT ![t] = k]
    BY <1>16 DEF FirstFor
  <2>2. From(logs[logger[t]], fl[t]) \subseteq From(logs[logger[t]], k)
    <3>1. SUFFICES ASSUME NEW w \in From(logs[logger[t]], fl[t])
                   PROVE  w \in From(logs[logger[t]], k)
      OBVIOUS
    <3>2. PICK j \in Levels : j >= fl[t] /\ w \in logs[logger[t]][j]
      BY FromMember
    <3>3. fl[t] <= j /\ ~(j < k)
      BY <2>1, <3>2 DEF IsFirst, Levels
    <3>4. j >= k
      BY <3>3 DEF Levels
    <3> QED
      BY <3>2, <3>4, FromMember
  <2> QED
    BY <1>16, <2>1, <2>2 DEF FirstFor
<1>17. ASSUME NEW t \in Threads, NextLevel(t)
       PROVE  IteratorsValid'
  <2>1. \A w \in logs[logger[t]][fl[t] + 1] : LevelOf[w][logger[t]] = fl[t] + 1
    BY <1>17 DEF NextLevel, OneLevelEach, NeedLogger, Levels
  <2>2. told[t] \cap logs[logger[t]][fl[t] + 1] = {}
    <3>1. \A w \in told[t] : LevelOf[w][logger[t]] \in 0 .. fl[t]
      BY <1>17 DEF NextLevel
    <3>2. fl[t] \in Nat
      BY DEF Levels
    <3> QED
      BY <2>1, <3>1, <3>2
  <2> QED
    BY <1>17, <2>2 DEF NextLevel, Levels
<1>18. ASSUME NEW t \in Threads, Enter(t)
       PROVE  IteratorsValid'
  BY <1>18 DEF Enter
<1> HIDE DEF TypeOK, IteratorsValid
<1>19. ASSUME NEW t \in Threads, Start(t)
       PROVE  IteratorsValid'
  BY <1>2, <1>3, <1>4, <1>19, Zenon DEF Start
<1>20. ASSUME NEW t \in Threads, Step(t)
       PROVE  IteratorsValid'
  BY <1>5, <1>6, <1>7, <1>8, <1>9, <1>10, <1>11, <1>12, <1>13, <1>14, <1>16, <1>17, <1>18,
     <1>20, EndsAreReturns, Zenon DEF Step
<1> QED
  BY <1>1, <1>15, <1>19, <1>20, Zenon DEF Next

\* The writers from level k up are those of level k and those above it.
LEMMA FromSplit ==
  ASSUME NEW table, NEW k \in Levels
  PROVE  From(table, k) \subseteq table[k] \cup From(table, k + 1)
<1>1. SUFFICES ASSUME NEW w \in From(table, k), w \notin table[k]
               PROVE  w \in From(table, k + 1)
  OBVIOUS
<1>2. PICK j \in Levels : j >= k /\ w \in table[j]
  BY FromMember
<1>3. j >= k + 1
  BY <1>1, <1>2 DEF Levels
<1> QED
  BY <1>2, <1>3, FromMember

\* The iterator passes no level that still holds a writer the message is owed to.
LEMMA NobodyLeftOutStep ==
  ASSUME TypeOK, LocksHeld, LoggersOwned, IteratorsValid, NobodyLeftOut, [Next]_vars
  PROVE  NobodyLeftOut'
<1> USE LabelsUnfolded DEF TypeOK, AllLabels, NobodyLeftOut, Ahead, Goto, shared, locals
<1>1. CASE UNCHANGED vars
  BY <1>1 DEF vars
<1>2. ASSUME NEW t \in Threads, NEW w \in Writers, AddWriter(t, w) \/ RemoveWriter(t, w)
      PROVE  NobodyLeftOut'
  BY <1>2 DEF AddWriter, RemoveWriter, Call
<1>3. ASSUME NEW t \in Threads, NEW l \in Loggers, GetLogger(t, l)
      PROVE  NobodyLeftOut'
  BY <1>3 DEF GetLogger, Call
<1>4. ASSUME NEW t \in Threads, NEW l \in Loggers, NEW p \in Levels, Message(t, l, p)
      PROVE  NobodyLeftOut'
  BY <1>4 DEF Message, Call
<1>5. ASSUME NEW t \in Threads, LockManager(t) \/ Insert(t) \/ Erase(t)
      PROVE  NobodyLeftOut'
  BY <1>5 DEF LockManager, Insert, Erase
<1>6. ASSUME NEW t \in Threads, LockLogger(t) \/ ShareAgain(t) \/ GetShare(t)
      PROVE  NobodyLeftOut'
  BY <1>6 DEF LockLogger, ShareAgain, GetShare
<1>7. ASSUME NEW t \in Threads, ShareManager(t)
      PROVE  NobodyLeftOut'
  BY <1>7 DEF ShareManager
<1>8. ASSUME NEW t \in Threads, NextLogger(t)
      PROVE  NobodyLeftOut'
  BY <1>8 DEF NextLogger
<1>9. ASSUME NEW t \in Threads, NEW w \in Writers, Ask(t, w)
      PROVE  NobodyLeftOut'
  BY <1>9 DEF Ask
<1>10. ASSUME NEW t \in Threads, NEW w \in Writers, Deliver(t, w)
       PROVE  NobodyLeftOut'
  BY <1>10 DEF Deliver
<1>11. ASSUME NEW t \in Threads, Refresh(t)
       PROVE  NobodyLeftOut'
  BY <1>11 DEF Refresh, LocksHeld, NeedLogger
<1>12. ASSUME NEW t \in Threads, GetRefresh(t)
       PROVE  NobodyLeftOut'
  BY <1>12 DEF GetRefresh, LoggersOwned, NeedLogger
<1>13. ASSUME NEW t \in Threads, ReturnStep(t)
       PROVE  NobodyLeftOut'
  BY <1>13 DEF ReturnStep, Return
<1>14. ASSUME NEW t \in Threads, Register(t)
       PROVE  NobodyLeftOut'
  BY <1>14 DEF Register
<1>15. ASSUME NEW l \in Loggers, Release(l)
       PROVE  NobodyLeftOut'
  BY <1>15 DEF Release
<1>16. ASSUME NEW t \in Threads, FirstFor(t)
       PROVE  NobodyLeftOut'
  BY <1>16 DEF FirstFor
<1>17. ASSUME NEW t \in Threads, NextLevel(t)
       PROVE  NobodyLeftOut'
  <2>1. From(logs[logger[t]], fl[t] + 1)
          \subseteq logs[logger[t]][fl[t] + 1] \cup From(logs[logger[t]], (fl[t] + 1) + 1)
    BY <1>17, FromSplit DEF NextLevel, Levels
  <2>2. owed[t] \subseteq told[t] \cup From(logs[logger[t]], fl[t] + 1)
    BY <1>17 DEF NextLevel
  <2> QED
    BY <1>17, <2>1, <2>2 DEF NextLevel
<1>18. ASSUME NEW t \in Threads, Enter(t)
       PROVE  NobodyLeftOut'
  <2>1. owed[t] \subseteq From(logs[logger[t]], fl[t])
    BY <1>18 DEF Enter, IteratorsValid
  <2>2. From(logs[logger[t]], fl[t])
          \subseteq logs[logger[t]][fl[t]] \cup From(logs[logger[t]], fl[t] + 1)
    BY FromSplit
  <2> QED
    BY <1>18, <2>1, <2>2 DEF Enter
<1> QED
    BY <1>1, <1>2, <1>3, <1>4, <1>5, <1>6, <1>7, <1>8, <1>9, <1>10, <1>11, <1>12, <1>13,
     <1>14, <1>15, <1>16, <1>17, <1>18, EndsAreReturns DEF Next, Start, Step

\* A step that leaves the tables and the registry alone, and no refresh undone.
LEMMA ViewsKept ==
  ASSUME ViewsFollowRegistry, UNCHANGED <<logWriters, logs>>,
         loggers' \ astray' \subseteq loggers \ astray,
         \A s \in Threads, l \in loggers :
           Pending(s, l) => Pending(s, l)' /\ writer'[s] = writer[s]
  PROVE  ViewsFollowRegistry'
BY DEF ViewsFollowRegistry, InStep, InFlight

\* A difference between a table and the registry appears when the registry changes,
\* and the thread that changed it owes every logger a refresh until it has made it.
LEMMA ViewsFollowRegistryStep ==
  ASSUME TypeOK, LocksHeld, LoggersOwned, AnswersCurrent, ViewsFollowRegistry, [Next]_vars
  PROVE  ViewsFollowRegistry'
<1> USE LabelsUnfolded DEF TypeOK, AllLabels, Goto, shared, locals
<1>1. CASE UNCHANGED vars
  <2>1. \A s \in Threads, x \in loggers :
          Pending(s, x) => Pending(s, x)' /\ writer'[s] = writer[s]
    BY <1>1 DEF Pending, vars
  <2> QED
    BY <1>1, <2>1, ViewsKept DEF vars
<1>2. ASSUME NEW t \in Threads, NEW w \in Writers, AddWriter(t, w) \/ RemoveWriter(t, w)
      PROVE  ViewsFollowRegistry'
  <2>1. \A s \in Threads, x \in loggers :
          Pending(s, x) => Pending(s, x)' /\ writer'[s] = writer[s]
    BY <1>2 DEF Pending, AddWriter, RemoveWriter, Call
  <2> QED
    BY <1>2, <2>1, ViewsKept DEF AddWriter, RemoveWriter, Call
<1>3. ASSUME NEW t \in Threads, NEW l \in Loggers, GetLogger(t, l)
      PROVE  ViewsFollowRegistry'
  <2>1. \A s \in Threads, x \in loggers :
          Pending(s, x) => Pending(s, x)' /\ writer'[s] = writer[s]
    BY <1>3 DEF Pending, GetLogger, Call
  <2> QED
    BY <1>3, <2>1, ViewsKept DEF GetLogger, Call
<1>4. ASSUME NEW t \in Threads, NEW l \in Loggers, NEW p \in Levels, Message(t, l, p)
      PROVE  ViewsFollowRegistry'
  <2>1. \A s \in Threads, x \in loggers :
          Pending(s, x) => Pending(s, x)' /\ writer'[s] = writer[s]
    BY <1>4 DEF Pending, Message, Call
  <2> QED
    BY <1>4, <2>1, ViewsKept DEF Message, Call
<1>5. ASSUME NEW t \in Threads, LockManager(t)
      PROVE  ViewsFollowRegistry'
  <2>1. \A s \in Threads, x \in loggers :
          Pending(s, x) => Pending(s, x)' /\ writer'[s] = writer[s]
    BY <1>5 DEF Pending, LockManager
  <2> QED
    BY <1>5, <2>1, ViewsKept DEF LockManager
<1>6. ASSUME NEW t \in Threads, Insert(t) \/ Erase(t)
      PROVE  ViewsFollowRegistry'
  <2> DEFINE w == writer[t]
  <2>1. /\ \A v \in Writers \ {w} : v \in logWriters' <=> v \in logWriters
        /\ UNCHANGED <<logs, loggers, astray, writer>>
        /\ \A s \in Threads, x \in loggers : Pending(s, x) => Pending(s, x)'
    BY <1>6 DEF Insert, Erase, Pending
  <2>2. \A x \in loggers : InFlight(w, x)'
    BY <1>6 DEF Insert, Erase, Pending, InFlight
  <2> QED
    BY <2>1, <2>2 DEF ViewsFollowRegistry, InFlight, InStep, LogsForDomain
<1>7. ASSUME NEW t \in Threads, LockLogger(t) \/ ShareAgain(t) \/ GetShare(t)
      PROVE  ViewsFollowRegistry'
  <2>1. \A s \in Threads, x \in loggers :
          Pending(s, x) => Pending(s, x)' /\ writer'[s] = writer[s]
    BY <1>7 DEF Pending, LockLogger, ShareAgain, GetShare
  <2> QED
    BY <1>7, <2>1, ViewsKept DEF LockLogger, ShareAgain, GetShare
<1>8. ASSUME NEW t \in Threads, ShareManager(t)
      PROVE  ViewsFollowRegistry'
  <2>1. \A s \in Threads, x \in loggers :
          Pending(s, x) => Pending(s, x)' /\ writer'[s] = writer[s]
    BY <1>8 DEF Pending, ShareManager
  <2> QED
    BY <1>8, <2>1, ViewsKept DEF ShareManager
<1>9. ASSUME NEW t \in Threads, NextLogger(t)
      PROVE  ViewsFollowRegistry'
  <2>1. \A s \in Threads, x \in loggers :
          Pending(s, x) => Pending(s, x)' /\ writer'[s] = writer[s]
    BY <1>9 DEF Pending, NextLogger
  <2> QED
    BY <1>9, <2>1, ViewsKept DEF NextLogger
<1>10. ASSUME NEW t \in Threads, NEW w \in Writers, Ask(t, w)
       PROVE  ViewsFollowRegistry'
  <2>1. \A s \in Threads, x \in loggers :
          Pending(s, x) => Pending(s, x)' /\ writer'[s] = writer[s]
    BY <1>10 DEF Pending, Ask
  <2> QED
    BY <1>10, <2>1, ViewsKept DEF Ask
<1>11. ASSUME NEW t \in Threads, NEW w \in Writers, Deliver(t, w)
       PROVE  ViewsFollowRegistry'
  <2>1. \A s \in Threads, x \in loggers :
          Pending(s, x) => Pending(s, x)' /\ writer'[s] = writer[s]
    BY <1>11 DEF Pending, Deliver
  <2> QED
    BY <1>11, <2>1, ViewsKept DEF Deliver
<1>12. ASSUME NEW t \in Threads, Refresh(t)
       PROVE  ViewsFollowRegistry'
  <2>1. asked[t] = logWriters /\ logger[t] \in Loggers
    BY <1>12 DEF Refresh, AnswersCurrent, NeedLogger
  <2> PICK l \in Loggers : l = logger[t]
    BY <2>1
  <2>2. /\ logs' = [logs EXCEPT ![l] = LogsForDomain(logWriters, l)]
        /\ UNCHANGED <<logWriters, loggers, writer>>
        /\ astray' = astray \ {l}
    BY <1>12, <2>1 DEF Refresh
  <2>3. \A s \in Threads, x \in loggers \ {l} : Pending(s, x) => Pending(s, x)'
    BY <1>12 DEF Refresh, Pending
  <2>4. \A v \in Writers : InStep(v, l)'
    BY <2>1, <2>2 DEF InStep
  <2>5. ASSUME NEW x \in loggers \ astray, x # l, NEW v \in Writers
        PROVE  InStep(v, x)' \/ InFlight(v, x)'
    <3>1. InStep(v, x) => InStep(v, x)'
      BY <2>2, <2>5 DEF InStep
    <3>2. InFlight(v, x) => InFlight(v, x)'
      BY <2>2, <2>3, <2>5 DEF InFlight
    <3> QED
      BY <2>5, <3>1, <3>2 DEF ViewsFollowRegistry
  <2> QED
    BY <2>2, <2>4, <2>5 DEF ViewsFollowRegistry
<1>13. ASSUME NEW t \in Threads, GetRefresh(t)
       PROVE  ViewsFollowRegistry'
  <2>1. asked[t] = logWriters /\ logger[t] \in Loggers
    BY <1>13 DEF GetRefresh, AnswersCurrent, NeedLogger
  <2> PICK l \in Loggers : l = logger[t]
    BY <2>1
  <2>2. /\ logs' = [logs EXCEPT ![l] = LogsForDomain(logWriters, l)]
        /\ UNCHANGED <<logWriters, loggers, writer>>
        /\ astray' = astray \ {l}
    BY <1>13, <2>1 DEF GetRefresh
  <2>3. \A s \in Threads, x \in loggers : Pending(s, x) => Pending(s, x)'
    BY <1>13 DEF GetRefresh, Pending
  <2>4. \A v \in Writers : InStep(v, l)'
    BY <2>1, <2>2 DEF InStep
  <2>5. ASSUME NEW x \in loggers \ astray, x # l, NEW v \in Writers
        PROVE  InStep(v, x)' \/ InFlight(v, x)'
    <3>1. InStep(v, x) => InStep(v, x)'
      BY <2>2, <2>5 DEF InStep
    <3>2. InFlight(v, x) => InFlight(v, x)'
      BY <2>2, <2>3, <2>5 DEF InFlight
    <3> QED
      BY <2>5, <3>1, <3>2 DEF ViewsFollowRegistry
  <2> QED
    BY <2>2, <2>4, <2>5 DEF ViewsFollowRegistry
<1>14. ASSUME NEW t \in Threads, RefreshThrows(t)
       PROVE  ViewsFollowRegistry'
  <2>1. /\ UNCHANGED <<logWriters, loggers, logs>>
        /\ astray \subseteq astray'
        /\ \A x \in todo[t] \ astray' : logs[x] = LogsForDomain(logWriters, x)
    BY <1>14 DEF RefreshThrows
  <2>2. \A s \in Threads, x \in loggers :
          /\ Pending(s, x) => x \in todo[t] \/ s # t
          /\ s # t => (Pending(s, x) => Pending(s, x)') /\ writer'[s] = writer[s]
    BY <1>14 DEF RefreshThrows, Return, Pending
  <2>3. \A x \in todo[t] \ astray', v \in Writers : InStep(v, x)'
    BY <2>1 DEF InStep
  <2>4. ASSUME NEW x \in loggers \ astray', x \notin todo[t], NEW v \in Writers
        PROVE  InStep(v, x)' \/ InFlight(v, x)'
    <3>1. InStep(v, x) => InStep(v, x)'
      BY <2>1 DEF InStep
    <3>2. InFlight(v, x) => InFlight(v, x)'
      BY <2>2, <2>4 DEF InFlight
    <3> QED
      BY <2>1, <2>4, <3>1, <3>2 DEF ViewsFollowRegistry
  <2> QED
    BY <2>1, <2>3, <2>4 DEF ViewsFollowRegistry
<1>15. ASSUME NEW t \in Threads, UpdateDone(t)
       PROVE  ViewsFollowRegistry'
  <2>1. \A s \in Threads, x \in loggers :
          Pending(s, x) => Pending(s, x)' /\ writer'[s] = writer[s]
    BY <1>15 DEF Pending, UpdateDone, Return
  <2> QED
    BY <1>15, <2>1, ViewsKept DEF UpdateDone, Return
<1>16. ASSUME NEW t \in Threads,
              \/ GetThrows(t) \/ NobodyWants(t) \/ NoText(t) \/ DeliverThrows(t)
              \/ MessageDone(t)
       PROVE  ViewsFollowRegistry'
  <2>1. \A s \in Threads, x \in loggers :
          Pending(s, x) => Pending(s, x)' /\ writer'[s] = writer[s]
    BY <1>16 DEF Pending, GetThrows, NobodyWants, NoText, DeliverThrows, MessageDone, Return
  <2> QED
    BY <1>16, <2>1, ViewsKept DEF GetThrows, NobodyWants, NoText, DeliverThrows, MessageDone,
       Return
<1>17. ASSUME NEW t \in Threads, Register(t)
       PROVE  ViewsFollowRegistry'
  <2> PICK l \in Loggers : l = logger[t]
    BY <1>17 DEF Register, NeedLogger
  <2>1. /\ UNCHANGED <<logWriters, logs, writer>>
        /\ loggers' \subseteq loggers \cup {l}
        /\ astray \subseteq astray'
        /\ l \in astray' \/ logs[l] = LogsForDomain(logWriters, l)
    BY <1>17 DEF Register
  <2>2. \A s \in Threads, x \in loggers : Pending(s, x) => Pending(s, x)'
    BY <1>17 DEF Register, Pending
  <2>3. \A v \in Writers : l \in astray' \/ InStep(v, l)'
    BY <2>1 DEF InStep
  <2>4. ASSUME NEW x \in loggers \ astray, NEW v \in Writers
        PROVE  InStep(v, x)' \/ InFlight(v, x)'
    <3>1. InStep(v, x) => InStep(v, x)'
      BY <2>1 DEF InStep
    <3>2. InFlight(v, x) => InFlight(v, x)'
      BY <2>1, <2>2 DEF InFlight
    <3> QED
      BY <3>1, <3>2 DEF ViewsFollowRegistry
  <2> QED
    BY <2>1, <2>3, <2>4 DEF ViewsFollowRegistry
<1>18. ASSUME NEW l \in Loggers, Release(l)
       PROVE  ViewsFollowRegistry'
  <2>1. \A s \in Threads, x \in loggers :
          Pending(s, x) => Pending(s, x)' /\ writer'[s] = writer[s]
    BY <1>18 DEF Pending, Release
  <2> QED
    BY <1>18, <2>1, ViewsKept DEF Release
<1>19. ASSUME NEW t \in Threads, FirstFor(t) \/ NextLevel(t) \/ Enter(t)
       PROVE  ViewsFollowRegistry'
  <2>1. \A s \in Threads, x \in loggers :
          Pending(s, x) => Pending(s, x)' /\ writer'[s] = writer[s]
    BY <1>19 DEF Pending, FirstFor, NextLevel, Enter
  <2> QED
    BY <1>19, <2>1, ViewsKept DEF FirstFor, NextLevel, Enter
<1> QED
    BY <1>1, <1>2, <1>3, <1>4, <1>5, <1>6, <1>7, <1>8, <1>9, <1>10, <1>11, <1>12, <1>13,
     <1>14, <1>15, <1>16, <1>17, <1>18, <1>19 DEF Next, Start, Step
-----------------------------------------------------------------------------
(***************************************************************************)
(* The theorems                                                            *)
(***************************************************************************)

LEMMA InductiveInit == Init => Inductive
<1> SUFFICES ASSUME Init PROVE Inductive
  OBVIOUS
<1>1. \A t \in Threads : pc[t] = "idle" /\ todo[t] = {} /\ asked[t] = {}
  BY DEF Init
<1>2. LocksHeld /\ LoggersOwned /\ AnswersCurrent /\ IteratorsValid /\ NobodyLeftOut
  BY <1>1, LabelsUnfolded
     DEF LocksHeld, LoggersOwned, AnswersCurrent, IteratorsValid, NobodyLeftOut
<1>3. OneLevelEach
  BY DEF Init, OneLevelEach
<1>4. ViewsFollowRegistry
  BY LoggersAssumption DEF Init, ViewsFollowRegistry, InStep, LogsForDomain
<1> QED
  BY <1>2, <1>3, <1>4 DEF Inductive

LEMMA InductiveStep ==
  ASSUME TypeOK, Inductive, [Next]_vars
  PROVE  Inductive'
BY LocksStep, LoggersOwnedStep, AnswersCurrentStep, OneLevelEachStep, IteratorsValidStep,
   NobodyLeftOutStep, ViewsFollowRegistryStep DEF Inductive

\* The inductive invariant holds in every reachable state.
THEOREM InductiveHolds == Spec => []Inductive
BY InductiveInit, InductiveStep, TypeCorrect, PTL DEF Spec

\* However many threads add, remove, look up and log, a registered logger that is
\* not astray differs from the registry only about a call that is still in progress.
THEOREM ViewsCorrect == Spec => []ViewsFollowRegistry
<1>1. Inductive => ViewsFollowRegistry
  BY DEF Inductive
<1> QED
  BY <1>1, InductiveHolds, PTL

\* After removeWriter has returned no message on its way is for that writer.
THEOREM RemovalCorrect == Spec => []RemovedWriterIsQuiet
<1>1. TypeOK /\ Inductive => RemovedWriterIsQuiet
  <2> SUFFICES ASSUME TypeOK, Inductive, NEW t \in Threads, pc[t] = "deliver",
                      logger[t] \in loggers \ astray, NEW w \in left[t]
               PROVE  w \in logWriters \/ InFlight(w, logger[t])
    BY DEF RemovedWriterIsQuiet, PassedBy
  <2>1. w \in logs[logger[t]][fl[t]] /\ fl[t] \in Levels /\ w \in Writers
    BY DEF Inductive, IteratorsValid, TypeOK
  <2>2. InStep(w, logger[t]) \/ InFlight(w, logger[t])
    BY <2>1 DEF Inductive, ViewsFollowRegistry
  <2> QED
    BY <2>1, <2>2 DEF InStep, LogsForDomain
<1> QED
  BY <1>1, TypeCorrect, InductiveHolds, PTL

\* A message that is not cut short by a throw reaches every writer it is owed to.
THEOREM DeliveryComplete == Spec => []NobodyLeftOut
<1>1. Inductive => NobodyLeftOut
  BY DEF Inductive
<1> QED
  BY <1>1, InductiveHolds, PTL

\* No message reaches a writer twice.
THEOREM DeliveryOnce == Spec => []ToldOnce
<1>1. TypeOK /\ Inductive => ToldOnce
  <2> SUFFICES ASSUME TypeOK, Inductive, NEW t \in Threads, pc[t] = "deliver",
                      NEW w \in told[t], w \in Ahead(t)
               PROVE  FALSE
    BY DEF ToldOnce
  <2>1. w \notin left[t] /\ LevelOf[w][logger[t]] \in 0 .. fl[t]
    BY DEF Inductive, IteratorsValid
  <2>2. PICK j \in Levels : j >= fl[t] + 1 /\ w \in logs[logger[t]][j]
    BY <2>1, FromMember DEF Ahead
  <2>3. LevelOf[w][logger[t]] = j
    BY <2>2 DEF Inductive, OneLevelEach, TypeOK, NeedLogger
  <2> QED
    BY <2>1, <2>2, <2>3 DEF TypeOK, Levels
<1> QED
  BY <1>1, TypeCorrect, InductiveHolds, PTL

\* The registry is not changed under a thread that reads it.
THEOREM RegistryIsStable == Spec => RegistryStable
<1>1. TypeOK /\ Inductive /\ [Next]_vars =>
        [\A t \in Threads : pc[t] \in Sharing => logWriters' = logWriters]_vars
  <2> SUFFICES ASSUME TypeOK, Inductive, Next, NEW t \in Threads, pc[t] \in Sharing
               PROVE  logWriters' = logWriters
    BY DEF vars
  <2>1. ASSUME NEW s \in Threads PROVE ~Insert(s) /\ ~Erase(s)
    BY LabelsUnfolded DEF Inductive, LocksHeld, Insert, Erase
  <2> QED
    BY <2>1 DEF Next, Start, Step, AddWriter, RemoveWriter, GetLogger, Message, LockManager,
       ShareManager, NextLogger, LockLogger, ShareAgain, Ask, Refresh, RefreshThrows,
       UpdateDone, GetShare, GetRefresh, GetThrows, Register, FirstFor, NobodyWants, NoText,
       Enter, Deliver, DeliverThrows, NextLevel, MessageDone, Release, shared
<1> QED
  BY <1>1, TypeCorrect, InductiveHolds, PTL DEF Spec, RegistryStable

\* The table a message iterates over is not replaced under it.
THEOREM TableIsStable == Spec => TableStable
<1>1. TypeOK /\ Inductive /\ [Next]_vars =>
        [\A t \in Threads : pc[t] = "deliver" => logs'[logger[t]] = logs[logger[t]]]_vars
  <2> SUFFICES ASSUME TypeOK, Inductive, Next, NEW t \in Threads, pc[t] = "deliver"
               PROVE  logs'[logger[t]] = logs[logger[t]]
    BY DEF vars
  <2>1. ASSUME NEW s \in Threads, Refresh(s) \/ GetRefresh(s)
        PROVE  logs'[logger[t]] = logs[logger[t]]
    <3>1. s # t /\ logger[s] # logger[t]
      BY <2>1 DEF Inductive, LocksHeld, LoggersOwned, Refresh, GetRefresh
    <3> QED
      BY <2>1, <3>1 DEF Refresh, GetRefresh, TypeOK, NeedLogger
  <2> QED
    BY <2>1 DEF Next, Start, Step, AddWriter, RemoveWriter, GetLogger, Message, LockManager,
       Insert, Erase, ShareManager, NextLogger, LockLogger, ShareAgain, Ask, RefreshThrows,
       UpdateDone, GetShare, GetThrows, Register, FirstFor, NobodyWants, NoText,
       Enter, Deliver, DeliverThrows, NextLevel, MessageDone, Release, shared
<1> QED
  BY <1>1, TypeCorrect, InductiveHolds, PTL DEF Spec, TableStable
-----------------------------------------------------------------------------
(***************************************************************************)
(* LogManager implements LogRegistry                                       *)
(***************************************************************************)

\* The abstract variables, as functions of the threads' places.
Talking == [t \in Threads |-> IF pc[t] = "deliver" THEN logger[t] ELSE None]
Waiting == [t \in Threads |-> IF pc[t] = "enter" THEN logger[t] ELSE None]
Asking == [t \in Threads |-> IF pc[t] = "find" THEN logger[t] ELSE None]
Priority == [t \in Threads |-> IF pc[t] = "find" THEN fl[t] ELSE 0]

LEMMA MembersAreFrom ==
  ASSUME NEW table
  PROVE  Registry!Members(table) = From(table, 0)
BY DEF Registry!Members, From, Levels

LEMMA RefinesInit == Init => Registry!Init
BY DEF Init, Registry!Init

\* A step that changes neither the abstract variables' own state nor a message.
LEMMA Stutters ==
  ASSUME UNCHANGED <<logWriters, loggers, logs, owed, told>>,
         UNCHANGED <<Talking, Waiting, Asking, Priority>>
  PROVE  UNCHANGED Registry!vars
BY DEF Registry!vars, Talking, Waiting, Asking, Priority

\* Every step of a thread is a step of the registry or changes nothing of it.
LEMMA RefinesStep ==
  ASSUME TypeOK, Inductive, [Next]_vars
  PROVE  [Registry!Next]_(Registry!vars)
<1> USE LabelsUnfolded DEF TypeOK, AllLabels, Goto, shared, locals
<1> DEFINE Stays == UNCHANGED <<logWriters, loggers, logs, owed, told>>
<1>1. CASE UNCHANGED vars
  BY <1>1, Stutters DEF vars, Talking, Waiting, Asking, Priority
<1>2. ASSUME NEW t \in Threads, NEW w \in Writers, AddWriter(t, w) \/ RemoveWriter(t, w)
      PROVE  UNCHANGED Registry!vars
  <2>1. Stays /\ UNCHANGED <<Talking, Waiting, Asking, Priority>>
    BY <1>2 DEF AddWriter, RemoveWriter, Call, Talking, Waiting, Asking, Priority
  <2> QED
    BY <2>1, Stutters
<1>3. ASSUME NEW t \in Threads, NEW l \in Loggers, GetLogger(t, l)
      PROVE  UNCHANGED Registry!vars
  <2>1. Stays /\ UNCHANGED <<Talking, Waiting, Asking, Priority>>
    BY <1>3 DEF GetLogger, Call, Talking, Waiting, Asking, Priority
  <2> QED
    BY <2>1, Stutters
<1>4. ASSUME NEW t \in Threads, NEW l \in Loggers, NEW p \in Levels, Message(t, l, p)
      PROVE  Registry!Send(t, l, p)
  <2>1. Stays /\ UNCHANGED <<Talking, Waiting>>
    BY <1>4 DEF Message, Call, Talking, Waiting
  <2>2. {Asking[t], Waiting[t], Talking[t]} = {None}
    BY <1>4 DEF Message, Call, Talking, Waiting, Asking
  <2>3. /\ Asking' = [Asking EXCEPT ![t] = l]
        /\ Priority' = [Priority EXCEPT ![t] = p]
    BY <1>4 DEF Message, Call, Asking, Priority
  <2> QED
    BY <2>1, <2>2, <2>3 DEF Registry!Send, Talking, Waiting, Asking, Priority
<1>5. ASSUME NEW t \in Threads,
             LockManager(t) \/ LockLogger(t) \/ ShareAgain(t) \/ GetShare(t)
      PROVE  UNCHANGED Registry!vars
  <2>1. Stays /\ UNCHANGED <<Talking, Waiting, Asking, Priority>>
    BY <1>5 DEF LockManager, LockLogger, ShareAgain, GetShare, Talking, Waiting, Asking,
       Priority
  <2> QED
    BY <2>1, Stutters
<1>6. ASSUME NEW t \in Threads, ShareManager(t) \/ NextLogger(t)
      PROVE  UNCHANGED Registry!vars
  <2>1. Stays /\ UNCHANGED <<Talking, Waiting, Asking, Priority>>
    BY <1>6 DEF ShareManager, NextLogger, Talking, Waiting, Asking, Priority
  <2> QED
    BY <2>1, Stutters
<1>7. ASSUME NEW t \in Threads, NEW w \in Writers, Ask(t, w)
      PROVE  UNCHANGED Registry!vars
  <2>1. Stays /\ UNCHANGED <<Talking, Waiting, Asking, Priority>>
    BY <1>7 DEF Ask, Talking, Waiting, Asking, Priority
  <2> QED
    BY <2>1, Stutters
<1>8. ASSUME NEW t \in Threads, Insert(t) \/ Erase(t)
      PROVE  Registry!Change(writer[t])
  <2>1. UNCHANGED <<loggers, logs, owed, told, Talking, Waiting, Asking, Priority>>
    BY <1>8 DEF Insert, Erase, Talking, Waiting, Asking, Priority
  <2>2. logWriters' \in {logWriters \cup {writer[t]}, logWriters \ {writer[t]}}
    BY <1>8 DEF Insert, Erase
  <2> QED
    BY <2>1, <2>2 DEF Registry!Change, Talking, Waiting, Asking, Priority
<1>9. ASSUME NEW t \in Threads, Refresh(t)
      PROVE  \E l \in Loggers : Registry!Publish(l)
  <2> PICK l \in Loggers : l = logger[t]
    BY <1>9 DEF Refresh, NeedLogger
  <2>1. asked[t] = logWriters
    BY <1>9 DEF Refresh, Inductive, AnswersCurrent
  <2>2. logs' = [logs EXCEPT ![l] = Registry!ViewOf(logWriters, l)]
    BY <1>9, <2>1 DEF Refresh, LogsForDomain, Registry!ViewOf
  <2>3. \A s \in Threads : Talking[s] # l
    BY <1>9, WritersAssumption DEF Refresh, Talking, Inductive, LocksHeld, NeedLogger
  <2>4. owed' = [s \in Threads |-> IF Waiting[s] = l
                                    THEN owed[s] \cap Registry!Members(logs'[l]) ELSE owed[s]]
    <3>1. logs'[l] = LogsForDomain(asked[t], l)
      BY <1>9 DEF Refresh
    <3>2. \A s \in Threads : Waiting[s] = l <=> pc[s] = "enter" /\ logger[s] = l
      BY WritersAssumption DEF Waiting
    <3> QED
      BY <1>9, <3>1, <3>2, MembersAreFrom DEF Refresh
  <2>5. UNCHANGED <<logWriters, loggers, told, Talking, Waiting, Asking, Priority>>
    BY <1>9 DEF Refresh, Talking, Waiting, Asking, Priority
  <2> QED
    BY <2>2, <2>3, <2>4, <2>5 DEF Registry!Publish, Talking, Waiting, Asking, Priority
<1>10. ASSUME NEW t \in Threads, GetRefresh(t)
       PROVE  \E l \in Loggers : Registry!Publish(l)
  <2> PICK l \in Loggers : l = logger[t]
    BY <1>10 DEF GetRefresh, NeedLogger
  <2>1. asked[t] = logWriters
    BY <1>10 DEF GetRefresh, Inductive, AnswersCurrent
  <2>2. logs' = [logs EXCEPT ![l] = Registry!ViewOf(logWriters, l)]
    BY <1>10, <2>1 DEF GetRefresh, LogsForDomain, Registry!ViewOf
  <2>3. \A s \in Threads : Talking[s] # l /\ Waiting[s] # l
    BY <1>10, WritersAssumption DEF GetRefresh, Talking, Waiting, Asking, Priority, Inductive,
       LoggersOwned
  <2>4. UNCHANGED <<logWriters, loggers, owed, told, Talking, Waiting, Asking, Priority>>
    BY <1>10 DEF GetRefresh, Talking, Waiting, Asking, Priority
  <2>5. owed' = [s \in Threads |-> IF Waiting[s] = l
                                    THEN owed[s] \cap Registry!Members(logs'[l]) ELSE owed[s]]
    BY <2>3, <2>4
  <2> QED
    BY <2>2, <2>3, <2>4, <2>5 DEF Registry!Publish, Talking, Waiting, Asking, Priority
<1>11. ASSUME NEW t \in Threads, Register(t)
       PROVE  (\E l \in Loggers : Registry!Admit(l)) \/ UNCHANGED Registry!vars
  <2>1. UNCHANGED <<logWriters, logs, owed, told, Talking, Waiting, Asking, Priority>>
    BY <1>11 DEF Register, Talking, Waiting, Asking, Priority
  <2>2. \/ loggers' = loggers
        \/ logger[t] \in Loggers /\ loggers' = loggers \cup {logger[t]}
    BY <1>11 DEF Register, NeedLogger
  <2> QED
    BY <2>1, <2>2 DEF Registry!Admit, Registry!vars, Talking, Waiting, Asking, Priority
<1>12. ASSUME NEW l \in Loggers, Release(l)
       PROVE  UNCHANGED Registry!vars
  <2>1. Stays /\ UNCHANGED <<Talking, Waiting, Asking, Priority>>
    BY <1>12 DEF Release, Talking, Waiting, Asking, Priority
  <2> QED
    BY <2>1, Stutters
<1>13. ASSUME NEW t \in Threads, FirstFor(t)
       PROVE  Registry!Look(t)
  <2>1. Asking[t] = logger[t] /\ Asking[t] # None /\ Priority[t] = fl[t]
    BY <1>13, WritersAssumption DEF FirstFor, Asking, Priority, NeedLogger
  <2>2. /\ UNCHANGED <<logWriters, loggers, logs, told, Talking>>
        /\ Waiting' = [Waiting EXCEPT ![t] = Asking[t]]
        /\ Asking' = [Asking EXCEPT ![t] = None]
        /\ Priority' = [Priority EXCEPT ![t] = 0]
    BY <1>13 DEF FirstFor, Talking, Waiting, Asking, Priority
  <2>3. From(logs[logger[t]], fl[t])
          = UNION {logs[Asking[t]][k] : k \in {j \in Levels : j >= Priority[t]}}
    BY <2>1 DEF From
  <2>4. From(logs[logger[t]], fl[t]) # {}
    BY <1>13 DEF FirstFor, IsFirst, From
  <2>5. owed' = [owed EXCEPT ![t] = From(logs[logger[t]], fl[t])]
    BY <1>13 DEF FirstFor
  <2> QED
    BY <2>1, <2>2, <2>3, <2>4, <2>5
       DEF Registry!Look, Registry!Wanting, Talking, Waiting, Asking, Priority
<1>14. ASSUME NEW t \in Threads, Enter(t)
       PROVE  Registry!Begin(t)
  <2>1. /\ UNCHANGED <<logWriters, loggers, logs, owed, told, Asking, Priority>>
        /\ Talking' = [Talking EXCEPT ![t] = Waiting[t]]
        /\ Waiting' = [Waiting EXCEPT ![t] = None]
        /\ Waiting[t] # None
    BY <1>14, WritersAssumption DEF Enter, Talking, Waiting, Asking, Priority, NeedLogger
  <2> QED
    BY <2>1 DEF Registry!Begin, Talking, Waiting, Asking, Priority
<1>15. ASSUME NEW t \in Threads, NEW w \in Writers, Deliver(t, w)
       PROVE  Registry!Tell(t, w)
  <2>1. UNCHANGED <<logWriters, loggers, logs, owed, Talking, Waiting, Asking, Priority>>
    BY <1>15 DEF Deliver, Talking, Waiting, Asking, Priority
  <2>2. Talking[t] # None /\ Talking[t] = logger[t]
    BY <1>15, WritersAssumption DEF Deliver, Talking, NeedLogger
  <2>3. w \in logs[logger[t]][fl[t]] /\ w \notin told[t] /\ fl[t] \in Levels
    BY <1>15 DEF Deliver, Inductive, IteratorsValid
  <2>4. w \in Registry!Members(logs[Talking[t]]) \ told[t]
    BY <2>2, <2>3 DEF Registry!Members
  <2>5. told' = [told EXCEPT ![t] = @ \cup {w}]
    BY <1>15 DEF Deliver
  <2> QED
    BY <2>1, <2>2, <2>4, <2>5 DEF Registry!Tell, Talking, Waiting, Asking, Priority
<1>16. ASSUME NEW t \in Threads, NextLevel(t)
       PROVE  UNCHANGED Registry!vars
  <2>1. Stays /\ UNCHANGED <<Talking, Waiting, Asking, Priority>>
    BY <1>16 DEF NextLevel, Talking, Waiting, Asking, Priority
  <2> QED
    BY <2>1, Stutters
<1>17. ASSUME NEW t \in Threads, ReturnStep(t), pc[t] \notin {"find", "enter", "deliver"}
       PROVE  UNCHANGED Registry!vars
  <2>1. Stays /\ UNCHANGED <<Talking, Waiting, Asking, Priority>>
    BY <1>17 DEF ReturnStep, Return, Talking, Waiting, Asking, Priority
  <2> QED
    BY <2>1, Stutters
<1>18. ASSUME NEW t \in Threads, ReturnStep(t)
       PROVE  Registry!Over(t)
  <2>1. /\ UNCHANGED <<logWriters, loggers, logs>>
        /\ Talking' = [Talking EXCEPT ![t] = None]
        /\ Waiting' = [Waiting EXCEPT ![t] = None]
        /\ Asking' = [Asking EXCEPT ![t] = None]
        /\ Priority' = [Priority EXCEPT ![t] = 0]
        /\ owed' = [owed EXCEPT ![t] = {}]
        /\ told' = [told EXCEPT ![t] = {}]
    BY <1>18 DEF ReturnStep, Return, Talking, Waiting, Asking, Priority
  <2> QED
    BY <2>1 DEF Registry!Over, Talking, Waiting, Asking, Priority
<1>19. ASSUME NEW t \in Threads, NoText(t)
       PROVE  Registry!NoText(t)
  <2>1. Waiting[t] # None /\ t \in Formatters
    BY <1>19, WritersAssumption DEF NoText, Waiting, NeedLogger
  <2> QED
    BY <1>18, <1>19, <2>1, EndsAreReturns DEF Registry!NoText, Waiting
<1>20. ASSUME NEW t \in Threads, DeliverThrows(t)
       PROVE  Registry!Fail(t)
  <2>1. Talking[t] # None /\ Talking[t] = logger[t]
    BY <1>20, WritersAssumption DEF DeliverThrows, Talking, NeedLogger
  <2>2. PICK w \in left[t] \cap Faulty :
          w \in logs[logger[t]][fl[t]] /\ w \notin told[t] /\ fl[t] \in Levels
    BY <1>20 DEF DeliverThrows, Inductive, IteratorsValid
  <2>3. (Registry!Members(logs[Talking[t]]) \ told[t]) \cap Faulty # {}
    BY <2>1, <2>2 DEF Registry!Members
  <2> QED
    BY <1>18, <1>20, <2>1, <2>3, EndsAreReturns DEF Registry!Fail, Talking
<1>21. ASSUME NEW t \in Threads, MessageDone(t)
       PROVE  Registry!End(t)
  <2>1. Talking[t] # None
    BY <1>21, WritersAssumption DEF MessageDone, Talking, NeedLogger
  <2>2. From(logs[logger[t]], fl[t] + 1) = {}
    BY <1>21 DEF MessageDone, From, Levels
  <2>3. owed[t] \subseteq told[t]
    BY <1>21, <2>2 DEF MessageDone, Inductive, NobodyLeftOut, Ahead
  <2> QED
    BY <1>18, <1>21, <2>1, <2>3, EndsAreReturns DEF Registry!End, Talking
<1>22. ASSUME NEW t \in Threads,
              RefreshThrows(t) \/ UpdateDone(t) \/ GetThrows(t)
       PROVE  UNCHANGED Registry!vars
  <2>1. pc[t] \notin {"find", "enter", "deliver"}
    BY <1>22 DEF RefreshThrows, UpdateDone, GetThrows
  <2> QED
    BY <1>17, <1>22, <2>1, EndsAreReturns
<1>23. ASSUME NEW t \in Threads, NobodyWants(t)
       PROVE  Registry!Unwanted(t)
  <2>1. Asking[t] = logger[t] /\ Asking[t] # None /\ Priority[t] = fl[t]
    BY <1>23, WritersAssumption DEF NobodyWants, Asking, Priority, NeedLogger
  <2>2. From(logs[logger[t]], fl[t])
          = UNION {logs[Asking[t]][k] : k \in {j \in Levels : j >= Priority[t]}}
    BY <2>1 DEF From
  <2>3. From(logs[logger[t]], fl[t]) = {}
    BY <1>23 DEF NobodyWants
  <2> QED
    BY <1>18, <1>23, <2>1, <2>2, <2>3, EndsAreReturns
       DEF Registry!Unwanted, Registry!Wanting, Asking, Priority
<1>24. \A t \in Threads : pc[t] \in {"add", "erase"} => writer[t] \in Writers
  BY DEF NeedWriter
<1>25. ASSUME NEW t \in Threads, Insert(t) \/ Erase(t)
       PROVE  Registry!Next
  BY <1>8, <1>24, <1>25 DEF Insert, Erase, Registry!Next
<1>26. ASSUME NEW t \in Threads, Start(t) \/ Step(t)
       PROVE  [Registry!Next]_(Registry!vars)
  BY <1>2, <1>3, <1>4, <1>5, <1>6, <1>7, <1>9, <1>10, <1>11, <1>13, <1>14, <1>15, <1>16,
     <1>19, <1>20, <1>21, <1>22, <1>25, <1>26, <1>23 DEF Start, Step, Registry!Next
<1> QED
  BY <1>1, <1>12, <1>26 DEF Next

\* The locks and iterators of LogManager keep the promises of LogRegistry.
THEOREM Refinement == Spec => ImplementsRegistry
<1>1. TypeOK /\ Inductive /\ [Next]_vars => [Registry!Next]_(Registry!vars)
  BY RefinesStep
<1> QED
  BY <1>1, RefinesInit, TypeCorrect, InductiveHolds, PTL
     DEF Spec, ImplementsRegistry, Registry!Spec

-----------------------------------------------------------------------------
(***************************************************************************)
(* The locks                                                               *)
(***************************************************************************)

\* Thread t waits for the manager's lock or for its logger's.
Waits(t) ==
  \/ pc[t] \in {"wantAdd", "wantErase"} /\ ~CanLockManager
  \/ pc[t] \in {"share", "shareAgain", "getShare"} /\ ~CanShareManager
  \/ pc[t] = "lock" /\ ~CanLockLogger(logger[t])
  \/ pc[t] \in {"find", "enter"} /\ ~CanShareLogger(logger[t])

\* Of the threads within a call one does not wait for the others.
SomebodyRuns == (\E t \in Threads : pc[t] # "idle") =>
                  \E t \in Threads : pc[t] # "idle" /\ ~Waits(t)

\* The two locks, one of them taken twice by an update, never leave all threads waiting
\* for each other, for any number of threads and loggers: writers of the registry hold
\* nothing else, so sharing it comes through; then whoever holds a logger's lock goes on.
THEOREM LocksNeverStuck == Spec => []SomebodyRuns
<1>1. TypeOK => SomebodyRuns
  <2>1. SUFFICES ASSUME TypeOK, NEW u \in Threads, pc[u] # "idle",
                        \A t \in Threads : pc[t] # "idle" => Waits(t)
                 PROVE  FALSE
    BY Zenon DEF SomebodyRuns
  <2>2. \A t \in Threads : pc[t] \in AllLabels
    BY <2>1, LabelsUnfolded DEF TypeOK
  <2>3. ASSUME NEW t \in Threads
        PROVE  pc[t] \notin {"add", "erase", "update", "ask", "getAsk", "register", "deliver"}
    BY <2>1 DEF Waits
  <2>4. CanShareManager
    BY <2>3, LabelsUnfolded DEF CanShareManager
  <2>5. ASSUME NEW t \in Threads
        PROVE  pc[t] \notin {"share", "shareAgain", "getShare"}
    BY <2>1, <2>4 DEF Waits
  <2>6. ASSUME NEW t \in Threads PROVE CanShareLogger(logger[t]) /\ CanLockLogger(logger[t])
    BY <2>3, <2>5 DEF CanShareLogger, CanLockLogger, Refreshing, Delivering
  <2>7. ASSUME NEW t \in Threads PROVE pc[t] \notin {"find", "enter", "lock"}
    BY <2>1, <2>6 DEF Waits
  <2>8. ASSUME NEW t \in Threads PROVE pc[t] \in {"idle", "wantAdd", "wantErase"}
    BY <2>2, <2>3, <2>5, <2>7 DEF AllLabels
  <2>9. CanLockManager
    BY <2>8, LabelsUnfolded DEF CanLockManager
  <2> QED
    BY <2>1, <2>8, <2>9 DEF Waits
<1> QED
  BY <1>1, TypeCorrect, PTL
=============================================================================
