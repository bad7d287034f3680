--------------------------- MODULE DatabaseProof ---------------------------
(***************************************************************************)
(* Proofs about Database, for any number of threads and connections: a     *)
(* connection is held by one call at a time and goes back with an open     *)
(* transaction on two paths only, blocks that nest are all that exhausts   *)
(* the pool, the end of a block decides over its transaction, and the      *)
(* cache's answers are recent.                                             *)
(***************************************************************************)
EXTENDS Database, SequenceTheorems, FiniteSetTheorems, TLAPS

Holding == {"modify", "select", "begin", "block", "getInner", "inner", "leave", "throw"}

\* Where a thread is tells which connections it holds.
Places == \A t \in Threads : /\ conn[t] # None <=> pc[t] \in Holding
                             /\ inner[t] # None <=> pc[t] = "inner"

\* A connection is held once.
Apart == \A t, u \in Threads : /\ conn[t] # None => conn[t] # inner[u]
                               /\ conn[t] = conn[u] => t = u \/ conn[t] = None
                               /\ inner[t] = inner[u] => t = u \/ inner[t] = None

Types == /\ pc \in [Threads -> Labels]
         /\ conn \in [Threads -> Connections \cup {None}]
         /\ inner \in [Threads -> Connections \cup {None}]
         /\ unwinding \in [Threads -> BOOLEAN]
         /\ calls \in 0 .. MaxCalls
         /\ tx \in [Connections -> {"none", "clean", "dirty"}]
         /\ commits \in Seq(0 .. MaxTime)
         /\ now \in 0 .. MaxTime
         /\ leaked \in SUBSET Connections
         /\ aborted \in BOOLEAN

Held == Types /\ Places /\ Apart

\* Initially nobody holds anything.
LEMMA InitHeld == Init => Held
<1> SUFFICES ASSUME Init PROVE Held
  OBVIOUS
<1>1. Types
  <2>1. MaxTime \in Nat /\ MaxCalls \in Nat
    BY BoundsAssumption
  <2>2. commits \in Seq(0 .. MaxTime)
    BY EmptySeq DEF Init
  <2>3. unwinding \in [Threads -> BOOLEAN] /\ aborted \in BOOLEAN
    BY Zenon DEF Init
  <2> QED
    BY <2>1, <2>2, <2>3 DEF Init, Types, Labels
<1>2. Places /\ Apart
  BY DEF Init, Places, Apart, Holding
<1> QED
  BY <1>1, <1>2 DEF Held

\* What a commit appends is a time.
LEMMA CommitsTyped ==
  ASSUME commits \in Seq(0 .. MaxTime), now \in 0 .. MaxTime
  PROVE  Append(commits, now) \in Seq(0 .. MaxTime)
OBVIOUS

\* Every step keeps connections in their places.
LEMMA StepHeld == Held /\ [Next]_vars => Held'
<1> SUFFICES ASSUME Held, [Next]_vars PROVE Held'
  OBVIOUS
<1> USE DEF Held, Types, Places, Apart, Holding, Labels, client, data, cached, Goto, Release
<1>1. CASE UNCHANGED vars
  BY <1>1 DEF vars
<1>2. CASE ~aborted /\ Tick
  BY <1>2, BoundsAssumption DEF Tick
<1>3. CASE ~aborted /\ PoolCloses
  BY <1>3 DEF PoolCloses
<1>4. ASSUME NEW t \in Threads, ~aborted /\ BlockModify(t) PROVE Held'
  BY <1>4 DEF BlockModify
<1>5. ASSUME NEW t \in Threads, CallModify(t) \/ CallTransactional(t) \/ FetchCache(t)
      PROVE Held'
  <2> calls' \in 0 .. MaxCalls
    <3>1. MaxCalls \in Nat
      BY BoundsAssumption
    <3>2. calls < MaxCalls /\ calls' = calls + 1
      BY <1>5 DEF CallModify, CallTransactional, FetchCache, Called
    <3> QED
      BY <3>1, <3>2
  <2>1. CASE CallModify(t)
    BY <2>1 DEF CallModify, Called
  <2>2. CASE CallTransactional(t)
    BY <2>2 DEF CallTransactional, Called
  <2>3. CASE FetchCache(t)
    BY <2>3 DEF FetchCache, Called, Hit
  <2> QED
    BY <1>5, <2>1, <2>2, <2>3
<1>6. ASSUME NEW t \in Threads, Step(t) PROVE Held'
  <2>1. CASE Get(t)
    BY <2>1, PoolAssumption DEF Get, After, Idle
  <2>2. CASE GetThrows(t)
    BY <2>2 DEF GetThrows, After
  <2>3. CASE Modify(t)
    BY <2>3, CommitsTyped DEF Modify
  <2>4. CASE CommandThrows(t)
    BY <2>4 DEF CommandThrows
  <2>5. CASE Select(t)
    BY <2>5 DEF Select
  <2>6. CASE Add(t)
    BY <2>6 DEF Add
  <2>7. CASE Begin(t)
    BY <2>7 DEF Begin, Opened
  <2>8. CASE BeginThrows(t)
    BY <2>8 DEF BeginThrows, BeginFailed
  <2>9. CASE BlockFetches(t)
    BY <2>9 DEF BlockFetches
  <2>10. CASE GetInner(t)
    BY <2>10, PoolAssumption DEF GetInner, Idle
  <2>11. CASE InnerEnds(t)
    <3>1. /\ pc[t] \in {"inner", "getInner"} /\ inner' = [inner EXCEPT ![t] = None]
          /\ UNCHANGED <<conn, unwinding, calls, data, cached, now, aborted>>
      BY <2>11 DEF InnerEnds
    <3>2. CASE pc' = [pc EXCEPT ![t] = "block"]
      BY <3>1, <3>2
    <3>3. CASE pc' = [pc EXCEPT ![t] = "throw"]
      BY <3>1, <3>3
    <3> QED
      BY <2>11, <3>2, <3>3, Zenon DEF InnerEnds
  <2>12. CASE BlockEnds(t)
    BY <2>12 DEF BlockEnds
  <2>13. CASE RollbackTx(t)
    BY <2>13 DEF RollbackTx, RolledBack, Ended
  <2>14. CASE RollbackThrows(t)
    BY <2>14 DEF RollbackThrows, LeftOpen
  <2>15. CASE MoveAssigned(t)
    <3>1. aborted' \in BOOLEAN
      BY <2>15, Zenon DEF MoveAssigned
    <3> QED
      BY <2>15, <3>1 DEF MoveAssigned, Opened
  <2>16. CASE CommitTx(t)
    <3>1. CASE Ended(t) /\ UNCHANGED aborted /\
               commits' = IF tx[conn[t]] = "dirty" THEN Append(commits, now) ELSE commits
      BY <2>16, <3>1, CommitsTyped DEF CommitTx, Ended
    <3>2. CASE LeftOpen(t)
      BY <2>16, <3>2 DEF CommitTx, LeftOpen
    <3> QED
      BY <2>16, <3>1, <3>2, Zenon DEF CommitTx
  <2>17. CASE CommitThrows(t)
    BY <2>17 DEF CommitThrows
  <2>18. CASE MovedFrom(t)
    BY <2>18, CommitsTyped DEF MovedFrom, Ended
  <2> QED
    BY <1>6, <2>1, <2>2, <2>3, <2>4, <2>5, <2>6, <2>7, <2>8, <2>9, <2>10, <2>11, <2>12,
       <2>13, <2>16, <2>17, <2>18, <2>14, <2>15, Zenon DEF Step
<1> QED
  BY <1>1, <1>2, <1>4, <1>5, <1>6, <1>3 DEF Next

\* Connections are in their places in every reachable state.
THEOREM HeldAlways == Spec => []Held
BY InitHeld, StepHeld, PTL DEF Spec

\* A connection is held by one call at a time, for no longer than the call lasts.
THEOREM TypeCorrect == Spec => []TypeOK
<1>1. Held => TypeOK
  BY DEF Held, Types, Places, Apart, Holding, TypeOK
<1> QED
  BY <1>1, HeldAlways, PTL

\* Only a thread that nests waits for a connection while it holds another.
Nested == \A t \in Threads : pc[t] \in {"getInner", "inner"} => t \in Nesters

\* The pool has nothing to give thread t, who is asking.
Waits(t) == pc[t] \in {"getModify", "getSelect", "getBegin", "getInner"} /\ Idle = {}

\* There are calls, and all of them wait for the pool.
AllWait == /\ \E t \in Threads : pc[t] # "idle"
           /\ \A t \in Threads : pc[t] # "idle" => Waits(t)

\* While each connection is held and each holder waits for one more, the holders are
\* threads that nest, as many as the connections.
LEMMA HoldersNest ==
  ASSUME Held, Nested, AllWait
  PROVE  Stuck /\ Cardinality(Connections) <= Cardinality(Nesters)
<1>1. PICK u \in Threads : pc[u] # "idle" /\ \A t \in Threads : pc[t] # "idle" => Waits(t)
  BY Zenon DEF AllWait
<1>2. Idle = {} /\ \A t \in Threads :
        pc[t] \in {"idle", "getModify", "getSelect", "getBegin", "getInner"}
  <2>1. Idle = {}
    BY <1>1, Zenon DEF Waits
  <2>2. ASSUME NEW t \in Threads
        PROVE  pc[t] \in {"idle", "getModify", "getSelect", "getBegin", "getInner"}
    <3>1. pc[t] = "idle" \/ pc[t] \in {"getModify", "getSelect", "getBegin", "getInner"}
      BY <1>1, Zenon DEF Waits
    <3> QED
      BY <3>1
  <2> QED
    BY <2>1, <2>2, Zenon
<1>3. \A t \in Threads : inner[t] = None
  BY <1>2 DEF Held, Places
<1>4. ASSUME NEW c \in Connections
      PROVE  \E t \in Nesters : conn[t] = c /\ pc[t] = "getInner"
  <2>1. c # None
    BY PoolAssumption
  <2>2. PICK t \in Threads : conn[t] = c
    BY <1>2, <1>3, <2>1 DEF Idle
  <2>3. pc[t] \in Holding
    BY <2>1, <2>2 DEF Held, Places
  <2>4. pc[t] = "getInner"
    BY <1>2, <2>3 DEF Holding
  <2> QED
    BY <2>2, <2>4 DEF Nested
<1>5. Stuck
  BY <1>4 DEF Stuck
<1> DEFINE holder == [c \in Connections |-> CHOOSE t \in Nesters : conn[t] = c]
<1>6. \A c \in Connections : holder[c] \in Nesters /\ conn[holder[c]] = c
  BY <1>4, Zenon
<1>7. holder \in [Connections -> Nesters]
  BY <1>6
<1> HIDE DEF holder
<1>8. ASSUME ~(Cardinality(Connections) <= Cardinality(Nesters)) PROVE FALSE
  <2>1. Cardinality(Connections) \in Nat /\ Cardinality(Nesters) \in Nat
    BY PoolAssumption, FS_CardinalityType
  <2>2. Cardinality(Nesters) < Cardinality(Connections)
    BY <1>8, <2>1
  <2>3. \E c, d \in Connections : c # d /\ holder[c] = holder[d]
    BY <1>7, <2>2, PoolAssumption, FS_PigeonHole
  <2> QED
    BY <1>6, <2>3, Zenon
<1> QED
  BY <1>8, <1>5, Zenon

\* When the calls all wait for the pool, which nothing then ends, each connection is held
\* by a block that waits for another, so that there are no more connections than threads
\* that nest: with one connection more than those the pool is never exhausted for good.
THEOREM OnlyNestingExhausts ==
  Spec => [](AllWait => Stuck /\ Cardinality(Connections) <= Cardinality(Nesters))
<1>1. Init => Nested
  BY DEF Init, Nested
<1>2. Held /\ Nested /\ [Next]_vars => Nested'
  <2> SUFFICES ASSUME Held, Nested, [Next]_vars PROVE Nested'
    OBVIOUS
  <2>1. pc \in [Threads -> Labels]
    BY Zenon DEF Held, Types
  <2> USE DEF Nested, Goto, client, data, cached
  <2>2. CASE UNCHANGED vars
    BY <2>2 DEF vars
  <2>3. CASE ~aborted /\ Tick
    BY <2>3 DEF Tick
  <2>4. CASE ~aborted /\ PoolCloses
    BY <2>4 DEF PoolCloses
  <2>5. ASSUME NEW t \in Threads, NEW l, l \notin {"getInner", "inner"},
               pc' = [pc EXCEPT ![t] = l]
        PROVE  Nested'
    BY <2>1, <2>5
  <2>6. ASSUME NEW t \in Threads, t \in Nesters, NEW l, pc' = [pc EXCEPT ![t] = l]
        PROVE  Nested'
    BY <2>1, <2>6
  <2>7. ASSUME pc' = pc PROVE Nested'
    BY <2>7
  <2> HIDE DEF Nested
  <2>8. ASSUME NEW t \in Threads, CallModify(t) \/ CallTransactional(t) \/ FetchCache(t)
        PROVE  Nested'
    <3>1. \/ pc' = [pc EXCEPT ![t] = "getModify"] \/ pc' = [pc EXCEPT ![t] = "getBegin"]
          \/ pc' = [pc EXCEPT ![t] = "getSelect"] \/ pc' = pc
      BY <2>8, Zenon DEF CallModify, CallTransactional, FetchCache
    <3> QED
      BY <2>5, <2>7, <3>1
  <2>9. ASSUME NEW t \in Threads, ~aborted /\ BlockModify(t) PROVE Nested'
    BY <2>7, <2>9 DEF BlockModify
  <2>10. ASSUME NEW t \in Threads, Step(t) PROVE Nested'
    <3>1. CASE Get(t)
      <4>1. pc' = [pc EXCEPT ![t] = After[pc[t]]] /\ pc[t] \in DOMAIN After
        BY <3>1 DEF Get
      <4>2. After[pc[t]] \in {"modify", "select", "begin"}
        BY <4>1 DEF After
      <4> QED
        BY <2>5, <4>1, <4>2
    <3>2. CASE BlockFetches(t)
      BY <2>6, <3>2 DEF BlockFetches
    <3>3. CASE GetInner(t)
      <4>1. t \in Nesters /\ pc' = [pc EXCEPT ![t] = "inner"]
        BY <3>3 DEF GetInner, Nested
      <4> QED
        BY <2>6, <4>1
    <3>4. CASE GetThrows(t) \/ Modify(t) \/ CommandThrows(t) \/ Add(t) \/ BeginThrows(t)
               \/ RollbackTx(t) \/ RollbackThrows(t) \/ CommitTx(t) \/ MovedFrom(t)
      <4>1. pc' = [pc EXCEPT ![t] = "idle"]
        BY <3>4, Zenon DEF GetThrows, Modify, CommandThrows, Add, BeginThrows, RollbackTx,
                           RolledBack, RollbackThrows, CommitTx, MovedFrom, Ended, LeftOpen
      <4> QED
        BY <2>5, <4>1
    <3>5. CASE \/ Select(t) \/ Begin(t) \/ InnerEnds(t) \/ MoveAssigned(t)
               \/ BlockEnds(t) \/ CommitThrows(t)
      <4>1. \/ pc' = [pc EXCEPT ![t] = "add"] \/ pc' = [pc EXCEPT ![t] = "block"]
            \/ pc' = [pc EXCEPT ![t] = "leave"] \/ pc' = [pc EXCEPT ![t] = "throw"]
            \/ pc' = pc
        BY <3>5 DEF Select, Begin, InnerEnds, MoveAssigned, BlockEnds, CommitThrows
      <4> QED
        BY <2>5, <2>7, <4>1
    <3> QED
      BY <2>10, <3>1, <3>2, <3>3, <3>4, <3>5, Zenon DEF Step
  <2> QED
    BY <2>2, <2>3, <2>8, <2>9, <2>10, <2>4, Zenon DEF Next
<1>3. Spec => []Nested
  BY <1>1, <1>2, HeldAlways, PTL DEF Spec
<1> QED
  BY <1>3, HoldersNest, HeldAlways, PTL

\* A connection is back in the pool with an open transaction only after a rollback that
\* threw or an assignment over the client.
THEOREM NoneLeftOpen == Spec => []OpenOnlyInBlocks
<1>1. Init => OpenOnlyInBlocks
  BY DEF Init, OpenOnlyInBlocks
<1>2. Held /\ OpenOnlyInBlocks /\ [Next]_vars => OpenOnlyInBlocks'
  <2> SUFFICES ASSUME Held, OpenOnlyInBlocks, [Next]_vars PROVE OpenOnlyInBlocks'
    OBVIOUS
  <2> USE DEF OpenOnlyInBlocks, Held, Types, Places, Apart, Holding, Labels, client, data,
              cached, Goto, Release, InBlock
  <2>1. CASE UNCHANGED vars
    BY <2>1 DEF vars
  <2>2. CASE ~aborted /\ PoolCloses
    BY <2>2 DEF PoolCloses
  <2>3. CASE ~aborted /\ Tick
    BY <2>3 DEF Tick
  <2>4. ASSUME NEW t \in Threads, CallModify(t) \/ CallTransactional(t) \/ FetchCache(t)
        PROVE OpenOnlyInBlocks'
    BY <2>4 DEF CallModify, CallTransactional, FetchCache, Called
  <2>5. ASSUME NEW t \in Threads, ~aborted /\ BlockModify(t) PROVE OpenOnlyInBlocks'
    BY <2>5 DEF BlockModify
  <2>6. ASSUME NEW t \in Threads, Step(t) PROVE OpenOnlyInBlocks'
    <3>1. ASSUME UNCHANGED <<tx, leaked>>,
                 pc[t] \notin {"block", "getInner", "inner", "leave", "throw"},
                 \A u \in Threads : u # t => conn'[u] = conn[u] /\ pc'[u] = pc[u]
          PROVE  OpenOnlyInBlocks'
      <4>1. SUFFICES ASSUME NEW c \in Connections, tx[c] # "none", c \notin leaked
                     PROVE  \E u \in Threads :
                              /\ conn'[u] = c
                              /\ pc'[u] \in {"block", "getInner", "inner", "leave", "throw"}
        <5>1. tx' = tx /\ leaked' = leaked
          BY <3>1
        <5> QED
          BY <5>1
      <4>2. PICK u \in Threads :
              conn[u] = c /\ pc[u] \in {"block", "getInner", "inner", "leave", "throw"}
        BY <4>1, Zenon
      <4>3. u # t
        BY <3>1, <4>2, Zenon
      <4> QED
        BY <3>1, <4>2, <4>3, Zenon
    <3>2. CASE Get(t)
      BY <3>2 DEF Get, After
    <3>3. CASE GetThrows(t)
      <4>1. pc[t] \in {"getModify", "getSelect", "getBegin"}
        BY ONLY <3>3 DEF GetThrows, After
      <4>2. UNCHANGED <<tx, leaked, conn>> /\ pc' = [pc EXCEPT ![t] = "idle"]
        BY <3>3, Zenon DEF GetThrows
      <4>3. \A u \in Threads : u # t => conn'[u] = conn[u] /\ pc'[u] = pc[u]
        BY <4>2
      <4>4. pc[t] \notin {"block", "getInner", "inner", "leave", "throw"}
        BY ONLY <4>1
      <4> HIDE DEF OpenOnlyInBlocks
      <4> QED
        BY <3>1, <4>2, <4>3, <4>4, Zenon
    <3>4. CASE Modify(t)
      <4>1. pc[t] = "modify" /\ UNCHANGED leaked
        BY ONLY <3>4 DEF Modify
      <4>2. conn' = [conn EXCEPT ![t] = None] /\ pc' = [pc EXCEPT ![t] = "idle"]
        BY <3>4, Zenon DEF Modify
      <4>3. \A u \in Threads : u # t => conn'[u] = conn[u] /\ pc'[u] = pc[u]
        BY <4>2
      <4>4. pc[t] \notin {"block", "getInner", "inner", "leave", "throw"}
        BY ONLY <4>1
      <4>5. \A c \in Connections : tx'[c] = tx[c] \/ c \in leaked
        BY <3>4 DEF Modify
      <4>6. SUFFICES ASSUME NEW c \in Connections, tx[c] # "none", c \notin leaked
                     PROVE  \E u \in Threads :
                              /\ conn'[u] = c
                              /\ pc'[u] \in {"block", "getInner", "inner", "leave", "throw"}
        BY <4>1, <4>5
      <4>7. PICK u \in Threads :
              conn[u] = c /\ pc[u] \in {"block", "getInner", "inner", "leave", "throw"}
        BY <4>6, Zenon
      <4>8. u # t
        BY <4>4, <4>7, Zenon
      <4> QED
        BY <4>3, <4>7, <4>8, Zenon
    <3>5. CASE CommandThrows(t)
      <4>1. pc[t] \in {"modify", "select"} /\ UNCHANGED <<tx, leaked>>
        BY ONLY <3>5 DEF CommandThrows, data
      <4>2. conn' = [conn EXCEPT ![t] = None] /\ pc' = [pc EXCEPT ![t] = "idle"]
        BY <3>5, Zenon DEF CommandThrows
      <4>3. \A u \in Threads : u # t => conn'[u] = conn[u] /\ pc'[u] = pc[u]
        BY <4>2
      <4>4. pc[t] \notin {"block", "getInner", "inner", "leave", "throw"}
        BY ONLY <4>1
      <4> HIDE DEF OpenOnlyInBlocks
      <4> QED
        BY <3>1, <4>1, <4>3, <4>4, Zenon
    <3>6. CASE Select(t)
      <4>1. pc[t] = "select" /\ UNCHANGED <<tx, leaked>>
        BY ONLY <3>6 DEF Select, data
      <4>2. conn' = [conn EXCEPT ![t] = None] /\ pc' = [pc EXCEPT ![t] = "add"]
        BY <3>6, Zenon DEF Select
      <4>3. \A u \in Threads : u # t => conn'[u] = conn[u] /\ pc'[u] = pc[u]
        BY <4>2
      <4>4. pc[t] \notin {"block", "getInner", "inner", "leave", "throw"}
        BY ONLY <4>1
      <4> HIDE DEF OpenOnlyInBlocks
      <4> QED
        BY <3>1, <4>1, <4>3, <4>4, Zenon
    <3>7. CASE Add(t)
      <4>1. pc[t] = "add" /\ UNCHANGED <<tx, leaked, conn>>
        BY ONLY <3>7 DEF Add, data, client
      <4>2. pc' = [pc EXCEPT ![t] = "idle"]
        BY <3>7, Zenon DEF Add
      <4>3. \A u \in Threads : u # t => conn'[u] = conn[u] /\ pc'[u] = pc[u]
        BY <4>1, <4>2
      <4>4. pc[t] \notin {"block", "getInner", "inner", "leave", "throw"}
        BY ONLY <4>1
      <4> HIDE DEF OpenOnlyInBlocks
      <4> QED
        BY <3>1, <4>1, <4>3, <4>4, Zenon
    <3>8. CASE Begin(t)
      BY <3>8 DEF Begin, Opened
    <3>9. CASE BeginThrows(t)
      <4>1. pc[t] = "begin" /\ UNCHANGED <<tx, leaked>>
        BY ONLY <3>9 DEF BeginThrows, data
      <4>2. conn' = [conn EXCEPT ![t] = None] /\ pc' = [pc EXCEPT ![t] = "idle"]
        BY <3>9, Zenon DEF BeginThrows, BeginFailed
      <4>3. \A u \in Threads : u # t => conn'[u] = conn[u] /\ pc'[u] = pc[u]
        BY <4>2
      <4>4. pc[t] \notin {"block", "getInner", "inner", "leave", "throw"}
        BY ONLY <4>1
      <4> HIDE DEF OpenOnlyInBlocks
      <4> QED
        BY <3>1, <4>1, <4>3, <4>4, Zenon
    <3>10. CASE BlockFetches(t)
      BY <3>10 DEF BlockFetches
    <3>11. CASE GetInner(t)
      BY <3>11 DEF GetInner
    <3>12. CASE InnerEnds(t)
      BY <3>12 DEF InnerEnds
    <3>13. CASE BlockEnds(t)
      BY <3>13 DEF BlockEnds
    <3>14. CASE RollbackTx(t)
      BY <3>14 DEF RollbackTx, RolledBack, Ended
    <3>15. CASE CommitTx(t)
      <4>1. CASE Ended(t)
        BY <3>15, <4>1 DEF CommitTx, Ended
      <4>2. CASE LeftOpen(t)
        BY <3>15, <4>2 DEF CommitTx, LeftOpen
      <4> QED
        BY <3>15, <4>1, <4>2, Zenon DEF CommitTx
    <3>16. CASE RollbackThrows(t)
      BY <3>16 DEF RollbackThrows, LeftOpen
    <3>17. CASE MoveAssigned(t)
      BY <3>17 DEF MoveAssigned, Opened
    <3>18. CASE CommitThrows(t)
      BY <3>18 DEF CommitThrows
    <3>19. CASE MovedFrom(t)
      BY <3>19 DEF MovedFrom, Ended
    <3> QED
      BY <2>6, <3>2, <3>3, <3>4, <3>5, <3>6, <3>7, <3>8, <3>9, <3>10, <3>11, <3>12, <3>13,
         <3>14, <3>15, <3>18, <3>19, <3>16, <3>17, Zenon DEF Step
  <2> QED
    BY <2>1, <2>3, <2>4, <2>5, <2>6, <2>2 DEF Next
<1> QED
  BY <1>1, <1>2, HeldAlways, PTL DEF Spec

\* What the step of a thread that leaves its block does about the transaction.
Decides(t) ==
  /\ pc[t] = "throw" => commits' = commits
  /\ pc[t] = "leave" /\ tx[conn[t]] = "dirty" =>
       commits' = Append(commits, now) \/ unwinding[t] \/ conn[t] \in leaked

\* A block that throws commits nothing, and one that comes to its end commits what it
\* wrote but for the two exceptions, whatever else goes on.
THEOREM BlockEndDecides == Spec => BlockDecides
<1>1. Held /\ [Next]_vars =>
        [\A t \in Threads : InBlock(t) /\ pc'[t] = "idle" => Decides(t)]_vars
  <2> SUFFICES ASSUME Held, Next, NEW t \in Threads, InBlock(t), pc'[t] = "idle"
               PROVE  Decides(t)
    OBVIOUS
  <2> USE DEF Held, Types, Labels, client, data, cached, Goto, InBlock
  <2>1. CASE ~aborted /\ (Tick \/ PoolCloses)
    BY <2>1 DEF Tick, PoolCloses
  <2>2. ASSUME NEW u \in Threads,
               \/ CallModify(u) \/ CallTransactional(u) \/ FetchCache(u)
               \/ Step(u) \/ (~aborted /\ BlockModify(u))
        PROVE  u = t
    <3>1. CASE CallModify(u) \/ CallTransactional(u) \/ FetchCache(u)
      BY <3>1 DEF CallModify, CallTransactional, FetchCache, Called
    <3>2. CASE Step(u) \/ BlockModify(u)
      BY <3>2 DEF Step, BlockModify, Get, GetThrows, After, Modify, CommandThrows, Select, Add,
                  Begin, BeginThrows, BlockFetches, GetInner, InnerEnds, MoveAssigned, BlockEnds,
                  RollbackTx, RolledBack, RollbackThrows, CommitTx, CommitThrows, MovedFrom,
                  Ended, LeftOpen
    <3> QED
      BY <2>2, <3>1, <3>2
  <2>3. CASE Step(t)
    <3>1. RollbackTx(t) \/ RollbackThrows(t) \/ CommitTx(t) \/ MovedFrom(t)
      BY <2>3 DEF Step, Get, GetThrows, After, Modify, CommandThrows, Select, Add, Begin,
                  BeginThrows, BlockFetches, GetInner, InnerEnds, MoveAssigned, BlockEnds,
                  CommitThrows
    <3>2. CASE RollbackTx(t) \/ RollbackThrows(t)
      BY <3>2 DEF RollbackTx, RollbackThrows, LeftOpen, Uncaught, Decides
    <3>3. CASE CommitTx(t)
      BY <3>3 DEF CommitTx, LeftOpen, Uncaught, Decides
    <3>4. CASE MovedFrom(t)
      BY <3>4 DEF MovedFrom, Uncaught, Decides
    <3> QED
      BY <3>1, <3>2, <3>3, <3>4, Zenon
  <2>4. ~(CallModify(t) \/ CallTransactional(t) \/ FetchCache(t) \/ BlockModify(t))
    <3>1. pc[t] # "idle"
      OBVIOUS
    <3>2. ~Called(t) /\ ~BlockModify(t)
      BY <3>1 DEF Called, BlockModify
    <3> QED
      BY <3>2, Zenon DEF CallModify, CallTransactional, FetchCache
  <2>5. CASE ~(~aborted /\ (Tick \/ PoolCloses))
    <3>1. PICK u \in Threads : \/ CallModify(u) \/ CallTransactional(u) \/ FetchCache(u)
                               \/ Step(u) \/ (~aborted /\ BlockModify(u))
      BY <2>5, Zenon DEF Next
    <3>2. u = t
      BY <2>2, <3>1, Zenon
    <3>3. Step(t)
      BY <2>4, <3>1, <3>2, Zenon
    <3> QED
      BY <2>3, <3>3, Zenon
  <2> QED
    BY <2>1, <2>5, Zenon
<1> QED
  <2>1. BlockDecides <=>
          [][\A t \in Threads : InBlock(t) /\ pc'[t] = "idle" => Decides(t)]_vars
    BY DEF BlockDecides, Decides
  <2> QED
    BY <1>1, <2>1, HeldAlways, PTL DEF Spec

(***************************************************************************)
(* The cache                                                               *)
(***************************************************************************)

\* What a thread has fetched outside others' transactions and not added yet was true when
\* it fetched it, and that was not long ago.
Fetched(t) ==
  /\ got[t].value \in 0 .. Len(commits)
  /\ got[t].at \in 0 .. now
  /\ now <= got[t].at + MaxDelay
  /\ got[t].value < Len(commits) => got[t].at <= commits[got[t].value + 1]

\* What is in the cache expires soon after it ceased to be true.
Fresh ==
  /\ cache.value \in 0 .. Len(commits)
  /\ cache.until \in 0 .. now + CacheTime
  /\ cache.value < Len(commits) =>
       cache.until <= commits[cache.value + 1] + CacheTime + MaxDelay

Recent == /\ got \in [Threads -> [value : Nat \cup {None}, at : Nat] \cup {None}]
          /\ \A t \in Threads : pc[t] = "add" /\ got[t].value # None => Fetched(t)
          /\ cache # None /\ cache.value # None => Fresh

\* The bounds are numbers.
LEMMA Bounds == /\ CacheTime \in Nat /\ MaxDelay \in Nat
                /\ MaxTime \in Nat /\ MaxCalls \in Nat
BY BoundsAssumption

\* A commit now leaves all that was fetched as recent as it was.
LEMMA CommitRecent ==
  ASSUME Held, Recent, commits' = Append(commits, now), UNCHANGED <<got, cache, now>>,
         \A t \in Threads : pc'[t] = "add" => pc[t] = "add"
  PROVE  Recent'
<1> USE Bounds DEF Held, Types, Recent
<1>1. /\ Len(commits') = Len(commits) + 1
      /\ commits'[Len(commits) + 1] = now
      /\ \A i \in 1 .. Len(commits) : commits'[i] = commits[i] /\ commits[i] \in Nat
      /\ Len(commits) \in Nat
  OBVIOUS
<1>2. ASSUME NEW t \in Threads, pc'[t] = "add", got'[t].value # None PROVE Fetched(t)'
  <2>1. Fetched(t)
    BY <1>2
  <2>2. CASE got[t].value < Len(commits)
    <3>1. got[t].value + 1 \in 1 .. Len(commits)
      BY <1>1, <2>1, <2>2 DEF Fetched
    <3> QED
      BY <1>1, <2>1, <2>2, <3>1 DEF Fetched
  <2>3. CASE got[t].value = Len(commits)
    BY <1>1, <2>1, <2>3 DEF Fetched
  <2>4. got[t].value < Len(commits) \/ got[t].value = Len(commits)
    BY <1>1, <2>1 DEF Fetched
  <2> QED
    BY <2>2, <2>3, <2>4
<1>3. ASSUME cache' # None, cache'.value # None PROVE Fresh'
  <2>1. Fresh
    BY <1>3
  <2>2. CASE cache.value < Len(commits)
    <3>1. cache.value + 1 \in 1 .. Len(commits)
      BY <1>1, <2>1, <2>2 DEF Fresh
    <3> QED
      BY <1>1, <2>1, <2>2, <3>1 DEF Fresh
  <2>3. CASE cache.value = Len(commits)
    BY <1>1, <2>1, <2>3 DEF Fresh
  <2>4. cache.value < Len(commits) \/ cache.value = Len(commits)
    BY <1>1, <2>1 DEF Fresh
  <2> QED
    BY <2>2, <2>3, <2>4
<1> QED
  BY <1>2, <1>3

\* Other steps but those of the clock, Select and Add do as well.
LEMMA SameRecent ==
  ASSUME Recent, UNCHANGED <<got, cache, now, commits>>,
         \A t \in Threads : pc'[t] = "add" => pc[t] = "add"
  PROVE  Recent'
BY DEF Recent, Fetched, Fresh

\* Every step keeps what is cached recent.
LEMMA StepRecent == Held /\ Recent /\ [Next]_vars => Recent'
<1> SUFFICES ASSUME Held, Recent, [Next]_vars PROVE Recent'
  OBVIOUS
<1> USE Bounds DEF client, data, cached
<1>1. CASE UNCHANGED vars
  BY <1>1, SameRecent DEF vars
<1>2. CASE ~aborted /\ Tick
  <2>1. /\ now' = now + 1 /\ UNCHANGED <<pc, got, cache, commits>> /\ now \in Nat
        /\ \A t \in Threads : pc[t] = "add" => now - got[t].at < MaxDelay
    BY <1>2 DEF Tick, Held, Types
  <2>2. ASSUME NEW t \in Threads, pc[t] = "add", got[t].value # None PROVE Fetched(t)'
    <3>1. Fetched(t) /\ now - got[t].at < MaxDelay
      BY <2>1, <2>2 DEF Recent
    <3> QED
      BY <2>1, <3>1 DEF Fetched
  <2>3. ASSUME cache # None, cache.value # None PROVE Fresh'
    <3>1. Fresh
      BY <2>3 DEF Recent
    <3> QED
      BY <2>1, <3>1 DEF Fresh
  <2> QED
    BY <2>1, <2>2, <2>3 DEF Recent
<1>3. CASE ~aborted /\ PoolCloses
  BY <1>3, SameRecent DEF PoolCloses
<1>4. ASSUME NEW t \in Threads, ~aborted /\ BlockModify(t) PROVE Recent'
  BY <1>4, SameRecent DEF BlockModify
<1>5. ASSUME NEW t \in Threads, NEW label \in Labels \ {"add"}, Goto(t, label)
      PROVE  \A u \in Threads : pc'[u] = "add" => pc[u] = "add"
  BY <1>5 DEF Goto, Held, Types
<1>6. ASSUME NEW t \in Threads, CallModify(t) \/ CallTransactional(t) \/ FetchCache(t)
      PROVE  Recent'
  <2>1. UNCHANGED <<got, cache, now, commits>>
    BY <1>6 DEF CallModify, CallTransactional, FetchCache, Hit
  <2>2. UNCHANGED pc \/ \E label \in Labels \ {"add"} : Goto(t, label)
    BY <1>6 DEF CallModify, CallTransactional, FetchCache, Labels
  <2> QED
    BY <1>5, <2>1, <2>2, SameRecent
<1>7. ASSUME NEW t \in Threads, Step(t) PROVE Recent'
  <2>1. CASE Select(t)
    <3>1. /\ got' = [got EXCEPT ![t] = [value |-> Answer(conn[t]), at |-> now]]
          /\ Answer(conn[t]) \in {None, Len(commits)}
          /\ UNCHANGED <<cache, now, commits>> /\ pc' = [pc EXCEPT ![t] = "add"]
      BY <2>1 DEF Select, Goto, Answer
    <3>2. /\ now \in Nat /\ Len(commits) \in Nat
          /\ pc \in [Threads -> Labels]
      BY DEF Held, Types
    <3>3. ASSUME NEW u \in Threads, pc'[u] = "add", got'[u].value # None PROVE Fetched(u)'
      <4>1. CASE u = t
        <5>1. got'[t] = [value |-> Len(commits), at |-> now]
          BY <3>1, <3>3, <4>1 DEF Recent
        <5> QED
          BY <3>1, <3>2, <4>1, <5>1, Bounds DEF Fetched
      <4>2. CASE u # t
        BY <3>1, <3>2, <3>3, <4>2 DEF Fetched, Recent
      <4> QED
        BY <4>1, <4>2
    <3> QED
      BY <3>1, <3>2, <3>3 DEF Recent, Fresh
  <2>2. CASE Add(t)
    <3>1. /\ got' = [got EXCEPT ![t] = None] /\ UNCHANGED <<now, commits>>
          /\ pc[t] = "add" /\ pc' = [pc EXCEPT ![t] = "idle"]
          /\ cache' = [value |-> got[t].value, until |-> now + CacheTime] \/ cache' = cache
      BY <2>2 DEF Add, Goto
    <3>2. /\ now \in Nat /\ Len(commits) \in Nat
          /\ pc \in [Threads -> Labels]
          /\ \A i \in 1 .. Len(commits) : commits[i] \in Nat
      BY DEF Held, Types
    <3>3. ASSUME cache' = [value |-> got[t].value, until |-> now + CacheTime],
                 cache'.value # None
          PROVE  Fresh'
      <4>1. Fetched(t)
        BY <3>1, <3>3 DEF Recent
      <4>2. cache'.value = got[t].value /\ cache'.until = now + CacheTime
        BY <3>3
      <4>3. got[t].value < Len(commits) =>
              commits[got[t].value + 1] \in Nat
        BY <3>2, <4>1 DEF Fetched
      <4> QED
        BY <3>1, <3>2, <4>2, <4>3, <4>1 DEF Fetched, Fresh
    <3>4. ASSUME cache' = cache, cache' # None, cache'.value # None PROVE Fresh'
      BY <3>1, <3>4 DEF Recent, Fresh
    <3>5. ASSUME NEW u \in Threads, pc'[u] = "add", got'[u].value # None PROVE Fetched(u)'
      <4>1. u # t /\ pc[u] = "add"
        BY <3>1, <3>2, <3>5
      <4>2. got'[u] = got[u]
        BY <3>1, <4>1 DEF Recent
      <4>3. Fetched(u)
        BY <3>5, <4>1, <4>2, Zenon DEF Recent
      <4> QED
        BY <3>1, <4>2, <4>3, Zenon DEF Fetched
    <3> QED
      BY <3>1, <3>3, <3>4, <3>5 DEF Recent
  <2>3. ASSUME ~Select(t), ~Add(t)
        PROVE  /\ UNCHANGED <<got, cache, now>>
               /\ commits' \in {commits, Append(commits, now)}
               /\ UNCHANGED pc \/ \E label \in Labels \ {"add"} : Goto(t, label)
    <3>1. CASE LeftOpen(t)
      BY <3>1 DEF LeftOpen, Labels
    <3>2. CASE Ended(t) /\ (RollbackTx(t) \/ CommitTx(t) \/ MovedFrom(t))
      <4>1. Goto(t, "idle") /\ UNCHANGED <<got, cache, now>>
        BY <3>2 DEF Ended
      <4>2. commits' \in {commits, Append(commits, now)}
        BY <3>2 DEF RollbackTx, CommitTx, MovedFrom, LeftOpen
      <4> QED
        BY <4>1, <4>2 DEF Labels
    <3>3. CASE RollbackTx(t) \/ RollbackThrows(t) \/ CommitTx(t) \/ MovedFrom(t)
      BY <3>1, <3>2, <3>3, Zenon DEF RollbackTx, RolledBack, RollbackThrows, CommitTx, MovedFrom
    <3>4. CASE ~(RollbackTx(t) \/ RollbackThrows(t) \/ CommitTx(t) \/ MovedFrom(t))
      <4>1. CASE Get(t) \/ GetThrows(t) \/ Modify(t) \/ CommandThrows(t)
        BY <4>1 DEF Get, GetThrows, After, Modify, CommandThrows, Labels
      <4>2. CASE Begin(t) \/ BeginThrows(t) \/ BlockFetches(t) \/ GetInner(t) \/ MoveAssigned(t)
        BY <4>2 DEF Begin, BeginThrows, BlockFetches, GetInner, MoveAssigned, Labels
      <4>3. CASE InnerEnds(t) \/ BlockEnds(t) \/ CommitThrows(t)
        BY <4>3 DEF InnerEnds, BlockEnds, CommitThrows, Labels
      <4> QED
        BY <1>7, <2>3, <3>4, <4>1, <4>2, <4>3, Zenon DEF Step
    <3> QED
      BY <3>3, <3>4, Zenon
  <2> QED
    BY <1>5, <1>7, <2>1, <2>2, <2>3, SameRecent, CommitRecent
<1> QED
  BY <1>1, <1>2, <1>4, <1>6, <1>7, <1>3 DEF Next

\* What the cache answers has been true in the last CacheTime, give or take MaxDelay.
THEOREM CacheRecent == Spec => []CacheIsRecent
<1>1. Init => Recent
  BY DEF Init, Recent
<1>2. Held /\ Recent => CacheIsRecent
  <2> SUFFICES ASSUME Held, Recent, Valid, cache.value # None PROVE CacheIsRecent
    BY DEF CacheIsRecent
  <2>1. Fresh /\ now <= cache.until
    BY DEF Recent, Valid
  <2>2. now \in Nat /\ \A i \in 1 .. Len(commits) : commits[i] \in Nat
    BY Bounds DEF Held, Types
  <2>3. CASE cache.value < Len(commits)
    <3>1. cache.value + 1 \in 1 .. Len(commits) /\ Len(commits) \in Nat
      BY <2>1, <2>3 DEF Fresh, Held, Types
    <3> QED
      BY <2>1, <2>2, <2>3, <3>1, Bounds DEF Fresh, CacheIsRecent, ReplacedAt
  <2>4. CASE ~(cache.value < Len(commits))
    BY <2>2, <2>4, Bounds DEF CacheIsRecent, ReplacedAt
  <2> QED
    BY <2>3, <2>4
<1> QED
  BY <1>1, <1>2, StepRecent, HeldAlways, PTL DEF Spec
=============================================================================
