------------------------------ MODULE Database ------------------------------
(***************************************************************************)
(* The database clients (basicDataClient.h, abstractDatabaseClient.h,      *)
(* transactionalDatabaseClient.h and abstractCachingDatabaseClient.h in    *)
(* icetray/icetray/): threads of a service make calls that take            *)
(* connections from one pool, change the database by themselves or in a    *)
(* block under a TransactionalDatabaseClient, and fetch through the cache. *)
(*                                                                         *)
(* One query is modelled, whose answer changes with every commit: its      *)
(* value is the number of commits.  The pool, the cache and the database   *)
(* are libraries, modelled from how the clients use them.                  *)
(***************************************************************************)
EXTENDS Naturals, Sequences, FiniteSets

CONSTANTS
  Threads,
  Nesters,     \* those that call the client itself in a block, too
  Connections, \* what the pool may open: PoolMax of them
  CacheTime,   \* the cacheTime given to fetchCache
  MaxDelay,    \* bound: how long a thread takes from the answer to cache.add
  MaxTime,     \* bound: of the clock
  MaxCalls,    \* bound: calls of all threads
  None

\* The pool is finite, which is all that is asked of it: the threads that hold one
\* connection and wait for another may be as many as there are connections, or more.
ASSUME PoolAssumption == /\ Nesters \subseteq Threads
                         /\ IsFiniteSet(Connections) /\ IsFiniteSet(Nesters)
                         /\ None \notin Connections
ASSUME BoundsAssumption == {CacheTime, MaxDelay, MaxTime, MaxCalls} \subseteq Nat

VARIABLES
  pc,        \* where a thread is
  conn,      \* the connection its call holds
  inner,     \* the one a call within its block holds
  unwinding, \* whether its last transaction began while an exception unwound the caller
  calls,     \* how many calls have been made
  tx,        \* tx[c]: "none", or a transaction without ("clean") or with writes ("dirty")
  commits,   \* the times of the commits
  leaked,    \* connections given back with a transaction open, by a rollback that threw
             \* or a client assigned over, until the transaction ends
  got,       \* what a thread has fetched: [value, at]
  cache,     \* the item of the query: [value, until], None without
  now,
  aborted    \* whether a destructor has thrown

client == <<conn, inner, unwinding, calls>>
data   == <<tx, commits, leaked>>
cached == <<got, cache>>
vars   == <<pc, client, data, cached, now, aborted>>

\* What the pool can still give out.
Idle == Connections \ ({conn[t] : t \in Threads} \cup {inner[t] : t \in Threads})

Goto(t, label) == pc' = [pc EXCEPT ![t] = label]
Release(t)     == conn' = [conn EXCEPT ![t] = None]

Init ==
  /\ pc = [t \in Threads |-> "idle"]
  /\ conn = [t \in Threads |-> None]
  /\ inner = [t \in Threads |-> None]
  /\ unwinding = [t \in Threads |-> FALSE]
  /\ calls = 0
  /\ tx = [c \in Connections |-> "none"]
  /\ commits = <<>>
  /\ leaked = {}
  /\ got = [t \in Threads |-> None]
  /\ cache = None
  /\ now = 0
  /\ aborted = FALSE

(***************************************************************************)
(* Calls that take a connection each                                       *)
(***************************************************************************)

Called(t) ==
  /\ ~aborted
  /\ pc[t] = "idle" /\ calls < MaxCalls
  /\ calls' = calls + 1

\* modify(sql, params).
CallModify(t) ==
  /\ Called(t)
  /\ Goto(t, "getModify")
  /\ UNCHANGED <<conn, inner, unwinding, data, cached, now, aborted>>

\* transactional(), perhaps in a destructor that an exception has called.
CallTransactional(t) ==
  /\ Called(t)
  /\ \E b \in BOOLEAN : unwinding' = [unwinding EXCEPT ![t] = b]
  /\ Goto(t, "getBegin")
  /\ UNCHANGED <<conn, inner, data, cached, now, aborted>>

After == [getModify |-> "modify", getSelect |-> "select", getBegin |-> "begin"]

\* db->get() waits for a connection.
Get(t) ==
  /\ pc[t] \in DOMAIN After
  /\ \E c \in Idle : conn' = [conn EXCEPT ![t] = c]
  /\ Goto(t, After[pc[t]])
  /\ UNCHANGED <<inner, unwinding, calls, data, cached, now, aborted>>

\* The pool has room for another but cannot open one.
GetThrows(t) ==
  /\ pc[t] \in DOMAIN After /\ Idle # {}
  /\ Goto(t, "idle")
  /\ UNCHANGED <<client, data, cached, now, aborted>>

\* s->execute() outside a transaction commits by itself; on a connection that came with
\* a transaction open it becomes part of that.
Modify(t) ==
  /\ pc[t] = "modify"
  /\ IF conn[t] \in leaked
     THEN tx' = [tx EXCEPT ![conn[t]] = "dirty"] /\ UNCHANGED commits
     ELSE commits' = Append(commits, now) /\ UNCHANGED tx
  /\ Release(t)
  /\ Goto(t, "idle")
  /\ UNCHANGED <<inner, unwinding, calls, leaked, cached, now, aborted>>

\* The command or a parameter is refused: the handle returns the connection.
CommandThrows(t) ==
  /\ pc[t] \in {"modify", "select"}
  /\ Release(t)
  /\ Goto(t, "idle")
  /\ UNCHANGED <<inner, unwinding, calls, data, cached, now, aborted>>

(***************************************************************************)
(* fetchCache                                                              *)
(***************************************************************************)

Valid == cache # None /\ now <= cache.until

\* Fault: a hit renews the item.
HitRenewing == cache' = [cache EXCEPT !.until = now + CacheTime]

\* cache.get(key) leaves the item as it is.
Hit == UNCHANGED cache

FetchCache(t) ==
  /\ Called(t)
  /\ \/ Valid /\ Hit /\ UNCHANGED pc
     \/ ~Valid /\ Goto(t, "getSelect") /\ UNCHANGED cache
  /\ UNCHANGED <<conn, inner, unwinding, data, got, now, aborted>>

\* The answer is what was committed last.  Within a transaction somebody left open it
\* may be what was true when that began, or what nobody has ever committed: None.
Answer(c) == IF c \in leaked THEN None ELSE Len(commits)

\* fetch reads the answer and gives the connection back.
Select(t) ==
  /\ pc[t] = "select"
  /\ got' = [got EXCEPT ![t] = [value |-> Answer(conn[t]), at |-> now]]
  /\ Release(t)
  /\ Goto(t, "add")
  /\ UNCHANGED <<inner, unwinding, calls, data, cache, now, aborted>>

\* cache.add(key, d, time(nullptr) + cacheTime), where another thread's fetch of the
\* same key may have come first; which of the two stays is the cache's choice.
Add(t) ==
  /\ pc[t] = "add"
  /\ cache' \in {[value |-> got[t].value, until |-> now + CacheTime]}
                \cup (IF Valid THEN {cache} ELSE {})
  /\ got' = [got EXCEPT ![t] = None]
  /\ Goto(t, "idle")
  /\ UNCHANGED <<client, data, now, aborted>>

(***************************************************************************)
(* TransactionalDatabaseClient                                             *)
(***************************************************************************)

\* beginTx: one that is open already is joined (or it throws).
Opened(c) == [tx EXCEPT ![c] = IF @ = "none" THEN "clean" ELSE @]

Begin(t) ==
  /\ pc[t] = "begin"
  /\ tx' = Opened(conn[t])
  /\ Goto(t, "block")
  /\ UNCHANGED <<client, commits, leaked, cached, now, aborted>>

\* Fault: the connection does not go back.
BeginFailedKeeping(t) == UNCHANGED conn

\* The constructor throws: its destructor is not run, that of its member db is.
BeginFailed(t) == Release(t)

BeginThrows(t) ==
  /\ pc[t] = "begin"
  /\ BeginFailed(t)
  /\ Goto(t, "idle")
  /\ UNCHANGED <<inner, unwinding, calls, data, cached, now, aborted>>

BlockModify(t) ==
  /\ pc[t] = "block"
  /\ tx' = [tx EXCEPT ![conn[t]] = "dirty"]
  /\ UNCHANGED <<pc, client, commits, leaked, cached, now, aborted>>

\* The block calls the client it got its transaction from: another connection.
BlockFetches(t) ==
  /\ pc[t] = "block" /\ t \in Nesters
  /\ Goto(t, "getInner")
  /\ UNCHANGED <<client, data, cached, now, aborted>>

GetInner(t) ==
  /\ pc[t] = "getInner"
  /\ \E c \in Idle : inner' = [inner EXCEPT ![t] = c]
  /\ Goto(t, "inner")
  /\ UNCHANGED <<conn, unwinding, calls, data, cached, now, aborted>>

\* It is answered, or throws into the block, as the pool may.
InnerEnds(t) ==
  /\ pc[t] = "inner" \/ (pc[t] = "getInner" /\ Idle # {})
  /\ inner' = [inner EXCEPT ![t] = None]
  /\ \/ pc[t] = "inner" /\ Goto(t, "block")
     \/ Goto(t, "throw")
  /\ UNCHANGED <<conn, unwinding, calls, data, cached, now, aborted>>

\* The block assigns the client the inner call made, transactional(), to its own, whose
\* connection goes back with its transaction open; then the destructor of the one moved
\* from dereferences a db that has no connection, which may be a throw and swallowed if
\* an exception is on its way.
MoveAssigned(t) ==
  /\ pc[t] = "inner"
  /\ tx' = Opened(inner[t])
  /\ leaked' = leaked \cup {conn[t]}
  /\ conn' = [conn EXCEPT ![t] = inner[t]]
  /\ inner' = [inner EXCEPT ![t] = None]
  /\ Goto(t, "block")
  /\ aborted' \in {TRUE, ~unwinding[t]}
  /\ UNCHANGED <<unwinding, calls, commits, cached, now>>

\* The block comes to its end, or throws, its own commands included.
BlockEnds(t) ==
  /\ pc[t] = "block"
  /\ \E end \in {"leave", "throw"} : Goto(t, end)
  /\ UNCHANGED <<client, data, cached, now, aborted>>

\* Fault: exceptions are counted when the transaction begins.
UncaughtBefore(t) == unwinding[t]

\* std::uncaught_exceptions() in the destructor: also those the block runs under.
Uncaught(t) == pc[t] = "throw" \/ unwinding[t]

\* The destructor has ended the transaction; then its member db gives the connection
\* back.
Ended(t) ==
  /\ tx' = [tx EXCEPT ![conn[t]] = "none"]
  /\ leaked' = leaked \ {conn[t]}
  /\ Release(t)
  /\ Goto(t, "idle")
  /\ UNCHANGED <<inner, unwinding, calls, cached, now>>

\* Fault: nothing is done about the transaction.
RolledBackNot(t) ==
  /\ Release(t)
  /\ Goto(t, "idle")
  /\ UNCHANGED <<inner, unwinding, calls, tx, leaked, cached, now>>

RolledBack(t) == Ended(t)

RollbackTx(t) ==
  /\ pc[t] \in {"leave", "throw"} /\ Uncaught(t)
  /\ RolledBack(t)
  /\ UNCHANGED <<commits, aborted>>

\* The connection goes back as it is.
LeftOpen(t) ==
  /\ leaked' = leaked \cup {conn[t]}
  /\ Release(t)
  /\ Goto(t, "idle")
  /\ UNCHANGED <<inner, unwinding, calls, tx, commits, cached, now, aborted>>

\* rollbackTx throws, which is swallowed: nobody learns that nothing was rolled back.
RollbackThrows(t) ==
  /\ pc[t] \in {"leave", "throw"} /\ Uncaught(t)
  /\ LeftOpen(t)

\* Where the transaction was open before the block began, the library may count the
\* block's end and commit nothing yet.
CommitTx(t) ==
  /\ pc[t] \in {"leave", "throw"} /\ ~Uncaught(t)
  /\ \/ /\ Ended(t)
        /\ commits' = IF tx[conn[t]] = "dirty" THEN Append(commits, now) ELSE commits
        /\ UNCHANGED aborted
     \/ conn[t] \in leaked /\ LeftOpen(t)

\* The pool tests a connection or has enough of them, and closes it: its transaction is
\* rolled back by the server.
PoolCloses ==
  /\ \E c \in leaked \cap Idle : /\ tx' = [tx EXCEPT ![c] = "none"]
                                 /\ leaked' = leaked \ {c}
  /\ UNCHANGED <<pc, client, commits, cached, now, aborted>>

\* commitTx throws in a destructor, which is noexcept: std::terminate.
CommitThrows(t) ==
  /\ pc[t] \in {"leave", "throw"} /\ ~Uncaught(t)
  /\ aborted' = TRUE
  /\ UNCHANGED <<pc, client, data, cached, now>>

\* The block has moved its client: the transaction ends with the new one, then the
\* destructor of the one moved from dereferences a db that has no connection.  (If that
\* throws under another exception it is swallowed, and this is RollbackTx.)
MovedFrom(t) ==
  /\ pc[t] \in {"leave", "throw"}
  /\ Ended(t)
  /\ commits' = IF tx[conn[t]] = "dirty" /\ ~Uncaught(t) THEN Append(commits, now) ELSE commits
  /\ aborted' = TRUE

(***************************************************************************)

Tick ==
  /\ now < MaxTime
  /\ \A t \in Threads : pc[t] = "add" => now - got[t].at < MaxDelay
  /\ now' = now + 1
  /\ UNCHANGED <<pc, client, data, cached, aborted>>

Step(t) ==
  /\ ~aborted
  /\ \/ Get(t) \/ GetThrows(t) \/ Modify(t) \/ CommandThrows(t)
     \/ Select(t) \/ Add(t)
     \/ Begin(t) \/ BeginThrows(t)
     \/ BlockFetches(t) \/ GetInner(t) \/ InnerEnds(t) \/ MoveAssigned(t) \/ BlockEnds(t)
     \/ RollbackTx(t) \/ RollbackThrows(t) \/ CommitTx(t) \/ CommitThrows(t) \/ MovedFrom(t)

Next ==
  \/ \E t \in Threads : \/ CallModify(t) \/ CallTransactional(t) \/ FetchCache(t)
                        \/ Step(t)
                        \/ ~aborted /\ BlockModify(t)
  \/ ~aborted /\ (Tick \/ PoolCloses)

\* A thread that can go on does, and a block does not fetch for ever.
Fairness == \A t \in Threads : /\ WF_vars(~aborted /\ (Step(t) /\ ~BlockFetches(t)))
                               /\ SF_vars(~aborted /\ BlockEnds(t))

Spec == Init /\ [][Next]_vars /\ Fairness

(***************************************************************************)
(* Properties                                                              *)
(***************************************************************************)

Labels == {"idle", "getModify", "modify", "getSelect", "select", "add", "getBegin", "begin",
           "block", "getInner", "inner", "leave", "throw"}

\* Every variable has its type, and a connection is held by one call at a time, for no
\* longer than the call lasts.
TypeOK ==
  /\ pc \in [Threads -> Labels]
  /\ conn \in [Threads -> Connections \cup {None}]
  /\ inner \in [Threads -> Connections \cup {None}]
  /\ \A t, u \in Threads : /\ conn[t] # None => conn[t] # inner[u]
                           /\ conn[t] = conn[u] => t = u \/ conn[t] = None
                           /\ pc[t] = "idle" => {conn[t], inner[t]} = {None}
  /\ unwinding \in [Threads -> BOOLEAN]
  /\ calls \in 0 .. MaxCalls
  /\ tx \in [Connections -> {"none", "clean", "dirty"}]
  /\ commits \in Seq(0 .. MaxTime)
  /\ now \in 0 .. MaxTime
  /\ leaked \in SUBSET Connections
  /\ aborted \in BOOLEAN

InBlock(t) == pc[t] \in {"block", "getInner", "inner", "leave", "throw"}

\* A connection with an open transaction is held by the thread whose block it is, on
\* every path through constructors, exceptions and destructors but two: after a
\* rollbackTx that threw and was swallowed, and after the assignment of another client
\* to the block's, it is back in the pool, to make somebody else's commands part of it.
OpenOnlyInBlocks ==
  \A c \in Connections : tx[c] # "none" =>
    c \in leaked \/ \E t \in Threads : conn[t] = c /\ InBlock(t)

\* The end of a block decides over its transaction: one that throws commits nothing, and
\* one that comes to its end commits what it wrote, unless an exception was unwinding
\* the caller when it began or the transaction had been left open to it.
BlockDecides ==
  [][\A t \in Threads : InBlock(t) /\ pc'[t] = "idle" =>
       /\ pc[t] = "throw" => commits' = commits
       /\ pc[t] = "leave" /\ tx[conn[t]] = "dirty" =>
            commits' = Append(commits, now) \/ unwinding[t] \/ conn[t] \in leaked]_vars

\* When the value v of the query was replaced; now if it has not been.
ReplacedAt(v) == IF v < Len(commits) THEN commits[v + 1] ELSE now

\* What fetchCache answers from the cache has been true at some time in the last
\* CacheTime, give or take what the fetch and the add took, whichever threads filled
\* the cache in which order; except what was read within a transaction somebody left
\* open, which need not have been true at all.
CacheIsRecent ==
  Valid /\ cache.value # None => now <= ReplacedAt(cache.value) + CacheTime + MaxDelay

\* Each connection is held by a block that waits for another one.
Stuck == \A c \in Connections : \E t \in Nesters : conn[t] = c /\ pc[t] = "getInner"

\* Every call ends, unless blocks that call the client they come from have taken all
\* connections and wait for each other: nothing else exhausts the pool for good, no
\* beginTx that throws, no rollback that fails and no client that is moved.
CallsEnd == \A t \in Threads : pc[t] # "idle" ~> (pc[t] = "idle" \/ aborted \/ Stuck)
=============================================================================
