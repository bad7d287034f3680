# A TLA+ model of IceTray

IceTray (`src/icetray`) is a C++ library for writing ZeroC Ice services: a service life
cycle hosted by IceBox or by an in-process fixture (DryIce), logging to remote or local
writers, database clients on a connection pool, and MIME mail.  This directory holds
specifications of the parts that keep state or compute something worth getting right, the
TLC configurations that check them, and proofs for TLAPS.

    tlc -workers 2 -config MCLogManager.cfg MCLogManager     # model-check
    tlapm LogManagerProof.tla                                # prove

## 1. Inventory

All paths are below `src/icetray/`.

### LogManager and Logger (`icetray/logger.cpp`, `logger.h`)
- **State.** `LogManager::logWriters` (a set of `LogWriterPrx`), `LogManager::loggers` (a set
  of *raw* `LoggerBase *`), and in each logger `logs`, the writers for each level.  One
  `std::shared_mutex` in the manager, one in each logger.
- **Operations.** `addWriter`, `removeWriter`, `getLogger`, `Logger::message` (and
  `messagef`, `messagebf`, `messagectf`).  An update changes the registry under the exclusive
  lock, drops it, takes it shared and refreshes one logger after the other;
  `getLogsForDomain` asks each writer with a remote call.  A message looks up its first
  level under one shared lock, drops it, formats, and delivers under a second one, with the
  iterator of the first.
- **Hard.** Every call may come from any thread.  The registry changes between the steps of
  an update; an iterator outlives its lock; the manager's lock is shared twice by one thread;
  writers throw; `getLogger` inserts into `loggers` with no lock at all; nothing ever takes a
  pointer out of `loggers`.
- **Correct when** logger tables agree with the registry but for calls in progress, a removed
  writer is not called any more by a logger that its removal came to, a message reaches whom it
  should exactly once, and every call returns.

### AbstractLogWriter (`icetray/logger.cpp`)
- **State.** `logDomains`, a `std::map` from domains to levels, filled by the constructor.
- **Operations.** Constructors (plain, of a level, of properties), `level`, `lowestLevel`,
  `splitDomain`, `writeDomain`.
- **Hard.** `level` finds the most specific domain with a backwards linear search, which is
  right only because of how vectors of strings are ordered; property names that are the same
  domain; a bad value half way; unsigned arithmetic on the width.
- **Correct when** the longest configured prefix answers, `lowestLevel` bounds every answer,
  the first of two settings holds, and a written domain fits its width when it can.

### Console and syslog writers (`icetray/logWriterConsole.cpp`, `logWriterSyslog.cpp`)
- **State.** Each writer's `width`; in the process, syslog's ident, option, facility and
  descriptor.
- **Operations.** Constructors with and without properties, `message`, destructors.
- **Hard.** `openlog` and `closelog` act on the process, not on the writer; `openlog` keeps a
  pointer; -1 stands for no width in a type that has negative numbers.
- **Correct when** syslog is closed and its ident given up once the last writer is gone, and
  lines are cut by the width their writer was given.

### Service, Options and Cube (`icetray/icetrayService.cpp`, `options.cpp`, `icecube.h`)
- **State.** `Service::current`, `servicePlugins`, `logWriters`, the adapter and its objects; in
  the process, the default `PluginManager` with the registered `Options`, and the default
  `LogManager`.
- **Operations.** Creation (with `OptionsCollation` as a member), `start` (adapter, loggers,
  options, objects, activation), `stop`, destruction; `Cube::add`, `addObject` and `get`.
- **Hard.** Any step of `start` may throw and is not undone; IceBox may stop a service and
  start it again; requests run while it stops; the order of shutdown; what keeps a second service
  out is an assertion, which a release build does not have.
- **Correct when** the log manager only has writers that can be called, a stop is not brought
  down by what went well before it, requests find their service and Options, and the cube
  answers with proxies of the current adapter.

### DryIce (`dryice/dryice.cpp`, `dryice.h`)
- **State.** `DryIce::currentDryIce`, each object's `ic` and `s`.
- **Operations.** Constructor (creates and starts a service), `replace` (object or plugin),
  moves, destructor; `DryIceClient`, an adapter for tests on the service's communicator:
  constructor, copies, moves, destructor, `getService`.
- **Hard.** Exceptions in the constructor and in that of a derived class; `noexcept`
  destructors around calls that throw; a defaulted move beside a static pointer; a copy that
  shares what its destructor destroys.
- **Correct when** the assertions of `getService` hold while a service runs, and a client has
  its adapter as long as the service does.

### Database clients (`icetray/basicDataClient.h`, `abstractDatabaseClient.h`, `abstractCachingDatabaseClient.h`, `transactionalDatabaseClient.h`)
- **State.** The pool's connections, whether each has a transaction open, the cache.
- **Operations.** `fetch`, `modify`, `transactional()` and the client it returns, which begins
  in its constructor and commits or rolls back in its destructor, `fetchCache`.
- **Hard.** Destructors decide by `std::uncaught_exceptions()`; any statement may throw, the
  rollback included, whose exception is swallowed; clients are moved and assigned; blocks take
  second connections; two threads miss the cache at once.
- **Correct when** a connection returns with an open transaction only where the rollback failed
  or the client was assigned over, the end of a block decides whether it commits, cached answers
  are recent, and nothing but nested calls exhausts the pool for good.

### MIME parts and mail servers (`icetray/mimeImpl.cpp`, `mailServer.cpp`)
- **State.** That of an encoder: position, width taken in the line; the depth of the multipart
  that is being written; libesmtp's session.
- **Operations.** `TextPart::quotedPrintable`, `BinaryViewPart::base64`, the `write` of the
  three parts, `writeHeaders`, `writeEmailContent`, `sendEmail`.
- **Hard.** Line widths, the look at the character *after* the current one, padding; boundaries
  that are told apart by their depth only; a part of the program's own that throws.
- **Correct when** lines keep their width, and a reader gets back what was written and finds
  every part in its place.

### SQL precompiler and SQL sources (`tool/icetraySql.cpp`, `icetray/staticSqlSource.cpp`, `sqlSource.cpp`)
- **State.** The loop's connector, options and line; then the generated global and the command
  it makes.
- **Operations.** A line copied, or a `-- libdbpp-` comment understood; the namespace; the two
  constructors of `StaticSqlSource`; `select` and `modify`.
- **Hard.** The end of the input; comments in any order and more than once; a constructor that
  throws while the program's globals are made.
- **Correct when** the tool ends, and the command is the script, less a last line without a
  newline, with the options under the connector the script names.

### Without a model
The two connection-pool constructors (four properties passed to a library), the mock mail server
(a test's list), the stream and string-view helpers (marshalling) and `icetrayDoc` (loads
libraries, prints help): no state or no behaviour of their own.  Section 7 has the reasons.

### How they interact
A `Service` owns an adapter; `configureLoggers` makes writers from plugins, puts their proxies
into its adapter and registers them with the `LogManager`, which calls them back for their level
and for every message of every `Logger`.  The writers decide with `AbstractLogWriter`.
`addObjects` fills the adapter and the cube; a servant uses the cube, Options and a database
client.  `DryIce` is a host for one service, `DryIceClient` a guest of one.  So *Service*
composes hosts, services, adapters, the manager's registry and the plugin manager in one module;
*LogManager* details what happens inside the registry.  *LogDomains* is the function that
appears in *LogManager* as the constant `LevelOf`; *LogLines* is what a writer does with a
message that *LogManager* delivers.  *Mail* extends *Mime*: the writing of the tree calls the
encoders.

## 2. Modules

| module | models | kind |
|---|---|---|
| `LogManager` | LogManager and Logger, threads, locks | state machine |
| `LogRegistry` | what they promise: to whom a message has been told when its call returns | abstract specification |
| `LogManagerProof` | theorems on `LogManager` | proofs |
| `DomainText` | `splitDomain` | operators |
| `LogDomains` | AbstractLogWriter's map and answers, for names that `splitDomain` splits | state machine over `DomainText` |
| `LogDomainsProof` | theorems on `LogDomains` and `DomainText` | proofs |
| `DomainFormat` | `writeDomain`, with `size_t` that wraps | algorithm, a step per component |
| `LogLines` | console and syslog writers, calling `writeDomain` | state machine over `DomainFormat` |
| `LogLinesProof` | theorems on `LogLines` and `DomainFormat` | proofs |
| `Service` | Service, OptionsCollation, Cube, DryIce, DryIceClient, the process they share | state machine |
| `ServiceProof` | theorems on `Service` | proofs |
| `Database` | the database clients, with the pool and the cache as external parts | state machine |
| `DatabaseProof` | theorems on `Database` | proofs |
| `Mime` | `quotedPrintable`, `base64` | algorithm, a step per turn of the loop |
| `Mail` | the writing of a tree of parts, `sendEmail`; libesmtp is external | state machine over `Mime` |
| `MailProof` | theorems on `Mail` and `Mime` | proofs |
| `Sql` | the precompiler's loop, the generated source, the command | state machine |
| `SqlProof` | theorems on `Sql` | proofs |
| `Prefixes` | what a loop has summed up, picked, joined or split after each turn; used by `DomainText`, `DomainFormat`, `Mime`, `Mail`, `Sql` | recursive functions |
| `PrefixesProof` | lemmas on these, and induction | proofs |
| `MCLogManager`, `MCLogDomains`, `MCLogLines`, `MCService`, `MCMail`, `MCSql` | values of constants for TLC | instances |

**Wrong versions.** A definition whose comment begins with "Fault:" is a plausible wrong
version of the one after it.  No specification uses it; put in the place of the right one it
breaks the property that `PROJECT.json` lists with it ("mutants").  It shows that the property
depends on the code.

### LogManager
`pc[t]` is where thread `t` is in its call; no variable stands for a lock, who holds one is
read off `pc`.  A critical section with one access to what it protects is one step (firstFor);
the others are several, so that steps of other threads come between, wherever locks let them:

| labels | code |
|---|---|
| `wantAdd`, `add` / `wantErase`, `erase` | `ScopeLock(_lock)` and its body in `addWriter` / `removeWriter` |
| `share`, `update` | `SharedLock(_lock)`, the loop of `updateLoggerWriters` |
| `lock`, `shareAgain`, `ask` | the logger's lock, `getLogsForDomain`'s shared lock, one `level()` call after the other |
| `getShare`, `getAsk`, `register` | `getLogger`: the same for a new logger, then the unlocked insertion |
| `find`, `enter`, `deliver` | `firstFor`; formatting and the second shared lock; one `message()` call after the other |

`RefreshThrows`, `GetThrows` and `DeliverThrows` are exceptions from writers, of those in
`Faulty`; `Formatters` are the threads that call `messagef` and its like, whose message may come
to nothing (`NoText`).  `Release` is the end of the last `LoggerPtr`; a new logger may get the
address of one that is gone and still in the set.  The unsynchronised insertion is a data race:
`Register` lets an iterating thread see the element or not, and lets one of two insertions at
once be lost. (Undefined behaviour allows more; a corrupted tree is not modelled.)

`owed`, `told` and `astray` are history, read by no guard that decides a step of the code.  A
logger is *astray* when `getLogger` registered it with a table that was no longer right, or when
an exception left it unrefreshed; the next refresh brings it back.  Violations of the registry
that come from these two are kept apart by it, because one of them is a finding (section 5) and
the other is what the code accepts.

That reaches further than the tables.  A removal passes by a logger that `getLogger` has asked
the writers for and not inserted yet, or inserted with the old answers, or that comes after a
writer that threw (`PassedBy`): such a logger goes on calling the removed writer.
`RemovedWriterIsQuiet` excepts these loggers and no others.

`LogRegistry` has a call of `message` look for the writers that want it and then end in one of
four ways: none wants it, there is no text, everybody it owed the message and who stayed in the
view has had it (`End`), or a writer that may throw has not been told (`Fail`).

### Service
`stage[s]` is how far a service has come through constructor, `start`, `stop` and destructor,
one step for each thing that may throw.  A writer is `<<service, factory, run>>`, so that one
left by an earlier start differs from its successor; an entry of the cube carries the run that
made it. `Reachable` is Ice's answer to a call through a destroyed adapter; an update calls the
writers once for each logger, and whether there is one is left open.  `DryIce` runs constructors
and destructors in one thread; `Free` says that none is under way.  A `BOOST_ASSERT` that fails,
and an exception out of a destructor, set `aborted`.

`asserting` is whether `BOOST_ASSERT` is compiled in; `Jamroot.jam` has a debug and a release
variant, and both are modelled.  What stops a second service is the assertion or, if any Options
are registered, the constructor of `OptionsCollation` (`SecondStopped`).  In a release build
without Options nothing does: two services run then, `Service::current` is the last one created,
or null, and each adds to that one's cube.  `RequestsFindService` and `CubeIsCurrent` are stated
for the other cases, the rest of the properties for all of them.

~DryIce lets go of its pointer; a caller that has kept a copy from `getService` has the service
live on, stopped (stage "kept"), so that the next one cannot be created (`DropService` ends it).

`clients[k]` is the service whose adapter a `DryIceClient` uses, or "null" for one that was
moved from.  The adapter's name is the same for all of them, so a second constructor throws
(`NameFree`); `clientAdapters` has the services that have one.  A copy shares it, and the
service is then in `copied`, to its end.

### LogLines
`ident` is the string syslog has a pointer to.  `openlog` with the property's temporary makes it
"gone" in the same step (a dangling pointer; what is read through it is not modelled).
`closelog` resets it and closes the descriptor; `option` and `facility` stay.  `message` starts
`writeDomain`, whose turns are steps; nothing else is between, as a line is made in one thread.
Levels are left out: they choose a stream or a priority and nothing more.

### Database
`conn[t]` and `inner[t]` are the connections of a call and of a call within its block.  One
query is modelled whose value is the number of commits, so that "how old is this answer" can be
said.  `unwinding[t]` is whether the transaction began while an exception was under way already:
`uncaught_exceptions()` counts that one, too, so such a block is rolled back though it ends
well. The code does that; whether it should is not said anywhere.  `MovedFrom` is the block that
has moved its client: the move is defaulted, so the destructor of the one moved from ends a
transaction through a handle that has no connection.  `MoveAssigned` is the assignment of
another client to the block's own, whose connection goes back with its transaction open.

`leaked` has the connections that are back in the pool like that, after such an assignment or
after a `rollbackTx` that threw and was swallowed (`RollbackThrows`), and those taken out of it
again.  On such a connection a `modify` does not commit, a block joins the transaction that is
there, and a `fetch` reads what nobody has committed (`None`), until somebody's commit or
rollback ends it or the pool closes the connection (`PoolCloses`).

### Mime
`out` is a sequence of symbols (plain, escaped, soft break, line end), so that widths and what a
reader sees can be computed from it.  A step is a turn of the loop by the case it takes
(`NewLine`, `LiteralSpace`, `EscapedSpace`, `DropReturn`, `Literal`, `Escaped`).  `nextCh` of
the last character is the NUL after a `std::string`, as in the code.  A block of base64 is as
long as the code's formula says, for any width from three on; `WholeGroups` is that it is a
multiple of three bytes, as it is for the width in use.

### Mail
`write` recurses over a tree; here the tree is the sequence of its nodes in the order they are
written, each with its depth, and `level` is how deep the recursion is.  A node below the open
multipart is written, a node above it makes `CloseMulti` the next step.  `mail` is a sequence of
tokens: a header is its name, but for the boundary in a Content-Type, which the reader of the
properties needs.  A delimiter is a character `DIVIDER` and the digits of `%d`.  "other" parts
are the program's own subclasses, which may throw.  `SessionSent` and `SessionFails` are the two
ends of `sendEmail` after the content is written.

### Sql
A line is a pair of what it is to the loop and its text; the text of an option is a pair of key
and value.  The generated source initialises a `CommandOptionsMap` with them, which keeps the
first value of a key (`MapOf`).  `Eof` is where `getline` sets eofbit: after the last newline,
or in a last line without one.  After the loop come the three things that may become of the
generated source: it cannot be linked, the program ends while globals are made, or a command is
made from it.

## 3. Runs

| run | states | shows |
|---|---|---|
| `logging` | 993 649 | two threads, three calls each, one of them formatting, two writers (one may throw), two loggers (one created and dropped on the way), two levels: `ViewsFollowRegistry`, `RemovedWriterIsQuiet`, `NobodyLeftOut`, `ToldOnce`, the inductive invariant, `RegistryStable`, `TableStable`, and that it implements `LogRegistry` |
| `logging_live` | 128 539 | three threads, a call each: `CallsReturn` |
| `log_astray` | violation | `NoLoggerAstray` |
| `log_dangling` | violation | `NoDanglingLogger` |
| `log_domains` | 138 708 | every setting of six property names (two of them one domain) and the default: `LongestPrefixWins`, `LowestLevelBounds`, `FirstSettingHolds`, `SplitIsStable` |
| `log_lines` | 1 256 855 | a console writer of every width to 12 and none, two syslog writers of two facilities, every domain of up to three components of up to three characters: `FitsTheWidth`, `CutsNoMoreThanNeeded`, `SyslogIsClosed` |
| `syslog_ident` | violation | `IdentIsThere` |
| `service` | 1 636 390 | with assertions and without: two services, one that adds an object and a plugin and one that adds nothing to the cube, two DryIce objects or IceBox, two DryIceClients, two log factories, two starts each: `WritersServed`, `StopLeavesNoWriter`, `StopBreaksOnLostOnly`, `RequestsFindService`, `RequestsFindOptions`, `CubeIsCurrent`, `ClientServes` |
| `dryice_move` | violation | `ClientFindsService` |
| `database` | 367 300 | two threads that may both nest, three calls, two connections, a clock of three seconds: `OpenOnlyInBlocks`, `CacheIsRecent`, `BlockDecides`, `CallsEnd` |
| `mail` | 149 179 | parts alone: every text of up to five characters of the five kinds and every number of bytes up to 20, in widths 3, 4, 5 and 8; trees of three shapes whose texts may hold a delimiter, one with a part that throws; chains of ten, eleven and twelve multiparts, with a part in the second or the tenth of them and without: `LinesFit`, `ReadsAsSent`, `OneEncoding`, `PartsAreFound` |
| `sql` | 673 104 | every script of up to four lines, two of the options one key's, with and without a newline at its end, a connector on the command line, `--namespace`, folders: `CommandIsScript`, `ToolEnds` |

**Bounds.** *Logging:* a conflict needs one thread that changes the registry and one that
changes it, reads it or logs; three calls let an add, a removal and a message follow each other
in one thread while the other is anywhere.  Two levels tell first, later and last level apart.
The proofs cover every number.  Liveness needs a third thread: an update, a second writer that
waits, and a message.  *Domains:* three components and a shared prefix with a character below
'.' are what lexicographic orders can be confused by.  *Lines:* `size_t` has eight bits
(`NPos`); only a wrap-around reaches values near its end, and the widths go from none over too
small for one character each to more than enough.  A third syslog writer could only do to the
second what the second does to the first.  *Service:* two of everything, and two starts, give
each leftover one thing to collide with; of clients the second is the one refused, copied to or
moved to.  The service that adds nothing to the cube is there because the other's second start
always throws: only with it is there a stop after a second start.  Factories, hosts and clients
are symmetric.  Two services alive at once, which takes a build without assertions and no Options,
share one client at most (`FewClients`, a constraint of the run); `ClientsServed` is proved
without that bound.  *Database:* both threads may nest, so they can take both connections and wait for
each other; a third call finds what the first two have left in the pool and the cache.
`MaxDelay` is the time between an answer and `cache.add`, `MaxTime` the clock's end, `MaxCalls`
the calls of all threads, `MaxRuns` the starts of a service.  *Mail:* the widths have full lines
of whole groups (4, 5, 8) and not (3); five characters fill more than a line of width three and
have every pair of character kinds at the end of a line; ten multiparts have one digit in their
boundaries, with the eleventh there are two; three characters can be a delimiter and one more.
*Sql:* four lines hold two connectors, an option before and between them, and a statement;
`MaxJunk` ends what the tool writes for a stream that cannot be read, which in the code has no
end.

`CHECK_DEADLOCK FALSE` is set in every run: calls are bounded, encoders finish, and a process
that has aborted stops.

## 4. Fairness

- **Logging.** Weak fairness for each thread's steps inside a call: the scheduler runs a thread
  that can go on.  Starting a call is not fair.  An exclusive lock could be kept waiting by an
  endless stream of readers; calls are finite in number here, and nothing is claimed for an
  endless stream.  `CanShareManager` lets a reader in while a writer waits, as glibc's
  `pthread_rwlock_t` does by default, which is below `std::shared_mutex`.  That matters: an
  update shares the manager's lock twice in one thread, which the C++ standard does not allow,
  and with a lock that prefers writers (the wrong version `CanShareManagerInTurn`) `CallsReturn`
  fails.
- **Database.** Weak fairness for each thread's steps, except that nobody has to start another
  nested fetch; strong fairness for the end of a block, since a block is finite code, however
  often it fetches.  Threads that nest wait for each other for ever once each connection is held
  by one of them (`Stuck`).  The code does not keep them from it, no assumption does, and
  `CallsEnd` excepts that state. `CallsEnd` has calls that end in `std::terminate` as ended.
- **Sql.** Weak fairness of `Next`: the tool is one thread that runs on.  `ToolEnds` supposes no
  more; it is about scripts that can be read.
- `Service`, `LogDomains`, `LogLines` and `Mail` have safety properties only: no thread of theirs
  waits for another, but for the requests that `stop` waits for, and how long a servant takes is
  not IceTray's.

## 5. Findings

1. **`log_astray`**: `getLogger` asks the writers for their levels (line 123) and inserts the
   logger (124) with no lock around the two.  A writer added in between is not in the new
   logger, and no later call but another update puts it there.  A writer removed in between
   stays in it, and is called though `removeWriter` has returned.
2. **`log_dangling`**: `loggers` holds raw pointers and `LoggerBase`'s destructor does not take
   its own out: the next `addWriter` or `removeWriter` locks and writes a destroyed logger.
3. **`syslog_ident`**: `openlog` is given the `c_str()` of a temporary string and keeps the
   pointer; every message is sent under an ident that is no more.
4. **`dryice_move`**: a moved `DryIce` leaves `currentDryIce` at the old object, whose destructor
   resets it: `DryIceClient::getService` then asserts though a service runs.

Behaviour that the modules have as it is in the code, that no document speaks of, and that a
reader may want to know:

- *Lines.* With no width left `target -= 1` and `target -= 2` wrap around, and the components
  after that are written in full (`CutsNoMoreThanNeeded` says which are cut).
- *DryIceClient.* Copies share one adapter, which the first destructor destroys; the destructor
  of one moved from dereferences a null pointer.
- *TransactionalDatabaseClient.* A moved-from client's destructor does so, too, and a client
  that is assigned over gives its connection back with the transaction open.  So does a
  `rollbackTx` that throws: nobody learns of it, and the commands of the next to get that
  connection are neither committed nor rolled back when they think so.  Nested blocks, as many
  as there are connections, wait for each other for ever.
- *Service.* In a release build without Options a second service is not stopped from being
  created. The writer of a service whose start failed, and which was destroyed, stays in the
  `LogManager`: it makes another service's stop break off, with the adapter up, or
  `std::terminate` out of ~DryIce.
- *Mail.* If a part's own `write` throws, the session is never destroyed.  From the eleventh
  level on one boundary begins with another, so a reader that compares the beginnings of lines,
  as RFC 2046 has it, loses parts; and nothing keeps a text from having a line like a delimiter.
- *syslog.* Option and facility stay those of the last `openlog` after `closelog`.
- *base64.* With a width whose block is no multiple of three bytes each line is padded and one
  longer than it may be; below two the loop does not end.  The code uses 76.
- *SQL.* A last line without a newline is lost.  Options without any connector are lost, and so
  is the second value of an option.  Without `--namespace`, and with folders to the script, the
  first of the joined namespace parts is empty, which is no C++; with neither, the source is
  declared in an unnamed namespace and cannot be linked.  For a stream that fails at once, such
  as a directory, the loop does not end.

`CubeIsCurrent` holds for a reason to know of: `stop` leaves `servicePlugins` as it is, so a
service that adds anything to the cube fails its second start.

## 6. Proofs

`LogManagerProof` is about `LogManager` for any sets of threads, writers and loggers, any number
of levels and any `LevelOf`, under the module's assumptions only.

- `TypeCorrect`: `Spec => []TypeOK`, a step per action.
- `InductiveHolds`: the safety invariants do not follow from themselves; what carries them is
  `Inductive`, the conjunction of `LocksHeld` (what the guards of lock steps amount to, for the
  labels that hold a lock), `LoggersOwned` (a logger under construction is nobody else's, an
  update stays among registered loggers, a message's logger is live), `AnswersCurrent` (answers
  are in hand only under the lock they were asked under), `OneLevelEach` (a writer is in a table
  only at the level it answered), `IteratorsValid` (where the iterator of a message is, and that
  those told are behind it), `NobodyLeftOut` and `ViewsFollowRegistry`. There is one lemma for
  the step of each conjunct; `InductiveStep` puts them together. `IteratorsValid` needs
  `OneLevelEach`: a table may be replaced between `firstFor` and the second lock, and the
  iterator keeps its place because a writer's level does not change.
- `ViewsCorrect`, `RemovalCorrect`, `DeliveryComplete`, `DeliveryOnce` follow from `Inductive`.
  `RemovalCorrect` is for loggers the removal did not pass by (section 2).
- `RegistryIsStable` and `TableIsStable` are action properties: under `Inductive` the steps that
  could break them exclude the labels they speak of.
- `LocksNeverStuck`: in every reachable state, if there are threads within calls, one of them
  does not wait for a lock that it cannot have (`SomebodyRuns`).  Who has the manager's lock
  alone holds and wants no other, so a thread that wants to share it comes through, a second
  time as well; then no holder of a logger's lock waits, and then nobody who wants one.  With a
  lock that keeps readers out while a writer waits (`CanShareManagerInTurn`) the argument fails
  at its second step.
- `Refinement`: `Spec => Registry!Spec`, every step a step or a stutter of `LogRegistry`.  That
  a return is an `End`, with everybody told, is `NobodyLeftOut` where nothing is ahead of the
  iterator any more; an exception is a `Fail`, of a writer that has not been told.

**Induction.** Sums, what a reader gets back and what a string is split into are recursive
functions of a length.  The library states induction with an operator as parameter, which no
prover here can instantiate; `PrefixesProof` states it of *sets* instead.  `UpTo`: a set with 0,
and with i if it has i - 1, has every number up to n (a least exception contradicts the
library's theorem that `<` on numbers is well-founded).  From it come `Recursion` (a function
that goes through given steps exists, which is what a recursive definition needs before anything
can be said of it), the step lemmas of `Sums`, `Picks`, `Joins` and `Splits` and what an element
more adds to them, and `EverySequence`, induction over sequences by their last element.

`LogDomainsProof` proves five theorems for any configuration.  `TypeCorrect` and
`LongestPrefix`: of two prefixes of one domain the longer comes later in the map
(`LongerIsLater`), so the last match is the longest (`LastIsLongest`); the order of strings
needs no more than to be irreflexive. `NoneBelowLowest`: a set of levels has a greatest
(`Greatest`, from the library's theorem that `<` on numbers is well-founded), so the `CHOOSE` in
`LowestLevel` finds it, and `Level` is one of the set.  `FirstHolds`: `FirstSettingHolds` with
what the map is before a constructor runs (`Settings`) is kept by each property read, for a
domain new to the map has no setting before. `SplitAlwaysStable` is about `splitDomain` for
every string, by induction over it (`SplitFaithful`): its components so far are clean (no
separators, none empty but the first and the last, and the last only after a separator) and have
the string's other characters.  Joining goes the other way, by induction over the components: a
'.' after a component that is not empty, or is the first, ends it, and what follows goes to the
next (`WholeLonger`, `JoinedSplits`).

`LogLinesProof`, for any writers, widths and domains: `TypeCorrect` (what is left of a width is
a size whatever is subtracted, since it is taken modulo 2^w) and `SyslogClosed`.  The latter is
inductive together with the types alone: a message of a syslog writer needs that writer, and
every destructor of one closes what all of them opened.  `FitsAlways` and `CutsAsFewAsItCan` are
about `writeDomain`.  Their invariant, `Fitting`, has two halves.  If the width is enough for a
character of each component, the first k components are cut (`CutTo`): with the last of these in
full the text would have been too long, and what is left of the width is enough for the others
cut, or, once one was written in full, for the others in full; so nothing wraps around
(`MinusExact`).  If it is not enough, two places are used for each component while there are two
(`Used`), which is as far as anything can be said before the width wraps around.

`ServiceProof`, for any services, hosts, clients, writers and objects, from `ServiceAssumption`.
The invariant, `Inv`, has these parts, each with a lemma for its step:

- `Typed`, and `Running` (how often a service was started, by its stage);
- `Hosting`: `Adapters` (the stage tells the state of the adapter), `Hosts` (a hosted service has
  one host and one start), `CurrentHosts` and `Quiet` (nothing starts or stops during a
  replacement);
- `OnlyOne`: the current service is the only one alive, and its Options are registered;
- `Registered`: a writer in the LogManager is one its service remembers, and one that a stop
  will still come to if the service is stopping;
- `Cubes`: a service that is not hosted and got past its first object found no object of its own
  in the cube, so all that is there is of this start;
- `Clientele`: a client that was not copied is its service's only one.

`WritersReachable`, `StopIsClean`, `StopBreaks`, `ServiceFound`, `OptionsFound`, `CubeCurrent`
and `ClientsServed` follow from it.  None of them is inductive by itself; `StopLeavesNoWriter`,
for instance, holds because `todo` covers what is registered while a service stops.

`DatabaseProof`, for any threads, connections, nesting and times, from `BoundsAssumption` and
`PoolAssumption`, which only says that the connections and the threads that nest are finitely
many. `Held` (types, which places hold which connections, each held once) gives `TypeCorrect`,
and with it `NoneLeftOpen`, in which the two ways to leave a transaction open are `leaked`.
`OnlyNestingExhausts` is about a state in which all threads within calls wait for the pool: each
connection is then held by one that nests and waits for its second (`Stuck`), and since no two
connections are held by the same (`HoldersNest`), these threads are no fewer than the
connections.  So a pool with more connections than there are threads that nest is never
exhausted for good, and every other one only by them. `BlockEndDecides` is an action property.
`Recent` is what carries `CacheRecent`: what a thread has fetched and not yet added was
replaced, if it was, no earlier than it was fetched, and what is cached expires no later than
`CacheTime + MaxDelay` after it was replaced.

`MailProof`, for any trees of well-formed parts, any payloads and any widths:

- `TypeCorrect`, in which the count of a quoted-printable line stays within its width.
- `OneEncodingAlways`: by `Blocks` all lines of base64 but the last are full, and where full
  lines have whole groups of three bytes they fit (`FullLines`); by `AllBytes` the lines so far
  hold the bytes before `next`.
- `LinesAlwaysFit`: the invariant is `Wrapped`.  Its part `Fitting` says that from the beginning
  of each line to any place in it the symbols fit, that a soft break comes before a symbol that
  would not have, and that the encoder's count is what the last line takes; besides, no soft
  break is left at the end, where it might not have been needed.
- `ReadsAlwaysAsSent`: the invariant is `Same`.  With soft breaks dropped, the symbols so far
  stand for the text before `next` without its returns; no white space is plain before a line
  end, and if the last symbol is, what comes next is no line end.  So a reader who drops white
  space before line ends drops none (`NoneIsLost`).
- `PartsAlwaysFound`: the reader is a function of the mail's lines, the writer appends tokens.
  `Found` relates the two: after these tokens the reader has so many multiparts open, is in
  headers or not, and has found these parts.  There is a lemma for each thing that `write`
  appends: a delimiter (`FoundDelimiter`), a header, the empty line, which begins a part and for
  a multipart opens its boundary (`FoundBlank`), a body (`FoundBody`) and a last delimiter
  (`FoundClose`). The invariant, `Telling`, is that `Found` holds of `level` and of the parts
  before `at`.  What it rests on is that a delimiter is one of its own multipart only
  (`HitsOne`): the number in a boundary determines the depth (`NumberInjective`, by induction
  over its digits), and a reader of beginnings needs that no number has a second digit, which
  `Shallow` says of the tree and `level <= 10` of the multiparts that are open.  A line of a
  body that is a delimiter is what `stray` records.

`SqlProof`, for any script: `TypeCorrect`; `ReadsLineByLine`, which is the invariant `AsRead`,
that the connector, the options and the literal are what the lines that have been read say, and
that they are kept from there to the command; and from it `CommandOfScript`, for which a map is
built of the options (`NoMap`, `MapFirst`: the value of a key is the one given first).  What the
tool reads is the script, or all of it but the line its end cuts off, and `CommandOfScript` says
which.

Every theorem rests on the assumptions its modules name and on nothing else.

**Only model-checked.** `CallsReturn`, `CallsEnd` and `ToolEnds`: liveness under fairness is out
of the prover's reach.  `LocksNeverStuck` and `OnlyNestingExhausts` are what of the first two is
a matter of single states, for any number of threads: that waiting does not go round, or only
where blocks nest.  That the thread that does not wait comes to the end of its call is what the
runs check.

## 7. Not modelled

- **Connection pools** (`icetray/defaultPool.cpp`, `dryice/mockPool.cpp`): constructors that hand
  four properties to the library's pool.  The pool itself, external, is in `Database`.
- **Mock mail server** (`dryice/mockMailServer.cpp`): a list that a test reads.
- **Documentation tool** (`tool/icetrayDoc.cpp`): loads libraries and prints their options.
- **Stream and string-view helpers**: adapters for Ice's marshalling, without state.
- **Within the modelled parts:** the text of log lines around the domain; the parsing of option
  values by boost and the description that `OptionsResolver` prints; several queries with one
  cache key (the key is made of hashes, and queries with equal hashes share an item); the memory
  a data race or a dangling pointer may corrupt.
