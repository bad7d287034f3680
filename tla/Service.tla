------------------------------ MODULE Service ------------------------------
(***************************************************************************)
(* The life of IceTray services in one process (icetrayService.cpp,        *)
(* options.cpp, icecube.h, dryice.cpp and dryice.h in icetray/): creation, *)
(* start, any step of which may throw, use, replacements, stop, another    *)
(* start and destruction, and what they leave in the state the process     *)
(* shares: Service::current, DryIce::currentDryIce, the Options in the     *)
(* default PluginManager and the writers in the default LogManager.        *)
(*                                                                         *)
(* BOOST_ASSERT is compiled in or it is not (Jamroot.jam has a debug and a *)
(* release variant).  Where it is not, a program may have two services at  *)
(* once, and both are then followed here.                                  *)
(*                                                                         *)
(* A service is hosted by a DryIce object or by IceBox, whose              *)
(* administrator may stop it and start it again.  All of this runs in one  *)
(* thread, in which a constructor or a destructor is not interrupted;      *)
(* requests run in others.  The registry of adapters and what IceBox does  *)
(* after an exception are Ice's.                                           *)
(***************************************************************************)
EXTENDS Naturals, Sequences

CONSTANTS
  Services,   \* the services that may be created
  DryIces,    \* the objects of class DryIce
  Clients,    \* the objects of class DryIceClient
  Factories,  \* the LogWriterFactory plugins
  Names,      \* the names under which addObjects adds objects and plugins
  Plugins,    \* those it adds by Cube::add; the others by Cube::addObject
  Adds,       \* Adds[s]: the names that s's addObjects adds, in order
  TypeOf,     \* TypeOf[n]: the type name under which n goes into the cube
  MaxRuns,    \* how often a service is started
  None

ASSUME ServiceAssumption == /\ None \notin Services \cup DryIces
                            /\ "null" \notin Services
                            /\ Plugins \subseteq Names
                            /\ Adds \in [Services -> Seq(Names)]
                            /\ MaxRuns \in Nat \ {0}

VARIABLES
  stage,         \* how far a service has got
  run,           \* how many of its starts have created an adapter
  next,          \* the place in Adds[s] its addObjects has come to
  adapter,       \* its ObjectAdapter
  objects,       \* the names its adapter serves
  cube,          \* Service::servicePlugins: <<type, run that added it>>
  logWriters,    \* Service::logWriters: <<service, factory, run that added it>>
  todo,          \* what a loop over factories or writers has still to come to
  busy,          \* the services with a request in them
  current,       \* Service::current
  options,       \* "present" while the Options are registered; "unused" without any
  writers,       \* the default LogManager's writers
  held,          \* held[d]: DryIce::s
  dryices,       \* the DryIce objects that exist
  currentDryIce, \* DryIce::currentDryIce
  clients,       \* clients[k]: the service whose process-wide "DryIceClient" adapter the
                 \* client k has, "null" if it was moved from, None if there is no k
  clientAdapters, \* the services whose communicator has that adapter, active
  copied,        \* for the properties: the services that run with a client that was copied
  replacing,     \* the name a replace has removed and not added yet
  asserting,     \* whether BOOST_ASSERT is compiled in
  aborted        \* whether an assertion has failed, a null pointer been used, or
                 \* std::terminate been called

own     == <<next, adapter, objects, cube, logWriters, todo>>
process == <<current, options, writers>>
dryice  == <<held, dryices, currentDryIce>>
client  == <<clients, clientAdapters, copied>>
vars    == <<stage, run, own, busy, process, dryice, client, replacing, asserting, aborted>>

Starting  == {"adapter", "loggers", "options", "objects", "activate"}
Stopping  == {"stopping", "deactivated"}
Lasting   == {"running", "stopped", "failed"}
Stages    == {"none", "created", "kept", "gone", "lost"} \cup Starting \cup Stopping \cup Lasting

Goto(s, label) == stage' = [stage EXCEPT ![s] = label]
Put(f, s, v)   == [f EXCEPT ![s] = v]

Hosted(s) == \E d \in dryices : held[d] = s
Host(s)   == CHOOSE d \in dryices : held[d] = s

\* The thread is in no constructor, destructor, start or stop.
Free == /\ replacing = None
        /\ \A s \in Services : /\ stage[s] \notin {"created"} \cup Starting \cup Stopping
                               /\ Hosted(s) => stage[s] = "running"

\* A call of the writer gets through: the adapter of its run is still there.
Reachable(w) == w[3] = run[w[1]] /\ adapter[w[1]] \in {"holding", "active"}

Init ==
  /\ stage = [s \in Services |-> "none"]
  /\ run = [s \in Services |-> 0]
  /\ next = [s \in Services |-> 1]
  /\ adapter = [s \in Services |-> "none"]
  /\ objects = [s \in Services |-> {}]
  /\ cube = [s \in Services |-> {}]
  /\ logWriters = [s \in Services |-> {}]
  /\ todo = [s \in Services |-> {}]
  /\ busy = {}
  /\ current = None
  /\ options \in {"unused", "absent"}
  /\ writers = {}
  /\ held = [d \in DryIces |-> None]
  /\ dryices = {}
  /\ currentDryIce = None
  /\ clients = [k \in Clients |-> None]
  /\ clientAdapters = {}
  /\ copied = {}
  /\ replacing = None
  /\ asserting \in BOOLEAN
  /\ aborted = FALSE

(***************************************************************************)
(* Creation                                                                *)
(***************************************************************************)

\* Fault: the constructor asserts nothing.
ConstructedUnasserted(s) ==
  /\ stage[s] = "none" /\ options # "present"
  /\ options' = IF options = "absent" THEN "present" ELSE options
  /\ current' = s
  /\ aborted' = FALSE
  /\ Goto(s, "created")

\* Service::create.  The member OptionsCollation registers the Options; then the
\* constructor's body asserts that there is no other service and makes this the current.
Constructed(s) ==
  /\ stage[s] = "none" /\ options # "present"
  /\ options' = IF options = "absent" THEN "present" ELSE options
  /\ aborted' = (asserting /\ current # None)
  /\ current' = IF aborted' THEN current ELSE s
  /\ Goto(s, "created")

\* createIceTrayService.
CreateInIceBox(s) ==
  /\ Free
  /\ Constructed(s)
  /\ UNCHANGED <<run, own, busy, writers, dryice, client, replacing>>

\* The constructor of DryIce asserts that there is no other.
CreateDryIce(d, s) ==
  /\ Free
  /\ d \notin dryices
  /\ asserting => currentDryIce = None
  /\ Constructed(s)
  /\ held' = Put(held, d, s)
  /\ dryices' = dryices \cup {d}
  /\ UNCHANGED <<run, own, busy, writers, currentDryIce, client, replacing>>

CreateDryIceAborts(d) ==
  /\ Free
  /\ d \notin dryices
  /\ asserting /\ currentDryIce # None
  /\ aborted' = TRUE
  /\ UNCHANGED <<stage, run, own, busy, process, dryice, client, replacing>>

\* Fault: it takes the registered Options away.
OptionsLeftCleared == options' = "absent"

\* OptionsCollation's destructor is not run if its constructor throws.
OptionsLeft == UNCHANGED options

\* With Options registered already OptionsCollation's constructor throws before the
\* body of Service's.
CreateThrows(s) ==
  /\ Free
  /\ stage[s] = "none" /\ options = "present"
  /\ OptionsLeft
  /\ Goto(s, "gone")
  /\ UNCHANGED <<run, own, busy, current, writers, dryice, client, replacing, aborted>>

(***************************************************************************)
(* Service::start                                                          *)
(***************************************************************************)

Start(s) ==
  /\ \/ stage[s] = "created"
     \/ Free /\ stage[s] \in {"stopped", "failed"}  \* IceBox, once more
  /\ run[s] < MaxRuns
  /\ Goto(s, "adapter")
  /\ UNCHANGED <<run, own, busy, process, dryice, client, replacing, aborted>>

\* createObjectAdapter throws if a start that failed has left an adapter of the name.
CreateAdapter(s) ==
  /\ stage[s] = "adapter"
  /\ IF adapter[s] \in {"none", "gone"}
     THEN /\ adapter' = Put(adapter, s, "holding")
          /\ run' = Put(run, s, run[s] + 1)
          /\ todo' = Put(todo, s, Factories)
          /\ Goto(s, "loggers")
     ELSE Goto(s, "failed") /\ UNCHANGED <<adapter, run, todo>>
  /\ UNCHANGED <<next, objects, cube, logWriters, busy, process, dryice, client, replacing,
                 aborted>>

\* Fault: only one writer is remembered.
RememberedOnly(s, w) == logWriters' = Put(logWriters, s, {w})

\* Fault: only those of the first start are.
RememberedFirst(s, w) ==
  logWriters' = IF run[s] = 1 THEN Put(logWriters, s, logWriters[s] \cup {w}) ELSE logWriters

\* logWriters.insert(prx)
Remembered(s, w) == logWriters' = Put(logWriters, s, logWriters[s] \cup {w})

\* updateLoggerWriters asks every writer for its level once for each logger there is, and
\* throws if one cannot be reached.  The loggers are other threads' to make and drop.
WritersThrow == \E v \in writers' : ~Reachable(v)

\* One turn of configureLoggers.  addWriter registers the writer, then updates the loggers.
ConfigureLogger(s, f) ==
  LET w == <<s, f, run[s]>> IN
  /\ stage[s] = "loggers"
  /\ f \in todo[s]
  /\ todo' = Put(todo, s, todo[s] \ {f})
  /\ Remembered(s, w)
  /\ writers' = writers \cup {w}
  /\ UNCHANGED stage \/ (WritersThrow /\ Goto(s, "failed"))
  /\ UNCHANGED <<run, next, adapter, objects, cube, busy, current, options, dryice, client,
                 replacing, aborted>>

\* A writer that wants nothing of any domain is dropped.
SkipLogger(s, f) ==
  /\ stage[s] = "loggers"
  /\ f \in todo[s]
  /\ todo' = Put(todo, s, todo[s] \ {f})
  /\ UNCHANGED <<stage, run, next, adapter, objects, cube, logWriters, busy, process, dryice,
                 client, replacing, aborted>>

LoggersConfigured(s) ==
  /\ stage[s] = "loggers" /\ todo[s] = {}
  /\ Goto(s, "options")
  /\ UNCHANGED <<run, own, busy, process, dryice, client, replacing, aborted>>

\* optionsCollation.apply writes the Options' own members.
ApplyOptions(s) ==
  /\ stage[s] = "options"
  /\ next' = Put(next, s, 1)
  /\ Goto(s, "objects")
  /\ UNCHANGED <<run, adapter, objects, cube, logWriters, todo, busy, process, dryice,
                 client, replacing, aborted>>

TypesIn(s) == {c[1] : c \in cube[s]}

\* Cube::pm() is the cube of the current service, and a null pointer without one.
Cubed(n, r) == cube' = Put(cube, current, cube[current] \cup {<<TypeOf[n], r>>})

\* Fault: a type that is in the cube already is left as it is.
AddedToleratingOld(s, n) ==
  /\ current # None
  /\ objects' = IF n \in Plugins THEN objects ELSE Put(objects, s, objects[s] \cup {n})
  /\ IF TypeOf[n] \in TypesIn(current) THEN UNCHANGED cube ELSE Cubed(n, run[s])
  /\ next' = Put(next, s, next[s] + 1)
  /\ UNCHANGED <<stage, aborted>>

\* Cube::addObject puts it into the adapter, which throws if the name is taken, and
\* then its proxy into servicePlugins, which throws if the type is; Cube::add does the
\* second alone.
Added(s, n) ==
  LET object    == n \notin Plugins
      nameTaken == object /\ n \in objects[s]
      typeTaken == current # None /\ TypeOf[n] \in TypesIn(current)
  IN /\ objects' = IF object /\ ~nameTaken THEN Put(objects, s, objects[s] \cup {n})
                   ELSE objects
     /\ \/ /\ nameTaken \/ typeTaken
           /\ Goto(s, "failed")
           /\ UNCHANGED <<cube, next, aborted>>
        \/ /\ ~nameTaken /\ ~typeTaken /\ current # None
           /\ Cubed(n, run[s])
           /\ next' = Put(next, s, next[s] + 1)
           /\ UNCHANGED <<stage, aborted>>
        \/ /\ ~nameTaken /\ current = None
           /\ aborted' = TRUE
           /\ UNCHANGED <<stage, cube, next>>

\* One turn of the service's addObjects.
AddObject(s) ==
  /\ stage[s] = "objects"
  /\ next[s] <= Len(Adds[s])
  /\ Added(s, Adds[s][next[s]])
  /\ UNCHANGED <<run, adapter, logWriters, todo, busy, process, dryice, client, replacing>>

ObjectsAdded(s) ==
  /\ stage[s] = "objects" /\ next[s] > Len(Adds[s])
  /\ Goto(s, "activate")
  /\ UNCHANGED <<run, own, busy, process, dryice, client, replacing, aborted>>

\* adp->activate(), after which DryIce's constructor sets currentDryIce.
Activate(s) ==
  /\ stage[s] = "activate"
  /\ adapter' = Put(adapter, s, "active")
  /\ currentDryIce' = IF Hosted(s) THEN Host(s) ELSE currentDryIce
  /\ Goto(s, "running")
  /\ UNCHANGED <<run, next, objects, cube, logWriters, todo, busy, process, held, dryices,
                 client, replacing, aborted>>

\* No endpoints, a writer's bad level, a bad option, a database that is not there.
StartThrows(s) ==
  /\ stage[s] \in Starting
  /\ Goto(s, "failed")
  /\ UNCHANGED <<run, own, busy, process, dryice, client, replacing, aborted>>

(***************************************************************************)
(* Requests, which may use the cube and the Options                        *)
(***************************************************************************)

Request(s) ==
  /\ adapter[s] = "active" /\ s \notin busy
  /\ busy' = busy \cup {s}
  /\ UNCHANGED <<stage, run, own, process, dryice, client, replacing, aborted>>

Answer(s) ==
  /\ s \in busy
  /\ busy' = busy \ {s}
  /\ UNCHANGED <<stage, run, own, process, dryice, client, replacing, aborted>>

(***************************************************************************)
(* DryIce::replace, in the constructor of a class derived from DryIce      *)
(***************************************************************************)

\* adp->remove of an object, pm()->remove of a plugin, both of what is there.
ReplaceRemove(s, n) ==
  /\ Free
  /\ Hosted(s) /\ stage[s] = "running"
  /\ IF n \in Plugins
     THEN /\ current # None /\ TypeOf[n] \in TypesIn(current)
          /\ cube' = Put(cube, current, {c \in cube[current] : c[1] # TypeOf[n]})
          /\ UNCHANGED objects
     ELSE /\ n \in objects[s]
          /\ objects' = Put(objects, s, objects[s] \ {n})
          /\ UNCHANGED cube
  /\ replacing' = n
  /\ UNCHANGED <<stage, run, next, adapter, logWriters, todo, busy, process, dryice, client,
                 aborted>>

\* adp->add leaves the cube's proxy; Cube::add is of a new plugin.
ReplaceAdd(s) ==
  /\ replacing # None /\ Hosted(s)
  /\ IF replacing \in Plugins
     THEN /\ Cubed(replacing, run[s])
          /\ UNCHANGED objects
     ELSE /\ objects' = Put(objects, s, objects[s] \cup {replacing})
          /\ UNCHANGED cube
  /\ replacing' = None
  /\ UNCHANGED <<stage, run, next, adapter, logWriters, todo, busy, process, dryice, client,
                 aborted>>

(***************************************************************************)
(* Service::stop, ~DryIce and ~Service                                     *)
(***************************************************************************)

\* Fault: stop deactivates the adapter first.
LoggersFirstNot(s) == adapter' = Put(adapter, s, "deactivated")

\* stop begins with shutdownLoggers.
LoggersFirst(s) == UNCHANGED adapter

\* ~DryIce has reset currentDryIce.  It runs, too, when the replacement's constructor
\* throws in that of the derived class.
Stop(s) ==
  /\ Free \/ replacing # None
  /\ stage[s] = "running"
  /\ replacing' = None
  /\ LoggersFirst(s)
  /\ todo' = Put(todo, s, logWriters[s])
  /\ currentDryIce' = IF Hosted(s) THEN None ELSE currentDryIce
  /\ Goto(s, "stopping")
  /\ UNCHANGED <<run, next, objects, cube, logWriters, busy, process, held, dryices,
                 client, aborted>>

\* shutdownLoggers, one writer: removeWriter updates the loggers of those that stay.  An
\* exception ends stop, and the process if ~DryIce called it.
RemoveLogger(s) == \E w \in todo[s] :
  /\ stage[s] = "stopping"
  /\ writers' = writers \ {w}
  /\ todo' = Put(todo, s, todo[s] \ {w})
  /\ \/ UNCHANGED <<stage, aborted>>
     \/ WritersThrow /\ Hosted(s) /\ aborted' = TRUE /\ UNCHANGED stage
     \/ WritersThrow /\ ~Hosted(s) /\ Goto(s, "failed") /\ UNCHANGED aborted
  /\ UNCHANGED <<run, next, adapter, objects, cube, logWriters, busy, current, options, dryice,
                 client, replacing>>

\* adp->deactivate(): no request is let in any more.
Deactivate(s) ==
  /\ stage[s] = "stopping" /\ todo[s] = {}
  /\ adapter' = Put(adapter, s, "deactivated")
  /\ Goto(s, "deactivated")
  /\ UNCHANGED <<run, next, objects, cube, logWriters, todo, busy, process, dryice, client,
                 replacing, aborted>>

\* adp->destroy() waits for the requests that are in.
RequestsDone(s) == s \notin busy

DestroyAdapter(s) ==
  /\ stage[s] = "deactivated" /\ RequestsDone(s)
  /\ adapter' = Put(adapter, s, "gone")
  /\ objects' = Put(objects, s, {})
  /\ Goto(s, "stopped")
  /\ UNCHANGED <<run, next, cube, logWriters, todo, busy, process, dryice, client,
                 replacing, aborted>>

\* Fault: the object keeps its pointer.
ReleasedNot(d) == UNCHANGED held

\* s = nullptr in ~DryIce.
Released(d) == held' = Put(held, d, None)

\* ~Service asserts that there is a current service; its members are destroyed with it.
Destructed(s) ==
  /\ aborted' = (asserting /\ current = None)
  /\ current' = None
  /\ options' = IF options = "present" THEN "absent" ELSE options
  /\ cube' = Put(cube, s, {})
  /\ logWriters' = Put(logWriters, s, {})
  /\ todo' = Put(todo, s, {})

\* IceBox destroys its service, and the communicator and with it the adapter.
DestroyInIceBox(s) ==
  /\ Free
  /\ stage[s] \in {"stopped", "failed"} /\ RequestsDone(s)
  /\ Destructed(s)
  /\ adapter' = Put(adapter, s, "gone")
  /\ objects' = Put(objects, s, {})
  /\ Goto(s, IF stage[s] = "stopped" THEN "gone" ELSE "lost")
  /\ UNCHANGED <<run, next, busy, writers, dryice, client, replacing>>

\* The end of ~DryIce.  Its pointer is the last to the service unless a caller has kept
\* one from DryIceClient::getService.
DestroyDryIce(s) ==
  /\ Hosted(s) /\ stage[s] = "stopped" /\ RequestsDone(s)
  /\ dryices' = dryices \ {Host(s)}
  /\ Released(Host(s))
  /\ clientAdapters' = clientAdapters \ {s}
  /\ copied' = copied \ {s}
  /\ \/ Destructed(s) /\ Goto(s, "gone")
     \/ Goto(s, "kept") /\ UNCHANGED <<current, options, cube, logWriters, todo, aborted>>
  /\ UNCHANGED <<run, next, adapter, objects, busy, writers, currentDryIce, clients, replacing>>

\* The caller lets go of it.
DropService(s) ==
  /\ Free
  /\ stage[s] = "kept"
  /\ Destructed(s)
  /\ Goto(s, "gone")
  /\ UNCHANGED <<run, next, adapter, objects, busy, writers, dryice, client, replacing>>

\* The constructor of DryIce that start has thrown out of destroys its service and lets
\* the communicator and the adapter leak.
DryIceThrows(s) ==
  /\ Hosted(s) /\ stage[s] = "failed" /\ RequestsDone(s)
  /\ dryices' = dryices \ {Host(s)}
  /\ Released(Host(s))
  /\ Destructed(s)
  /\ Goto(s, "lost")
  /\ UNCHANGED <<run, next, adapter, objects, busy, writers, currentDryIce, client, replacing>>

(***************************************************************************)
(* Moves of DryIce objects                                                 *)
(***************************************************************************)

\* The defaulted move takes ic and s and leaves currentDryIce.
Move(d, e) ==
  /\ Free
  /\ d \in dryices /\ held[d] # None /\ held[e] = None
  /\ held' = [held EXCEPT ![e] = held[d], ![d] = None]
  /\ dryices' = dryices \cup {e}
  /\ UNCHANGED <<stage, run, own, busy, process, currentDryIce, client, replacing, aborted>>

\* ~DryIce of an object that has been moved from.
DestroyMoved(d) ==
  /\ Free
  /\ d \in dryices /\ held[d] = None
  /\ dryices' = dryices \ {d}
  /\ currentDryIce' = None
  /\ UNCHANGED <<stage, run, own, busy, process, held, client, replacing, aborted>>

(***************************************************************************)
(* DryIceClient objects                                                    *)
(***************************************************************************)

\* Fault: an adapter of the name is found and shared.
NameFreeAlways(s) == TRUE

\* createObjectAdapter throws if the communicator has an adapter of the name.
NameFree(s) == s \notin clientAdapters

\* The constructor dereferences currentDryIce and its ic.
NewClient(k) ==
  /\ Free
  /\ clients[k] = None
  /\ IF currentDryIce = None \/ held[currentDryIce] = None
     THEN aborted' = TRUE /\ UNCHANGED client
     ELSE LET s == held[currentDryIce] IN
          /\ NameFree(s)
          /\ clients' = Put(clients, k, s)
          /\ clientAdapters' = clientAdapters \cup {s}
          /\ UNCHANGED <<copied, aborted>>
  /\ UNCHANGED <<stage, run, own, busy, process, dryice, replacing>>

\* The defaulted copy and assignment share the adapter.
CopyClient(k, j) ==
  /\ Free
  /\ k # j /\ clients[k] # None
  /\ clients' = Put(clients, j, clients[k])
  /\ copied' = copied \cup {s \in {clients[k]} \cap Services : stage[s] = "running"}
  /\ UNCHANGED <<stage, run, own, busy, process, dryice, clientAdapters, replacing, aborted>>

\* The defaulted move leaves a null pointer.
MoveClient(k, j) ==
  /\ Free
  /\ k # j /\ clients[k] # None
  /\ clients' = [clients EXCEPT ![j] = clients[k], ![k] = "null"]
  /\ UNCHANGED <<stage, run, own, busy, process, dryice, clientAdapters, copied, replacing,
                 aborted>>

\* The destructor dereferences the adapter, deactivates and destroys it; one that the
\* communicator has destroyed stays as it is.  (Of a client that was copied it may be an
\* older adapter of the name than the one there is: ClientServes leaves these out.)
DeleteClient(k) ==
  /\ Free
  /\ clients[k] # None
  /\ clients' = Put(clients, k, None)
  /\ IF clients[k] = "null"
     THEN aborted' = TRUE /\ UNCHANGED clientAdapters
     ELSE clientAdapters' = clientAdapters \ {clients[k]} /\ UNCHANGED aborted
  /\ UNCHANGED <<stage, run, own, busy, process, dryice, copied, replacing>>

(***************************************************************************)

Life(s) ==
  \/ CreateInIceBox(s) \/ CreateThrows(s)
  \/ Start(s) \/ CreateAdapter(s)
  \/ \E f \in Factories : ConfigureLogger(s, f) \/ SkipLogger(s, f)
  \/ LoggersConfigured(s) \/ ApplyOptions(s) \/ AddObject(s) \/ ObjectsAdded(s)
  \/ Activate(s) \/ StartThrows(s)
  \/ Request(s) \/ Answer(s)
  \/ Stop(s) \/ RemoveLogger(s) \/ Deactivate(s) \/ DestroyAdapter(s)
  \/ DestroyInIceBox(s) \/ DestroyDryIce(s) \/ DropService(s) \/ DryIceThrows(s)

Next ==
  /\ ~aborted
  /\ UNCHANGED asserting
  /\ \/ \E s \in Services : Life(s)
     \/ \E s \in Services, n \in Names : ReplaceRemove(s, n)
     \/ \E s \in Services : ReplaceAdd(s)
     \/ \E d \in DryIces, s \in Services : CreateDryIce(d, s)
     \/ \E d \in DryIces : CreateDryIceAborts(d) \/ DestroyMoved(d)
     \/ \E d, e \in DryIces : Move(d, e)
     \/ \E k \in Clients : NewClient(k) \/ DeleteClient(k)
     \/ \E k, j \in Clients : CopyClient(k, j) \/ MoveClient(k, j)

Spec == Init /\ [][Next]_vars

(***************************************************************************)
(* Properties                                                              *)
(***************************************************************************)

\* Every variable has its type.
TypeOK ==
  /\ stage \in [Services -> Stages]
  /\ run \in [Services -> 0 .. MaxRuns]
  /\ \A s \in Services : next[s] \in 1 .. Len(Adds[s]) + 1
  /\ adapter \in [Services -> {"none", "holding", "active", "deactivated", "gone"}]
  /\ objects \in [Services -> SUBSET Names]
  /\ \A s \in Services : cube[s] \subseteq {TypeOf[n] : n \in Names} \X (1 .. MaxRuns)
  /\ writers \cup UNION {logWriters[s] : s \in Services}
       \subseteq Services \X Factories \X (1 .. MaxRuns)
  /\ \A s \in Services : todo[s] \subseteq Factories \cup logWriters[s]
  /\ busy \subseteq Services
  /\ current \in Services \cup {None}
  /\ options \in {"unused", "absent", "present"}
  /\ held \in [DryIces -> Services \cup {None}]
  /\ \A d \in DryIces \ dryices : held[d] = None
  /\ dryices \subseteq DryIces
  /\ currentDryIce \in DryIces \cup {None}
  /\ clients \in [Clients -> Services \cup {"null", None}]
  /\ clientAdapters \cup copied \subseteq Services
  /\ replacing \in Names \cup {None}
  /\ {asserting, aborted} \subseteq BOOLEAN

\* A writer the LogManager still has can be called: stop takes the writers out before
\* it takes the adapter down, and what a start that failed leaves is there until its
\* service is destroyed.
WritersServed == \A w \in writers : Reachable(w) \/ stage[w[1]] = "lost"

\* A service that stop has gone through has no writer left in the LogManager, of this
\* start or of an earlier one.
StopLeavesNoWriter ==
  \A s \in Services : stage[s] = "stopped" => \A w \in writers : w[1] # s

\* A stop that breaks off and leaves the adapter up, or ends the process out of ~DryIce,
\* has met the writer of a service whose own start failed: nothing that went well before
\* brings a later stop down.
StopBreaksOnLostOnly ==
  \A s \in Services :
    adapter[s] = "active" /\ (stage[s] = "failed" \/ (aborted /\ stage[s] = "stopping")) =>
      \E w \in writers : stage[w[1]] = "lost"

\* A second service is stopped by the constructor's assertion or, where Options are
\* registered, by OptionsCollation.  In a build without assertions nothing stops it if
\* there are no Options.
SecondStopped == asserting \/ options # "unused"

\* Service::getCurrent() in a request answers with the service the request is made of,
\* from the first to the last, whatever was tried to be created besides it.  (Without
\* SecondStopped it is the service created last, or null once one of them is destroyed.)
RequestsFindService == SecondStopped /\ ~aborted => \A s \in busy : current = s

\* The Options that a request resolves are registered all the time it runs, in every build.
RequestsFindOptions == ~aborted => (busy # {} => options # "absent")

\* What Cube::get finds in a running service belongs to the current start: no proxy of
\* an adapter that an earlier stop has destroyed.  (So a service that adds anything to
\* the cube cannot be started again: stop leaves the cube as it is, and the second
\* addObjects throws.  Without SecondStopped one service adds to the other's cube.)
CubeIsCurrent ==
  SecondStopped /\ ~aborted =>
    \A s \in Services : stage[s] = "running" => \A c \in cube[s] : c[2] = run[s]

\* A DryIceClient has an adapter that serves as long as the service runs, whichever
\* others were created, moved and destroyed.  (Copies share it, and the first of them to
\* be destroyed takes it along.)
ClientServes ==
  ~aborted => \A k \in Clients :
    clients[k] \in Services \ copied /\ stage[clients[k]] = "running" =>
      clients[k] \in clientAdapters

\* The assertions of DryIceClient::getService.
GetService == currentDryIce # None /\ held[currentDryIce] # None

\* They hold as long as a DryIce object has a running service.  (They do not once the
\* object has been moved.)
ClientFindsService ==
  ~aborted => \A d \in dryices :
    held[d] # None /\ stage[held[d]] = "running" => GetService
=============================================================================
