---------------------------- MODULE ServiceProof ----------------------------
(***************************************************************************)
(* Proofs about Service, for any number of services, DryIce objects,       *)
(* clients, writers and names.  That the state the process shares stays    *)
(* right is not inductive: that a writer can be called rests on where its  *)
(* service's adapter is, that on the stage of the service and on who hosts *)
(* it, and that the cube is current on the fact that a service which has   *)
(* put something into it finds its own first object there at another       *)
(* start.                                                                  *)
(***************************************************************************)
EXTENDS Service, TLAPS

\* What can be in the LogManager, and in a cube.
Registers == Services \X Factories \X (1 .. MaxRuns)
CubeItems == {TypeOf[n] : n \in Names} \X (1 .. MaxRuns)

\* TypeOK, with the domains of the functions.
Typed == /\ stage \in [Services -> Stages]
         /\ run \in [Services -> 0 .. MaxRuns]
         /\ next \in [Services -> Nat]
         /\ \A s \in Services : next[s] \in 1 .. Len(Adds[s]) + 1
         /\ adapter \in [Services -> {"none", "holding", "active", "deactivated", "gone"}]
         /\ objects \in [Services -> SUBSET Names]
         /\ cube \in [Services -> SUBSET CubeItems]
         /\ writers \subseteq Registers
         /\ logWriters \in [Services -> SUBSET Registers]
         /\ todo \in [Services -> SUBSET (Factories \cup Registers)]
         /\ \A s \in Services : todo[s] \subseteq Factories \cup logWriters[s]
         /\ busy \subseteq Services
         /\ current \in Services \cup {None}
         /\ options \in {"unused", "absent", "present"}
         /\ held \in [DryIces -> Services \cup {None}]
         /\ \A d \in DryIces \ dryices : held[d] = None
         /\ dryices \subseteq DryIces
         /\ currentDryIce \in DryIces \cup {None}
         /\ clients \in [Clients -> Services \cup {"null", None}]
         /\ clientAdapters \subseteq Services
         /\ copied \subseteq Services
         /\ replacing \in Names \cup {None}
         /\ asserting \in BOOLEAN
         /\ aborted \in BOOLEAN

\* A start may go on, and one that has gone on is counted.
Running == \A s \in Services :
  /\ stage[s] = "adapter" => run[s] < MaxRuns
  /\ stage[s] \in {"loggers", "options", "objects", "activate", "running", "stopping"} =>
       run[s] # 0

\* Between its constructor and its destructor.
Alive == {"created", "kept"} \cup Starting \cup Stopping \cup Lasting

\* The stage of a service tells the state of its adapter.
Adapters == \A s \in Services :
  /\ stage[s] \in {"none", "created"} => run[s] = 0 /\ adapter[s] = "none"
  /\ stage[s] \in {"loggers", "options", "objects", "activate"} => adapter[s] = "holding"
  /\ stage[s] = "deactivated" => adapter[s] = "deactivated"
  /\ stage[s] \in {"stopped", "kept"} => adapter[s] = "gone"
  /\ stage[s] = "kept" => s \notin busy
  /\ adapter[s] = "active" \/ s \in busy => stage[s] \in Alive

\* A service that a DryIce object holds is held by no other and started once.
Hosts == \A d \in DryIces : held[d] # None =>
  /\ stage[held[d]] \in Alive
  /\ run[held[d]] <= 1
  /\ stage[held[d]] = "adapter" => run[held[d]] = 0
  /\ stage[held[d]] \in {"created", "failed"} \cup Starting => adapter[held[d]] # "active"
  /\ \A e \in DryIces : held[e] = held[d] => e = d

\* The current DryIce object is there, and its service, if it still has one, runs.
CurrentHosts == currentDryIce # None =>
  /\ currentDryIce \in dryices
  /\ held[currentDryIce] # None => stage[held[currentDryIce]] = "running"

\* Nothing is started or stopped in the midst of a replacement.
Quiet == replacing # None =>
  \A s \in Services : /\ stage[s] \notin {"created"} \cup Starting \cup Stopping
                      /\ Hosted(s) => stage[s] = "running"

\* Who hosts what, and in which state it is.
Hosting == Adapters /\ Hosts /\ CurrentHosts /\ Quiet

\* Host(s) holds s.
LEMMA HostHolds ==
  ASSUME NEW s, Hosted(s)
  PROVE  Host(s) \in dryices /\ held[Host(s)] = s
BY DEF Hosted, Host

\* Every step, a throw at any point of start included, keeps the types.
LEMMA StepTyped == Typed /\ Running /\ Quiet /\ [Next]_vars => Typed' /\ Running'
<1> DEFINE Both == Typed /\ Running
<1> SUFFICES ASSUME Both, Quiet, [Next]_vars PROVE Both'
  OBVIOUS
<1> USE ServiceAssumption DEF Typed, Running, own, process, dryice, client, Goto, Put, Stages,
        Starting, Stopping, Lasting
<1>1. CASE UNCHANGED vars
  BY <1>1 DEF vars
<1> SUFFICES ASSUME Next, ~aborted, UNCHANGED asserting PROVE Both'
  BY <1>1 DEF Next
<1>2. ASSUME NEW s \in Services, Life(s) PROVE Both'
  <2>1. CASE CreateInIceBox(s)
    BY <2>1 DEF CreateInIceBox, Constructed
  <2>2. CASE CreateThrows(s)
    BY <2>2 DEF CreateThrows, OptionsLeft
  <2>3. CASE Start(s)
    BY <2>3 DEF Start
  <2>4. CASE CreateAdapter(s)
    <3>1. run[s] + 1 \in 0 .. MaxRuns
      BY <2>4 DEF CreateAdapter
    <3>2. Factories \subseteq Factories \cup Registers
      OBVIOUS
    <3>3. stage[s] = "adapter"
      BY <2>4 DEF CreateAdapter
    <3>4. CASE adapter[s] \in {"none", "gone"}
      <4>1. /\ stage' = [stage EXCEPT ![s] = "loggers"]
            /\ adapter' = [adapter EXCEPT ![s] = "holding"]
            /\ run' = [run EXCEPT ![s] = run[s] + 1]
            /\ todo' = [todo EXCEPT ![s] = Factories]
            /\ UNCHANGED <<next, objects, cube, logWriters, busy, current, options, writers,
                           held, dryices, currentDryIce, clients, clientAdapters, copied,
                           replacing, aborted>>
        BY <2>4, <3>4 DEF CreateAdapter
      <4>2. /\ todo' \in [Services -> SUBSET (Factories \cup Registers)]
            /\ \A u \in Services : todo'[u] \subseteq Factories \cup logWriters'[u]
        BY <3>2, <4>1
      <4>3. Running' /\ run' \in [Services -> 0 .. MaxRuns]
        BY <3>1, <4>1
      <4> QED
        BY <4>1, <4>2, <4>3
    <3>5. CASE adapter[s] \notin {"none", "gone"}
      <4>1. stage' = [stage EXCEPT ![s] = "failed"]
        BY <2>4, <3>5, Zenon DEF CreateAdapter
      <4>2. UNCHANGED <<adapter, run, todo, next, objects, cube, logWriters, busy, current,
                        options, writers, held, dryices, currentDryIce, clients,
                        clientAdapters, copied, replacing, aborted>>
        BY <2>4, <3>5, Zenon DEF CreateAdapter
      <4> QED
        BY <3>3, <4>1, <4>2
    <3> QED
      BY <3>4, <3>5
  <2>5. CASE \E f \in Factories : ConfigureLogger(s, f)
    <3>1. PICK f \in Factories : ConfigureLogger(s, f)
      BY <2>5
    <3> DEFINE w == <<s, f, run[s]>>
    <3>2. w \in Registers
      BY <3>1 DEF ConfigureLogger, Registers
    <3>3. /\ todo' = [todo EXCEPT ![s] = todo[s] \ {f}]
          /\ logWriters' = [logWriters EXCEPT ![s] = logWriters[s] \cup {w}]
          /\ writers' = writers \cup {w}
          /\ stage' = stage \/ stage' = [stage EXCEPT ![s] = "failed"]
      BY <3>1, Zenon DEF ConfigureLogger, Remembered
    <3>4. /\ stage[s] = "loggers"
          /\ UNCHANGED <<run, next, adapter, objects, cube, busy, current, options, held,
                         dryices, currentDryIce, clients, clientAdapters, copied, replacing,
                         aborted>>
      BY <3>1, Zenon DEF ConfigureLogger
    <3> HIDE DEF w
    <3>5. stage' \in [Services -> Stages] /\ Running'
      <4>1. CASE stage' = stage
        BY <3>4, <4>1
      <4>2. CASE stage' = [stage EXCEPT ![s] = "failed"]
        BY <3>4, <4>2
      <4> QED
        BY <3>3, <4>1, <4>2, Zenon
    <3>6. logWriters' \in [Services -> SUBSET Registers] /\ writers' \subseteq Registers
      BY <3>2, <3>3
    <3>7. /\ todo' \in [Services -> SUBSET (Factories \cup Registers)]
          /\ \A u \in Services : todo'[u] \subseteq Factories \cup logWriters'[u]
      BY <3>3
    <3> QED
      BY <3>4, <3>5, <3>6, <3>7
  <2>6. CASE \E f \in Factories : SkipLogger(s, f)
    BY <2>6 DEF SkipLogger
  <2>7. CASE LoggersConfigured(s)
    BY <2>7 DEF LoggersConfigured
  <2>8. CASE ApplyOptions(s)
    BY <2>8 DEF ApplyOptions
  <2>9. CASE AddObject(s)
    <3> DEFINE n == Adds[s][next[s]]
    <3>1. n \in Names /\ next[s] + 1 \in 1 .. Len(Adds[s]) + 1
      BY <2>9 DEF AddObject
    <3>2. <<TypeOf[n], run[s]>> \in CubeItems
      BY <2>9, <3>1 DEF AddObject, CubeItems
    <3> HIDE DEF n
    <3>3. Added(s, n)
      BY <2>9 DEF AddObject, n
    <3>4. objects' \in [Services -> SUBSET Names]
      BY <3>1, <3>3 DEF Added
    <3>5. \/ /\ current # None
             /\ cube' = [cube EXCEPT ![current] = cube[current] \cup {<<TypeOf[n], run[s]>>}]
          \/ cube' = cube
      BY <3>3, Zenon DEF Added, Cubed
    <3>6. cube' \in [Services -> SUBSET CubeItems]
      <4>1. cube \in [Services -> SUBSET CubeItems] /\ (current # None => current \in Services)
        OBVIOUS
      <4>2. current # None =>
              cube[current] \cup {<<TypeOf[n], run[s]>>} \in SUBSET CubeItems
        BY <3>2, <4>1
      <4> QED
        BY ONLY <3>5, <4>1, <4>2
    <3>7. next' = [next EXCEPT ![s] = next[s] + 1] \/ next' = next
      BY <3>3, Zenon DEF Added
    <3>8. /\ next' \in [Services -> Nat]
          /\ \A u \in Services : next'[u] \in 1 .. Len(Adds[u]) + 1
      <4>1. next \in [Services -> Nat] /\ s \in Services
        OBVIOUS
      <4>2. \A u \in Services : next[u] \in 1 .. Len(Adds[u]) + 1
        OBVIOUS
      <4> QED
        BY ONLY <3>1, <3>7, <4>1, <4>2
    <3>9. stage' = stage \/ stage' = [stage EXCEPT ![s] = "failed"]
      BY <3>3, Zenon DEF Added
    <3>10. aborted' \in BOOLEAN
      <4>1. UNCHANGED aborted \/ aborted' = TRUE
        BY <3>3, Zenon DEF Added
      <4> QED
        BY <4>1, Zenon
    <3> QED
      BY <2>9, <3>4, <3>6, <3>8, <3>9, <3>10 DEF AddObject
  <2>10. CASE ObjectsAdded(s)
    BY <2>10 DEF ObjectsAdded
  <2>11. CASE Activate(s)
    BY <2>11, HostHolds DEF Activate
  <2>12. CASE StartThrows(s)
    BY <2>12 DEF StartThrows
  <2>13. CASE Request(s)
    BY <2>13 DEF Request
  <2>14. CASE Answer(s)
    BY <2>14 DEF Answer
  <2>15. CASE Stop(s)
    BY <2>15 DEF Stop, LoggersFirst
  <2>16. CASE RemoveLogger(s)
    <3>1. PICK w \in todo[s] :
            /\ writers' = writers \ {w}
            /\ todo' = Put(todo, s, todo[s] \ {w})
      BY <2>16, Zenon DEF RemoveLogger
    <3>2. /\ stage' = stage \/ stage' = [stage EXCEPT ![s] = "failed"]
          /\ UNCHANGED <<run, next, adapter, objects, cube, logWriters, busy, current, options,
                         dryice, client, replacing>>
      BY <2>16, Zenon DEF RemoveLogger
    <3>3. aborted' \in BOOLEAN
      BY <2>16, Zenon DEF RemoveLogger, Hosted
    <3>4. /\ todo' \in [Services -> SUBSET (Factories \cup Registers)]
          /\ \A u \in Services : todo'[u] \subseteq todo[u]
      BY <3>1
    <3>5. \A u \in Services : todo'[u] \subseteq Factories \cup logWriters'[u]
      BY <3>2, <3>4
    <3>6. writers' \subseteq Registers
      BY <3>1
    <3>7. CASE stage' = stage
      BY <3>2, <3>3, <3>4, <3>5, <3>6, <3>7
    <3>8. CASE stage' = [stage EXCEPT ![s] = "failed"]
      <4>1. stage' \in [Services -> Stages] /\ Running'
        BY ONLY <3>2, <3>8, stage \in [Services -> Stages], Running, s \in Services DEF Stages,
                Running, Starting, Stopping, Lasting
      <4> QED
        BY <3>2, <3>3, <3>4, <3>5, <3>6, <4>1
    <3> QED
      BY <3>2, <3>7, <3>8, Zenon
  <2>17. CASE Deactivate(s)
    BY <2>17 DEF Deactivate
  <2>18. CASE DestroyAdapter(s)
    BY <2>18 DEF DestroyAdapter, RequestsDone
  <2>19. CASE DestroyInIceBox(s)
    BY <2>19 DEF DestroyInIceBox, Destructed
  <2>20. CASE DestroyDryIce(s)
    <3>1. Host(s) \in dryices
      BY <2>20, HostHolds DEF DestroyDryIce
    <3>2. /\ dryices' = dryices \ {Host(s)}
          /\ held' = [held EXCEPT ![Host(s)] = None]
          /\ clientAdapters' \subseteq Services /\ copied' \subseteq Services
          /\ UNCHANGED <<run, next, adapter, objects, busy, writers, currentDryIce, clients,
                         replacing>>
      BY <2>20 DEF DestroyDryIce, Released
    <3>3. /\ held' \in [DryIces -> Services \cup {None}]
          /\ dryices' \subseteq DryIces
          /\ \A d \in DryIces \ dryices' : held'[d] = None
      BY <3>1, <3>2
    <3>4. CASE Destructed(s) /\ stage' = [stage EXCEPT ![s] = "gone"]
      BY <3>2, <3>3, <3>4 DEF Destructed
    <3>5. CASE /\ stage' = [stage EXCEPT ![s] = "kept"]
               /\ UNCHANGED <<current, options, cube, logWriters, todo, aborted>>
      BY <3>2, <3>3, <3>5
    <3> QED
      BY <2>20, <3>4, <3>5 DEF DestroyDryIce
  <2>21. CASE DropService(s)
    BY <2>21 DEF DropService, Destructed
  <2>22. CASE DryIceThrows(s)
    <3>1. Host(s) \in dryices
      BY <2>22, HostHolds DEF DryIceThrows
    <3>2. /\ dryices' = dryices \ {Host(s)}
          /\ held' = [held EXCEPT ![Host(s)] = None]
          /\ stage' = [stage EXCEPT ![s] = "lost"]
          /\ Destructed(s)
          /\ UNCHANGED <<run, next, adapter, objects, busy, writers, currentDryIce, clients,
                         clientAdapters, copied, replacing>>
      BY <2>22 DEF DryIceThrows, Released
    <3>3. /\ held' \in [DryIces -> Services \cup {None}]
          /\ dryices' \subseteq DryIces
          /\ \A d \in DryIces \ dryices' : held'[d] = None
      BY <3>1, <3>2
    <3> QED
      BY <3>2, <3>3 DEF Destructed
  <2> QED
    BY <1>2, <2>1, <2>2, <2>3, <2>4, <2>5, <2>6, <2>7, <2>8, <2>9, <2>10, <2>11, <2>12, <2>13,
       <2>14, <2>15, <2>16, <2>17, <2>18, <2>19, <2>20, <2>21, <2>22 DEF Life
<1>3. ASSUME NEW s \in Services, NEW n \in Names, ReplaceRemove(s, n) PROVE Both'
  <2> DEFINE rest == {c \in cube[current] : c[1] # TypeOf[n]}
  <2>1. current # None => rest \subseteq CubeItems
    OBVIOUS
  <2>2. cube' = cube \/ (current # None /\ cube' = [cube EXCEPT ![current] = rest])
    BY <1>3, Zenon DEF ReplaceRemove
  <2> HIDE DEF rest
  <2>3. objects' \in [Services -> SUBSET Names]
    <3>1. objects \in [Services -> SUBSET Names] /\ s \in Services
      OBVIOUS
    <3>2. objects' = objects \/ objects' = [objects EXCEPT ![s] = objects[s] \ {n}]
      BY <1>3, Zenon DEF ReplaceRemove
    <3> QED
      BY ONLY <3>1, <3>2
  <2>4. cube' \in [Services -> SUBSET CubeItems]
    <3>1. cube \in [Services -> SUBSET CubeItems] /\ (current # None => current \in Services)
      OBVIOUS
    <3> QED
      BY ONLY <2>1, <2>2, <3>1
  <2> QED
    BY <1>3, <2>3, <2>4 DEF ReplaceRemove
<1>4. ASSUME NEW s \in Services, ReplaceAdd(s) PROVE Both'
  <2>1. Hosted(s) /\ replacing \in Names /\ run[s] \in 1 .. MaxRuns
    BY <1>4 DEF ReplaceAdd, Quiet
  <2>2. <<TypeOf[replacing], run[s]>> \in CubeItems
    BY <2>1 DEF CubeItems
  <2>3. objects' \in [Services -> SUBSET Names]
    <3>1. objects \in [Services -> SUBSET Names] /\ s \in Services
      OBVIOUS
    <3>2. objects' = objects \/ objects' = [objects EXCEPT ![s] = objects[s] \cup {replacing}]
      BY <1>4, Zenon DEF ReplaceAdd
    <3> QED
      BY ONLY <2>1, <3>1, <3>2
  <2>4. \/ cube' = [cube EXCEPT ![current] = cube[current] \cup {<<TypeOf[replacing], run[s]>>}]
        \/ cube' = cube
    BY <1>4, Zenon DEF ReplaceAdd, Cubed
  <2>5. cube' \in [Services -> SUBSET CubeItems]
    <3>1. cube \in [Services -> SUBSET CubeItems] /\ current \in Services \cup {None}
      OBVIOUS
    <3>2. None \notin Services
      OBVIOUS
    <3> QED
      BY ONLY <2>2, <2>4, <3>1, <3>2
  <2> QED
    BY <1>4, <2>3, <2>5 DEF ReplaceAdd
<1>5. ASSUME NEW d \in DryIces, NEW s \in Services, CreateDryIce(d, s) PROVE Both'
  BY <1>5 DEF CreateDryIce, Constructed
<1>6. ASSUME NEW d \in DryIces, CreateDryIceAborts(d) PROVE Both'
  BY <1>6 DEF CreateDryIceAborts
<1>7. ASSUME NEW d \in DryIces, DestroyMoved(d) PROVE Both'
  BY <1>7 DEF DestroyMoved
<1>8. ASSUME NEW d \in DryIces, NEW e \in DryIces, Move(d, e) PROVE Both'
  BY <1>8 DEF Move
<1>9. ASSUME NEW k \in Clients, NewClient(k) PROVE Both'
  <2>1. UNCHANGED <<stage, run, own, busy, process, dryice, replacing, copied>>
    BY <1>9, Zenon DEF NewClient
  <2>2. \/ aborted' = TRUE /\ UNCHANGED client
        \/ /\ aborted' = aborted /\ currentDryIce # None /\ held[currentDryIce] # None
           /\ clients' = [clients EXCEPT ![k] = held[currentDryIce]]
           /\ clientAdapters' = clientAdapters \cup {held[currentDryIce]}
    BY <1>9, Zenon DEF NewClient
  <2>3. currentDryIce # None /\ held[currentDryIce] # None => held[currentDryIce] \in Services
    OBVIOUS
  <2> QED
    BY <2>1, <2>2, <2>3
<1>10. ASSUME NEW k \in Clients, DeleteClient(k) PROVE Both'
  BY <1>10 DEF DeleteClient
<1>11. ASSUME NEW k \in Clients, NEW j \in Clients, CopyClient(k, j) PROVE Both'
  BY <1>11 DEF CopyClient
<1>12. ASSUME NEW k \in Clients, NEW j \in Clients, MoveClient(k, j) PROVE Both'
  BY <1>12 DEF MoveClient
<1> QED
  BY <1>1, <1>2, <1>3, <1>4, <1>5, <1>6, <1>7, <1>8, <1>9, <1>10, <1>11, <1>12 DEF Next

\* The end of a service with its adapter down, or leaked and not active, keeps them so.
LEMMA AdaptersAfter ==
  ASSUME NEW s \in Services, Adapters, s \notin busy,
         run' = run /\ adapter' = adapter /\ busy' = busy,
         adapter[s] # "active" /\ (stage[s] = "stopped" => adapter[s] = "gone"),
         /\ stage'[s] \in {"kept", "gone", "lost"}
         /\ stage'[s] = "kept" => stage[s] = "stopped"
         /\ \A u \in Services : u # s => stage'[u] = stage[u]
  PROVE  Adapters'
BY DEF Adapters

\* Every step, moves of DryIce objects and starts by IceBox included, keeps them so.
LEMMA StepHosts ==
  Typed /\ Running /\ Hosting /\ [Next]_vars => Hosting'
<1> SUFFICES ASSUME Typed, Running, Hosting, [Next]_vars PROVE Hosting'
  OBVIOUS
<1> USE ServiceAssumption DEF Typed, Running, Hosting, Adapters, Hosts, CurrentHosts, Quiet,
        Alive, Hosted, Free, own, process, dryice, client, Goto, Put, Stages, Starting, Stopping,
        Lasting
<1>1. CASE UNCHANGED vars
  BY <1>1 DEF vars
<1> SUFFICES ASSUME Next, ~aborted, UNCHANGED asserting PROVE Hosting'
  BY <1>1 DEF Next
<1>2. ASSUME NEW s \in Services, Life(s) PROVE Hosting'
  <2>1. CASE CreateInIceBox(s)
    BY <2>1 DEF CreateInIceBox, Constructed
  <2>2. CASE CreateThrows(s)
    BY <2>2 DEF CreateThrows, OptionsLeft
  <2>3. CASE Start(s)
    <3>1. CASE stage[s] = "created"
      BY <2>3, <3>1 DEF Start
    <3>2. CASE Free /\ stage[s] \in {"stopped", "failed"}
      BY <2>3, <3>2 DEF Start
    <3> QED
      BY <2>3, <3>1, <3>2 DEF Start
  <2>4. CASE CreateAdapter(s)
    <3>1. /\ stage[s] = "adapter" /\ replacing = None
          /\ UNCHANGED <<busy, held, dryices, currentDryIce, replacing>>
      BY <2>4 DEF CreateAdapter
    <3>2. \/ /\ stage' = [stage EXCEPT ![s] = "loggers"]
             /\ adapter' = [adapter EXCEPT ![s] = "holding"]
             /\ run' = [run EXCEPT ![s] = run[s] + 1]
          \/ stage' = [stage EXCEPT ![s] = "failed"] /\ UNCHANGED <<run, adapter>>
      BY <2>4, Zenon DEF CreateAdapter, Goto, Put
    <3>3. Adapters'
      <4>1. CASE stage' = [stage EXCEPT ![s] = "failed"] /\ UNCHANGED <<run, adapter>>
        BY <3>1, <4>1
      <4>2. CASE /\ stage' = [stage EXCEPT ![s] = "loggers"]
                 /\ adapter' = [adapter EXCEPT ![s] = "holding"]
                 /\ run' = [run EXCEPT ![s] = run[s] + 1]
        BY <3>1, <4>2
      <4> QED
        BY <3>2, <4>1, <4>2, Zenon
    <3>4. Hosts'
      <4>1. CASE stage' = [stage EXCEPT ![s] = "failed"] /\ UNCHANGED <<run, adapter>>
        BY <3>1, <4>1
      <4>2. ASSUME stage' = [stage EXCEPT ![s] = "loggers"],
                   adapter' = [adapter EXCEPT ![s] = "holding"],
                   run' = [run EXCEPT ![s] = run[s] + 1]
            PROVE  Hosts'
        <5>1. \A d \in DryIces : held[d] = s => run'[s] = 1
          <6>1. \A d \in DryIces : held[d] = s => run[s] = 0
            BY <3>1
          <6> QED
            BY <4>2, <6>1
        <5>2. \A u \in Services : u # s => /\ stage'[u] = stage[u] /\ run'[u] = run[u]
                                           /\ adapter'[u] = adapter[u]
          BY <4>2
        <5> QED
          BY <3>1, <4>2, <5>1, <5>2
      <4> QED
        BY <3>2, <4>1, <4>2
    <3>5. CurrentHosts' /\ Quiet'
      BY <3>1, <3>2
    <3> QED
      BY <3>3, <3>4, <3>5
  <2>5. CASE \E f \in Factories : ConfigureLogger(s, f)
    BY <2>5 DEF ConfigureLogger, Remembered
  <2>6. CASE \E f \in Factories : SkipLogger(s, f)
    BY <2>6 DEF SkipLogger
  <2>7. CASE LoggersConfigured(s)
    BY <2>7 DEF LoggersConfigured
  <2>8. CASE ApplyOptions(s)
    BY <2>8 DEF ApplyOptions
  <2>9. CASE AddObject(s)
    <3>1. stage' = stage \/ stage' = [stage EXCEPT ![s] = "failed"]
      BY <2>9, Zenon DEF AddObject, Added
    <3>2. stage[s] = "objects" /\ UNCHANGED <<run, adapter, busy, dryice, replacing>>
      BY <2>9, Zenon DEF AddObject
    <3> QED
      BY <3>1, <3>2
  <2>10. CASE ObjectsAdded(s)
    BY <2>10 DEF ObjectsAdded
  <2>11. CASE Activate(s)
    <3>1. CASE Hosted(s)
      BY <2>11, <3>1, HostHolds DEF Activate
    <3>2. CASE ~Hosted(s)
      BY <2>11, <3>2 DEF Activate
    <3> QED
      BY <3>1, <3>2
  <2>12. CASE StartThrows(s)
    BY <2>12 DEF StartThrows
  <2>13. CASE Request(s)
    BY <2>13 DEF Request
  <2>14. CASE Answer(s)
    BY <2>14 DEF Answer
  <2>15. CASE Stop(s)
    BY <2>15 DEF Stop, LoggersFirst
  <2>16. CASE RemoveLogger(s)
    <3>1. /\ stage' = stage \/ (~Hosted(s) /\ stage' = [stage EXCEPT ![s] = "failed"])
          /\ stage[s] = "stopping"
          /\ UNCHANGED <<run, adapter, busy, dryice, replacing>>
      BY <2>16, Zenon DEF RemoveLogger
    <3> QED
      BY <3>1
  <2>17. CASE Deactivate(s)
    BY <2>17 DEF Deactivate
  <2>18. CASE DestroyAdapter(s)
    BY <2>18 DEF DestroyAdapter, RequestsDone
  <2>19. CASE DestroyInIceBox(s)
    BY <2>19 DEF DestroyInIceBox, RequestsDone
  <2>20. CASE DestroyDryIce(s) \/ DryIceThrows(s)
    <3>1. /\ stage[s] \in {"stopped", "failed"} /\ s \notin busy /\ Hosted(s)
          /\ dryices' = dryices \ {Host(s)} /\ held' = [held EXCEPT ![Host(s)] = None]
          /\ UNCHANGED <<run, busy, adapter, currentDryIce, replacing>>
      BY <2>20 DEF DestroyDryIce, DryIceThrows, RequestsDone, Released
    <3>2. \/ stage[s] = "stopped" /\ stage' = [stage EXCEPT ![s] = "kept"]
          \/ \E end \in {"gone", "lost"} : stage' = [stage EXCEPT ![s] = end]
      BY <2>20, Zenon DEF DestroyDryIce, DryIceThrows, Goto
    <3>3. Host(s) \in dryices /\ held[Host(s)] = s
      BY <3>1, HostHolds
    <3>4. currentDryIce # Host(s)
      BY <3>1, <3>3
    <3>5. adapter[s] # "active" /\ (stage[s] = "stopped" => adapter[s] = "gone")
      BY <3>1, <3>3
    <3>6. /\ stage'[s] \in {"kept", "gone", "lost"}
          /\ stage'[s] = "kept" => stage[s] = "stopped"
          /\ \A u \in Services : u # s => stage'[u] = stage[u]
      BY <3>2
    <3>7. Adapters'
      <4> HIDE DEF Adapters, Hosts, CurrentHosts, Quiet
      <4>1. s \notin busy
        BY <3>1
      <4>2. run' = run /\ adapter' = adapter /\ busy' = busy
        BY <3>1
      <4>3. Adapters
        OBVIOUS
      <4> QED
        BY ONLY <3>5, <3>6, <4>1, <4>2, <4>3, s \in Services, AdaptersAfter, Zenon
    <3>8. Hosts'
      BY <3>1, <3>2, <3>3
    <3>9. CurrentHosts'
      BY <3>1, <3>2, <3>3, <3>4
    <3>10. Quiet'
      BY <3>1, <3>2, <3>3
    <3> QED
      BY <3>7, <3>8, <3>9, <3>10
  <2>21. CASE DropService(s)
    BY <2>21 DEF DropService
  <2> QED
    BY <1>2, <2>1, <2>2, <2>3, <2>4, <2>5, <2>6, <2>7, <2>8, <2>9, <2>10, <2>11, <2>12, <2>13,
       <2>14, <2>15, <2>16, <2>17, <2>18, <2>19, <2>20, <2>21 DEF Life
<1>3. ASSUME NEW s \in Services, NEW n \in Names, ReplaceRemove(s, n) PROVE Hosting'
  BY <1>3 DEF ReplaceRemove
<1>4. ASSUME NEW s \in Services, ReplaceAdd(s) PROVE Hosting'
  BY <1>4 DEF ReplaceAdd
<1>5. ASSUME NEW d \in DryIces, NEW s \in Services, CreateDryIce(d, s) PROVE Hosting'
  BY <1>5 DEF CreateDryIce, Constructed
<1>6. ASSUME NEW d \in DryIces, CreateDryIceAborts(d) PROVE Hosting'
  BY <1>6 DEF CreateDryIceAborts
<1>7. ASSUME NEW d \in DryIces, DestroyMoved(d) PROVE Hosting'
  BY <1>7 DEF DestroyMoved
<1>8. ASSUME NEW d \in DryIces, NEW e \in DryIces, Move(d, e) PROVE Hosting'
  <2>1. /\ d \in dryices /\ held[d] # None /\ held[e] = None /\ replacing = None
        /\ held' = [held EXCEPT ![e] = held[d], ![d] = None]
        /\ dryices' = dryices \cup {e}
        /\ stage[held[d]] = "running"
        /\ UNCHANGED <<stage, run, adapter, busy, currentDryIce, replacing>>
    BY <1>8 DEF Move
  <2>2. Adapters' /\ Quiet'
    BY <2>1
  <2>3. Hosts'
    <3>1. ASSUME NEW c \in DryIces, held'[c] # None
          PROVE  (c = e /\ held'[c] = held[d]) \/ (c # e /\ c # d /\ held'[c] = held[c])
      BY <2>1, <3>1
    <3>2. \A b, c \in DryIces : held[b] # None /\ held[c] = held[b] => c = b
      OBVIOUS
    <3>3. ASSUME NEW b \in DryIces, NEW c \in DryIces, held'[c] # None, held'[b] = held'[c]
          PROVE  b = c
      <4>1. held'[b] # None
        BY <3>3
      <4> QED
        BY ONLY <2>1, <3>1, <3>2, <3>3, <4>1
    <3>4. \A c \in DryIces : held'[c] # None =>
            \E b \in DryIces : held[b] # None /\ held'[c] = held[b]
      <4>1. held[d] # None
        BY <2>1
      <4> QED
        BY ONLY <3>1, <4>1, d \in DryIces
    <3>5. ASSUME NEW c \in DryIces, held'[c] # None
          PROVE  /\ stage'[held'[c]] \in Alive
                 /\ run'[held'[c]] <= 1
                 /\ stage'[held'[c]] = "adapter" => run'[held'[c]] = 0
                 /\ stage'[held'[c]] \in {"created", "failed"} \cup Starting =>
                      adapter'[held'[c]] # "active"
      <4>1. PICK b \in DryIces : held[b] # None /\ held'[c] = held[b]
        BY <3>4, <3>5
      <4> QED
        BY <2>1, <4>1
    <3> QED
      BY <3>3, <3>5
  <2>4. CurrentHosts'
    BY <2>1
  <2> QED
    BY <2>2, <2>3, <2>4
<1>9. ASSUME NEW k \in Clients, NewClient(k) PROVE Hosting'
  BY <1>9 DEF NewClient, NameFree
<1>10. ASSUME NEW k \in Clients, DeleteClient(k) PROVE Hosting'
  BY <1>10 DEF DeleteClient
<1>11. ASSUME NEW k \in Clients, NEW j \in Clients, CopyClient(k, j) PROVE Hosting'
  BY <1>11 DEF CopyClient
<1>12. ASSUME NEW k \in Clients, NEW j \in Clients, MoveClient(k, j) PROVE Hosting'
  BY <1>12 DEF MoveClient
<1> QED
  BY <1>1, <1>2, <1>3, <1>4, <1>5, <1>6, <1>7, <1>8, <1>9, <1>10, <1>11, <1>12 DEF Next

\* Where a second service is stopped one at most is alive: Service::current, and while there
\* is one the Options have not been taken away.
OnlyOne == SecondStopped /\ ~aborted =>
             /\ \A s \in Services : stage[s] \in Alive <=> current = s
             /\ current # None => options # "absent"

\* Every step keeps it that way: the constructor that found another has aborted, or the
\* Options that it registered have kept this one from being reached.
LEMMA StepOnlyOne == Typed /\ Hosting /\ OnlyOne /\ [Next]_vars => OnlyOne'
<1> SUFFICES ASSUME Typed, Hosting, OnlyOne, [Next]_vars PROVE OnlyOne'
  OBVIOUS
<1> USE ServiceAssumption DEF Typed, Hosting, OnlyOne, SecondStopped, Alive, Free,
        own, process, dryice, client, Goto, Put, Stages, Starting, Stopping, Lasting
<1>1. CASE UNCHANGED vars
  BY <1>1 DEF vars
<1> SUFFICES ASSUME Next, ~aborted, UNCHANGED asserting PROVE OnlyOne'
  BY <1>1 DEF Next
<1>2. ASSUME NEW s \in Services, Constructed(s) PROVE OnlyOne'
  <2>1. /\ stage[s] = "none" /\ options # "present"
        /\ options' = (IF options = "absent" THEN "present" ELSE options)
        /\ stage' = [stage EXCEPT ![s] = "created"]
    BY <1>2, Zenon DEF Constructed
  <2>2. /\ aborted' = (asserting /\ current # None)
        /\ current' = (IF aborted' THEN current ELSE s)
    BY <1>2, Zenon DEF Constructed
  <2>3. CASE aborted'
    BY <2>3, Zenon DEF OnlyOne
  <2>4. CASE ~aborted' /\ ~SecondStopped'
    BY <2>4, Zenon DEF OnlyOne
  <2>5. CASE ~aborted' /\ SecondStopped'
    <3>1. SecondStopped
      BY <2>1, <2>5
    <3>2. current' = s /\ (asserting => current = None)
      BY <2>2, <2>5, Zenon
    <3>3. current = None
      BY <2>1, <3>1, <3>2
    <3> QED
      BY <2>1, <3>1, <3>2, <3>3
  <2> QED
    BY <2>3, <2>4, <2>5, Zenon
<1>3. ASSUME NEW s \in Services, Life(s) PROVE OnlyOne'
  <2>1. CASE CreateInIceBox(s)
    <3>1. Constructed(s)
      BY <2>1, Zenon DEF CreateInIceBox
    <3> QED
      BY <1>2, <3>1
  <2>2. CASE CreateThrows(s)
    BY <2>2 DEF CreateThrows, OptionsLeft
  <2>3. CASE Start(s)
    BY <2>3 DEF Start
  <2>4. CASE CreateAdapter(s)
    BY <2>4 DEF CreateAdapter
  <2>5. CASE \E f \in Factories : ConfigureLogger(s, f)
    BY <2>5 DEF ConfigureLogger, Remembered
  <2>6. CASE \E f \in Factories : SkipLogger(s, f)
    BY <2>6 DEF SkipLogger
  <2>7. CASE LoggersConfigured(s)
    BY <2>7 DEF LoggersConfigured
  <2>8. CASE ApplyOptions(s)
    BY <2>8 DEF ApplyOptions
  <2>9. CASE AddObject(s)
    <3>1. stage' = stage \/ stage' = [stage EXCEPT ![s] = "failed"]
      BY <2>9, Zenon DEF AddObject, Added
    <3>2. stage[s] = "objects" /\ UNCHANGED <<current, options>>
      BY <2>9 DEF AddObject
    <3> QED
      BY <3>1, <3>2
  <2>10. CASE ObjectsAdded(s)
    BY <2>10 DEF ObjectsAdded
  <2>11. CASE Activate(s)
    BY <2>11 DEF Activate
  <2>12. CASE StartThrows(s)
    BY <2>12 DEF StartThrows
  <2>13. CASE Request(s)
    BY <2>13 DEF Request
  <2>14. CASE Answer(s)
    BY <2>14 DEF Answer
  <2>15. CASE Stop(s)
    BY <2>15 DEF Stop, LoggersFirst
  <2>16. CASE RemoveLogger(s)
    BY <2>16 DEF RemoveLogger
  <2>17. CASE Deactivate(s)
    BY <2>17 DEF Deactivate
  <2>18. CASE DestroyAdapter(s)
    BY <2>18 DEF DestroyAdapter, RequestsDone
  <2>19. CASE DestroyInIceBox(s)
    BY <2>19 DEF DestroyInIceBox, Destructed
  <2>20. CASE DestroyDryIce(s)
    <3>1. CASE Destructed(s) /\ stage' = [stage EXCEPT ![s] = "gone"]
      BY <2>20, <3>1 DEF DestroyDryIce, Destructed
    <3>2. CASE /\ stage' = [stage EXCEPT ![s] = "kept"]
               /\ UNCHANGED <<current, options, aborted>>
      BY <2>20, <3>2 DEF DestroyDryIce
    <3> QED
      BY <2>20, <3>1, <3>2, Zenon DEF DestroyDryIce
  <2>21. CASE DropService(s)
    BY <2>21 DEF DropService, Destructed
  <2>22. CASE DryIceThrows(s)
    BY <2>22 DEF DryIceThrows, Destructed
  <2> QED
    BY <1>3, <2>1, <2>2, <2>3, <2>4, <2>5, <2>6, <2>7, <2>8, <2>9, <2>10, <2>11, <2>12, <2>13,
       <2>14, <2>15, <2>16, <2>17, <2>18, <2>19, <2>20, <2>21, <2>22 DEF Life
<1>4. ASSUME NEW s \in Services, NEW n \in Names, ReplaceRemove(s, n) PROVE OnlyOne'
  BY <1>4 DEF ReplaceRemove
<1>5. ASSUME NEW s \in Services, ReplaceAdd(s) PROVE OnlyOne'
  BY <1>5 DEF ReplaceAdd
<1>6. ASSUME NEW d \in DryIces, NEW s \in Services, CreateDryIce(d, s) PROVE OnlyOne'
  <2>1. Constructed(s)
    BY <1>6, Zenon DEF CreateDryIce
  <2> QED
    BY <1>2, <2>1
<1>7. ASSUME NEW d \in DryIces, CreateDryIceAborts(d) PROVE OnlyOne'
  BY <1>7 DEF CreateDryIceAborts
<1>8. ASSUME NEW d \in DryIces, DestroyMoved(d) PROVE OnlyOne'
  BY <1>8 DEF DestroyMoved
<1>9. ASSUME NEW d \in DryIces, NEW e \in DryIces, Move(d, e) PROVE OnlyOne'
  BY <1>9 DEF Move
<1>10. ASSUME NEW k \in Clients, NewClient(k) PROVE OnlyOne'
  BY <1>10 DEF NewClient, NameFree
<1>11. ASSUME NEW k \in Clients, DeleteClient(k) PROVE OnlyOne'
  BY <1>11 DEF DeleteClient
<1>12. ASSUME NEW k \in Clients, NEW j \in Clients, CopyClient(k, j) PROVE OnlyOne'
  BY <1>12 DEF CopyClient
<1>13. ASSUME NEW k \in Clients, NEW j \in Clients, MoveClient(k, j) PROVE OnlyOne'
  BY <1>13 DEF MoveClient
<1> QED
  BY <1>1, <1>3, <1>4, <1>5, <1>6, <1>7, <1>8, <1>9, <1>10, <1>11, <1>12, <1>13 DEF Next

\* A writer in the LogManager is one its service remembers and has not yet come to in
\* stop, and it can be called unless its service was destroyed after a start that failed.
Registered == \A w \in writers :
  /\ (w \in logWriters[w[1]] /\ Reachable(w)) \/ stage[w[1]] = "lost"
  /\ stage[w[1]] = "stopping" => w \in todo[w[1]]

\* Every step keeps it: no adapter goes before the writers have gone.
LEMMA StepRegistered == Typed /\ Hosting /\ Registered /\ [Next]_vars => Registered'
<1> SUFFICES ASSUME Typed, Hosting, Registered, [Next]_vars PROVE Registered'
  OBVIOUS
<1>1. \A w \in Registers : w[1] \in Services
  BY DEF Registers
<1> USE <1>1, ServiceAssumption DEF Typed, Hosting, Adapters, Registered, Reachable,
        own, process, dryice, client, Goto, Put, Stages, Starting, Stopping, Lasting
<1>2. CASE UNCHANGED vars
  BY <1>2 DEF vars
<1> SUFFICES ASSUME Next, ~aborted, UNCHANGED asserting PROVE Registered'
  BY <1>2 DEF Next
<1>3. ASSUME NEW s \in Services, Life(s) PROVE Registered'
  <2>1. CASE CreateInIceBox(s)
    BY <2>1 DEF CreateInIceBox, Constructed
  <2>2. CASE CreateThrows(s)
    BY <2>2 DEF CreateThrows, OptionsLeft
  <2>3. CASE Start(s)
    BY <2>3 DEF Start
  <2>4. CASE CreateAdapter(s)
    <3>1. stage[s] = "adapter" /\ UNCHANGED <<writers, logWriters>>
      BY <2>4 DEF CreateAdapter
    <3>2. CASE adapter[s] \in {"none", "gone"}
      <4>1. \A w \in writers : w[1] # s
        BY <3>1, <3>2
      <4>2. /\ stage' = [stage EXCEPT ![s] = "loggers"]
            /\ adapter' = [adapter EXCEPT ![s] = "holding"]
            /\ run' = [run EXCEPT ![s] = run[s] + 1]
            /\ todo' = [todo EXCEPT ![s] = Factories]
        BY <2>4, <3>2 DEF CreateAdapter
      <4> QED
        BY <3>1, <4>1, <4>2
    <3>3. CASE adapter[s] \notin {"none", "gone"}
      BY <2>4, <3>3 DEF CreateAdapter
    <3> QED
      BY <3>2, <3>3
  <2>5. CASE \E f \in Factories : ConfigureLogger(s, f)
    BY <2>5 DEF ConfigureLogger, Remembered
  <2>6. CASE \E f \in Factories : SkipLogger(s, f)
    BY <2>6 DEF SkipLogger
  <2>7. CASE LoggersConfigured(s)
    BY <2>7 DEF LoggersConfigured
  <2>8. CASE ApplyOptions(s)
    BY <2>8 DEF ApplyOptions
  <2>9. CASE AddObject(s)
    <3>1. stage' = stage \/ stage' = [stage EXCEPT ![s] = "failed"]
      BY <2>9, Zenon DEF AddObject, Added
    <3>2. stage[s] = "objects" /\ UNCHANGED <<run, adapter, logWriters, todo, writers>>
      BY <2>9 DEF AddObject
    <3> QED
      BY <3>1, <3>2
  <2>10. CASE ObjectsAdded(s)
    BY <2>10 DEF ObjectsAdded
  <2>11. CASE Activate(s)
    BY <2>11 DEF Activate
  <2>12. CASE StartThrows(s)
    BY <2>12 DEF StartThrows
  <2>13. CASE Request(s)
    BY <2>13 DEF Request
  <2>14. CASE Answer(s)
    BY <2>14 DEF Answer
  <2>15. CASE Stop(s)
    BY <2>15 DEF Stop, LoggersFirst
  <2>16. CASE RemoveLogger(s)
    BY <2>16 DEF RemoveLogger
  <2>17. CASE Deactivate(s)
    BY <2>17 DEF Deactivate
  <2>18. CASE DestroyAdapter(s)
    BY <2>18 DEF DestroyAdapter, RequestsDone
  <2>19. CASE DestroyInIceBox(s)
    BY <2>19 DEF DestroyInIceBox, Destructed
  <2>20. CASE DestroyDryIce(s)
    BY <2>20 DEF DestroyDryIce, Destructed
  <2>21. CASE DropService(s)
    BY <2>21 DEF DropService, Destructed
  <2>22. CASE DryIceThrows(s)
    BY <2>22 DEF DryIceThrows, Destructed
  <2> QED
    BY <1>3, <2>1, <2>2, <2>3, <2>4, <2>5, <2>6, <2>7, <2>8, <2>9, <2>10, <2>11, <2>12, <2>13,
       <2>14, <2>15, <2>16, <2>17, <2>18, <2>19, <2>20, <2>21, <2>22 DEF Life
<1>4. ASSUME NEW s \in Services, NEW n \in Names, ReplaceRemove(s, n) PROVE Registered'
  BY <1>4 DEF ReplaceRemove
<1>5. ASSUME NEW s \in Services, ReplaceAdd(s) PROVE Registered'
  BY <1>5 DEF ReplaceAdd
<1>6. ASSUME NEW d \in DryIces, NEW s \in Services, CreateDryIce(d, s) PROVE Registered'
  BY <1>6 DEF CreateDryIce, Constructed
<1>7. ASSUME NEW d \in DryIces, CreateDryIceAborts(d) PROVE Registered'
  BY <1>7 DEF CreateDryIceAborts
<1>8. ASSUME NEW d \in DryIces, DestroyMoved(d) PROVE Registered'
  BY <1>8 DEF DestroyMoved
<1>9. ASSUME NEW d \in DryIces, NEW e \in DryIces, Move(d, e) PROVE Registered'
  BY <1>9 DEF Move
<1>10. ASSUME NEW k \in Clients, NewClient(k) PROVE Registered'
  BY <1>10 DEF NewClient, NameFree
<1>11. ASSUME NEW k \in Clients, DeleteClient(k) PROVE Registered'
  BY <1>11 DEF DeleteClient
<1>12. ASSUME NEW k \in Clients, NEW j \in Clients, CopyClient(k, j) PROVE Registered'
  BY <1>12 DEF CopyClient
<1>13. ASSUME NEW k \in Clients, NEW j \in Clients, MoveClient(k, j) PROVE Registered'
  BY <1>13 DEF MoveClient
<1> QED
  BY <1>2, <1>3, <1>4, <1>5, <1>6, <1>7, <1>8, <1>9, <1>10, <1>11, <1>12, <1>13 DEF Next

\* A cube holds what this start and those before it added.  Unless a DryIce object hosts
\* or has hosted the service it holds something of the first object's type, so that the
\* next start fails at its first object; and what a start that got past it holds is its own.
CubesOf(s) ==
  /\ \A c \in cube[s] : c[2] \in 1 .. run[s]
  /\ cube[s] # {} /\ ~Hosted(s) /\ stage[s] # "kept" =>
       Adds[s] # <<>> /\ \E c \in cube[s] : c[1] = TypeOf[Adds[s][1]]
  /\ stage[s] = "objects" /\ next[s] > 1 /\ ~Hosted(s) => cube[s] # {}
  /\ (stage[s] = "objects" /\ next[s] > 1) \/ stage[s] \in {"activate", "running"} =>
       \A c \in cube[s] : c[2] = run[s]

\* Every cube does, where a second service is stopped.
Cubes == SecondStopped /\ ~aborted => \A s \in Services : CubesOf(s)

\* It stays so: Options are registered in a process with factories of Options only.
LEMMA StepSecond == [Next]_vars /\ SecondStopped' => SecondStopped
<1> SUFFICES ASSUME [Next]_vars, options = "unused" PROVE options' = "unused"
  BY DEF SecondStopped, Next, vars
<1> USE DEF process
<1>1. CASE UNCHANGED vars
  BY <1>1 DEF vars
<1>2. CASE UNCHANGED options
  BY <1>2
<1>3. ASSUME NEW s \in Services, Constructed(s) \/ Destructed(s) PROVE options' = "unused"
  BY <1>3 DEF Constructed, Destructed
<1>4. ASSUME NEW s \in Services, Life(s) PROVE options' = "unused"
  <2>1. CASE CreateInIceBox(s) \/ DestroyInIceBox(s) \/ DropService(s) \/ DryIceThrows(s)
    BY <1>3, <2>1, Zenon DEF CreateInIceBox, DestroyInIceBox, DropService, DryIceThrows
  <2>2. CASE DestroyDryIce(s)
    BY <1>2, <1>3, <2>2, Zenon DEF DestroyDryIce
  <2>3. CASE CreateThrows(s)
    BY <2>3, <1>2, Zenon DEF CreateThrows, OptionsLeft
  <2>4. CASE Start(s) \/ CreateAdapter(s) \/ LoggersConfigured(s) \/ ApplyOptions(s)
    BY <2>4 DEF Start, CreateAdapter, LoggersConfigured, ApplyOptions
  <2>5. CASE \E f \in Factories : ConfigureLogger(s, f) \/ SkipLogger(s, f)
    BY <2>5 DEF ConfigureLogger, SkipLogger
  <2>6. CASE AddObject(s) \/ ObjectsAdded(s) \/ Activate(s) \/ StartThrows(s)
    BY <2>6 DEF AddObject, ObjectsAdded, Activate, StartThrows
  <2>7. CASE Request(s) \/ Answer(s) \/ Stop(s) \/ RemoveLogger(s)
    BY <2>7 DEF Request, Answer, Stop, RemoveLogger
  <2>8. CASE Deactivate(s) \/ DestroyAdapter(s)
    BY <2>8 DEF Deactivate, DestroyAdapter
  <2> QED
    BY <1>4, <2>1, <2>2, <2>3, <2>4, <2>5, <2>6, <2>7, <2>8 DEF Life
<1>5. ASSUME NEW d \in DryIces, NEW s \in Services, CreateDryIce(d, s)
      PROVE  options' = "unused"
  BY <1>3, <1>5, Zenon DEF CreateDryIce
<1>6. ASSUME NEW s \in Services, \/ \E n \in Names : ReplaceRemove(s, n)
                                 \/ ReplaceAdd(s)
      PROVE  options' = "unused"
  BY <1>6 DEF ReplaceRemove, ReplaceAdd
<1>7. ASSUME NEW d \in DryIces, \/ CreateDryIceAborts(d) \/ DestroyMoved(d)
                                \/ \E e \in DryIces : Move(d, e)
      PROVE  options' = "unused"
  BY <1>7 DEF CreateDryIceAborts, DestroyMoved, Move
<1>8. ASSUME NEW k \in Clients, \/ NewClient(k) \/ DeleteClient(k)
                                \/ \E j \in Clients : CopyClient(k, j) \/ MoveClient(k, j)
      PROVE  options' = "unused"
  BY <1>8 DEF NewClient, DeleteClient, CopyClient, MoveClient
<1> QED
  BY <1>1, <1>4, <1>5, <1>6, <1>7, <1>8 DEF Next

\* A step that neither starts the service once more nor changes its cube keeps it so.
LEMMA KeptCubes ==
  ASSUME NEW s \in Services, CubesOf(s), cube'[s] = cube[s], run'[s] = run[s],
         Hosted(s) => Hosted(s)' \/ stage'[s] = "kept", stage[s] # "kept" \/ stage'[s] = "kept",
         \/ stage'[s] \notin {"objects", "activate", "running"}
         \/ stage'[s] = stage[s] /\ next'[s] = next[s]
         \/ stage'[s] = "running" /\ stage[s] = "activate"
         \/ stage'[s] = "objects" /\ next'[s] = 1
  PROVE  CubesOf(s)'
BY DEF CubesOf

\* Every step does, above all the turns of addObjects and what follows them.
LEMMA StepCubes == Typed /\ Running /\ Hosting /\ OnlyOne /\ Cubes /\ [Next]_vars => Cubes'
<1> SUFFICES ASSUME Typed, Running, Hosting, OnlyOne, Cubes, [Next]_vars, SecondStopped',
                    ~aborted', NEW u \in Services
             PROVE  CubesOf(u)'
  BY DEF Cubes
<1>1. SecondStopped /\ ~aborted
  <2>1. SecondStopped
    BY StepSecond
  <2>2. ~aborted
    <3>1. CASE UNCHANGED vars
      BY <3>1, Zenon DEF vars
    <3>2. CASE Next
      BY <3>2, Zenon DEF Next
    <3> QED
      BY <3>1, <3>2
  <2> QED
    BY <2>1, <2>2
<1> USE ServiceAssumption DEF Typed, own, process, dryice, client, Goto, Put, Stages, Starting,
        Stopping, Lasting
<1>2. CubesOf(u) /\ (UNCHANGED <<held, dryices>> /\ Hosted(u) => Hosted(u)')
  BY <1>1 DEF Cubes, Hosted
<1>3. ASSUME NEW s \in Services, stage[s] \in Alive PROVE current = s
  BY <1>1, <1>3 DEF OnlyOne
<1>4. ASSUME NEW s \in Services, CubesOf(s), Hosted(s), run[s] # 0
      PROVE  \A c \in cube[s] : c[2] = run[s]
  <2>1. PICK d \in dryices : held[d] = s
    BY <1>4 DEF Hosted
  <2>2. run[s] <= 1
    BY <2>1 DEF Hosting, Hosts
  <2>3. run[s] = 1
    BY <1>4, <2>2
  <2> QED
    BY <1>4, <2>3 DEF CubesOf
<1>5. CASE UNCHANGED vars
  BY KeptCubes, <1>2, <1>5 DEF vars
<1> SUFFICES ASSUME Next, ~aborted, UNCHANGED asserting PROVE CubesOf(u)'
  BY <1>5 DEF Next
<1>6. ASSUME NEW s \in Services, Life(s) PROVE CubesOf(u)'
  <2>1. CASE CreateInIceBox(s)
    BY KeptCubes, <1>2, <2>1 DEF CreateInIceBox, Constructed
  <2>2. CASE CreateThrows(s)
    BY KeptCubes, <1>2, <2>2 DEF CreateThrows, OptionsLeft
  <2>3. CASE Start(s)
    <3>1. /\ stage' = [stage EXCEPT ![s] = "adapter"]
          /\ UNCHANGED <<cube, run, next, held, dryices>>
      BY <2>3, Zenon DEF Start, own, dryice, Goto
    <3>2. stage[s] # "kept"
      BY <2>3 DEF Start
    <3> QED
      BY <1>2, <3>1, <3>2, KeptCubes
  <2>4. CASE CreateAdapter(s)
    <3>1. stage[s] = "adapter" /\ UNCHANGED <<cube, next, held, dryices>>
      BY <2>4 DEF CreateAdapter
    <3>2. \/ /\ stage' = [stage EXCEPT ![s] = "loggers"]
             /\ run' = [run EXCEPT ![s] = run[s] + 1]
          \/ stage' = [stage EXCEPT ![s] = "failed"] /\ UNCHANGED run
      BY <2>4, Zenon DEF CreateAdapter, Goto, Put
    <3>3. CASE u # s
      BY <1>2, <3>1, <3>2, <3>3, KeptCubes
    <3>4. CASE u = s
      BY <1>2, <3>1, <3>2, <3>4 DEF CubesOf
    <3> QED
      BY <3>3, <3>4
  <2>5. CASE \E f \in Factories : ConfigureLogger(s, f)
    <3>1. /\ stage' = stage \/ stage' = [stage EXCEPT ![s] = "failed"]
          /\ UNCHANGED <<cube, run, next, held, dryices>>
      BY <2>5, Zenon DEF ConfigureLogger, dryice, Goto
    <3>2. stage[s] = "loggers"
      BY <2>5 DEF ConfigureLogger
    <3> QED
      BY <1>2, <3>1, <3>2, KeptCubes
  <2>6. CASE \E f \in Factories : SkipLogger(s, f)
    BY KeptCubes, <1>2, <2>6 DEF SkipLogger
  <2>7. CASE LoggersConfigured(s)
    BY KeptCubes, <1>2, <2>7 DEF LoggersConfigured
  <2>8. CASE ApplyOptions(s)
    <3>1. /\ stage[s] = "options"
          /\ stage' = [stage EXCEPT ![s] = "objects"] /\ next' = [next EXCEPT ![s] = 1]
          /\ UNCHANGED <<cube, run, held, dryices>>
      BY <2>8 DEF ApplyOptions
    <3> QED
      BY <1>2, <3>1, KeptCubes
  <2>9. CASE AddObject(s)
    <3> DEFINE n == Adds[s][next[s]]
    <3>1. /\ stage[s] = "objects" /\ UNCHANGED <<run, held, dryices>>
          /\ Adds[s] # <<>>
      BY <2>9 DEF AddObject
    <3>2. \/ stage' = [stage EXCEPT ![s] = "failed"] /\ UNCHANGED <<cube, next>>
          \/ /\ cube' = [cube EXCEPT ![s] = cube[s] \cup {<<TypeOf[n], run[s]>>}]
             /\ TypeOf[n] \notin TypesIn(s)
             /\ next' = [next EXCEPT ![s] = next[s] + 1]
             /\ UNCHANGED stage
      <4>1. current = s /\ current # None
        BY <3>1, <1>3 DEF Alive
      <4>2. aborted' # TRUE
        BY Zenon
      <4> QED
        BY <2>9, <4>1, <4>2, Zenon DEF AddObject, Added, Cubed, Goto, Put
    <3>3. CASE u # s
      BY <1>2, <3>1, <3>2, <3>3, KeptCubes
    <3>4. CASE stage' = [stage EXCEPT ![s] = "failed"] /\ UNCHANGED <<cube, next>>
      BY <1>2, <3>1, <3>4, KeptCubes
    <3>5. ASSUME u = s, UNCHANGED stage, next' = [next EXCEPT ![s] = next[s] + 1],
                 cube' = [cube EXCEPT ![s] = cube[s] \cup {<<TypeOf[n], run[s]>>}],
                 TypeOf[n] \notin TypesIn(s)
          PROVE  CubesOf(u)'
      <4> DEFINE item == <<TypeOf[n], run[s]>>
      <4>1. cube'[s] = cube[s] \cup {item} /\ item[1] = TypeOf[n] /\ item[2] = run[s]
        BY <3>5
      <4> HIDE DEF item
      <4>2. CubesOf(s)
        BY <1>2, <3>5
      <4>3. run[s] \in 1 .. MaxRuns /\ (Hosted(s) => Hosted(s)')
        BY <1>2, <3>1, <3>5 DEF Running
      <4>4. \A c \in cube[s] : c[2] = run[s]
        <5>1. CASE Hosted(s)
          <6>1. run[s] # 0
            BY <4>3
          <6> QED
            BY <4>2, <5>1, <6>1, <1>4
        <5>2. CASE ~Hosted(s)
          BY <3>1, <3>5, <4>2, <5>2 DEF CubesOf, TypesIn
        <5> QED
          BY <5>1, <5>2
      <4>5. ~Hosted(s) => \E c \in cube'[s] : c[1] = TypeOf[Adds[s][1]]
        <5>1. CASE next[s] = 1
          BY <4>1, <5>1
        <5>2. CASE next[s] > 1
          BY <3>1, <4>2, <4>1, <5>2 DEF CubesOf
        <5> QED
          BY <5>1, <5>2
      <4> QED
        BY <3>1, <3>5, <4>1, <4>4, <4>5, <4>3 DEF CubesOf
    <3> QED
      BY <3>2, <3>3, <3>5, <3>4, Zenon
  <2>10. CASE ObjectsAdded(s)
    <3>1. /\ stage[s] = "objects" /\ stage' = [stage EXCEPT ![s] = "activate"]
          /\ next[s] > Len(Adds[s]) /\ UNCHANGED <<cube, run, next, held, dryices>>
      BY <2>10 DEF ObjectsAdded
    <3>2. CASE u # s
      BY <1>2, <3>1, <3>2, KeptCubes
    <3>3. ASSUME u = s PROVE CubesOf(u)'
      <4>1. CubesOf(s) /\ run[s] # 0
        BY <1>2, <3>1, <3>3 DEF Running
      <4>2. \A c \in cube[s] : c[2] = run[s]
        <5>1. CASE Hosted(s)
          BY <1>4, <4>1, <5>1
        <5>2. CASE ~Hosted(s) /\ next[s] > 1
          BY <3>1, <4>1, <5>2 DEF CubesOf
        <5>3. CASE ~Hosted(s) /\ next[s] = 1
          <6>1. Adds[s] \in Seq(Names) /\ Len(Adds[s]) = 0
            BY <3>1, <5>3
          <6> QED
            BY <3>1, <4>1, <5>3, <6>1 DEF CubesOf
        <5> QED
          BY <5>1, <5>2, <5>3
      <4>3. ~Hosted(s)' => ~Hosted(s)
        BY <1>2, <3>1, <3>3
      <4> QED
        BY <3>1, <3>3, <4>1, <4>2, <4>3 DEF CubesOf
    <3> QED
      BY <3>2, <3>3
  <2>11. CASE Activate(s)
    BY KeptCubes, <1>2, <2>11 DEF Activate
  <2>12. CASE StartThrows(s)
    BY KeptCubes, <1>2, <2>12 DEF StartThrows
  <2>13. CASE Request(s)
    BY KeptCubes, <1>2, <2>13 DEF Request
  <2>14. CASE Answer(s)
    BY KeptCubes, <1>2, <2>14 DEF Answer
  <2>15. CASE Stop(s)
    <3>1. /\ stage' = [stage EXCEPT ![s] = "stopping"]
          /\ UNCHANGED <<cube, run, next, held, dryices>>
      BY <2>15, Zenon DEF Stop, Goto
    <3>2. stage[s] = "running"
      BY <2>15, Zenon DEF Stop
    <3> QED
      BY <1>2, <3>1, <3>2, KeptCubes
  <2>16. CASE RemoveLogger(s)
    <3>1. /\ stage' = stage \/ stage' = [stage EXCEPT ![s] = "failed"]
          /\ UNCHANGED <<cube, run, next, held, dryices>>
      BY <2>16, Zenon DEF RemoveLogger, dryice, Goto
    <3>2. stage[s] = "stopping"
      BY <2>16, Zenon DEF RemoveLogger
    <3> QED
      BY <1>2, <3>1, <3>2, KeptCubes
  <2>17. CASE Deactivate(s)
    BY KeptCubes, <1>2, <2>17 DEF Deactivate
  <2>18. CASE DestroyAdapter(s)
    <3>1. /\ stage' = [stage EXCEPT ![s] = "stopped"]
          /\ UNCHANGED <<cube, run, next, held, dryices>>
      BY <2>18, Zenon DEF DestroyAdapter, dryice, Goto
    <3>2. stage[s] = "deactivated"
      BY <2>18, Zenon DEF DestroyAdapter
    <3> QED
      BY <1>2, <3>1, <3>2, KeptCubes
  <2>19. CASE DestroyInIceBox(s) \/ DropService(s) \/ DryIceThrows(s) \/ DestroyDryIce(s)
    <3>1. UNCHANGED <<run, next>>
      BY <2>19, Zenon DEF DestroyInIceBox, DropService, DryIceThrows, DestroyDryIce
    <3>2. \/ /\ cube' = [cube EXCEPT ![s] = {}]
             /\ \E end \in {"gone", "lost"} : stage' = [stage EXCEPT ![s] = end]
          \/ /\ UNCHANGED cube /\ stage[s] = "stopped"
             /\ stage' = [stage EXCEPT ![s] = "kept"]
      BY <2>19, Zenon
         DEF DestroyInIceBox, DropService, DryIceThrows, DestroyDryIce, Destructed, Goto, Put
    <3>3. \/ UNCHANGED <<held, dryices>>
          \/ /\ Hosted(s) /\ held' = [held EXCEPT ![Host(s)] = None]
             /\ dryices' = dryices \ {Host(s)}
      BY <2>19, Zenon
         DEF DestroyInIceBox, DropService, DryIceThrows, DestroyDryIce, Released, Put, dryice
    <3>4. CASE u = s /\ cube' = [cube EXCEPT ![s] = {}]
      BY <3>1, <3>2, <3>4 DEF CubesOf
    <3>5. CASE u = s /\ UNCHANGED cube /\ stage[s] = "stopped"
                     /\ stage' = [stage EXCEPT ![s] = "kept"]
      BY <1>2, <3>1, <3>5, KeptCubes
    <3>6. CASE u # s
      <4>1. Hosted(u) => Hosted(u)'
        BY <3>3, <3>6, HostHolds DEF Hosted
      <4>2. cube'[u] = cube[u] /\ stage'[u] = stage[u]
        BY <3>2, <3>6
      <4> QED
        BY <1>2, <3>1, <4>1, <4>2, KeptCubes
    <3> QED
      BY <3>2, <3>4, <3>5, <3>6
  <2> QED
    BY <1>6, <2>1, <2>2, <2>3, <2>4, <2>5, <2>6, <2>7, <2>8, <2>9, <2>10, <2>11, <2>12, <2>13,
       <2>14, <2>15, <2>16, <2>17, <2>18, <2>19 DEF Life
<1>7. ASSUME NEW s \in Services, NEW n \in Names, ReplaceRemove(s, n) PROVE CubesOf(u)'
  <2>1. /\ \A c \in cube'[s] : c \in cube[s]
        /\ u # s => cube'[u] = cube[u]
    <3>1. current = s
      BY <1>7, <1>3 DEF ReplaceRemove, Alive
    <3> QED
      BY <1>7, <3>1 DEF ReplaceRemove
  <2>2. Hosted(s) /\ stage[s] = "running" /\ UNCHANGED <<stage, run, next, held, dryices>>
    BY <1>7 DEF ReplaceRemove
  <2>3. CASE u = s
    BY <1>2, <2>1, <2>2, <2>3 DEF CubesOf
  <2>4. CASE u # s
    BY <1>2, <2>1, <2>2, <2>4, KeptCubes
  <2> QED
    BY <2>3, <2>4
<1>8. ASSUME NEW s \in Services, ReplaceAdd(s) PROVE CubesOf(u)'
  <2>1. /\ \A c \in cube'[s] : c \in cube[s] \/ c[2] = run[s]
        /\ u # s => cube'[u] = cube[u]
    <3>1. stage[s] = "running"
      BY <1>8 DEF ReplaceAdd, Hosting, Quiet
    <3>2. current = s
      BY <3>1, <1>3 DEF Alive
    <3> QED
      BY <1>8, <3>2 DEF ReplaceAdd, Cubed
  <2>2. Hosted(s) /\ stage[s] = "running" /\ UNCHANGED <<stage, run, next, held, dryices>>
    BY <1>8 DEF ReplaceAdd, Hosting, Quiet
  <2>3. run[s] \in 1 .. MaxRuns
    BY <2>2 DEF Running
  <2>4. CASE u = s
    BY <1>2, <2>1, <2>2, <2>3, <2>4 DEF CubesOf
  <2>5. CASE u # s
    BY <1>2, <2>1, <2>2, <2>5, KeptCubes
  <2> QED
    BY <2>4, <2>5
<1>9. ASSUME NEW d \in DryIces, NEW s \in Services, CreateDryIce(d, s) PROVE CubesOf(u)'
  <2>1. Hosted(u) => Hosted(u)'
    BY <1>9 DEF CreateDryIce, Hosted
  <2>2. /\ stage' = [stage EXCEPT ![s] = "created"]
        /\ UNCHANGED <<cube, run, next>>
    BY <1>9, Zenon DEF CreateDryIce, Constructed, own, Goto
  <2>3. stage[s] = "none"
    BY <1>9, Zenon DEF CreateDryIce, Constructed
  <2> QED
    BY KeptCubes, <1>2, <2>1, <2>2, <2>3
<1>10. ASSUME NEW d \in DryIces, CreateDryIceAborts(d) PROVE CubesOf(u)'
  BY KeptCubes, <1>2, <1>10 DEF CreateDryIceAborts
<1>11. ASSUME NEW d \in DryIces, DestroyMoved(d) PROVE CubesOf(u)'
  <2>1. Hosted(u) => Hosted(u)'
    BY <1>11 DEF DestroyMoved, Hosted
  <2> QED
    BY KeptCubes, <1>2, <1>11, <2>1 DEF DestroyMoved
<1>12. ASSUME NEW d \in DryIces, NEW e \in DryIces, Move(d, e) PROVE CubesOf(u)'
  <2>1. Hosted(u) => Hosted(u)'
    BY <1>12 DEF Move, Hosted
  <2> QED
    BY KeptCubes, <1>2, <1>12, <2>1 DEF Move
<1>13. ASSUME NEW k \in Clients, NewClient(k) PROVE CubesOf(u)'
  BY KeptCubes, <1>2, <1>13 DEF NewClient, NameFree
<1>14. ASSUME NEW k \in Clients, DeleteClient(k) PROVE CubesOf(u)'
  BY KeptCubes, <1>2, <1>14 DEF DeleteClient
<1>15. ASSUME NEW k \in Clients, NEW j \in Clients, CopyClient(k, j) PROVE CubesOf(u)'
  BY KeptCubes, <1>2, <1>15 DEF CopyClient
<1>16. ASSUME NEW k \in Clients, NEW j \in Clients, MoveClient(k, j) PROVE CubesOf(u)'
  BY KeptCubes, <1>2, <1>16 DEF MoveClient
<1> QED
  BY <1>5, <1>6, <1>7, <1>8, <1>9, <1>10, <1>11, <1>12, <1>13, <1>14, <1>15, <1>16 DEF Next

\* Where a service is that a client was made for.
Met == {"running", "failed", "stopped", "kept", "gone", "lost"} \cup Stopping

\* Where it is in the hands of a DryIce object.
InHand == Alive \ {"kept"}

\* It has run, is hosted until its DryIce object is destroyed, and unless one was copied has
\* one client as long as it runs.
Served == \A k \in Clients : clients[k] \in Services =>
  /\ stage[clients[k]] \in Met
  /\ stage[clients[k]] \in InHand => Hosted(clients[k])
  /\ stage[clients[k]] = "running" /\ clients[k] \notin copied =>
       \A j \in Clients : clients[j] = clients[k] => j = k

\* What clients find, and why.
Clientele == Served /\ ClientServes

\* Every step keeps it so.
LEMMA StepClientele == Typed /\ Hosting /\ Clientele /\ [Next]_vars => Clientele'
<1> SUFFICES ASSUME Typed, Hosting, Clientele, [Next]_vars PROVE Clientele'
  OBVIOUS
<1>1. ASSUME NEW u \in Services, UNCHANGED <<held, dryices>>
      PROVE  Hosted(u) => Hosted(u)'
  BY <1>1 DEF Hosted
<1>2. ASSUME UNCHANGED client, aborted => aborted',
             \A u \in Services : stage[u] \in Met /\ (stage[u] \in InHand => Hosted(u)) =>
               /\ stage'[u] \in Met
               /\ stage'[u] \in InHand => stage[u] \in InHand /\ Hosted(u)'
               /\ stage'[u] = "running" => stage[u] = "running"
      PROVE  Clientele'
  BY <1>2 DEF Clientele, Served, ClientServes, client
<1> USE ServiceAssumption DEF Typed, Met, InHand, Alive, own, process, dryice,
        client, Goto, Put, Stages, Starting, Stopping, Lasting
<1>3. CASE UNCHANGED vars
  BY <1>1, <1>2, <1>3 DEF vars
<1> SUFFICES ASSUME Next, ~aborted, UNCHANGED asserting PROVE Clientele'
  BY <1>3 DEF Next
<1>4. ASSUME NEW s \in Services, Life(s) PROVE Clientele'
  <2>1. CASE CreateInIceBox(s)
    <3>1. stage[s] = "none" /\ stage' = [stage EXCEPT ![s] = "created"]
      BY <2>1, Zenon DEF CreateInIceBox, Constructed, Goto
    <3>2. \A u \in Services : Hosted(u) => Hosted(u)'
      BY <2>1 DEF CreateInIceBox, Hosted
    <3>3. UNCHANGED client
      BY <2>1, Zenon DEF CreateInIceBox
    <3> QED
      BY <1>2, <3>1, <3>2, <3>3
  <2>2. CASE CreateThrows(s)
    BY <1>1, <1>2, <2>2 DEF CreateThrows, OptionsLeft
  <2>3. CASE Start(s)
    <3>1. stage' = [stage EXCEPT ![s] = "adapter"] /\ UNCHANGED <<dryice, client, aborted>>
      BY <2>3, Zenon DEF Start, Goto
    <3>2. stage[s] = "created" \/ (stage[s] \in {"stopped", "failed"} /\ ~Hosted(s))
      BY <2>3 DEF Start, Free
    <3> QED
      BY <1>1, <1>2, <3>1, <3>2
  <2>4. CASE CreateAdapter(s)
    BY <1>1, <1>2, <2>4 DEF CreateAdapter
  <2>5. CASE \E f \in Factories : ConfigureLogger(s, f)
    BY <1>1, <1>2, <2>5 DEF ConfigureLogger, Remembered
  <2>6. CASE \E f \in Factories : SkipLogger(s, f)
    BY <1>1, <1>2, <2>6 DEF SkipLogger
  <2>7. CASE LoggersConfigured(s)
    BY <1>1, <1>2, <2>7 DEF LoggersConfigured
  <2>8. CASE ApplyOptions(s)
    BY <1>1, <1>2, <2>8 DEF ApplyOptions
  <2>9. CASE AddObject(s)
    BY <1>1, <1>2, <2>9 DEF AddObject, Added
  <2>10. CASE ObjectsAdded(s)
    BY <1>1, <1>2, <2>10 DEF ObjectsAdded
  <2>11. CASE Activate(s)
    BY <1>1, <1>2, <2>11 DEF Activate
  <2>12. CASE StartThrows(s)
    BY <1>1, <1>2, <2>12 DEF StartThrows
  <2>13. CASE Request(s)
    BY <1>1, <1>2, <2>13 DEF Request
  <2>14. CASE Answer(s)
    BY <1>1, <1>2, <2>14 DEF Answer
  <2>15. CASE Stop(s)
    BY <1>1, <1>2, <2>15 DEF Stop, LoggersFirst
  <2>16. CASE RemoveLogger(s)
    BY <1>1, <1>2, <2>16 DEF RemoveLogger
  <2>17. CASE Deactivate(s)
    BY <1>1, <1>2, <2>17 DEF Deactivate
  <2>18. CASE DestroyAdapter(s)
    BY <1>1, <1>2, <2>18 DEF DestroyAdapter, RequestsDone
  <2>19. CASE DestroyInIceBox(s)
    BY <1>1, <1>2, <2>19 DEF DestroyInIceBox
  <2>20. CASE DestroyDryIce(s)
    <3>1. /\ stage[s] = "stopped" /\ Hosted(s)
          /\ \E end \in {"gone", "kept"} : stage' = [stage EXCEPT ![s] = end]
          /\ held' = [held EXCEPT ![Host(s)] = None] /\ dryices' = dryices \ {Host(s)}
          /\ clientAdapters' = clientAdapters \ {s} /\ copied' = copied \ {s}
          /\ UNCHANGED clients
      BY <2>20, Zenon DEF DestroyDryIce, Released
    <3>2. ASSUME NEW u \in Services, u # s, Hosted(u) PROVE Hosted(u)'
      BY <3>1, <3>2, HostHolds DEF Hosted
    <3>3. stage'[s] \in {"gone", "kept"} /\ \A u \in Services : u # s => stage'[u] = stage[u]
      BY <3>1
    <3>4. Served'
      BY <3>1, <3>2, <3>3 DEF Clientele, Served
    <3>5. ClientServes'
      BY <3>1, <3>3 DEF Clientele, ClientServes
    <3> QED
      BY <3>4, <3>5 DEF Clientele
  <2>21. CASE DropService(s)
    BY <1>1, <1>2, <2>21 DEF DropService
  <2>22. CASE DryIceThrows(s)
    <3>1. /\ stage[s] = "failed" /\ Hosted(s)
          /\ stage' = [stage EXCEPT ![s] = "lost"]
          /\ held' = [held EXCEPT ![Host(s)] = None] /\ dryices' = dryices \ {Host(s)}
          /\ UNCHANGED client
      BY <2>22, Zenon DEF DryIceThrows, Released
    <3>2. ASSUME NEW u \in Services, u # s, Hosted(u) PROVE Hosted(u)'
      BY <3>1, <3>2, HostHolds DEF Hosted
    <3> QED
      BY <1>2, <3>1, <3>2
  <2> QED
    BY <1>4, <2>1, <2>2, <2>3, <2>4, <2>5, <2>6, <2>7, <2>8, <2>9, <2>10, <2>11, <2>12, <2>13,
       <2>14, <2>15, <2>16, <2>17, <2>18, <2>19, <2>20, <2>21, <2>22 DEF Life
<1>5. ASSUME NEW s \in Services, NEW n \in Names, ReplaceRemove(s, n) PROVE Clientele'
  BY <1>1, <1>2, <1>5 DEF ReplaceRemove
<1>6. ASSUME NEW s \in Services, ReplaceAdd(s) PROVE Clientele'
  BY <1>1, <1>2, <1>6 DEF ReplaceAdd
<1>7. ASSUME NEW d \in DryIces, NEW s \in Services, CreateDryIce(d, s) PROVE Clientele'
  <2>1. stage[s] = "none" /\ stage' = [stage EXCEPT ![s] = "created"]
    BY <1>7, Zenon DEF CreateDryIce, Constructed, Goto
  <2>2. \A u \in Services : Hosted(u) => Hosted(u)'
    BY <1>7 DEF CreateDryIce, Hosted
  <2>3. UNCHANGED client
    BY <1>7, Zenon DEF CreateDryIce
  <2> QED
    BY <1>2, <2>1, <2>2, <2>3
<1>8. ASSUME NEW d \in DryIces, CreateDryIceAborts(d) PROVE Clientele'
  BY <1>1, <1>2, <1>8 DEF CreateDryIceAborts
<1>9. ASSUME NEW d \in DryIces, DestroyMoved(d) PROVE Clientele'
  <2>1. \A u \in Services : Hosted(u) => Hosted(u)'
    BY <1>9 DEF DestroyMoved, Hosted
  <2> QED
    BY <1>2, <1>9, <2>1 DEF DestroyMoved
<1>10. ASSUME NEW d \in DryIces, NEW e \in DryIces, Move(d, e) PROVE Clientele'
  <2>1. \A u \in Services : Hosted(u) => Hosted(u)'
    BY <1>10 DEF Move, Hosted
  <2> QED
    BY <1>2, <1>10, <2>1 DEF Move
<1>11. ASSUME NEW k \in Clients, NewClient(k) PROVE Clientele'
  <2>1. UNCHANGED <<stage, held, dryices>>
    BY <1>11 DEF NewClient
  <2>2. \A u \in Services : Hosted(u) => Hosted(u)'
    BY <1>1, <2>1
  <2>3. CASE UNCHANGED client
    BY <1>2, <2>1, <2>2, <2>3
  <2>4. CASE ~(currentDryIce = None \/ held[currentDryIce] = None)
    <3> DEFINE s == held[currentDryIce]
    <3>1. s \in Services /\ stage[s] = "running" /\ Hosted(s)
      BY <2>4 DEF Hosting, CurrentHosts, Hosted
    <3>2. /\ s \notin clientAdapters
          /\ clients' = [clients EXCEPT ![k] = s]
          /\ clientAdapters' = clientAdapters \cup {s}
          /\ UNCHANGED copied
      BY <1>11, <2>4 DEF NewClient, NameFree
    <3> HIDE DEF s
    <3>3. s \notin copied => \A j \in Clients : clients[j] # s
      BY <2>1, <3>1, <3>2 DEF Clientele, ClientServes
    <3>4. Served'
      BY <2>1, <2>2, <3>1, <3>2, <3>3 DEF Clientele, Served
    <3>5. ClientServes'
      BY <2>1, <3>1, <3>2 DEF Clientele, ClientServes
    <3> QED
      BY <3>4, <3>5 DEF Clientele
  <2> QED
    BY <1>11, <2>3, <2>4 DEF NewClient
<1>12. ASSUME NEW k \in Clients, DeleteClient(k) PROVE Clientele'
  <2>1. UNCHANGED <<stage, held, dryices>>
    BY <1>12 DEF DeleteClient
  <2>2. \A u \in Services : Hosted(u) => Hosted(u)'
    BY <1>1, <2>1
  <2>3. Served'
    BY <1>12, <2>1, <2>2 DEF DeleteClient, Clientele, Served
  <2>4. ClientServes'
    BY <1>12, <2>1 DEF DeleteClient, Clientele, ClientServes, Served
  <2> QED
    BY <2>3, <2>4 DEF Clientele
<1>13. ASSUME NEW k \in Clients, NEW j \in Clients, CopyClient(k, j) PROVE Clientele'
  <2>1. UNCHANGED <<stage, held, dryices>>
    BY <1>13 DEF CopyClient
  <2>2. \A u \in Services : Hosted(u) => Hosted(u)'
    BY <1>1, <2>1
  <2>3. Served'
    BY <1>13, <2>1, <2>2 DEF CopyClient, Clientele, Served
  <2>4. ClientServes'
    BY <1>13, <2>1 DEF CopyClient, Clientele, ClientServes, Served
  <2> QED
    BY <2>3, <2>4 DEF Clientele
<1>14. ASSUME NEW k \in Clients, NEW j \in Clients, MoveClient(k, j) PROVE Clientele'
  <2>1. UNCHANGED <<stage, held, dryices>>
    BY <1>14 DEF MoveClient
  <2>2. \A u \in Services : Hosted(u) => Hosted(u)'
    BY <1>1, <2>1
  <2>3. Served'
    <3>1. /\ clients' = [clients EXCEPT ![j] = clients[k], ![k] = "null"] /\ k # j
          /\ UNCHANGED copied
      BY <1>14 DEF MoveClient
    <3>2. ASSUME NEW i \in Clients, clients'[i] \in Services
          PROVE  clients'[i] = clients[IF i = j THEN k ELSE i] /\ i # k
      BY <3>1, <3>2
    <3>3. ASSUME NEW i \in Clients, clients'[i] \in Services, clients'[i] \notin copied',
                 stage'[clients'[i]] = "running",
                 NEW h \in Clients, clients'[h] = clients'[i]
          PROVE  h = i
      <4>1. clients'[h] \in Services
        BY <3>3
      <4>2. /\ clients[IF h = j THEN k ELSE h] = clients'[i]
            /\ clients[IF i = j THEN k ELSE i] = clients'[i]
        BY <3>2, <3>3, <4>1
      <4>3. /\ stage[clients'[i]] = "running" /\ clients'[i] \notin copied
            /\ (IF h = j THEN k ELSE h) \in Clients /\ (IF i = j THEN k ELSE i) \in Clients
        BY <2>1, <3>1, <3>3
      <4>4. (IF h = j THEN k ELSE h) = (IF i = j THEN k ELSE i)
        BY <3>3, <4>2, <4>3 DEF Clientele, Served
      <4> QED
        BY <3>2, <3>3, <4>1, <4>4
    <3>4. ASSUME NEW i \in Clients, clients'[i] \in Services
          PROVE  /\ stage'[clients'[i]] \in Met
                 /\ stage'[clients'[i]] \in InHand => Hosted(clients[i])'
      <4>1. PICK u \in Services : \E h \in Clients : clients'[i] = u /\ clients[h] = u
        BY <3>2, <3>4
      <4>2. stage[u] \in Met /\ (stage[u] \in InHand => Hosted(u))
        BY <4>1 DEF Clientele, Served
      <4>3. stage'[u] = stage[u] /\ (Hosted(u) => Hosted(u)')
        BY <2>1, <2>2
      <4> QED
        BY <4>1, <4>2, <4>3 DEF Hosted
    <3> QED
      BY <3>3, <3>4 DEF Served
  <2>4. ClientServes'
    BY <1>14, <2>1 DEF MoveClient, Clientele, ClientServes, Served
  <2> QED
    BY <2>3, <2>4 DEF Clientele
<1> QED
  BY <1>3, <1>4, <1>5, <1>6, <1>7, <1>8, <1>9, <1>10, <1>11, <1>12, <1>13, <1>14 DEF Next

\* What a service remembers is its own, and what stop goes through is what it remembers.
Remembers == \A s \in Services :
  /\ \A w \in logWriters[s] : w[1] = s
  /\ stage[s] = "stopping" => todo[s] \subseteq logWriters[s]

\* One thread starts and stops services, one at a time.
Working(s) == stage[s] \in {"created"} \cup Starting \cup Stopping
Alone      == \A s, u \in Services : Working(s) /\ Working(u) => s = u

\* Some service was destroyed after a start that failed and has left a writer.
LostWriter == \E w \in writers : stage[w[1]] = "lost"

\* A service whose adapter is up although stop has gone through it, or whose start fails
\* because of that, and a process that ended in stop: each goes back to a lost writer.
Breaks ==
  /\ \A s \in Services : adapter[s] = "active" /\ stage[s] \in {"adapter", "failed"} => LostWriter
  /\ \A s \in Services : adapter[s] = "active" /\ aborted /\ stage[s] = "stopping" => LostWriter

Breaking == Remembers /\ Alone /\ Breaks

\* Every step keeps it: a lost writer stays, and only one that is lost cannot be reached.
LEMMA StepBreaking ==
  Typed /\ Hosting /\ OnlyOne /\ Registered /\ Breaking /\ [Next]_vars => Breaking'
<1> SUFFICES ASSUME Typed, Hosting, OnlyOne, Registered, Remembers, Alone, Breaks, [Next]_vars
             PROVE  Breaking'
  BY DEF Breaking
<1>1. Remembers' /\ Alone' /\ Breaks' => Breaking'
  BY Zenon DEF Breaking
<1> USE ServiceAssumption DEF Typed, Remembers, Alone, Working, own, process, dryice,
        client, Goto, Put, Stages, Starting, Stopping, Lasting
<1>2. CASE UNCHANGED vars
  BY <1>1, <1>2 DEF vars, Breaks, LostWriter
<1> SUFFICES ASSUME Next, ~aborted, UNCHANGED asserting PROVE Breaking'
  BY <1>2 DEF Next
<1>3. \A w \in writers : w \in Registers /\ w[1] \in Services
  BY DEF Registers
<1>4. ASSUME UNCHANGED <<writers, logWriters, todo, adapter, aborted>>,
             NEW s \in Services, \A u \in Services : u # s => stage'[u] = stage[u],
             stage[s] # "lost", stage'[s] \notin {"created", "stopping"},
             Working(s)' => Working(s) \/ \A u \in Services : ~Working(u),
             stage'[s] \in {"adapter", "failed"} =>
               adapter[s] # "active" \/ stage[s] \in {"adapter", "failed"}
      PROVE  Breaking'
  <2>1. LostWriter => LostWriter'
    BY <1>3, <1>4 DEF LostWriter
  <2>2. Breaks'
    BY <1>4, <2>1 DEF Breaks
  <2>3. Remembers'
    BY <1>4
  <2>4. \A u \in Services : u # s => Working(u)' = Working(u)
    BY <1>4
  <2>5. Alone'
    BY ONLY <1>4, <2>4, s \in Services, Alone DEF Alone
  <2> QED
    BY <1>1, <2>2, <2>3, <2>5
<1>5. ASSUME UNCHANGED <<stage, writers, logWriters, adapter>>,
             \/ UNCHANGED <<todo, aborted>>
             \/ UNCHANGED todo /\ \A s \in Services : stage[s] # "stopping"
      PROVE  Breaking'
  BY <1>1, <1>5 DEF Breaks, LostWriter
<1>6. ASSUME NEW s \in Services, Constructed(s), Free,
             UNCHANGED <<writers, logWriters, todo, adapter>>
      PROVE  Breaking'
  <2>1. stage' = [stage EXCEPT ![s] = "created"] /\ stage[s] = "none"
    BY <1>6, Zenon DEF Constructed
  <2>2. \A u \in Services : ~Working(u)
    BY <1>6 DEF Free
  <2>3. LostWriter => LostWriter'
    BY <1>3, <1>6, <2>1 DEF LostWriter
  <2>4. Breaks'
    BY <1>6, <2>1, <2>2, <2>3 DEF Breaks
  <2> QED
    BY <1>1, <1>6, <2>1, <2>2, <2>4
<1>7. ASSUME NEW s \in Services, Destructed(s), UNCHANGED writers, ~Working(s),
             NEW l \in {"gone", "lost"}, stage' = [stage EXCEPT ![s] = l],
             stage[s] # "lost",
             aborted' => \A u \in Services : ~Working(u),
             UNCHANGED adapter \/ adapter' = [adapter EXCEPT ![s] = "gone"]
      PROVE  Breaking'
  <2>1. LostWriter => LostWriter'
    BY <1>3, <1>7 DEF LostWriter
  <2>2. /\ logWriters' = [logWriters EXCEPT ![s] = {}]
        /\ todo' = [todo EXCEPT ![s] = {}]
    BY <1>7, Zenon DEF Destructed
  <2>3. Remembers' /\ Alone'
    BY <1>7, <2>2
  <2>4. Breaks'
    BY <1>7, <2>1 DEF Breaks
  <2> QED
    BY <1>1, <2>3, <2>4
<1>8. ASSUME NEW s \in Services, Life(s) PROVE Breaking'
  <2>1. CASE CreateInIceBox(s)
    BY <1>6, <2>1 DEF CreateInIceBox
  <2>2. CASE CreateThrows(s)
    <3>1. /\ stage[s] = "none" /\ stage'[s] = "gone"
          /\ \A u \in Services : u # s => stage'[u] = stage[u]
          /\ UNCHANGED <<writers, logWriters, todo, adapter, aborted>>
      BY <2>2 DEF CreateThrows
    <3> QED
      BY <1>4, <3>1
  <2>3. CASE Start(s)
    <3>1. stage'[s] = "adapter" /\ \A u \in Services : u # s => stage'[u] = stage[u]
      BY <2>3 DEF Start
    <3>2. \/ stage[s] = "created"
          \/ stage[s] \in {"stopped", "failed"} /\ \A u \in Services : ~Working(u)
      BY <2>3 DEF Start, Free
    <3>3. adapter[s] # "active" \/ stage[s] = "failed"
      BY <3>2 DEF Hosting, Adapters
    <3>4. UNCHANGED <<writers, logWriters, todo, adapter, aborted>>
      BY <2>3 DEF Start
    <3> QED
      BY <1>4, <3>1, <3>2, <3>3, <3>4
  <2>4. CASE CreateAdapter(s)
    <3>1. stage[s] = "adapter" /\ UNCHANGED <<writers, logWriters, aborted>>
      BY <2>4 DEF CreateAdapter
    <3>2. CASE adapter[s] \in {"none", "gone"}
      <4>1. /\ stage' = [stage EXCEPT ![s] = "loggers"]
            /\ adapter' = [adapter EXCEPT ![s] = "holding"]
            /\ todo' = [todo EXCEPT ![s] = Factories]
        BY <2>4, <3>2, Zenon DEF CreateAdapter
      <4>2. LostWriter => LostWriter'
        BY <1>3, <3>1, <4>1 DEF LostWriter
      <4>3. Breaks'
        BY <3>1, <4>1, <4>2 DEF Breaks
      <4> QED
        BY <1>1, <3>1, <4>1, <4>3
    <3>3. CASE adapter[s] \notin {"none", "gone"}
      <4>1. stage' = [stage EXCEPT ![s] = "failed"] /\ UNCHANGED <<adapter, todo>>
        BY <2>4, <3>3, Zenon DEF CreateAdapter
      <4>2. stage'[s] = "failed" /\ \A u \in Services : u # s => stage'[u] = stage[u]
        BY <4>1
      <4> QED
        BY <1>4, <3>1, <4>1, <4>2
    <3> QED
      BY <3>2, <3>3
  <2>5. CASE \E f \in Factories : ConfigureLogger(s, f)
    <3>1. PICK f \in Factories : ConfigureLogger(s, f)
      BY <2>5
    <3>2. /\ stage[s] = "loggers" /\ UNCHANGED <<adapter, aborted>>
          /\ stage' = stage \/ stage' = [stage EXCEPT ![s] = "failed"]
      BY <3>1, Zenon DEF ConfigureLogger
    <3> DEFINE w == <<s, f, run[s]>>
    <3>3. /\ writers' = writers \cup {w}
          /\ logWriters' = [logWriters EXCEPT ![s] = logWriters[s] \cup {w}]
          /\ todo' = [todo EXCEPT ![s] = todo[s] \ {f}]
      BY <3>1, Zenon DEF ConfigureLogger, Remembered
    <3>4. w[1] = s
      OBVIOUS
    <3> HIDE DEF w
    <3>5. LostWriter => LostWriter'
      BY <1>3, <3>2, <3>3 DEF LostWriter
    <3>6. Remembers'
      BY <3>2, <3>3, <3>4
    <3>7. Alone'
      BY <3>2
    <3>8. adapter[s] = "holding"
      BY <3>2 DEF Hosting, Adapters
    <3>9. Breaks'
      BY <3>2, <3>5, <3>8 DEF Breaks
    <3> QED
      BY <1>1, <3>6, <3>7, <3>9
  <2>6. CASE \E f \in Factories : SkipLogger(s, f)
    <3>1. /\ \A u \in Services : todo'[u] \subseteq todo[u]
          /\ UNCHANGED <<stage, writers, logWriters, adapter, aborted>>
      BY <2>6 DEF SkipLogger
    <3> QED
      BY <1>1, <3>1 DEF Breaks, LostWriter
  <2>7. CASE LoggersConfigured(s) \/ ApplyOptions(s) \/ ObjectsAdded(s)
    <3>1. /\ stage[s] \in {"loggers", "options", "objects"}
          /\ stage'[s] \in {"options", "objects", "activate"}
          /\ \A u \in Services : u # s => stage'[u] = stage[u]
          /\ UNCHANGED <<writers, logWriters, todo, adapter, aborted>>
      BY <2>7 DEF LoggersConfigured, ApplyOptions, ObjectsAdded
    <3> QED
      BY <1>4, <3>1
  <2>8. CASE AddObject(s)
    <3>1. /\ stage[s] = "objects" /\ UNCHANGED <<writers, logWriters, todo, adapter>>
          /\ \A u \in Services : stage[u] # "stopping"
      BY <2>8 DEF AddObject
    <3>2. \/ UNCHANGED stage
          \/ stage' = [stage EXCEPT ![s] = "failed"] /\ UNCHANGED aborted
      BY <2>8, Zenon DEF AddObject, Added
    <3>3. adapter[s] = "holding"
      BY <3>1 DEF Hosting, Adapters
    <3>4. CASE UNCHANGED stage
      BY <1>5, <3>1, <3>4
    <3>5. CASE stage' = [stage EXCEPT ![s] = "failed"] /\ UNCHANGED aborted
      <4>1. stage'[s] = "failed" /\ \A u \in Services : u # s => stage'[u] = stage[u]
        BY <3>5
      <4> QED
        BY <1>4, <3>1, <3>3, <3>5, <4>1
    <3> QED
      BY <3>2, <3>4, <3>5
  <2>9. CASE Activate(s)
    <3>1. /\ stage[s] = "activate" /\ stage' = [stage EXCEPT ![s] = "running"]
          /\ adapter' = [adapter EXCEPT ![s] = "active"]
          /\ UNCHANGED <<writers, logWriters, todo, aborted>>
      BY <2>9 DEF Activate
    <3>2. LostWriter => LostWriter'
      BY <1>3, <3>1 DEF LostWriter
    <3>3. Breaks'
      BY <3>1, <3>2 DEF Breaks
    <3> QED
      BY <1>1, <3>1, <3>3
  <2>10. CASE StartThrows(s)
    <3>1. /\ stage[s] \in Starting /\ stage'[s] = "failed"
          /\ \A u \in Services : u # s => stage'[u] = stage[u]
          /\ UNCHANGED <<writers, logWriters, todo, adapter, aborted>>
      BY <2>10 DEF StartThrows
    <3>2. adapter[s] # "active" \/ stage[s] = "adapter"
      BY <3>1 DEF Hosting, Adapters
    <3> QED
      BY <1>4, <3>1, <3>2
  <2>11. CASE Request(s) \/ Answer(s)
    BY <1>5, <2>11 DEF Request, Answer
  <2>12. CASE Stop(s)
    <3>1. /\ stage[s] = "running" /\ stage' = [stage EXCEPT ![s] = "stopping"]
          /\ todo' = [todo EXCEPT ![s] = logWriters[s]]
          /\ UNCHANGED <<writers, logWriters, adapter, aborted>>
      BY <2>12 DEF Stop, LoggersFirst
    <3>2. \A u \in Services : ~Working(u)
      BY <2>12 DEF Stop, Free, Hosting, Quiet
    <3>3. LostWriter => LostWriter'
      BY <1>3, <3>1 DEF LostWriter
    <3>4. Breaks'
      BY <3>1, <3>3 DEF Breaks
    <3> QED
      BY <1>1, <3>1, <3>2, <3>4
  <2>13. CASE RemoveLogger(s)
    <3>1. PICK w \in todo[s] : /\ writers' = writers \ {w}
                               /\ todo' = [todo EXCEPT ![s] = todo[s] \ {w}]
                               /\ \/ UNCHANGED <<stage, aborted>>
                                  \/ WritersThrow /\ UNCHANGED stage
                                  \/ /\ WritersThrow /\ UNCHANGED aborted
                                     /\ stage' = [stage EXCEPT ![s] = "failed"]
      BY <2>13, Zenon DEF RemoveLogger
    <3>2. stage[s] = "stopping" /\ UNCHANGED <<logWriters, adapter, run>>
      BY <2>13, Zenon DEF RemoveLogger
    <3>3. w[1] = s
      BY <3>2
    <3>4. LostWriter => LostWriter'
      BY <1>3, <3>1, <3>2, <3>3 DEF LostWriter
    <3>5. WritersThrow => LostWriter'
      <4>1. SUFFICES ASSUME WritersThrow PROVE LostWriter'
        OBVIOUS
      <4>2. PICK v \in writers' : ~Reachable(v)
        BY <4>1, Zenon DEF WritersThrow
      <4>3. v \in writers /\ stage[v[1]] = "lost"
        BY <3>1, <4>2 DEF Registered
      <4>4. stage'[v[1]] = "lost"
        BY <1>3, <3>1, <3>2, <4>3
      <4> QED
        BY <4>2, <4>4 DEF LostWriter
    <3>6. /\ \A u \in Services : todo'[u] \subseteq todo[u]
          /\ \A u \in Services : stage'[u] = stage[u] \/ (u = s /\ stage'[u] = "failed")
      BY <3>1
    <3>7. Remembers' /\ Alone'
      BY <3>2, <3>6
    <3>8. Breaks'
      <4>1. CASE WritersThrow
        BY <3>5, <4>1 DEF Breaks
      <4>2. CASE UNCHANGED <<stage, aborted>>
        BY <3>2, <3>4, <4>2 DEF Breaks
      <4> QED
        BY <3>1, <4>1, <4>2
    <3> QED
      BY <1>1, <3>7, <3>8
  <2>14. CASE Deactivate(s) \/ DestroyAdapter(s)
    <3>1. /\ stage[s] \in Stopping
          /\ \E l \in {"deactivated", "stopped"} : stage' = [stage EXCEPT ![s] = l]
          /\ \E l \in {"deactivated", "gone"} : adapter' = [adapter EXCEPT ![s] = l]
          /\ UNCHANGED <<writers, logWriters, todo, aborted>>
      BY <2>14 DEF Deactivate, DestroyAdapter
    <3>2. LostWriter => LostWriter'
      BY <1>3, <3>1 DEF LostWriter
    <3>3. Breaks'
      BY <3>1, <3>2 DEF Breaks
    <3> QED
      BY <1>1, <3>1, <3>3
  <2>15. CASE DestroyInIceBox(s) \/ DropService(s)
    <3>1. /\ Destructed(s) /\ UNCHANGED writers /\ Free
          /\ stage[s] \in {"stopped", "failed", "kept"}
          /\ \E l \in {"gone", "lost"} : stage' = [stage EXCEPT ![s] = l]
          /\ UNCHANGED adapter \/ adapter' = [adapter EXCEPT ![s] = "gone"]
      BY <2>15, Zenon DEF DestroyInIceBox, DropService
    <3>2. \A u \in Services : ~Working(u)
      BY <3>1 DEF Free
    <3> QED
      BY <1>7, <3>1, <3>2
  <2>16. CASE DestroyDryIce(s) \/ DryIceThrows(s)
    <3>1. /\ UNCHANGED <<writers, adapter>> /\ stage[s] \in {"stopped", "failed"}
          /\ \/ Destructed(s) /\ \E l \in {"gone", "lost"} : stage' = [stage EXCEPT ![s] = l]
             \/ /\ stage' = [stage EXCEPT ![s] = "kept"]
                /\ UNCHANGED <<logWriters, todo, aborted>>
      BY <2>16, Zenon DEF DestroyDryIce, DryIceThrows
    <3>2. CASE Destructed(s) /\ \E l \in {"gone", "lost"} : stage' = [stage EXCEPT ![s] = l]
      <4>1. asserting => current = s
        BY <3>1 DEF OnlyOne, SecondStopped, Alive
      <4>2. aborted' = (asserting /\ current = None)
        BY <3>2, Zenon DEF Destructed
      <4>3. aborted' => \A u \in Services : ~Working(u)
        BY <4>1, <4>2
      <4> QED
        BY <1>7, <3>1, <3>2, <4>3
    <3>3. CASE /\ stage' = [stage EXCEPT ![s] = "kept"]
               /\ UNCHANGED <<logWriters, todo, aborted>>
      <4>1. stage'[s] = "kept" /\ \A u \in Services : u # s => stage'[u] = stage[u]
        BY <3>3
      <4> QED
        BY <1>4, <3>1, <3>3, <4>1
    <3> QED
      BY <3>1, <3>2, <3>3
  <2> QED
    BY <1>8, <2>1, <2>2, <2>3, <2>4, <2>5, <2>6, <2>7, <2>8, <2>9, <2>10, <2>11, <2>12, <2>13,
       <2>14, <2>15, <2>16 DEF Life
<1>9. ASSUME NEW d \in DryIces, NEW s \in Services, CreateDryIce(d, s) PROVE Breaking'
  BY <1>6, <1>9 DEF CreateDryIce
<1>10. ASSUME NEW s \in Services, \/ \E n \in Names : ReplaceRemove(s, n)
                                  \/ ReplaceAdd(s)
      PROVE  Breaking'
  BY <1>5, <1>10 DEF ReplaceRemove, ReplaceAdd
<1>11. ASSUME NEW d \in DryIces, \/ CreateDryIceAborts(d) \/ DestroyMoved(d)
                                 \/ \E e \in DryIces : Move(d, e)
       PROVE  Breaking'
  BY <1>5, <1>11 DEF CreateDryIceAborts, DestroyMoved, Move, Free
<1>12. ASSUME NEW k \in Clients, \/ NewClient(k) \/ DeleteClient(k)
                                 \/ \E j \in Clients : CopyClient(k, j) \/ MoveClient(k, j)
       PROVE  Breaking'
  BY <1>5, <1>12 DEF NewClient, DeleteClient, CopyClient, MoveClient, Free
<1> QED
  BY <1>8, <1>9, <1>10, <1>11, <1>12 DEF Next

(***************************************************************************)
(* The theorems                                                            *)
(***************************************************************************)

\* The inductive invariant.
Inv == Typed /\ Running /\ Hosting /\ OnlyOne /\ Registered /\ Cubes /\ Clientele /\ Breaking

\* The inductive invariant holds in every reachable state.
THEOREM InvAlways == Spec => []Inv
<1>1. Init => Inv
  <2> SUFFICES ASSUME Init PROVE Inv
    OBVIOUS
  <2>1. Typed /\ Running
    <3>1. \A s \in Services : Len(Adds[s]) \in Nat
      BY ServiceAssumption
    <3>2. aborted \in BOOLEAN
      BY Zenon DEF Init
    <3> QED
      BY <3>1, <3>2, ServiceAssumption DEF Init, Typed, Running, Stages
  <2>2. Hosting
    BY DEF Init, Hosting, Adapters, Hosts, CurrentHosts, Quiet
  <2>3. OnlyOne
    BY ServiceAssumption DEF Init, OnlyOne, Alive, Starting, Stopping, Lasting
  <2>4. Registered /\ Cubes
    BY DEF Init, Registered, Cubes, CubesOf
  <2>5. Clientele
    BY ServiceAssumption DEF Init, Clientele, Served, ClientServes
  <2>6. Breaking
    <3>1. \A s \in Services : stage[s] = "none" /\ logWriters[s] = {}
      BY DEF Init
    <3> QED
      BY <3>1 DEF Breaking, Remembers, Alone, Working, Breaks, Starting, Stopping
  <2> QED
    BY <2>1, <2>2, <2>3, <2>4, <2>5, <2>6 DEF Inv
<1>2. Inv /\ [Next]_vars => Inv'
  BY StepTyped, StepHosts, StepOnlyOne, StepRegistered, StepCubes, StepClientele, StepBreaking
     DEF Inv, Hosting
<1> QED
  BY <1>1, <1>2, PTL DEF Spec

\* Every variable has its type at every moment: a writer and a cube's proxy belong to a
\* start that has happened.
THEOREM TypeCorrect == Spec => []TypeOK
<1>1. Typed => TypeOK
  <2> SUFFICES ASSUME Typed PROVE TypeOK
    OBVIOUS
  <2>1. \A s \in Services : logWriters[s] \subseteq Registers
    BY DEF Typed
  <2>2. UNION {logWriters[s] : s \in Services} \subseteq Registers
    BY <2>1
  <2>3. \A s \in Services : cube[s] \subseteq {TypeOf[n] : n \in Names} \X (1 .. MaxRuns)
    BY DEF Typed, CubeItems
  <2> QED
    BY <2>2, <2>3 DEF Typed, TypeOK, Registers
<1> QED
  BY <1>1, InvAlways, PTL DEF Inv

\* The LogManager has no writer it cannot call, whatever starts failed and at which step,
\* as long as the service is not destroyed after one that did.
THEOREM WritersReachable == Spec => []WritersServed
<1>1. Registered => WritersServed
  BY DEF Registered, WritersServed
<1> QED
  BY <1>1, InvAlways, PTL DEF Inv

\* A service that stop has gone through has no writer left in the LogManager.
THEOREM StopIsClean == Spec => []StopLeavesNoWriter
<1>1. Hosting /\ Registered /\ Typed => StopLeavesNoWriter
  BY DEF Hosting, Adapters, Registered, Reachable, StopLeavesNoWriter
<1> QED
  BY <1>1, InvAlways, PTL DEF Inv

\* A stop that breaks off, or ends the process, goes back to a service that was destroyed
\* after a start that failed.
THEOREM StopBreaks == Spec => []StopBreaksOnLostOnly
<1>1. Breaking => StopBreaksOnLostOnly
  BY DEF Breaking, Breaks, LostWriter, StopBreaksOnLostOnly
<1> QED
  BY <1>1, InvAlways, PTL DEF Inv

\* A request finds its own service in Service::current, from its first step to its last, in
\* a build with assertions or a process with Options.
THEOREM ServiceFound == Spec => []RequestsFindService
<1>1. Typed /\ Hosting /\ OnlyOne => RequestsFindService
  BY DEF Typed, Hosting, Adapters, OnlyOne, RequestsFindService
<1> QED
  BY <1>1, InvAlways, PTL DEF Inv

\* The Options are registered as long as a request runs, in every build.
THEOREM OptionsFound == Spec => []RequestsFindOptions
<1>1. Typed /\ Hosting /\ OnlyOne => RequestsFindOptions
  BY ServiceAssumption DEF Typed, Hosting, Adapters, OnlyOne, SecondStopped, RequestsFindOptions
<1> QED
  BY <1>1, InvAlways, PTL DEF Inv

\* In a service that runs the cube has no proxy of an earlier start, in a build with
\* assertions or a process with Options.
THEOREM CubeCurrent == Spec => []CubeIsCurrent
<1>1. Cubes => CubeIsCurrent
  BY DEF Cubes, CubesOf, CubeIsCurrent
<1> QED
  BY <1>1, InvAlways, PTL DEF Inv

\* A client that nobody copied has an active adapter as long as its service runs.
THEOREM ClientsServed == Spec => []ClientServes
<1>1. Clientele => ClientServes
  BY DEF Clientele
<1> QED
  BY <1>1, InvAlways, PTL DEF Inv
=============================================================================
