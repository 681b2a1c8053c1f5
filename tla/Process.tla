------------------------------ MODULE Process ------------------------------
(***************************************************************************)
(* The life of a squick process: main, its PluginServers, the              *)
(* PluginManager of each and the plugins (shared libraries) that register  *)
(* modules with it.  The main thread starts every server in turn (load the *)
(* libraries in the order of the configuration, then one phase after the   *)
(* other over the plugins in the order of their names), turns the update   *)
(* loop until a signal, and ends every server in turn.                     *)
(*                                                                         *)
(* The main thread is in a step of the program of one server: `stage', `at' *)
(* and `step' say which, `busy' what of it is going on.  A signal handler   *)
(* runs between any two of its actions.                                    *)
(*                                                                         *)
(* Of what the modules do in their phases two things are modelled: the     *)
(* request to reload that a node's module takes, and the configuration     *)
(* (Config), which ClassModule and ElementModule read when they awake, one *)
(* after the other, and all others use from their Start on.                *)
(***************************************************************************)
EXTENDS Integers, Sequences, SequencesExt, FiniteSets, Config

CONSTANTS
    Servers,     \* serverList: the servers of this process, a sequence
    Names,       \* all plugins, a sequence in the order of their names
    AppName,     \* [server -> its name, of the type and the id]
    File,        \* [server -> its xml file: a sequence of named lists of plugins]
    Install,     \* [plugin -> sequence of interfaces]: what it registers
    Updated,     \* the interfaces whose modules have is_update_
    Faces,       \* all interfaces, a sequence in the order of their names
    NodeFace,    \* the interface of the module that takes reload requests
    ClassFace,   \* IClassModule
    ElementFace, \* IElementModule
    MaxReload    \* bound: requests to reload

Server == Range(Servers)
Plugin == Range(Names)
Face   == Range(Faces)
Module == {m \in Plugin \X Face : m[2] \in Range(Install[m[1]])}

\* PluginManager::LoadPluginConfig: the list under the server's own name if
\* the file has one, else every list; a plugin as often as it is listed.
Listed == [s \in Server |->
    LET Own == SelectSeq(File[s], LAMBDA n : n.name = AppName[s])
        Lists == IF Own # <<>> THEN <<Own[1]>> ELSE File[s]
    IN  FlattenSeq([i \in DOMAIN Lists |-> Lists[i].list])]

\* A server is one object of the list; a plugin registers an interface once.
ASSUME ProcessAssumption ==
    /\ Servers \in Seq(Server) /\ IsInjective(Servers)
    /\ Install \in [Plugin -> Seq(Face)] /\ \A p \in Plugin : IsInjective(Install[p])
    /\ Listed \in [Server -> Seq(Plugin)]
    /\ Updated \subseteq Face /\ NodeFace \in Updated
    /\ ClassFace \in Face /\ ElementFace \in Face
    /\ MaxReload \in Nat

Boot == <<"Awake", "Start", "AfterStart", "CheckConfig", "ReadyUpdate">>
Stop == <<"BeforeDestroy", "Destroy", "Finalize">>
Asserted == {"Awake", "Start", "AfterStart"}
Phase == {"Awake", "Start", "AfterStart", "CheckConfig", "ReadyUpdate",
          "BeforeDestroy", "Destroy", "Finalize"}

VARIABLES
    stage,     \* "boot", "loop", "final", then "ended"; or "dead", "stuck"
    at,        \* the server the main thread is at, an index of Servers
    step,      \* the step of its program it is at
    busy,      \* "no", "install", "phase", "update", "uninstall": what it is in
    next,      \* the next interface to install, or module to update
    left,      \* the modules the phase has still to call
    reading,   \* what the Awake that was called has still to read
    libs,      \* mPluginLibMap and mPluginInstanceMap: the loaded plugins
    map,       \* mModuleInstanceMap: [server -> interface -> module]
    vec,       \* mNeedUpdateModuleVec: [server -> sequence of modules]
    own,       \* the IPlugin::mModules: [server -> modules]
    reached,   \* [server -> module -> the last phase it has done]
    freed,     \* [server -> deleted modules]
    quit,      \* ~squick_loop_
    reload,    \* squick_reload_state > 0
    state,     \* the loop's copy of it
    asked,     \* servers with a reload request not followed by a Reload
    asks,      \* requests so far, bounded by MaxReload
    include,   \* what the files of the configuration include
    classes,   \* [server -> the classes its ClassModule has]
    elements   \* [server -> the elements its ElementModule has]

thread == <<stage, at, step, busy, next, left>>
config == <<include, classes, elements>>
maps == <<libs, map, vec, own, freed>>
loop == <<quit, reload, state, asked, asks>>
procVars == <<thread, reading, maps, reached, loop, config>>

LoadStep(p)   == [op |-> "load", arg |-> p]
PhaseStep(k)  == [op |-> "phase", arg |-> k]
UnloadStep(p) == [op |-> "unload", arg |-> p]

\* (A server that wakes its plugins as it loads them.)
StartAsLoaded(s) ==
    FlattenSeq([i \in DOMAIN Listed[s] |->
                   <<LoadStep(Listed[s][i]), PhaseStep("Awake")>>])
    \o [i \in 1..4 |-> PhaseStep(Boot[i + 1])]

\* PluginServer::Start and PluginServer::Final.
StartSteps(s) == [i \in DOMAIN Listed[s] |-> LoadStep(Listed[s][i])]
                 \o [i \in DOMAIN Boot |-> PhaseStep(Boot[i])]
FinalSteps(s) == [i \in DOMAIN Stop |-> PhaseStep(Stop[i])]
                 \o [i \in DOMAIN Listed[s] |-> UnloadStep(Listed[s][i])]

\* What the loop in main does for each server in a turn.
TurnSteps(s) == <<[op |-> "update", arg |-> "Update"], [op |-> "reload", arg |-> "Reload"]>>

Steps(s) == CASE stage = "boot" -> StartSteps(s)
              [] stage = "final" -> FinalSteps(s)
              [] OTHER -> TurnSteps(s)

Running == stage \in {"boot", "loop", "final"} /\ at \in DOMAIN Servers
Here    == Servers[at]
InStep  == Running /\ step \in DOMAIN Steps(Here)
Doing   == Steps(Here)[step].arg
Comes(op) == InStep /\ busy = "no" /\ Steps(Here)[step].op = op

\* The phases walk the plugins in the order of their names, and the modules
\* of each in the order of their interfaces.
Place(q, x) == CHOOSE i \in DOMAIN q : q[i] = x
Earlier(m, n) ==
    \/ Place(Names, m[1]) < Place(Names, n[1])
    \/ m[1] = n[1] /\ Place(Faces, m[2]) < Place(Faces, n[2])
ComesNext(m) == m \in left /\ \A n \in left : ~Earlier(n, m)

\* FindModule, Modules: what the modules of a server can get hold of.
NoModule == <<>>
FindModule(s, f) == map[s][f]
Modules(s) == {map[s][f] : f \in Face} \ {NoModule}

ProcessInit ==
    /\ stage = "boot" /\ at = 1 /\ step = 1
    /\ busy = "no" /\ next = 1 /\ left = {} /\ reading = <<>>
    /\ libs = [s \in Server |-> {}]
    /\ map = [s \in Server |-> [f \in Face |-> NoModule]]
    /\ vec = [s \in Server |-> <<>>] /\ own = [s \in Server |-> {}]
    /\ reached = [s \in Server |-> [m \in Module |-> "none"]]
    /\ freed = [s \in Server |-> {}]
    /\ quit = FALSE /\ reload = FALSE /\ state = FALSE
    /\ asked = {} /\ asks = 0
    /\ include \in Includes
    /\ classes = [s \in Server |-> <<>>] /\ elements = [s \in Server |-> <<>>]

\* The step of the program is over, or its loop of calls begins.
Over == step' = step + 1 /\ busy' = "no" /\ next' = 1 /\ left' = {}
        /\ UNCHANGED <<stage, at>>
Begin(what, ms) == busy' = what /\ next' = 1 /\ left' = ms
                   /\ UNCHANGED <<stage, at, step>>
GoTo(st, i) == stage' = st /\ at' = i /\ step' = 1 /\ busy' = "no" /\ next' = 1 /\ left' = {}
Onward == next' = next + 1 /\ UNCHANGED <<stage, at, step, busy, left>>
-----------------------------------------------------------------------------
\* LoadPluginLibrary and SquickPluginLoad, up to the plugin's Install.
Load ==
    /\ Comes("load")
    /\ IF Doing \in libs[Here] THEN Over /\ UNCHANGED libs
       ELSE Begin("install", {}) /\ libs' = [libs EXCEPT ![Here] = @ \cup {Doing}]
    /\ UNCHANGED <<reading, map, vec, own, freed, reached, loop, config>>

\* The library cannot be loaded: assert(0).
LoadFails ==
    /\ Comes("load") /\ Doing \notin libs[Here]
    /\ GoTo("dead", at)
    /\ UNCHANGED <<reading, maps, reached, loop, config>>

\* (A manager that puts the second module on the update list too.)
AddModuleTwice(s, f, m) ==
    /\ map' = IF map[s][f] # NoModule THEN map ELSE [map EXCEPT ![s][f] = m]
    /\ vec' = IF f \in Updated THEN [vec EXCEPT ![s] = Append(@, m)] ELSE vec

\* The first module of an interface stays, a second is ignored.
AddModule(s, f, m) ==
    IF map[s][f] # NoModule THEN UNCHANGED <<map, vec>>
    ELSE /\ map' = [map EXCEPT ![s][f] = m]
         /\ vec' = IF f \in Updated THEN [vec EXCEPT ![s] = Append(@, m)] ELSE vec

\* REGISTER_MODULE: the plugin keeps its module in any case.
Register ==
    /\ InStep /\ busy = "install" /\ next \in DOMAIN Install[Doing] /\ Onward
    /\ LET f == Install[Doing][next]
       IN  /\ AddModule(Here, f, <<Doing, f>>)
           /\ own' = [own EXCEPT ![Here] = @ \cup {<<Doing, f>>}]
    /\ UNCHANGED <<reading, libs, freed, reached, loop, config>>

Installed ==
    /\ InStep /\ busy = "install" /\ next \notin DOMAIN Install[Doing] /\ Over
    /\ UNCHANGED <<reading, maps, reached, loop, config>>

\* PluginManager::Awake ... Finalize: one call per module.
StartPhase ==
    /\ Comes("phase") /\ Begin("phase", own[Here])
    /\ UNCHANGED <<reading, maps, reached, loop, config>>

\* Awake of ClassModule and of ElementModule: one read per class.
ReadSteps(m) ==
    LET Each(op) == [i \in DOMAIN Classes |-> [op |-> op, arg |-> Classes[i]]]
    IN  CASE Doing = "Awake" /\ m[2] = ClassFace -> Each("class")
          [] Doing = "Awake" /\ m[2] = ElementFace -> Each("rows")
          [] OTHER -> <<>>

\* Both forget all they have in Destroy; the Reload of both does nothing.
Forget(m) ==
    /\ classes' = [classes EXCEPT ![Here] =
                      IF Doing = "Destroy" /\ m[2] = ClassFace THEN <<>> ELSE @]
    /\ elements' = [elements EXCEPT ![Here] =
                      IF Doing = "Destroy" /\ m[2] = ElementFace THEN <<>> ELSE @]

\* The module's own Awake ... Finalize, or Reload.
Call ==
    /\ InStep /\ busy = "phase" /\ reading = <<>>
    /\ \E m \in left :
        /\ ComesNext(m)
        /\ left' = left \ {m} /\ reading' = ReadSteps(m)
        /\ reached' = IF Doing = "Reload" THEN reached
                      ELSE [reached EXCEPT ![Here][m] = Doing]
        /\ Forget(m)
    /\ UNCHANGED <<stage, at, step, busy, next, maps, loop, include>>

\* A module whose Awake, Start or AfterStart returns false: assert(0).
CallFails ==
    /\ InStep /\ busy = "phase" /\ reading = <<>> /\ left # {} /\ Doing \in Asserted
    /\ GoTo("dead", at)
    /\ UNCHANGED <<reading, maps, reached, loop, config>>

Called ==
    /\ InStep /\ busy = "phase" /\ reading = <<>> /\ left = {} /\ Over
    /\ UNCHANGED <<reading, maps, reached, loop, config>>

Reads(op) == reading # <<>> /\ Head(reading).op = op

LoadClass ==
    /\ Reads("class") /\ reading' = Tail(reading)
    /\ LET class == Head(reading).arg
       IN  classes' = [classes EXCEPT ![Here] =
                         @ @@ (class :> AddClass(include, @, class))]
    /\ UNCHANGED <<thread, maps, reached, loop, include, elements>>

LoadElements ==
    /\ Reads("rows") /\ reading' = Tail(reading)
    /\ LET class == Head(reading).arg
       IN  elements' = IF class \notin DOMAIN classes[Here] THEN elements
                       ELSE [elements EXCEPT ![Here] = LoadRows(classes[Here], class, @)]
    /\ UNCHANGED <<thread, maps, reached, loop, include, classes>>

\* ClassModule does not catch what rapidxml throws at a file it cannot
\* parse, nor look whether there is a root.  Where SQUICK_ASSERT is an
\* assertion a property declared anew, or a second row of an id, ends the
\* process as well.
ClassFails ==
    /\ Reads("class")
    /\ GoTo("dead", at) /\ reading' = <<>>
    /\ UNCHANGED <<maps, reached, loop, config>>
RowsFail ==
    /\ Reads("rows")
    /\ Head(reading).arg \in DOMAIN classes[Here] /\ RowTwice(Head(reading).arg)
    /\ GoTo("dead", at) /\ reading' = <<>>
    /\ UNCHANGED <<maps, reached, loop, config>>

\* When a file cannot be parsed ElementModule::Load goes on with the same
\* one: the main thread never comes out of it.
LoadSpins ==
    /\ Reads("rows") /\ Head(reading).arg \in DOMAIN classes[Here]
    /\ GoTo("stuck", at) /\ reading' = <<>>
    /\ UNCHANGED <<maps, reached, loop, config>>

\* for (auto item : serverList).
NextServer ==
    /\ Running /\ step \notin DOMAIN Steps(Here) /\ GoTo(stage, at + 1)
    /\ UNCHANGED <<reading, maps, reached, loop, config>>

Booted ==
    /\ stage = "boot" /\ at \notin DOMAIN Servers /\ GoTo("loop", 0)
    /\ UNCHANGED <<reading, maps, reached, loop, config>>

-----------------------------------------------------------------------------
\* The loop in main: while (squick_loop_), and what a turn begins with.
BeginTurn ==
    /\ stage = "loop" /\ at = 0
    /\ IF quit THEN GoTo("final", 1) /\ state' = state
               ELSE GoTo("loop", 1) /\ state' = reload
    /\ UNCHANGED <<reading, maps, reached, quit, reload, asked, asks, config>>

\* PluginManager::Update: one call per module of the update list.
UpdateServer ==
    /\ Comes("update") /\ Begin("update", {})
    /\ UNCHANGED <<reading, maps, reached, loop, config>>

\* NodeModule::OnNReqReload, called by the net modules' Update when the
\* master asks this node to reload.
OnNReqReload(s) ==
    /\ asks < MaxReload
    /\ asks' = asks + 1 /\ asked' = asked \cup {s} /\ reload' = TRUE

UpdateModule ==
    /\ InStep /\ busy = "update" /\ next \in DOMAIN vec[Here] /\ Onward
    /\ \/ UNCHANGED <<reload, asked, asks>>
       \/ vec[Here][next][2] = NodeFace /\ OnNReqReload(Here)
    /\ UNCHANGED <<reading, maps, reached, quit, state, config>>

UpdatedAll ==
    /\ InStep /\ busy = "update" /\ next \notin DOMAIN vec[Here] /\ Over
    /\ UNCHANGED <<reading, maps, reached, loop, config>>

\* if (state > 0) item->Reload(state): every module of the server.
ReloadServer ==
    /\ Comes("reload")
    /\ IF state THEN Begin("phase", own[Here]) /\ asked' = asked \ {Here}
                ELSE Over /\ asked' = asked
    /\ UNCHANGED <<reading, maps, reached, quit, reload, state, asks, config>>

\* (A loop that clears the state of every turn.)
ClearAlways == reload' = FALSE

ClearState == reload' = (reload /\ ~state)

EndTurn ==
    /\ stage = "loop" /\ at = Len(Servers) + 1 /\ GoTo("loop", 0)
    /\ ClearState
    /\ UNCHANGED <<reading, maps, reached, quit, state, asked, asks, config>>

\* SquickExit, the handler of SIGINT and SIGTERM.
Signal ==
    /\ stage \in {"boot", "loop"} /\ ~quit
    /\ quit' = TRUE
    /\ UNCHANGED <<thread, reading, maps, reached, reload, state, asked, asks, config>>

-----------------------------------------------------------------------------
\* UnLoadPluginLibrary and SquickPluginUnload, up to the plugin's Uninstall.
Unload ==
    /\ Comes("unload")
    /\ IF Doing \in libs[Here] THEN Begin("uninstall", {}) ELSE Over
    /\ UNCHANGED <<reading, maps, reached, loop, config>>

\* The module of the interface leaves the map and the update list.
RemoveModule(s, f) ==
    IF map[s][f] = NoModule THEN UNCHANGED <<map, vec>>
    ELSE /\ map' = [map EXCEPT ![s][f] = NoModule]
         /\ vec' = IF \E i \in DOMAIN vec[s] : vec[s][i][2] = f
                   THEN [vec EXCEPT ![s] =
                           RemoveAt(@, CHOOSE i \in DOMAIN @ : @[i][2] = f)]
                   ELSE vec

\* UNREGISTER_MODULE: whatever module the manager finds under the interface
\* is removed and deleted.
Unregister ==
    /\ InStep /\ busy = "uninstall" /\ next \in DOMAIN Install[Doing] /\ Onward
    /\ LET f == Install[Doing][next]
       IN  /\ RemoveModule(Here, f)
           /\ freed' = [freed EXCEPT ![Here] = @ \cup ({FindModule(Here, f)} \ {NoModule})]
           /\ own' = [own EXCEPT ![Here] = @ \ {<<Doing, f>>}]
    /\ UNCHANGED <<reading, libs, reached, loop, config>>

\* The rest of PluginManager::UnRegistered and of the unloading.
Uninstalled ==
    /\ InStep /\ busy = "uninstall" /\ next \notin DOMAIN Install[Doing] /\ Over
    /\ libs' = [libs EXCEPT ![Here] = @ \ {Doing}]
    /\ UNCHANGED <<reading, map, vec, own, freed, reached, loop, config>>

Ended ==
    /\ stage = "final" /\ at \notin DOMAIN Servers /\ GoTo("ended", at)
    /\ UNCHANGED <<reading, maps, reached, loop, config>>

MainThread ==
    \/ Load \/ LoadFails \/ Register \/ Installed
    \/ StartPhase \/ Call \/ CallFails \/ Called
    \/ LoadClass \/ ClassFails \/ LoadElements \/ RowsFail \/ LoadSpins
    \/ NextServer \/ Booted
    \/ BeginTurn \/ UpdateServer \/ UpdateModule \/ UpdatedAll
    \/ ReloadServer \/ EndTurn
    \/ Unload \/ Unregister \/ Uninstalled \/ Ended
ProcessNext == MainThread \/ Signal
\* The main thread runs.
ProcessSpec == ProcessInit /\ [][ProcessNext]_procVars /\ WF_procVars(MainThread)

-----------------------------------------------------------------------------
ProcessTypeOK ==
    /\ stage \in {"boot", "loop", "final", "ended", "stuck", "dead"}
    /\ at \in 0..(Len(Servers) + 1) /\ step \in Nat \ {0} /\ next \in Nat \ {0}
    /\ busy \in {"no", "install", "phase", "update", "uninstall"}
    /\ left \subseteq Module
    /\ libs \in [Server -> SUBSET Plugin]
    /\ map \in [Server -> [Face -> Module \cup {NoModule}]]
    /\ vec \in [Server -> Seq(Module)]
    /\ own \in [Server -> SUBSET Module]
    /\ reached \in [Server -> [Module -> Phase \cup {"none"}]]
    /\ freed \in [Server -> SUBSET Module]
    /\ quit \in BOOLEAN /\ reload \in BOOLEAN /\ state \in BOOLEAN
    /\ asked \subseteq Server /\ asks \in 0..MaxReload

Calling == InStep /\ busy \in {"phase", "update"}

\* The modules the main thread is about to call.
Pending == left \cup
    IF Calling /\ busy = "update"
    THEN {vec[Here][i] : i \in {j \in DOMAIN vec[Here] : j >= next}} ELSE {}

Alive(s, m) == m \in Module /\ m \notin freed[s] /\ m[1] \in libs[s]

\* What the manager can still call exists: the update list holds each
\* module of the map that wants updates once and nothing else, a module
\* that can be found or updated is not deleted and the library with its
\* code is loaded, and so is every module a plugin will be asked to end.
\* Two plugins that register the same interface, and a library that the
\* configuration lists twice, do not change it (PluginManager::AddModule,
\* RemoveModule, UNREGISTER_MODULE).
ModulesLive ==
    /\ ProcessTypeOK
    /\ \A s \in Server :
        /\ IsInjective(vec[s])
        /\ Range(vec[s]) = {m \in Modules(s) : m[2] \in Updated}
        /\ \A f \in Face :
              LET m == FindModule(s, f) IN m # NoModule => m[2] = f /\ Alive(s, m)
    /\ \A m \in Pending : Alive(Here, m)

Before(k) == CASE k = "Awake" -> "none"
               [] k = "Start" -> "Awake"
               [] k = "AfterStart" -> "Start"
               [] k = "CheckConfig" -> "AfterStart"
               [] k = "ReadyUpdate" -> "CheckConfig"
               [] k \in {"Update", "Reload", "BeforeDestroy"} -> "ReadyUpdate"
               [] k = "Destroy" -> "BeforeDestroy"
               [] k = "Finalize" -> "Destroy"

Loaded(s) == {m \in Module : m[1] \in libs[s]}

\* No module enters a phase before all modules of its server have left the
\* one before, none is updated or reloaded before all are ready or after
\* one has been told to stop, and no library of the server is unloaded
\* before the last of its modules is finalized: what a module finds in one
\* phase has always been through the phase before, whatever the order of
\* the names and of the configuration.
PhaseBarrier ==
    /\ Calling =>
        /\ \A m \in Loaded(Here) :
              reached[Here][m] \in {Before(Doing)} \cup ({Doing} \cap Phase)
        /\ \A m \in left : reached[Here][m] = Before(Doing)
    /\ InStep /\ Steps(Here)[step].op = "unload" =>
        \A m \in Loaded(Here) : reached[Here][m] = "Finalize"

\* Whatever a module looks up in the configuration from its Start to its
\* BeforeDestroy is all there and means what the files say, although it is
\* the order of two names that has the classes loaded before the elements
\* (ClassModule::Awake, ElementModule::Awake).  Of a property declared twice
\* and of two rows of an id the first counts, in the builds whose
\* SQUICK_ASSERT does nothing; in the others the process is dead by then.
ConfigRight ==
    Calling /\ Doing \notin {"Awake", "Destroy", "Finalize"} =>
        LET Has(f) == FindModule(Here, f) # NoModule
        IN  /\ Has(ClassFace) => ClassesMean(include, classes[Here])
            /\ Has(ClassFace) /\ Has(ElementFace) => ElementsMean(include, elements[Here])

\* A node that is asked to reload does: the server whose module took the
\* request runs a Reload after it, unless the process is told to stop.  The
\* request may come before or after the loop has read the state, in a turn
\* that reloads or in one that does not (main, the loop).
ReloadFollows ==
    \A s \in Server :
        s \in asked ~> (s \notin asked \/ quit \/ stage = "dead")
===========================================================================
