-------------------------------- MODULE World --------------------------------
(***************************************************************************)
(* The game world: WorldModule's objects, SceneModule's scenes and groups, *)
(* and who is told of whom.  A scene holds groups; a group lists its       *)
(* players and its other objects.  An object carries its place in its      *)
(* SceneID and GroupID properties, and moving is: leave the old list, set  *)
(* GroupID to 0, set SceneID, join the new list, set GroupID.  The tellings*)
(* of enter and leave hang on the changes of GroupID, so they are right    *)
(* only if lists and properties change in that order.                      *)
(*                                                                         *)
(* Group 0 is at the same time the first group of every scene and the      *)
(* value a property has for "in no group".                                 *)
(*                                                                         *)
(* CreateObject fills the object at once or, if the process uses a back    *)
(* thread, in three tasks of that thread, each followed by a step of the   *)
(* main thread; everything else runs on the main thread.  The back thread  *)
(* touches only the new object, and its two queues (module Worker) are     *)
(* first in, first out with one thread behind them: here they are one, and *)
(* a task is taken when it comes back.  An id that is still being created  *)
(* is not created again.                                                   *)
(*                                                                         *)
(* "Player" is here what the code tests for: an object whose class is      *)
(* excel::Object.  Only players are moved (scene_module.cc:1009).          *)
(***************************************************************************)
EXTENDS Integers, Sequences, FiniteSets

CONSTANTS
  Obj,             \* object ids
  Player,          \* those of class excel::Object
  Scene,           \* scene ids
  MaxGroup,        \* bound: the last group id each scene gives out
  MaxLife,         \* bound: creations of each scene; the last life has no end
  MaxTasks,        \* bound: creations under way at once
  MaxPending       \* bound: moves, creations and deletions open at once

ASSUME ObjAssumption == Player \subseteq Obj /\ IsFiniteSet(Obj)
ASSUME SceneAssumption == Scene \subseteq Nat \ {0}
ASSUME BoundAssumption ==
  /\ MaxGroup \in [Scene -> Nat]
  /\ MaxLife \in [Scene -> Nat]
  /\ MaxTasks \in Nat
  /\ MaxPending \in Nat

VARIABLES
  objects,          \* the ids in WorldModule's map
  ready,            \* those whose state has reached COE_CREATE_HASDATA
  at,               \* the SceneID and GroupID properties
  scenes,           \* the scenes SceneModule holds
  life,             \* how often each was created
  groupIndex,       \* the last group id a scene gave out
  groups,           \* the <<scene, group>> that exist
  mxPlayerList,     \* <<scene, group, object>>: the players a group lists
  mxOtherList,      \* the same for the other objects
  mtDeleteSelfList, \* objects DestroySelf left to the next Update
  updating,         \* is Update at work on that list?
  moves,            \* calls of SwitchScene and LeaveSceneGroup under way
  usingBackThread,  \* as PluginManager was told before the first creation
  tasks,            \* creations under way on the back thread
  sees,             \* what the client of each player was told is there
  unsaid,           \* <<p, o>>: p saw o and o went without a telling
  announced         \* players whose coming to their group was told

placeVars == <<at, scenes, life, groupIndex, groups, mxPlayerList, mxOtherList>>
threadVars == <<usingBackThread, tasks>>
viewVars == <<sees, unsaid, announced>>
vars == <<objects, ready, at, scenes, life, groupIndex, groups, mxPlayerList,
          mxOtherList, mtDeleteSelfList, updating, moves, usingBackThread,
          tasks, sees, unsaid, announced>>

Group == {0} \cup UNION {0 .. MaxGroup[s] : s \in Scene}
Place == [scene : Scene \cup {0}, group : Group]
Nowhere == [scene |-> 0, group |-> 0]
Member == Scene \X Group \X Obj
Step == {"properties", "data"}
Phase == {"leaving", "left", "swapped"}
Move == [obj : Player, from : Place, to : Place, life : Nat, phase : Phase]
Task == [obj : Obj, step : Step, scene : Scene, group : Group, life : Nat]

TypeOK ==
  /\ objects \subseteq Obj
  /\ ready \subseteq objects
  /\ at \in [Obj -> Place]
  /\ scenes \subseteq Scene
  /\ life \in [Scene -> Nat]
  /\ groupIndex \in [Scene -> Group]
  /\ groups \subseteq Scene \X Group
  /\ mxPlayerList \subseteq Member
  /\ mxOtherList \subseteq Member
  /\ mtDeleteSelfList \in Seq(Obj)
  /\ updating \in BOOLEAN
  /\ moves \in Seq(Move)
  /\ usingBackThread \in BOOLEAN
  /\ tasks \in Seq(Task)
  /\ sees \in [Obj -> SUBSET Obj]
  /\ unsaid \subseteq Obj \X Obj
  /\ announced \subseteq Player

(* SceneModule::AfterStart has created the scenes of the configuration,    *)
(* each with its group 0.                                                  *)
Init ==
  /\ objects = {}
  /\ ready = {}
  /\ at = [o \in Obj |-> Nowhere]
  /\ scenes = Scene
  /\ life = [s \in Scene |-> 1]
  /\ groupIndex = [s \in Scene |-> 0]
  /\ groups = Scene \X {0}
  /\ mxPlayerList = {}
  /\ mxOtherList = {}
  /\ mtDeleteSelfList = <<>>
  /\ updating = FALSE
  /\ moves = <<>>
  /\ usingBackThread \in BOOLEAN
  /\ tasks = <<>>
  /\ sees = [o \in Obj |-> {}]
  /\ unsaid = {}
  /\ announced = {}

InCreation(o) == \E i \in DOMAIN tasks : tasks[i].obj = o

(* GetGroupObjectList, and GetCellObjectList, which asks it: the players   *)
(* or the others a group lists.                                            *)
Players(s, g) == {o \in Obj : <<s, g, o>> \in mxPlayerList}
Others(s, g) == {o \in Obj : <<s, g, o>> \in mxOtherList}

(* What other modules ask the world. *)
ExistScene(s) == s \in scenes
ExistObject(o) == o \in objects
ObjectReady(o) == o \in ready
ExitGroupScene(s, g) == ExistScene(s) /\ <<s, g>> \in groups
ExistObjectInGroup(s, g, o) ==
  ExitGroupScene(s, g) /\ (<<s, g, o>> \in mxPlayerList \/ <<s, g, o>> \in mxOtherList)
GetGroups(s) == {g \in Group : <<s, g>> \in groups}
GetOnLineCount == Cardinality(mxPlayerList)

(* Who is in a group, of those who are of the asked class and not "self",  *)
(* or have the asked value.  A listed object that is gone has neither.     *)
GetGroupObjectList(s, g) == IF ExitGroupScene(s, g) THEN Players(s, g) \cup Others(s, g) ELSE {}
OfClass(s, g, class, self) ==
  {o \in GetGroupObjectList(s, g) \ {self} : ExistObject(o) /\ o \in class}
GetObjectByProperty(s, g, property, value) ==
  {o \in GetGroupObjectList(s, g) : ExistObject(o) /\ at[o][property] = value}

(* OnObjectListEnter, OnObjectListLeave: "whom" is told of "of".           *)
Entered(view, whom, of) == [p \in Obj |-> IF p \in whom THEN view[p] \cup of ELSE view[p]]
Left(view, whom, of) == [p \in Obj |-> IF p \in whom THEN view[p] \ of ELSE view[p]]

(* unsaid, when "these" have gone without a telling: the pairs that still  *)
(* see each other.                                                         *)
Unsaid(these) ==
  {pair \in Obj \X Obj : /\ pair[1] # pair[2]
                         /\ pair[2] \in sees'[pair[1]]
                         /\ pair \in unsaid \/ pair[1] \in these \/ pair[2] \in these}

-----------------------------------------------------------------------------
(* What a change of GroupID says (OnPlayerGroupEvent).  WorldModule passes *)
(* the change on only for an object that is ready, SceneModule only for a  *)
(* player, and a change to the value the property has is none.             *)

OfPlayer(o) == o \in Player
Passed(o, g) == ObjectReady(o) /\ OfPlayer(o) /\ g > 0

LeaveView(view, o, s, g) ==
  LET others == Players(s, g) \ {o}
  IN IF Passed(o, g)
     THEN Left(Left(view, others, {o}), {o}, others \cup Others(s, g))
     ELSE view

EnterView(view, o, s, g) ==
  LET others == Players(s, g) \ {o}
  IN IF Passed(o, g)
     THEN Entered(Entered(view, others, {o}), {o}, others \cup Others(s, g))
     ELSE view

(* OnClassCommonEvent, COE_CREATE_HASDATA: a player is told of itself, the *)
(* players of the group are told of anything else.                         *)
HasDataView(view, o, s, g) ==
  IF o \in Player
  THEN Entered(view, {o}, {o})
  ELSE Entered(view, {p \in Obj : s > 0 /\ <<s, g, p>> \in mxPlayerList}, {o})

(* OnClassCommonEvent, COE_DESTROY: the players of the group GroupID names *)
(* by now, which for a player that could leave is 0.                       *)
DestroyView(view, o, s, g) == Left(view, Players(s, g) \ {o}, {o})

-----------------------------------------------------------------------------
(* Scenes and groups. *)

(* CreateScene: the scene comes with its group 0. *)
CreateScene(s) ==
  /\ s \notin scenes
  /\ life[s] < MaxLife[s]
  /\ scenes' = scenes \cup {s}
  /\ life' = [life EXCEPT ![s] = @ + 1]
  /\ groupIndex' = [groupIndex EXCEPT ![s] = 0]
  /\ groups' = groups \cup {<<s, 0>>}
  /\ UNCHANGED <<objects, ready, at, mxPlayerList, mxOtherList, mtDeleteSelfList,
                 updating, moves, threadVars, viewVars>>

Of(s, list) == {m \in list : m[1] = s}
Listed(s) == {o \in Obj : \E g \in Group : <<s, g, o>> \in mxPlayerList \cup mxOtherList}

(* DestroyScene drops the scene and asks nobody to leave it first. *)
DestroyScene(s) ==
  /\ s \in scenes
  /\ life[s] < MaxLife[s]
  /\ scenes' = scenes \ {s}
  /\ groups' = {sg \in groups : sg[1] # s}
  /\ mxPlayerList' = mxPlayerList \ Of(s, mxPlayerList)
  /\ mxOtherList' = mxOtherList \ Of(s, mxOtherList)
  /\ UNCHANGED sees
  /\ unsaid' = Unsaid(Listed(s))
  /\ announced' = announced \ Listed(s)
  /\ UNCHANGED <<objects, ready, at, life, groupIndex, mtDeleteSelfList,
                 updating, moves, threadVars>>

(* RequestGroupScene: ids grow and are never given out twice. *)
RequestGroupScene(s) ==
  /\ s \in scenes
  /\ groupIndex[s] < MaxGroup[s]
  /\ groupIndex' = [groupIndex EXCEPT ![s] = @ + 1]
  /\ groups' = groups \cup {<<s, groupIndex[s] + 1>>}
  /\ UNCHANGED <<objects, ready, at, scenes, life, mxPlayerList, mxOtherList,
                 mtDeleteSelfList, updating, moves, threadVars, viewVars>>

(* What is no player is destroyed.                                         *)
DestroySceneNPC(s, g) ==
  LET npcs == Others(s, g)
  IN /\ objects' = objects \ npcs
     /\ ready' = ready \ npcs
     /\ at' = [o \in Obj |-> IF o \in npcs THEN Nowhere ELSE at[o]]
     /\ mxOtherList' = mxOtherList \ {<<s, g, o>> : o \in npcs}

(* The players stay, with the GroupID of a group that is gone.             *)
ReleaseGroupScene(s, g) ==
  LET npcs == Others(s, g)
      left == Players(s, g)
  IN /\ s \in scenes
     /\ g > 0
     /\ DestroySceneNPC(s, g)
     /\ groups' = groups \ {<<s, g>>}
     /\ mxPlayerList' = mxPlayerList \ {<<s, g, o>> : o \in left}
     /\ sees' = Left(sees, left, npcs)
     /\ unsaid' = Unsaid(left)
     /\ announced' = announced \ left
     /\ UNCHANGED <<scenes, life, groupIndex, mtDeleteSelfList, updating, moves, threadVars>>

-----------------------------------------------------------------------------
(* Moving.  A move is a call whose parts have callbacks of other modules   *)
(* between them (BeforeLeave, AfterLeave, OnSwapScene, BeforeEnter), and a *)
(* callback may call the world and the scenes: while a move is under way   *)
(* other calls begin and end inside it, other moves too.  What the move    *)
(* looked up before them it uses after them: its places, and the scene it  *)
(* goes to, which may be gone by then or be another one of that id.        *)

Pending == Len(moves) + Len(tasks) + Len(mtDeleteSelfList)
Innermost == moves[Len(moves)]
InTransit(o) == \E i \in DOMAIN moves : moves[i].obj = o

Began(o, to) == Append(moves, [obj |-> o, from |-> at[o], to |-> to,
                               life |-> IF to.scene = 0 THEN 0 ELSE life[to.scene],
                               phase |-> "leaving"])
Went(phase) == [moves EXCEPT ![Len(moves)] = [@ EXCEPT !.phase = phase, !.from = Nowhere]]
Ended == SubSeq(moves, 1, Len(moves) - 1)

(* RequestEnterScene and what SwitchScene asks first, up to the callbacks  *)
(* before the leaving: the old group need not exist.  Those of             *)
(* EnterSceneCondition come before SwitchScene has read anything.          *)
RequestEnterScene(o, s2, g2) ==
  /\ Pending < MaxPending
  /\ o \in objects \cap Player
  /\ at[o] # [scene |-> s2, group |-> g2]
  /\ at[o].scene \in scenes
  /\ s2 \in scenes
  /\ <<s2, g2>> \in groups
  /\ moves' = Began(o, [scene |-> s2, group |-> g2])
  /\ UNCHANGED <<objects, ready, placeVars, mtDeleteSelfList, updating, threadVars, viewVars>>

(* LeaveSceneGroup, up to the callbacks before the leaving.                *)
LeaveSceneGroup(o) ==
  /\ Pending < MaxPending
  /\ o \in objects \cap Player
  /\ <<at[o].scene, at[o].group>> \in groups
  /\ moves' = Began(o, Nowhere)
  /\ UNCHANGED <<objects, ready, placeVars, mtDeleteSelfList, updating, threadVars, viewVars>>

DepartUnlisted(m) == mxPlayerList              \* mutant: the old list keeps it

(* RemoveObjectFromGroup *)
Departed(m) == mxPlayerList \ {<<m.from.scene, m.from.group, m.obj>>}

(* It is off the list and GroupID goes to 0, which tells who is left.      *)
(* LeaveSceneGroup is done: the SceneID stays, no list holds the object.   *)
Depart ==
  LET m == Innermost
      o == m.obj
  IN /\ moves # <<>>
     /\ m.phase = "leaving"
     /\ mxPlayerList' = Departed(m)
     /\ at' = [at EXCEPT ![o].group = 0]
     /\ sees' = LeaveView(sees, o, at[o].scene, at[o].group)
     /\ moves' = IF m.to = Nowhere THEN Ended ELSE Went("left")
     /\ UNCHANGED <<objects, ready, scenes, life, groupIndex, groups, mxOtherList,
                    mtDeleteSelfList, updating, threadVars>>
     /\ unsaid' = Unsaid(IF Passed(o, at[o].group) THEN {} ELSE {o})
     /\ announced' = announced \ {o}

(* SceneID is set between the callbacks after the leaving and those of the *)
(* swap and before the entering.                                           *)
Swap ==
  /\ moves # <<>>
  /\ Innermost.phase = "left"
  /\ at' = [at EXCEPT ![Innermost.obj].scene = Innermost.to.scene]
  /\ moves' = Went("swapped")
  /\ UNCHANGED <<objects, ready, scenes, life, groupIndex, groups, mxPlayerList,
                 mxOtherList, mtDeleteSelfList, updating, threadVars, viewVars>>

(* AddObjectToGroup: only into a group that exists, in the scene that was  *)
(* looked up.                                                              *)
Listing(o, s, g) == IF <<s, g>> \in groups THEN {<<s, g, o>>} ELSE {}
ListedIn(o, s, g, l) == IF life[s] = l THEN Listing(o, s, g) ELSE {}

ArriveOneWay(o, s, g) ==                                              \* mutant
  Entered(sees, IF g > 0 THEN Players(s, g) \ {o} ELSE {}, {o})

(* GroupID goes from 0. *)
ArriveView(o, s, g) == EnterView(sees, o, s, g)

(* It joins the new list and GroupID is set, which tells who is there; the *)
(* callbacks after that come when all is done.                             *)
Arrive ==
  LET m == Innermost
      o == m.obj
      add == ListedIn(o, m.to.scene, m.to.group, m.life)
  IN /\ moves # <<>>
     /\ m.phase = "swapped"
     /\ mxPlayerList' = mxPlayerList \cup add
     /\ at' = [at EXCEPT ![o].group = m.to.group]
     /\ sees' = ArriveView(o, m.to.scene, m.to.group)
     /\ moves' = Ended
     /\ UNCHANGED <<objects, ready, scenes, life, groupIndex, groups, mxOtherList,
                    mtDeleteSelfList, updating, threadVars>>
     /\ unsaid' = Unsaid(IF add = {} THEN {o} ELSE {})
     /\ announced' = IF add # {} /\ Passed(o, m.to.group) THEN announced \cup {o} ELSE announced

-----------------------------------------------------------------------------
(* Creating. *)

(* CreateObject without a back thread. *)
CreateObject(o, s, g) ==
  /\ ~usingBackThread
  /\ o \notin objects
  /\ <<s, g>> \in groups
  /\ objects' = objects \cup {o}
  /\ at' = [at EXCEPT ![o] = [scene |-> s, group |-> g]]
  /\ mxPlayerList' = IF o \in Player THEN mxPlayerList \cup Listing(o, s, g) ELSE mxPlayerList
  /\ mxOtherList' = IF o \in Player THEN mxOtherList ELSE mxOtherList \cup Listing(o, s, g)
  /\ ready' = ready \cup {o}
  /\ sees' = HasDataView([sees EXCEPT ![o] = {}], o, s, g)
  /\ UNCHANGED <<scenes, life, groupIndex, groups, mtDeleteSelfList, updating,
                 moves, threadVars, unsaid, announced>>

(* CreateObject with one: the object is in the map, with no property yet.  *)
CreateAsync(o, s, g) ==
  /\ usingBackThread
  /\ Len(tasks) < MaxTasks
  /\ Pending < MaxPending
  /\ o \notin objects
  /\ ~InCreation(o)
  /\ <<s, g>> \in groups
  /\ objects' = objects \cup {o}
  /\ sees' = [sees EXCEPT ![o] = {}]
  /\ tasks' = Append(tasks, [obj |-> o, step |-> "properties",
                             scene |-> s, group |-> g, life |-> life[s]])
  /\ UNCHANGED <<ready, placeVars, mtDeleteSelfList, updating, moves,
                 usingBackThread, unsaid, announced>>

(* The main thread, first: the object takes its place.  The scene is the   *)
(* one CreateObject looked up, also if another has its id by now.          *)
PlaceCreated(t) ==
  LET add == ListedIn(t.obj, t.scene, t.group, t.life)
  IN /\ t.step = "properties"
     /\ at' = [at EXCEPT ![t.obj] = [scene |-> t.scene, group |-> t.group]]
     /\ mxPlayerList' = IF t.obj \in Player THEN mxPlayerList \cup add ELSE mxPlayerList
     /\ mxOtherList' = IF t.obj \in Player THEN mxOtherList ELSE mxOtherList \cup add
     /\ tasks' = Append(Tail(tasks), [t EXCEPT !.step = "data"])
     /\ UNCHANGED <<objects, ready, scenes, life, groupIndex, groups, viewVars>>


(* The second task and the step after it fill in the configuration and the *)
(* arguments, which change nothing here.  Last, COE_CREATE_HASDATA: the    *)
(* place is read from the world, where an object destroyed meanwhile has   *)
(* none.                                                                   *)
FinishCreated(t) ==
  /\ t.step = "data"
  /\ ready' = ready \cup ({t.obj} \cap objects)
  /\ sees' = HasDataView(sees, t.obj, at[t.obj].scene, at[t.obj].group)
  /\ tasks' = Tail(tasks)
  /\ unsaid' = Unsaid({t.obj} \ {m[3] : m \in mxPlayerList \cup mxOtherList})
  /\ UNCHANGED <<objects, placeVars, announced>>

(* UpdateTaskResult: the back thread has done its part of the first task.  *)
MainThread ==
  /\ ~updating
  /\ moves = <<>>
  /\ tasks # <<>>
  /\ LET t == Head(tasks)
     IN PlaceCreated(t) \/ FinishCreated(t)
  /\ UNCHANGED <<mtDeleteSelfList, updating, moves, usingBackThread>>

-----------------------------------------------------------------------------
(* Destroying. *)

(* An object whose scene is gone, or which has no place yet, stays. *)
Destroyable(o) == o \in objects /\ at[o].scene \in scenes

(* DestroyObject: a player leaves its group, then the class event tells    *)
(* the group it is in now; anything else is taken off its list after it.   *)
(* Nobody looks through the client of what is gone.                        *)
DestroyEffect(o) ==
  LET s == at[o].scene
      g == at[o].group
      leaves == o \in Player /\ <<s, g>> \in groups
      view == IF leaves THEN LeaveView(sees, o, s, g) ELSE sees
  IN /\ objects' = objects \ {o}
     /\ ready' = ready \ {o}
     /\ at' = [at EXCEPT ![o] = Nowhere]
     /\ mxPlayerList' = IF leaves THEN mxPlayerList \ {<<s, g, o>>} ELSE mxPlayerList
     /\ mxOtherList' = IF o \in Player THEN mxOtherList ELSE mxOtherList \ {<<s, g, o>>}
     /\ sees' = [DestroyView(view, o, s, IF leaves THEN 0 ELSE g) EXCEPT ![o] = {}]
     /\ unsaid' = Unsaid({o} \cap (Player \ ready))
     /\ announced' = announced \ {o}
     /\ UNCHANGED <<scenes, life, groupIndex, groups>>

DestroyObject(o) ==
  /\ Destroyable(o)
  /\ DestroyEffect(o)
  /\ UNCHANGED <<mtDeleteSelfList, updating, moves, threadVars>>

(* DestroySelf: left to the next Update, once per call.                    *)
DestroySelf(o) ==
  /\ Pending < MaxPending
  /\ mtDeleteSelfList' = Append(mtDeleteSelfList, o)
  /\ UNCHANGED <<objects, ready, placeVars, updating, moves, threadVars, viewVars>>

UpdateDropsRest ==  \* mutant: the list is cleared after one entry
  /\ moves = <<>>
  /\ mtDeleteSelfList # <<>>
  /\ mtDeleteSelfList' = <<>>
  /\ updating' = FALSE
  /\ LET o == Head(mtDeleteSelfList)
     IN IF Destroyable(o)
        THEN DestroyEffect(o)
        ELSE UNCHANGED <<objects, ready, placeVars, viewVars>>
  /\ UNCHANGED <<moves, threadVars>>

(* Update walks the list, one object after another, and clears it when it  *)
(* has passed it whole.  The callbacks of each destruction may call the    *)
(* world and the scenes, DestroySelf too: what they append before the last *)
(* entry is served the same walk serves, in its turn.  What is appended    *)
(* after that Update takes up as well, here as a walk of its own.          *)
Update ==
  /\ moves = <<>>
  /\ mtDeleteSelfList # <<>>
  /\ mtDeleteSelfList' = Tail(mtDeleteSelfList)
  /\ updating' = (Tail(mtDeleteSelfList) # <<>>)
  /\ LET o == Head(mtDeleteSelfList)
     IN IF Destroyable(o)
        THEN DestroyEffect(o)
        ELSE UNCHANGED <<objects, ready, placeVars, viewVars>>
  /\ UNCHANGED <<moves, threadVars>>

-----------------------------------------------------------------------------
Scenery ==
  \E s \in Scene :
    \/ CreateScene(s)
    \/ DestroyScene(s)
    \/ RequestGroupScene(s)
    \/ \E g \in Group : ReleaseGroupScene(s, g)

Life(o) ==
  \/ \E s \in Scene, g \in Group : CreateObject(o, s, g) \/ CreateAsync(o, s, g)
  \/ DestroyObject(o)

Moving(o) ==
  \/ \E s \in Scene, g \in Group : RequestEnterScene(o, s, g)
  \/ LeaveSceneGroup(o)

(* Of the callbacks it is assumed that those of a move do not move or      *)
(* destroy the very object that is moving, but leave that to DestroySelf:  *)
(* nothing in SwitchScene looks whether they did.                          *)
Next ==
  \/ Scenery
  \/ \E o \in Obj : ~InTransit(o) /\ (Life(o) \/ Moving(o))
  \/ \E o \in objects : DestroySelf(o)
  \/ Depart \/ Swap \/ Arrive
  \/ MainThread
  \/ Update

Spec == Init /\ [][Next]_vars

-----------------------------------------------------------------------------
(* What must hold.                                                         *)

(* A group lists an object only while the object exists and its SceneID    *)
(* and GroupID name that group: nobody is in two groups, and nobody stays  *)
(* listed after it moved, left or was destroyed.  SwitchScene changes list *)
(* and properties in four separate steps.                                  *)
ListsAgree ==
  /\ TypeOK
  /\ \A m \in mxPlayerList \cup mxOtherList :
       /\ m[3] \in objects
       /\ at[m[3]] = [scene |-> m[1], group |-> m[2]]
       /\ <<m[1], m[2]>> \in groups
       /\ m \in mxPlayerList <=> m[3] \in Player

(* A client shows nothing that is not there: what a player was told of is  *)
(* in the player's own place, unless it parted from the player where the   *)
(* code tells nobody: out of group 0, or with a group or a scene that was  *)
(* dropped around them, or before it was ready; or it is the leftover of a *)
(* creation that no list took up, because its group was gone by then.      *)
ViewsFresh ==
  \A p \in objects \cap Player : \A o \in sees[p] \ {p} :
    (o \in objects /\ at[o] = at[p]) \/ <<p, o>> \in unsaid

(* A client shows all that is there: a player whose coming was told sees   *)
(* every finished object of the group and every other such player, also    *)
(* those that came, were created or left and came back since.              *)
ViewsComplete ==
  \A p \in announced :
    LET s == at[p].scene
        g == at[p].group
    IN /\ <<s, g, p>> \in mxPlayerList
       /\ (Others(s, g) \cap ready) \cup (Players(s, g) \cap announced)
            \subseteq sees[p] \cup {p}

(* What the other modules are told when they ask: an object is found in a  *)
(* group only while both exist, in one group at most, by its class and by  *)
(* the ids it carries as by the list it is in, and nobody is counted twice *)
(* or after the end.                                                       *)
FoundOnce ==
  \A o \in Obj :
    LET found == {sg \in groups : ExistObjectInGroup(sg[1], sg[2], o)}
    IN /\ found # {} => ExistObject(o)
       /\ \A sg, th \in found : sg = th
FoundAlike ==
  \A s \in Scene : \A g \in GetGroups(s) :
    LET all == GetGroupObjectList(s, g)
    IN all # {} =>
       /\ GetObjectByProperty(s, g, "scene", s) = all
       /\ GetObjectByProperty(s, g, "group", g) = all
       /\ \A self \in all : /\ OfClass(s, g, Player, self) = Players(s, g) \ {self}
                            /\ OfClass(s, g, Obj \ Player, self) = Others(s, g) \ {self}
CountedOnce == GetOnLineCount <= Cardinality(objects \cap Player)
QueriesAgree == FoundOnce /\ FoundAlike /\ CountedOnce

(* The lists, the objects and what is asked of them are one.               *)
PlacesRight == ListsAgree /\ QueriesAgree

(* So what a client shows is what is there.                                *)
ViewsExact == ViewsFresh /\ ViewsComplete

(* What DestroySelf was asked to destroy leaves the list only destroyed,   *)
(* unless its scene went first or it had no place yet: destroying one      *)
(* object loses no other request, also none made twice.                    *)
DeleteListServed ==
  [][\A o \in Obj :
       (\E i \in DOMAIN mtDeleteSelfList : mtDeleteSelfList[i] = o)
         /\ ~(\E i \in DOMAIN mtDeleteSelfList' : mtDeleteSelfList'[i] = o)
       => o \notin objects' \/ at[o].scene \notin scenes]_vars

=============================================================================
