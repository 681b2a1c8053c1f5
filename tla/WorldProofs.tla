----------------------------- MODULE WorldProofs -----------------------------
(***************************************************************************)
(* Proofs about World, for any objects, players, scenes and bounds: the    *)
(* lists of the groups and the places of the objects agree, no request to  *)
(* destroy an object is lost, and what the clients show is what is there.  *)
(***************************************************************************)
EXTENDS World, SequenceTheorems, FunctionTheorems, FiniteSetTheorems, TLAPS

(* An object is listed only where its place says, and in the list of its   *)
(* kind.                                                                   *)
ListInv ==
  \A s \in Scene, g \in Group, o \in Obj :
    /\ <<s, g, o>> \in mxPlayerList =>
         o \in objects /\ at[o] = [scene |-> s, group |-> g] /\ <<s, g>> \in groups /\ o \in Player
    /\ <<s, g, o>> \in mxOtherList =>
         o \in objects /\ at[o] = [scene |-> s, group |-> g] /\ <<s, g>> \in groups /\ o \notin Player

(* An object that waits for its properties is there and has no place yet,  *)
(* so that nothing can move or destroy it; none is created twice at once.  *)
TaskInv ==
  /\ \A o \in Obj \ objects : at[o] = Nowhere
  /\ \A i \in 1 .. Len(tasks) : tasks[i].step = "properties" =>
       tasks[i].obj \in objects /\ at[tasks[i].obj] = Nowhere
  /\ \A i, j \in 1 .. Len(tasks) : tasks[i].obj = tasks[j].obj => i = j

IInv == TypeOK /\ ListInv /\ TaskInv

-----------------------------------------------------------------------------

LEMMA GroupFacts ==
  /\ 0 \in Group /\ Group \subseteq Nat /\ Nowhere \in Place
  /\ \A s \in Scene : s # 0 /\ s \in Nat /\ MaxGroup[s] \in Nat /\ 0 .. MaxGroup[s] \subseteq Group
  /\ \A s \in Scene, g \in Group :
       [scene |-> s, group |-> g] \in Place /\ [scene |-> s, group |-> g] # Nowhere
<1>1. \A s \in Scene : s # 0 /\ s \in Nat /\ MaxGroup[s] \in Nat /\ 0 .. MaxGroup[s] \subseteq Group
  BY SceneAssumption, BoundAssumption DEF Group
<1>2. 0 \in Group /\ Group \subseteq Nat
  BY BoundAssumption DEF Group
<1>3. Nowhere \in Place
  BY <1>2 DEF Nowhere, Place
<1>4. \A s \in Scene, g \in Group :
       [scene |-> s, group |-> g] \in Place /\ [scene |-> s, group |-> g] # Nowhere
  BY <1>1 DEF Nowhere, Place
<1>. QED BY <1>1, <1>2, <1>3, <1>4

(* What is listed has a place in a group that exists.                      *)
LEMMA MemberFacts ==
  ASSUME NEW m \in Member
  PROVE  /\ m[1] \in Scene /\ m[2] \in Group /\ m[3] \in Obj
         /\ m = <<m[1], m[2], m[3]>>
BY DEF Member

LEMMA ListsFit == IInv => ListsAgree
<1>. SUFFICES ASSUME IInv, NEW m \in mxPlayerList \cup mxOtherList
              PROVE  /\ m[3] \in objects
                     /\ at[m[3]] = [scene |-> m[1], group |-> m[2]]
                     /\ <<m[1], m[2]>> \in groups
                     /\ m \in mxPlayerList <=> m[3] \in Player
  BY DEF IInv, ListsAgree
<1>1. m \in Member
  BY DEF IInv, TypeOK
<1>2. m[1] \in Scene /\ m[2] \in Group /\ m[3] \in Obj /\ m = <<m[1], m[2], m[3]>>
  BY <1>1, MemberFacts
<1>3. CASE m \in mxPlayerList
  BY <1>2, <1>3 DEF IInv, ListInv
<1>4. CASE m \in mxOtherList
  BY <1>2, <1>4 DEF IInv, ListInv
<1>. QED BY <1>3, <1>4

LEMMA ViewTypes ==
  ASSUME NEW view \in [Obj -> SUBSET Obj], NEW whom, NEW of, of \subseteq Obj
  PROVE  /\ Entered(view, whom, of) \in [Obj -> SUBSET Obj]
         /\ Left(view, whom, of) \in [Obj -> SUBSET Obj]
BY DEF Entered, Left

LEMMA MoveViewTypes ==
  ASSUME NEW view \in [Obj -> SUBSET Obj], NEW o \in Obj, NEW s, NEW g
  PROVE  /\ LeaveView(view, o, s, g) \in [Obj -> SUBSET Obj]
         /\ EnterView(view, o, s, g) \in [Obj -> SUBSET Obj]
         /\ HasDataView(view, o, s, g) \in [Obj -> SUBSET Obj]
         /\ DestroyView(view, o, s, g) \in [Obj -> SUBSET Obj]
<1>. DEFINE others == Players(s, g) \ {o}
            all == others \cup Others(s, g)
<1>1. others \subseteq Obj /\ all \subseteq Obj /\ {o} \subseteq Obj
  BY DEF Players, Others
<1>. HIDE DEF others, all
<1>2. /\ Left(view, others, {o}) \in [Obj -> SUBSET Obj]
      /\ Entered(view, others, {o}) \in [Obj -> SUBSET Obj]
  BY <1>1, ViewTypes
<1>3. /\ Left(Left(view, others, {o}), {o}, all) \in [Obj -> SUBSET Obj]
      /\ Entered(Entered(view, others, {o}), {o}, all) \in [Obj -> SUBSET Obj]
  BY <1>1, <1>2, ViewTypes
<1>4. LeaveView(view, o, s, g) \in [Obj -> SUBSET Obj] /\ EnterView(view, o, s, g) \in [Obj -> SUBSET Obj]
  BY <1>3 DEF LeaveView, EnterView, others, all
<1>5. HasDataView(view, o, s, g) \in [Obj -> SUBSET Obj]
  BY <1>1, ViewTypes DEF HasDataView
<1>6. DestroyView(view, o, s, g) \in [Obj -> SUBSET Obj]
  BY <1>2 DEF DestroyView, others
<1>. QED BY <1>4, <1>5, <1>6

LEMMA UnsaidType == ASSUME NEW these PROVE Unsaid(these) \subseteq Obj \X Obj
BY DEF Unsaid

LEMMA InitIInv == Init => IInv
<1>. SUFFICES ASSUME Init PROVE IInv
  OBVIOUS
<1>1. TypeOK
  <2>1. at \in [Obj -> Place] /\ groupIndex \in [Scene -> Group] /\ groups \subseteq Scene \X Group
    BY GroupFacts DEF Init
  <2>2. life \in [Scene -> Nat] /\ sees \in [Obj -> SUBSET Obj]
    BY DEF Init
  <2>3. tasks \in Seq(Task) /\ mtDeleteSelfList \in Seq(Obj) /\ moves \in Seq(Move)
    BY EmptySeq DEF Init
  <2>. QED BY <2>1, <2>2, <2>3 DEF Init, TypeOK
<1>2. ListInv
  BY DEF Init, ListInv
<1>3. TaskInv
  BY DEF Init, TaskInv
<1>. QED BY <1>1, <1>2, <1>3 DEF IInv

-----------------------------------------------------------------------------
(* Scenes and groups. *)

LEMMA CreateSceneIInv == ASSUME IInv, NEW s \in Scene, CreateScene(s) PROVE IInv'
<1>. USE DEF CreateScene, threadVars, viewVars
<1>1. TypeOK'
  BY GroupFacts DEF IInv, TypeOK
<1>2. ListInv'
  BY DEF IInv, ListInv
<1>3. TaskInv'
  BY DEF IInv, TaskInv
<1>. QED BY <1>1, <1>2, <1>3 DEF IInv

LEMMA DestroySceneIInv == ASSUME IInv, NEW s \in Scene, DestroyScene(s) PROVE IInv'
<1>. USE DEF DestroyScene, threadVars
<1>1. TypeOK'
  BY UnsaidType DEF IInv, TypeOK
<1>2. ListInv'
  <2>1. \A s2 \in Scene, g \in Group, o \in Obj :
          /\ <<s2, g, o>> \in mxPlayerList' => <<s2, g, o>> \in mxPlayerList /\ s2 # s
          /\ <<s2, g, o>> \in mxOtherList' => <<s2, g, o>> \in mxOtherList /\ s2 # s
    BY DEF Of
  <2>2. \A s2 \in Scene, g \in Group : <<s2, g>> \in groups /\ s2 # s => <<s2, g>> \in groups'
    OBVIOUS
  <2>3. objects' = objects /\ at' = at
    OBVIOUS
  <2>. QED BY <2>1, <2>2, <2>3 DEF IInv, ListInv
<1>3. TaskInv'
  BY DEF IInv, TaskInv
<1>. QED BY <1>1, <1>2, <1>3 DEF IInv

LEMMA RequestGroupSceneIInv == ASSUME IInv, NEW s \in Scene, RequestGroupScene(s) PROVE IInv'
<1>. USE DEF RequestGroupScene, threadVars, viewVars
<1>1. TypeOK'
  <2>1. groupIndex[s] \in Nat /\ MaxGroup[s] \in Nat /\ 0 .. MaxGroup[s] \subseteq Group
    BY GroupFacts DEF IInv, TypeOK
  <2>2. groupIndex[s] + 1 \in 0 .. MaxGroup[s]
    BY <2>1
  <2>3. groupIndex[s] + 1 \in Group
    BY <2>1, <2>2
  <2>. QED BY <2>3 DEF IInv, TypeOK
<1>2. ListInv'
  BY DEF IInv, ListInv
<1>3. TaskInv'
  BY DEF IInv, TaskInv
<1>. QED BY <1>1, <1>2, <1>3 DEF IInv

LEMMA ReleaseGroupSceneIInv ==
  ASSUME IInv, NEW s \in Scene, NEW g \in Group, ReleaseGroupScene(s, g) PROVE IInv'
<1>. DEFINE npcs == Others(s, g)
            left == Players(s, g)
<1>1. /\ groups' = groups \ {<<s, g>>}
      /\ objects' = objects \ npcs /\ ready' = ready \ npcs
      /\ at' = [o \in Obj |-> IF o \in npcs THEN Nowhere ELSE at[o]]
      /\ mxOtherList' = mxOtherList \ {<<s, g, o>> : o \in npcs}
      /\ mxPlayerList' = mxPlayerList \ {<<s, g, o>> : o \in left}
      /\ sees' = Left(sees, left, npcs) /\ unsaid' = Unsaid(left) /\ announced' = announced \ left
      /\ UNCHANGED <<scenes, life, groupIndex, mtDeleteSelfList, updating, moves, usingBackThread, tasks>>
  BY DEF ReleaseGroupScene, DestroySceneNPC, threadVars
<1>2. /\ npcs = {o \in Obj : <<s, g, o>> \in mxOtherList}
      /\ left = {o \in Obj : <<s, g, o>> \in mxPlayerList}
  BY DEF Others, Players
<1>3. \A o \in npcs : at[o] = [scene |-> s, group |-> g] /\ o \notin Player
  BY <1>2 DEF IInv, ListInv
<1>. HIDE DEF npcs, left
<1>4. TypeOK'
  <2>1. sees' \in [Obj -> SUBSET Obj]
    BY <1>1, <1>2, ViewTypes DEF IInv, TypeOK
  <2>2. unsaid' \subseteq Obj \X Obj
    BY <1>1, UnsaidType
  <2>3. at' \in [Obj -> Place]
    BY <1>1, GroupFacts DEF IInv, TypeOK
  <2>. QED BY <1>1, <2>1, <2>2, <2>3 DEF IInv, TypeOK
<1>5. ListInv'
  <2>1. \A s2 \in Scene, g2 \in Group, o \in Obj :
          /\ <<s2, g2, o>> \in mxPlayerList' =>
               <<s2, g2, o>> \in mxPlayerList /\ <<s2, g2>> # <<s, g>> /\ o \notin npcs
          /\ <<s2, g2, o>> \in mxOtherList' =>
               <<s2, g2, o>> \in mxOtherList /\ <<s2, g2>> # <<s, g>> /\ o \notin npcs
    <3>. SUFFICES ASSUME NEW s2 \in Scene, NEW g2 \in Group, NEW o \in Obj
         PROVE  /\ <<s2, g2, o>> \in mxPlayerList' =>
                     <<s2, g2, o>> \in mxPlayerList /\ <<s2, g2>> # <<s, g>> /\ o \notin npcs
                /\ <<s2, g2, o>> \in mxOtherList' =>
                     <<s2, g2, o>> \in mxOtherList /\ <<s2, g2>> # <<s, g>> /\ o \notin npcs
      OBVIOUS
    <3>1. ASSUME <<s2, g2, o>> \in mxPlayerList'
          PROVE  <<s2, g2, o>> \in mxPlayerList /\ <<s2, g2>> # <<s, g>> /\ o \notin npcs
      <4>1. <<s2, g2, o>> \in mxPlayerList /\ o \in Player
        BY <1>1, <3>1 DEF IInv, ListInv
      <4>2. <<s2, g2>> # <<s, g>>
        BY <1>1, <1>2, <3>1
      <4>. QED BY <4>1, <4>2, <1>3
    <3>2. ASSUME <<s2, g2, o>> \in mxOtherList'
          PROVE  <<s2, g2, o>> \in mxOtherList /\ <<s2, g2>> # <<s, g>> /\ o \notin npcs
      <4>1. <<s2, g2, o>> \in mxOtherList /\ at[o] = [scene |-> s2, group |-> g2]
        BY <1>1, <3>2 DEF IInv, ListInv
      <4>2. <<s2, g2>> # <<s, g>>
        BY <1>1, <1>2, <3>2
      <4>. QED BY <4>1, <4>2, <1>3
    <3>. QED BY <3>1, <3>2
  <2>2. \A s2 \in Scene, g2 \in Group : <<s2, g2>> \in groups /\ <<s2, g2>> # <<s, g>> => <<s2, g2>> \in groups'
    BY <1>1
  <2>3. \A o \in Obj : o \notin npcs => at'[o] = at[o] /\ (o \in objects => o \in objects')
    BY <1>1
  <2>. QED BY <2>1, <2>2, <2>3 DEF IInv, ListInv
<1>6. TaskInv'
  <2>1. \A o \in Obj \ objects' : at'[o] = Nowhere
    BY <1>1 DEF IInv, TaskInv
  <2>2. ASSUME NEW i \in 1 .. Len(tasks), tasks[i].step = "properties"
        PROVE  tasks[i].obj \in objects' /\ at'[tasks[i].obj] = Nowhere
    <3>1. tasks[i].obj \in objects /\ at[tasks[i].obj] = Nowhere /\ tasks[i].obj \in Obj
      BY <2>2 DEF IInv, TaskInv, TypeOK
    <3>2. tasks[i].obj \notin npcs
      BY <3>1, <1>3, GroupFacts
    <3>. QED BY <3>1, <3>2, <1>1
  <2>. QED BY <1>1, <2>1, <2>2 DEF IInv, TaskInv
<1>. QED BY <1>4, <1>5, <1>6 DEF IInv

-----------------------------------------------------------------------------
(* Moving. *)

(* An object that waits for its properties is out of reach.                *)
LEMMA PendingFacts ==
  ASSUME IInv, NEW i \in 1 .. Len(tasks), tasks[i].step = "properties"
  PROVE  /\ tasks[i].obj \in objects /\ tasks[i].obj \in Obj
         /\ at[tasks[i].obj] = Nowhere
         /\ at[tasks[i].obj].scene \notin scenes
         /\ \A g : <<at[tasks[i].obj].scene, g>> \notin groups
<1>1. tasks[i].obj \in objects /\ at[tasks[i].obj] = Nowhere /\ tasks[i].obj \in Obj
  BY DEF IInv, TaskInv, TypeOK
<1>2. 0 \notin Scene
  BY GroupFacts
<1>. QED BY <1>1, <1>2 DEF IInv, TypeOK, Nowhere

(* Moving an object that is listed nowhere but in its place keeps the      *)
(* lists true.                                                             *)
LEMMA MoveLists ==
  ASSUME IInv, NEW o \in objects \cap Player, NEW place \in Place,
         UNCHANGED <<objects, groups, mxOtherList>>,
         at' = [at EXCEPT ![o] = place],
         \A s \in Scene, g \in Group, o2 \in Obj :
           <<s, g, o2>> \in mxPlayerList' =>
             IF o2 = o THEN [scene |-> s, group |-> g] = place /\ <<s, g>> \in groups
                       ELSE <<s, g, o2>> \in mxPlayerList
  PROVE  ListInv'
<1>. SUFFICES ASSUME NEW s \in Scene, NEW g \in Group, NEW o2 \in Obj
     PROVE  /\ <<s, g, o2>> \in mxPlayerList' =>
                 o2 \in objects /\ at'[o2] = [scene |-> s, group |-> g] /\ <<s, g>> \in groups /\ o2 \in Player
            /\ <<s, g, o2>> \in mxOtherList =>
                 o2 \in objects /\ at'[o2] = [scene |-> s, group |-> g] /\ <<s, g>> \in groups /\ o2 \notin Player
  BY DEF ListInv
<1>1. at \in [Obj -> Place] /\ o \in Obj
  BY DEF IInv, TypeOK
<1>2. CASE o2 = o
  <2>1. at'[o2] = place
    BY <1>1, <1>2
  <2>2. <<s, g, o2>> \notin mxOtherList
    BY <1>2 DEF IInv, ListInv
  <2>. QED BY <2>1, <2>2, <1>2
<1>3. CASE o2 # o
  <2>1. at'[o2] = at[o2]
    BY <1>1, <1>3
  <2>. QED BY <2>1, <1>3 DEF IInv, ListInv
<1>. QED BY <1>2, <1>3

(* Nor does it touch what is being created.                                *)
LEMMA MoveTasks ==
  ASSUME IInv, NEW o \in objects, NEW place, UNCHANGED <<objects, tasks>>,
         at' = [at EXCEPT ![o] = place], at[o].scene \in Scene
  PROVE  TaskInv'
<1>1. at \in [Obj -> Place]
  BY DEF IInv, TypeOK
<1>2. \A o2 \in Obj \ objects : at'[o2] = Nowhere
  BY <1>1 DEF IInv, TaskInv
<1>3. ASSUME NEW i \in 1 .. Len(tasks), tasks[i].step = "properties"
      PROVE  tasks[i].obj \in objects /\ at'[tasks[i].obj] = Nowhere
  <2>1. tasks[i].obj # o
    BY <1>3, PendingFacts, GroupFacts DEF Nowhere
  <2>. QED BY <2>1, <1>1, <1>3, PendingFacts
<1>. QED BY <1>2, <1>3 DEF IInv, TaskInv

(* The moves under way: an object is in one of them at most, stands where  *)
(* it was looked up until it departs, and is in no list from then on until *)
(* it arrives.                                                             *)
OnWay(m) ==
  /\ m.obj \in objects
  /\ at[m.obj].scene \in Scene
  /\ m.to = Nowhere \/ m.to.scene \in Scene
  /\ m.phase = "leaving" => at[m.obj] = m.from
  /\ m.phase # "leaving" =>
       /\ m.to # Nowhere
       /\ at[m.obj].group = 0
       /\ \A s \in Scene, g \in Group : <<s, g, m.obj>> \notin mxPlayerList
  /\ m.phase = "swapped" => at[m.obj].scene = m.to.scene

MoveInv ==
  /\ \A i \in 1 .. Len(moves) : OnWay(moves[i])
  /\ \A i, j \in 1 .. Len(moves) : moves[i].obj = moves[j].obj => i = j

(* What begins, goes on and ends is the innermost move.                    *)
LEMMA InnermostFacts ==
  ASSUME NEW q \in Seq(Move), q # <<>>, NEW n, n = Len(q)
  PROVE  /\ n \in Nat /\ n >= 1 /\ n \in 1 .. n /\ q[n] \in Move
         /\ SubSeq(q, 1, n - 1) \in Seq(Move) /\ Len(SubSeq(q, 1, n - 1)) = n - 1
         /\ \A i \in 1 .. n - 1 : i \in 1 .. n /\ i # n /\ SubSeq(q, 1, n - 1)[i] = q[i]
         /\ \A i \in 1 .. n : i \in 1 .. n - 1 \/ i = n
<1>1. n \in Nat /\ n >= 1 /\ n \in 1 .. n /\ q[n] \in Move
  <2>1. n \in Nat /\ n # 0
    BY EmptySeq
  <2>. QED BY <2>1
<1>2. \A i \in 1 .. n - 1 : i \in 1 .. n /\ i # n
  BY <1>1
<1>3. \A i \in 1 .. n : i \in 1 .. n - 1 \/ i = n
  BY <1>1
<1>4. /\ SubSeq(q, 1, n - 1) \in Seq(Move) /\ Len(SubSeq(q, 1, n - 1)) = n - 1
      /\ \A i \in 1 .. n - 1 : SubSeq(q, 1, n - 1)[i] = q[i]
  <2>1. 1 \in 1 .. n + 1 /\ n - 1 \in 0 .. n /\ (n - 1) - 1 + 1 = n - 1 /\ \A i \in 1 .. n - 1 : 1 + i - 1 = i
    BY <1>1
  <2>2. SubSeq(q, 1, n - 1) = [i \in 1 .. n - 1 |-> q[i]]
    BY <1>1
  <2>3. \A i \in 1 .. n - 1 : q[i] \in Move
    BY <1>2
  <2>4. n - 1 \in Nat
    BY <1>1
  <2>. QED BY <2>2, <2>3, <2>4
<1>. QED BY <1>1, <1>2, <1>3, <1>4

LEMMA WentFacts ==
  ASSUME moves \in Seq(Move), moves # <<>>, NEW phase \in Phase, NEW n, n = Len(moves)
  PROVE  /\ Went(phase) \in Seq(Move) /\ Len(Went(phase)) = n
         /\ \A i \in 1 .. n - 1 : Went(phase)[i] = moves[i]
         /\ Went(phase)[n].obj = moves[n].obj /\ Went(phase)[n].to = moves[n].to
         /\ Went(phase)[n].phase = phase
<1>1. n \in 1 .. n /\ moves[n] \in Move /\ \A i \in 1 .. n - 1 : i \in 1 .. n /\ i # n
  BY InnermostFacts
<1>. DEFINE m == [moves[n] EXCEPT !.phase = phase, !.from = Nowhere]
<1>2. m \in Move /\ m.obj = moves[n].obj /\ m.to = moves[n].to /\ m.phase = phase
  BY <1>1, GroupFacts DEF Move
<1>3. Went(phase) = [moves EXCEPT ![n] = m]
  BY DEF Went
<1>. HIDE DEF m
<1>4. Went(phase) \in Seq(Move) /\ Len(Went(phase)) = n
  BY <1>1, <1>2, <1>3
<1>5. Went(phase)[n] = m /\ \A i \in 1 .. n - 1 : Went(phase)[i] = moves[i]
  BY <1>1, <1>3
<1>. QED BY <1>2, <1>4, <1>5

(* Other calls leave what is on its way alone.                             *)
LEMMA KeepMoves ==
  ASSUME IInv, MoveInv, UNCHANGED moves,
         \A o \in Obj : InTransit(o) =>
           /\ o \in objects => o \in objects'
           /\ at'[o] = at[o]
           /\ \A s \in Scene, g \in Group : <<s, g, o>> \in mxPlayerList' => <<s, g, o>> \in mxPlayerList
  PROVE  MoveInv'
<1>1. ASSUME NEW i \in 1 .. Len(moves) PROVE OnWay(moves[i])'
  <2>. DEFINE m == moves[i]
              o == m.obj
  <2>1. moves \in Seq(Move) /\ m \in Move
    BY DEF IInv, TypeOK
  <2>2. o \in Obj /\ InTransit(o)
    BY <2>1, ObjAssumption DEF Move, InTransit
  <2>3. OnWay(m)
    BY DEF MoveInv
  <2>. HIDE DEF m, o
  <2>4. /\ o \in objects => o \in objects'
        /\ at'[o] = at[o]
        /\ \A s \in Scene, g \in Group : <<s, g, o>> \in mxPlayerList' => <<s, g, o>> \in mxPlayerList
    BY <2>2
  <2>5. m' = m
    BY DEF m
  <2>6. OnWay(m)'
    BY <2>3, <2>4, <2>5 DEF OnWay, o
  <2>. QED BY <2>6 DEF m
<1>2. \A i, j \in 1 .. Len(moves') : moves'[i].obj = moves'[j].obj => i = j
  BY DEF MoveInv
<1>. QED BY <1>1, <1>2 DEF MoveInv

(* Where nothing is on its way there is nothing to keep.                   *)
LEMMA NoMoves == ASSUME moves' = <<>> PROVE MoveInv'
BY DEF MoveInv

(* A call of a move has looked, and done nothing yet.                      *)
LEMMA BeganIInv ==
  ASSUME IInv, MoveInv, NEW o \in objects \cap Player, ~InTransit(o), NEW to \in Place,
         at[o].scene \in Scene, to = Nowhere \/ to.scene \in Scene,
         moves' = Began(o, to),
         UNCHANGED <<objects, ready, placeVars, mtDeleteSelfList, updating, threadVars, viewVars>>
  PROVE  IInv' /\ MoveInv'
<1>. DEFINE l == IF to.scene = 0 THEN 0 ELSE life[to.scene]
            m == [obj |-> o, from |-> at[o], to |-> to, life |-> l, phase |-> "leaving"]
            n == Len(moves)
<1>0. UNCHANGED <<objects, ready, at, scenes, life, groupIndex, groups, mxPlayerList, mxOtherList,
                  mtDeleteSelfList, updating, usingBackThread, tasks, sees, unsaid, announced>>
  BY DEF placeVars, threadVars, viewVars
<1>1. m \in Move
  <2>1. l \in Nat
    <3>1. to = Nowhere => to.scene = 0
      BY DEF Nowhere
    <3>. QED BY <3>1 DEF IInv, TypeOK
  <2>2. at[o] \in Place /\ o \in Player
    BY DEF IInv, TypeOK
  <2>. HIDE DEF l
  <2>. QED BY <2>1, <2>2 DEF Move, Phase
<1>2. m.obj = o /\ m.to = to /\ m.from = at[o] /\ m.phase = "leaving"
  OBVIOUS
<1>3. moves' = Append(moves, m)
  BY DEF Began
<1>. HIDE DEF m
<1>4. /\ moves' \in Seq(Move) /\ Len(moves') = n + 1 /\ n \in Nat
      /\ \A i \in 1 .. n : moves'[i] = moves[i]
      /\ moves'[n + 1] = m
  BY <1>1, <1>3, AppendProperties DEF IInv, TypeOK
<1>5. \A i \in 1 .. n + 1 : i \in 1 .. n \/ i = n + 1
  BY <1>4
<1>6. IInv'
  <2>1. TypeOK'
    BY <1>0, <1>4 DEF IInv, TypeOK
  <2>2. ListInv'
    BY <1>0 DEF IInv, ListInv
  <2>3. TaskInv'
    BY <1>0 DEF IInv, TaskInv
  <2>. QED BY <2>1, <2>2, <2>3 DEF IInv
<1>7. ASSUME NEW i \in 1 .. Len(moves'), NEW u, u = moves'[i] PROVE OnWay(u)'
  <2>1. CASE i \in 1 .. n
    <3>1. OnWay(u)
      BY <1>4, <1>7, <2>1 DEF MoveInv
    <3>. QED BY <1>0, <3>1 DEF OnWay
  <2>2. CASE i = n + 1
    <3>1. u = m
      BY <1>4, <1>7, <2>2
    <3>. QED BY <1>0, <1>2, <3>1 DEF OnWay
  <2>. QED BY <1>4, <1>5, <2>1, <2>2
<1>8. \A i \in 1 .. n : moves[i].obj # o
  <2>1. DOMAIN moves = 1 .. n
    BY DEF IInv, TypeOK
  <2>. QED BY <2>1 DEF InTransit
<1>9. ASSUME NEW i \in 1 .. Len(moves'), NEW j \in 1 .. Len(moves'), moves'[i].obj = moves'[j].obj
      PROVE  i = j
  <2>1. CASE i \in 1 .. n /\ j \in 1 .. n
    BY <2>1, <1>4, <1>9 DEF MoveInv
  <2>2. CASE i = n + 1 \/ j = n + 1
    BY <2>2, <1>2, <1>4, <1>5, <1>8, <1>9
  <2>. QED BY <1>4, <1>5, <2>1, <2>2
<1>10. MoveInv'
  BY <1>7, <1>9 DEF MoveInv, OnWay
<1>. QED BY <1>6, <1>10

LEMMA RequestEnterSceneIInv ==
  ASSUME IInv, MoveInv, NEW o \in Obj, ~InTransit(o), NEW s2 \in Scene, NEW g2 \in Group,
         RequestEnterScene(o, s2, g2)
  PROVE  IInv' /\ MoveInv'
<1>. DEFINE to == [scene |-> s2, group |-> g2]
<1>1. /\ o \in objects \cap Player /\ at[o].scene \in scenes /\ moves' = Began(o, to)
      /\ UNCHANGED <<objects, ready, placeVars, mtDeleteSelfList, updating, threadVars, viewVars>>
  BY DEF RequestEnterScene
<1>2. to \in Place /\ to.scene \in Scene
  BY GroupFacts
<1>3. at[o].scene \in Scene
  BY <1>1 DEF IInv, TypeOK
<1>. HIDE DEF to
<1>. QED BY <1>1, <1>2, <1>3, BeganIInv

LEMMA LeaveSceneGroupIInv ==
  ASSUME IInv, MoveInv, NEW o \in Obj, ~InTransit(o), LeaveSceneGroup(o)
  PROVE  IInv' /\ MoveInv'
<1>1. /\ o \in objects \cap Player /\ <<at[o].scene, at[o].group>> \in groups
      /\ moves' = Began(o, Nowhere)
      /\ UNCHANGED <<objects, ready, placeVars, mtDeleteSelfList, updating, threadVars, viewVars>>
  BY DEF LeaveSceneGroup
<1>2. at[o].scene \in Scene
  BY <1>1 DEF IInv, TypeOK
<1>. QED BY <1>1, <1>2, GroupFacts, BeganIInv

(* The innermost move.                                                     *)
LEMMA InnermostMoves ==
  ASSUME IInv, MoveInv, moves # <<>>, NEW m, m = Innermost
  PROVE  /\ m = moves[Len(moves)] /\ m \in Move /\ OnWay(m)
         /\ m.obj \in objects \cap Player /\ m.obj \in Obj /\ moves \in Seq(Move)
<1>1. moves \in Seq(Move)
  BY DEF IInv, TypeOK
<1>2. m = moves[Len(moves)] /\ m \in Move /\ Len(moves) \in 1 .. Len(moves)
  BY <1>1, InnermostFacts DEF Innermost
<1>3. OnWay(m)
  BY <1>2 DEF MoveInv
<1>. QED BY <1>1, <1>2, <1>3, ObjAssumption DEF OnWay, Move

(* A step of the innermost move touches no other one.                      *)
LEMMA StepMoves ==
  ASSUME IInv, MoveInv, moves # <<>>, NEW m, m = Innermost, UNCHANGED objects,
         \A x \in Obj \ {m.obj} :
           /\ at'[x] = at[x]
           /\ \A s \in Scene, g \in Group : <<s, g, x>> \in mxPlayerList' => <<s, g, x>> \in mxPlayerList,
         \/ moves' = Ended
         \/ \E phase \in Phase : moves' = Went(phase) /\ \A u : u = moves'[Len(moves)] => OnWay(u)'
  PROVE  MoveInv' /\ moves' \in Seq(Move)
<1>. DEFINE n == Len(moves)
<1>1. moves \in Seq(Move) /\ m = moves[n]
  BY InnermostMoves
<1>2. /\ n \in Nat /\ n >= 1 /\ n \in 1 .. n
      /\ Ended \in Seq(Move) /\ Len(Ended) = n - 1
      /\ \A i \in 1 .. n - 1 : i \in 1 .. n /\ i # n /\ Ended[i] = moves[i]
      /\ \A i \in 1 .. n : i \in 1 .. n - 1 \/ i = n
  BY <1>1, InnermostFacts DEF Ended
<1>3. ASSUME NEW i \in 1 .. n - 1, NEW u, u = moves[i] PROVE OnWay(u)'
  <2>1. moves[i].obj # m.obj /\ OnWay(moves[i]) /\ moves[i].obj \in Obj
    <3>1. i \in 1 .. n /\ i # n
      BY <1>2
    <3>2. moves[i] \in Move
      BY <1>1, <3>1
    <3>3. moves[i].obj \in Obj
      BY <3>2, ObjAssumption DEF Move
    <3>4. moves[i].obj # moves[n].obj
      BY <1>2, <3>1 DEF MoveInv
    <3>5. OnWay(moves[i])
      BY <3>1 DEF MoveInv
    <3>. QED BY <1>1, <3>3, <3>4, <3>5
  <2>3. /\ at'[u.obj] = at[u.obj] /\ u.obj \in objects' <=> u.obj \in objects
        /\ \A s \in Scene, g \in Group : <<s, g, u.obj>> \in mxPlayerList' => <<s, g, u.obj>> \in mxPlayerList
    BY <1>3, <2>1
  <2>4. OnWay(u)
    BY <1>3, <2>1
  <2>. QED BY <2>3, <2>4 DEF OnWay
<1>4. CASE moves' = Ended
  <2>1. \A i \in 1 .. Len(moves') : i \in 1 .. n - 1 /\ i \in 1 .. n /\ moves'[i] = moves[i]
    BY <1>2, <1>4
  <2>2. \A i \in 1 .. Len(moves') : \A u : u = moves'[i] => OnWay(u)'
    BY <1>3, <2>1
  <2>3. \A i, j \in 1 .. Len(moves') : moves'[i].obj = moves'[j].obj => i = j
    BY <2>1 DEF MoveInv
  <2>4. MoveInv'
    BY <2>2, <2>3 DEF MoveInv, OnWay
  <2>. QED BY <1>2, <1>4, <2>4
<1>5. ASSUME NEW phase \in Phase, moves' = Went(phase), \A u : u = moves'[n] => OnWay(u)'
      PROVE  MoveInv' /\ moves' \in Seq(Move)
  <2>1. /\ moves' \in Seq(Move) /\ Len(moves') = n /\ moves'[n].obj = moves[n].obj
        /\ \A i \in 1 .. n - 1 : moves'[i] = moves[i]
    BY <1>1, <1>5, WentFacts
  <2>2. \A i \in 1 .. Len(moves') : \A u : u = moves'[i] => OnWay(u)'
    BY <1>2, <1>3, <1>5, <2>1
  <2>3. \A i \in 1 .. n : moves'[i].obj = moves[i].obj
    BY <1>2, <2>1
  <2>4. \A i, j \in 1 .. Len(moves') : moves'[i].obj = moves'[j].obj => i = j
    BY <2>1, <2>3 DEF MoveInv
  <2>5. MoveInv'
    BY <2>2, <2>4 DEF MoveInv, OnWay
  <2>. QED BY <2>1, <2>5
<1>. QED BY <1>4, <1>5

LEMMA DepartIInv == ASSUME IInv, MoveInv, Depart PROVE IInv' /\ MoveInv'
<1>1. PICK m : m = Innermost
  OBVIOUS
<1>2. moves # <<>>
  BY DEF Depart
<1>3. /\ m = moves[Len(moves)] /\ m \in Move /\ OnWay(m)
      /\ m.obj \in objects \cap Player /\ m.obj \in Obj /\ moves \in Seq(Move)
  BY <1>1, <1>2, InnermostMoves
<1>4. PICK o : o = m.obj
  OBVIOUS
<1>. DEFINE s == at[o].scene
            g == at[o].group
            place == [scene |-> s, group |-> 0]
<1>0. at \in [Obj -> Place] /\ at[o] \in Place /\ at[o] = [scene |-> s, group |-> g] /\ o \in objects
  BY <1>3, <1>4 DEF IInv, TypeOK, Place
<1>5. /\ m.phase = "leaving" /\ m.from = at[o] /\ s \in Scene
      /\ m.to = Nowhere \/ m.to.scene \in Scene
  BY <1>1, <1>3, <1>4 DEF Depart, OnWay
<1>6. /\ mxPlayerList' = mxPlayerList \ {<<s, g, o>>}
      /\ at' = [at EXCEPT ![o] = place]
      /\ sees' = LeaveView(sees, o, s, g)
      /\ moves' = IF m.to = Nowhere THEN Ended ELSE Went("left")
      /\ unsaid' = Unsaid(IF Passed(o, g) THEN {} ELSE {o})
      /\ announced' = announced \ {o}
      /\ UNCHANGED <<objects, ready, scenes, life, groupIndex, groups, mxOtherList,
                     mtDeleteSelfList, updating, usingBackThread, tasks>>
  <2>1. at' = [at EXCEPT ![o].group = 0]
    BY <1>1, <1>4 DEF Depart
  <2>2. [at[o] EXCEPT !.group = 0] = place
    BY <1>0
  <2>3. at' = [at EXCEPT ![o] = place]
    BY <2>1, <2>2
  <2>4. mxPlayerList' = mxPlayerList \ {<<m.from.scene, m.from.group, m.obj>>}
    BY <1>1 DEF Depart, Departed
  <2>. QED BY <1>1, <1>4, <1>5, <2>3, <2>4 DEF Depart, threadVars
<1>7. sees' \in [Obj -> SUBSET Obj] /\ unsaid' \subseteq Obj \X Obj
  <2>1. sees' \in [Obj -> SUBSET Obj]
    BY <1>3, <1>4, <1>6, MoveViewTypes DEF IInv, TypeOK
  <2>. QED BY <1>6, <2>1, UnsaidType
<1>8. place \in Place
  BY <1>0, GroupFacts DEF Place
<1>9. \A s3 \in Scene, g3 \in Group, o2 \in Obj :
        <<s3, g3, o2>> \in mxPlayerList' => o2 # o /\ <<s3, g3, o2>> \in mxPlayerList
  <2>. SUFFICES ASSUME NEW s3 \in Scene, NEW g3 \in Group, NEW o2 \in Obj,
                       <<s3, g3, o2>> \in mxPlayerList'
       PROVE  o2 # o /\ <<s3, g3, o2>> \in mxPlayerList
    OBVIOUS
  <2>1. <<s3, g3, o2>> \in mxPlayerList /\ <<s3, g3, o2>> # <<s, g, o>>
    BY <1>6
  <2>2. at[o2] = [scene |-> s3, group |-> g3]
    BY <2>1 DEF IInv, ListInv
  <2>. QED BY <2>1, <2>2
<1>10. at' \in [Obj -> Place] /\ at'[o] = place /\ \A x \in Obj \ {o} : at'[x] = at[x]
  BY <1>0, <1>3, <1>4, <1>6, <1>8
<1>11. place.group = 0 /\ place.scene = s
  OBVIOUS
<1>. HIDE DEF s, g, place
<1>12. MoveInv' /\ moves' \in Seq(Move)
  <2>1. \A x \in Obj \ {m.obj} :
          /\ at'[x] = at[x]
          /\ \A s3 \in Scene, g3 \in Group : <<s3, g3, x>> \in mxPlayerList' => <<s3, g3, x>> \in mxPlayerList
    BY <1>4, <1>6, <1>10
  <2>2. CASE m.to = Nowhere
    BY <1>1, <1>2, <1>6, <2>1, <2>2, StepMoves
  <2>3. CASE m.to # Nowhere
    <3>1. moves' = Went("left") /\ "left" \in Phase
      BY <1>6, <2>3 DEF Phase
    <3>2. /\ Went("left")[Len(moves)].obj = o /\ Went("left")[Len(moves)].to = m.to
          /\ Went("left")[Len(moves)].phase = "left"
      BY <1>2, <1>3, <1>4, <3>1, WentFacts
    <3>5. o \in objects' /\ o \in Obj
      BY <1>3, <1>4, <1>6
    <3>7. ASSUME NEW u, u = moves'[Len(moves)] PROVE OnWay(u)'
      <4>1. u.obj = o /\ u.to = m.to /\ u.phase = "left"
        BY <3>1, <3>2, <3>7
      <4>. QED BY <1>5, <1>9, <1>10, <1>11, <2>3, <3>5, <4>1 DEF OnWay
    <3>. QED BY <1>1, <1>2, <1>6, <2>1, <3>1, <3>7, StepMoves
  <2>. QED BY <2>2, <2>3
<1>13. TypeOK'
  <2>1. mxPlayerList' \subseteq Member /\ announced' \subseteq Player
    BY <1>6 DEF IInv, TypeOK
  <2>2. /\ objects' \subseteq Obj /\ ready' \subseteq objects' /\ scenes' \subseteq Scene
        /\ life' \in [Scene -> Nat] /\ groupIndex' \in [Scene -> Group]
        /\ groups' \subseteq Scene \X Group /\ mxOtherList' \subseteq Member
    BY <1>6 DEF IInv, TypeOK
  <2>3. /\ mtDeleteSelfList' \in Seq(Obj) /\ updating' \in BOOLEAN
        /\ usingBackThread' \in BOOLEAN /\ tasks' \in Seq(Task)
    BY <1>6 DEF IInv, TypeOK
  <2>. QED BY <1>7, <1>10, <1>12, <2>1, <2>2, <2>3 DEF TypeOK
<1>14. ListInv'
  <2>1. \A s3 \in Scene, g3 \in Group, o2 \in Obj :
          <<s3, g3, o2>> \in mxPlayerList' =>
            IF o2 = o THEN [scene |-> s3, group |-> g3] = place /\ <<s3, g3>> \in groups
                      ELSE <<s3, g3, o2>> \in mxPlayerList
    BY <1>9
  <2>2. o \in objects \cap Player
    BY <1>3, <1>4
  <2>. QED BY <1>6, <1>8, <2>1, <2>2, MoveLists
<1>15. TaskInv'
  BY <1>0, <1>5, <1>6, MoveTasks DEF s
<1>. QED BY <1>12, <1>13, <1>14, <1>15 DEF IInv

LEMMA SwapIInv == ASSUME IInv, MoveInv, Swap PROVE IInv' /\ MoveInv'
<1>1. PICK m : m = Innermost
  OBVIOUS
<1>2. moves # <<>>
  BY DEF Swap
<1>3. /\ m = moves[Len(moves)] /\ m \in Move /\ OnWay(m)
      /\ m.obj \in objects \cap Player /\ m.obj \in Obj /\ moves \in Seq(Move)
  BY <1>1, <1>2, InnermostMoves
<1>4. PICK o : o = m.obj
  OBVIOUS
<1>. DEFINE place == [scene |-> m.to.scene, group |-> 0]
<1>5. /\ m.phase = "left" /\ at[o].scene \in Scene /\ at[o].group = 0
      /\ m.to # Nowhere /\ m.to.scene \in Scene
      /\ \A s \in Scene, g \in Group : <<s, g, o>> \notin mxPlayerList
  BY <1>1, <1>3, <1>4 DEF Swap, OnWay
<1>0. at \in [Obj -> Place] /\ at[o] \in Place /\ at[o] = [scene |-> at[o].scene, group |-> 0] /\ o \in objects
  BY <1>3, <1>4, <1>5 DEF IInv, TypeOK, Place
<1>6. /\ at' = [at EXCEPT ![o] = place]
      /\ moves' = Went("swapped")
      /\ UNCHANGED <<objects, ready, scenes, life, groupIndex, groups, mxPlayerList, mxOtherList,
                     mtDeleteSelfList, updating, usingBackThread, tasks, sees, unsaid, announced>>
  <2>1. at' = [at EXCEPT ![o].scene = m.to.scene]
    BY <1>1, <1>4 DEF Swap
  <2>2. [at[o] EXCEPT !.scene = m.to.scene] = place
    BY <1>0
  <2>3. at' = [at EXCEPT ![o] = place]
    BY <2>1, <2>2
  <2>. QED BY <2>3 DEF Swap, threadVars, viewVars
<1>8. place \in Place
  BY <1>5, GroupFacts DEF Place
<1>10. at' \in [Obj -> Place] /\ at'[o] = place /\ \A x \in Obj \ {o} : at'[x] = at[x]
  BY <1>0, <1>3, <1>4, <1>6, <1>8
<1>11. place.group = 0 /\ place.scene = m.to.scene
  OBVIOUS
<1>. HIDE DEF place
<1>12. MoveInv' /\ moves' \in Seq(Move)
  <2>1. \A x \in Obj \ {m.obj} :
          /\ at'[x] = at[x]
          /\ \A s3 \in Scene, g3 \in Group : <<s3, g3, x>> \in mxPlayerList' => <<s3, g3, x>> \in mxPlayerList
    BY <1>4, <1>6, <1>10
  <2>2. "swapped" \in Phase
    BY DEF Phase
  <2>3. /\ Went("swapped")[Len(moves)].obj = o /\ Went("swapped")[Len(moves)].to = m.to
        /\ Went("swapped")[Len(moves)].phase = "swapped"
    BY <1>2, <1>3, <1>4, <2>2, WentFacts
  <2>6. o \in objects' /\ \A s \in Scene, g \in Group : <<s, g, o>> \notin mxPlayerList'
    BY <1>3, <1>4, <1>5, <1>6
  <2>8. ASSUME NEW u, u = moves'[Len(moves)] PROVE OnWay(u)'
    <3>1. u.obj = o /\ u.to = m.to /\ u.phase = "swapped"
      BY <1>6, <2>3, <2>8
    <3>. QED BY <1>5, <1>10, <1>11, <2>6, <3>1 DEF OnWay
  <2>. QED BY <1>1, <1>2, <1>6, <2>1, <2>2, <2>8, StepMoves
<1>13. TypeOK'
  BY <1>6, <1>10, <1>12 DEF IInv, TypeOK
<1>14. ListInv'
  <2>1. \A s3 \in Scene, g3 \in Group, o2 \in Obj :
          <<s3, g3, o2>> \in mxPlayerList' =>
            IF o2 = o THEN [scene |-> s3, group |-> g3] = place /\ <<s3, g3>> \in groups
                      ELSE <<s3, g3, o2>> \in mxPlayerList
    BY <1>5, <1>6
  <2>2. o \in objects \cap Player
    BY <1>3, <1>4
  <2>. QED BY <1>6, <1>8, <2>1, <2>2, MoveLists
<1>15. TaskInv'
  BY <1>0, <1>5, <1>6, MoveTasks
<1>. QED BY <1>12, <1>13, <1>14, <1>15 DEF IInv

LEMMA ArriveIInv == ASSUME IInv, MoveInv, Arrive PROVE IInv' /\ MoveInv'
<1>1. PICK m : m = Innermost
  OBVIOUS
<1>2. moves # <<>>
  BY DEF Arrive
<1>3. /\ m = moves[Len(moves)] /\ m \in Move /\ OnWay(m)
      /\ m.obj \in objects \cap Player /\ m.obj \in Obj /\ moves \in Seq(Move)
  BY <1>1, <1>2, InnermostMoves
<1>4. PICK o : o = m.obj
  OBVIOUS
<1>. DEFINE s == m.to.scene
            g == m.to.group
            add == ListedIn(o, s, g, m.life)
<1>5. /\ m.phase = "swapped" /\ at[o].scene = s /\ s \in Scene
      /\ m.to # Nowhere
      /\ \A s2 \in Scene, g2 \in Group : <<s2, g2, o>> \notin mxPlayerList
  BY <1>1, <1>3, <1>4 DEF Arrive, OnWay
<1>0. /\ at \in [Obj -> Place] /\ at[o] \in Place /\ m.to \in Place /\ o \in objects
      /\ m.to = [scene |-> s, group |-> g] /\ g \in Group
      /\ [at[o] EXCEPT !.group = g] = m.to
  BY <1>3, <1>4, <1>5 DEF IInv, TypeOK, Place, Move
<1>6. /\ at' = [at EXCEPT ![o] = m.to]
      /\ mxPlayerList' = mxPlayerList \cup add
      /\ sees' = EnterView(sees, o, s, g)
      /\ moves' = Ended
      /\ unsaid' = Unsaid(IF add = {} THEN {o} ELSE {})
      /\ announced' = IF add # {} /\ Passed(o, g) THEN announced \cup {o} ELSE announced
      /\ UNCHANGED <<objects, ready, scenes, life, groupIndex, groups, mxOtherList,
                     mtDeleteSelfList, updating, usingBackThread, tasks>>
  <2>1. at' = [at EXCEPT ![o].group = g]
    BY <1>1, <1>4 DEF Arrive
  <2>2. at' = [at EXCEPT ![o] = m.to]
    BY <1>0, <2>1
  <2>. QED BY <1>1, <1>4, <2>2 DEF Arrive, ArriveView, threadVars
<1>7. sees' \in [Obj -> SUBSET Obj] /\ unsaid' \subseteq Obj \X Obj
  <2>1. sees' \in [Obj -> SUBSET Obj]
    BY <1>3, <1>4, <1>6, MoveViewTypes DEF IInv, TypeOK
  <2>. QED BY <1>6, <2>1, UnsaidType
<1>8. \A x \in add : x = <<s, g, o>> /\ <<s, g>> \in groups
  BY DEF ListedIn, Listing
<1>. HIDE DEF add
<1>9. \A s3 \in Scene, g3 \in Group, o2 \in Obj :
        <<s3, g3, o2>> \in mxPlayerList' =>
          IF o2 = o THEN [scene |-> s3, group |-> g3] = m.to /\ <<s3, g3>> \in groups
                    ELSE <<s3, g3, o2>> \in mxPlayerList
  <2>. SUFFICES ASSUME NEW s3 \in Scene, NEW g3 \in Group, NEW o2 \in Obj,
                       <<s3, g3, o2>> \in mxPlayerList'
       PROVE  IF o2 = o THEN [scene |-> s3, group |-> g3] = m.to /\ <<s3, g3>> \in groups
                        ELSE <<s3, g3, o2>> \in mxPlayerList
    OBVIOUS
  <2>1. <<s3, g3, o2>> \in mxPlayerList \/ (s3 = s /\ g3 = g /\ o2 = o /\ <<s3, g3>> \in groups)
    <3>. HIDE DEF s, g
    <3>. QED BY <1>6, <1>8
  <2>. QED BY <1>0, <1>5, <2>1
<1>10. at' \in [Obj -> Place] /\ \A x \in Obj \ {o} : at'[x] = at[x]
  BY <1>0, <1>3, <1>4, <1>6
<1>12. MoveInv' /\ moves' \in Seq(Move)
  <2>1. \A x \in Obj \ {m.obj} :
          /\ at'[x] = at[x]
          /\ \A s3 \in Scene, g3 \in Group : <<s3, g3, x>> \in mxPlayerList' => <<s3, g3, x>> \in mxPlayerList
    BY <1>4, <1>9, <1>10
  <2>. QED BY <1>1, <1>2, <1>6, <2>1, StepMoves
<1>13. TypeOK'
  <2>1. mxPlayerList' \subseteq Member /\ announced' \subseteq Player
    BY <1>0, <1>3, <1>4, <1>5, <1>6, <1>8 DEF IInv, TypeOK, Member
  <2>2. /\ objects' \subseteq Obj /\ ready' \subseteq objects' /\ scenes' \subseteq Scene
        /\ life' \in [Scene -> Nat] /\ groupIndex' \in [Scene -> Group]
        /\ groups' \subseteq Scene \X Group /\ mxOtherList' \subseteq Member
    BY <1>6 DEF IInv, TypeOK
  <2>3. /\ mtDeleteSelfList' \in Seq(Obj) /\ updating' \in BOOLEAN
        /\ usingBackThread' \in BOOLEAN /\ tasks' \in Seq(Task)
    BY <1>6 DEF IInv, TypeOK
  <2>. QED BY <1>7, <1>10, <1>12, <2>1, <2>2, <2>3 DEF TypeOK
<1>14. ListInv'
  <2>1. o \in objects \cap Player
    BY <1>3, <1>4
  <2>. QED BY <1>0, <1>6, <1>9, <2>1, MoveLists
<1>15. TaskInv'
  BY <1>0, <1>5, <1>6, MoveTasks
<1>. QED BY <1>12, <1>13, <1>14, <1>15 DEF IInv

-----------------------------------------------------------------------------
(* Creating. *)

(* Listing a new object, which no list can hold yet, in its place.         *)
LEMMA ListNew ==
  ASSUME IInv, NEW o \in Obj, NEW s \in Scene, NEW g \in Group, NEW add,
         at[o] = Nowhere,
         o \in objects', objects \subseteq objects', UNCHANGED groups,
         at' = [at EXCEPT ![o] = [scene |-> s, group |-> g]],
         add \subseteq Listing(o, s, g),
         mxPlayerList' = IF o \in Player THEN mxPlayerList \cup add ELSE mxPlayerList,
         mxOtherList' = IF o \in Player THEN mxOtherList ELSE mxOtherList \cup add
  PROVE  ListInv' /\ mxPlayerList' \subseteq Member /\ mxOtherList' \subseteq Member
<1>1. at \in [Obj -> Place]
  BY DEF IInv, TypeOK
<1>2. add \subseteq Member /\ \A m \in add : m = <<s, g, o>> /\ <<s, g>> \in groups
  BY DEF Listing, Member
<1>3. \A s2 \in Scene, g2 \in Group :
        <<s2, g2, o>> \notin mxPlayerList /\ <<s2, g2, o>> \notin mxOtherList
  <2>. SUFFICES ASSUME NEW s2 \in Scene, NEW g2 \in Group
       PROVE  <<s2, g2, o>> \notin mxPlayerList /\ <<s2, g2, o>> \notin mxOtherList
    OBVIOUS
  <2>1. at[o] # [scene |-> s2, group |-> g2]
    BY GroupFacts
  <2>. QED BY <2>1 DEF IInv, ListInv
<1>4. mxPlayerList' \subseteq Member /\ mxOtherList' \subseteq Member
  BY <1>2 DEF IInv, TypeOK
<1>5. ListInv'
  <2>. SUFFICES ASSUME NEW s2 \in Scene, NEW g2 \in Group, NEW o2 \in Obj
       PROVE  /\ <<s2, g2, o2>> \in mxPlayerList' =>
                   o2 \in objects' /\ at'[o2] = [scene |-> s2, group |-> g2] /\ <<s2, g2>> \in groups /\ o2 \in Player
              /\ <<s2, g2, o2>> \in mxOtherList' =>
                   o2 \in objects' /\ at'[o2] = [scene |-> s2, group |-> g2] /\ <<s2, g2>> \in groups /\ o2 \notin Player
    BY DEF ListInv
  <2>1. CASE o2 = o
    <3>1. at'[o2] = [scene |-> s, group |-> g]
      BY <1>1, <2>1
    <3>2. <<s2, g2, o2>> \in mxPlayerList' => o \in Player /\ <<s2, g2, o2>> \in add
      BY <1>3, <2>1
    <3>3. <<s2, g2, o2>> \in mxOtherList' => o \notin Player /\ <<s2, g2, o2>> \in add
      BY <1>3, <2>1
    <3>4. <<s2, g2, o2>> \in add => s2 = s /\ g2 = g /\ <<s2, g2>> \in groups
      BY <1>2
    <3>. QED BY <3>1, <3>2, <3>3, <3>4, <2>1
  <2>2. CASE o2 # o
    <3>1. at'[o2] = at[o2]
      BY <1>1, <2>2
    <3>2. /\ <<s2, g2, o2>> \in mxPlayerList' => <<s2, g2, o2>> \in mxPlayerList
          /\ <<s2, g2, o2>> \in mxOtherList' => <<s2, g2, o2>> \in mxOtherList
      BY <1>2, <2>2
    <3>. QED BY <3>1, <3>2 DEF IInv, ListInv
  <2>. QED BY <2>1, <2>2
<1>. QED BY <1>4, <1>5

LEMMA CreateObjectIInv ==
  ASSUME IInv, NEW o \in Obj, NEW s \in Scene, NEW g \in Group, CreateObject(o, s, g)
  PROVE  IInv'
<1>. DEFINE place == [scene |-> s, group |-> g]
<1>1. /\ o \notin objects /\ objects' = objects \cup {o} /\ ready' = ready \cup {o}
      /\ at' = [at EXCEPT ![o] = place]
      /\ mxPlayerList' = IF o \in Player THEN mxPlayerList \cup Listing(o, s, g) ELSE mxPlayerList
      /\ mxOtherList' = IF o \in Player THEN mxOtherList ELSE mxOtherList \cup Listing(o, s, g)
      /\ UNCHANGED <<scenes, life, groupIndex, groups, mtDeleteSelfList, updating,
                     moves, usingBackThread, tasks, unsaid, announced>>
  BY DEF CreateObject, threadVars
<1>2. sees' \in [Obj -> SUBSET Obj]
  <2>1. sees' = HasDataView([sees EXCEPT ![o] = {}], o, s, g)
    BY DEF CreateObject
  <2>2. [sees EXCEPT ![o] = {}] \in [Obj -> SUBSET Obj]
    BY DEF IInv, TypeOK
  <2>. QED BY <2>1, <2>2, MoveViewTypes
<1>3. at[o] = Nowhere
  BY <1>1 DEF IInv, TaskInv
<1>4. ListInv' /\ mxPlayerList' \subseteq Member /\ mxOtherList' \subseteq Member
  BY <1>1, <1>3, ListNew
<1>5. at' \in [Obj -> Place]
  BY <1>1, GroupFacts DEF IInv, TypeOK
<1>6. TypeOK'
  BY <1>1, <1>2, <1>4, <1>5 DEF IInv, TypeOK
<1>7. TaskInv'
  <2>1. \A o2 \in Obj \ objects' : at'[o2] = Nowhere
    BY <1>1 DEF IInv, TaskInv, TypeOK
  <2>2. ASSUME NEW i \in 1 .. Len(tasks), tasks[i].step = "properties"
        PROVE  tasks[i].obj \in objects' /\ at'[tasks[i].obj] = Nowhere
    <3>1. tasks[i].obj \in objects /\ at[tasks[i].obj] = Nowhere /\ tasks[i].obj \in Obj
      BY <2>2, PendingFacts
    <3>. QED BY <3>1, <1>1
  <2>. QED BY <1>1, <2>1, <2>2 DEF IInv, TaskInv
<1>. QED BY <1>4, <1>6, <1>7 DEF IInv

LEMMA CreateAsyncIInv ==
  ASSUME IInv, NEW o \in Obj, NEW s \in Scene, NEW g \in Group, CreateAsync(o, s, g)
  PROVE  IInv'
<1>. DEFINE t == [obj |-> o, step |-> "properties", scene |-> s, group |-> g, life |-> life[s]]
<1>1. /\ o \notin objects /\ ~InCreation(o) /\ objects' = objects \cup {o}
      /\ sees' = [sees EXCEPT ![o] = {}] /\ tasks' = Append(tasks, t)
      /\ UNCHANGED <<ready, at, scenes, life, groupIndex, groups, mxPlayerList, mxOtherList,
                     mtDeleteSelfList, updating, moves, usingBackThread, unsaid, announced>>
  BY DEF CreateAsync, placeVars
<1>2. t \in Task /\ t.obj = o /\ t.step = "properties"
  BY DEF IInv, TypeOK, Task, Step
<1>. HIDE DEF t
<1>3. tasks \in Seq(Task)
  BY DEF IInv, TypeOK
<1>4. /\ tasks' \in Seq(Task) /\ Len(tasks') = Len(tasks) + 1 /\ Len(tasks) \in Nat
      /\ \A i \in 1 .. Len(tasks) : tasks'[i] = tasks[i]
      /\ tasks'[Len(tasks) + 1] = t
  BY <1>1, <1>2, <1>3, AppendProperties
<1>5. TypeOK'
  BY <1>1, <1>4 DEF IInv, TypeOK
<1>6. ListInv'
  BY <1>1 DEF IInv, ListInv
<1>7. TaskInv'
  <2>1. at[o] = Nowhere
    BY <1>1 DEF IInv, TaskInv
  <2>2. \A i \in 1 .. Len(tasks) : tasks[i].obj # o
    BY <1>1, <1>3 DEF InCreation
  <2>3. \A i \in 1 .. Len(tasks') : i \in 1 .. Len(tasks) \/ i = Len(tasks) + 1
    BY <1>4
  <2>4. \A o2 \in Obj \ objects' : at'[o2] = Nowhere
    BY <1>1 DEF IInv, TaskInv
  <2>5. ASSUME NEW i \in 1 .. Len(tasks'), tasks'[i].step = "properties"
        PROVE  tasks'[i].obj \in objects' /\ at'[tasks'[i].obj] = Nowhere
    <3>1. CASE i \in 1 .. Len(tasks)
      BY <3>1, <2>5, <1>1, <1>4 DEF IInv, TaskInv
    <3>2. CASE i = Len(tasks) + 1
      BY <3>2, <2>1, <1>1, <1>2, <1>4
    <3>. QED BY <2>3, <3>1, <3>2
  <2>6. ASSUME NEW i \in 1 .. Len(tasks'), NEW j \in 1 .. Len(tasks'), tasks'[i].obj = tasks'[j].obj
        PROVE  i = j
    <3>1. CASE i \in 1 .. Len(tasks) /\ j \in 1 .. Len(tasks)
      BY <3>1, <2>6, <1>4 DEF IInv, TaskInv
    <3>2. CASE i = Len(tasks) + 1 \/ j = Len(tasks) + 1
      BY <3>2, <2>2, <2>3, <2>6, <1>2, <1>4
    <3>. QED BY <2>3, <3>1, <3>2
  <2>. QED BY <2>4, <2>5, <2>6 DEF TaskInv
<1>. QED BY <1>5, <1>6, <1>7 DEF IInv

(* Popping the first task, or putting it back with its next step, keeps    *)
(* every other one.                                                        *)
LEMMA PopFacts ==
  ASSUME NEW q \in Seq(Task), q # <<>>
  PROVE  /\ Head(q) = q[1] /\ Head(q) \in Task
         /\ Tail(q) \in Seq(Task) /\ Len(Tail(q)) = Len(q) - 1 /\ Len(q) \in Nat /\ Len(q) >= 1
         /\ \A i \in 1 .. Len(Tail(q)) : i + 1 \in 1 .. Len(q) /\ Tail(q)[i] = q[i + 1]
<1>1. Len(q) \in Nat /\ Len(q) >= 1 /\ Head(q) = q[1]
  BY EmptySeq
<1>2. /\ Head(q) \in Task /\ Tail(q) \in Seq(Task) /\ Len(Tail(q)) = Len(q) - 1
      /\ \A i \in 1 .. Len(Tail(q)) : Tail(q)[i] = q[i + 1]
  BY HeadTailProperties
<1>. QED BY <1>1, <1>2

LEMMA PopTasks ==
  ASSUME IInv, tasks # <<>>, tasks' = Tail(tasks), UNCHANGED <<objects, at>>
  PROVE  TaskInv' /\ tasks' \in Seq(Task)
<1>1. tasks \in Seq(Task)
  BY DEF IInv, TypeOK
<1>2. /\ tasks' \in Seq(Task)
      /\ \A i \in 1 .. Len(tasks') : i + 1 \in 1 .. Len(tasks) /\ tasks'[i] = tasks[i + 1]
  BY <1>1, PopFacts
<1>3. \A i \in 1 .. Len(tasks') : tasks'[i].step = "properties" =>
        tasks'[i].obj \in objects /\ at[tasks'[i].obj] = Nowhere
  BY <1>2 DEF IInv, TaskInv
<1>4. ASSUME NEW i \in 1 .. Len(tasks'), NEW j \in 1 .. Len(tasks'), tasks'[i].obj = tasks'[j].obj
      PROVE  i = j
  <2>1. i + 1 = j + 1
    BY <1>2, <1>4 DEF IInv, TaskInv
  <2>. QED BY <2>1
<1>5. \A o \in Obj \ objects : at[o] = Nowhere
  BY DEF IInv, TaskInv
<1>. QED BY <1>2, <1>3, <1>4, <1>5 DEF TaskInv

LEMMA PutBackTasks ==
  ASSUME IInv, NEW t, tasks # <<>>, t = Head(tasks), t.obj \in objects,
         tasks' = Append(Tail(tasks), [t EXCEPT !.step = "data"]),
         NEW place, at' = [at EXCEPT ![t.obj] = place], UNCHANGED objects
  PROVE  TaskInv' /\ tasks' \in Seq(Task)
<1>. DEFINE u == [t EXCEPT !.step = "data"]
<1>1. tasks \in Seq(Task) /\ at \in [Obj -> Place]
  BY DEF IInv, TypeOK
<1>2. t = tasks[1] /\ t \in Task
  BY <1>1, PopFacts
<1>3. u \in Task /\ u.obj = t.obj /\ u.step = "data"
  BY <1>2 DEF Task, Step
<1>. HIDE DEF u
<1>4. /\ tasks' \in Seq(Task) /\ Len(tasks') = Len(tasks) /\ Len(tasks) \in Nat /\ Len(tasks) >= 1
      /\ tasks'[Len(tasks)] = u
      /\ \A i \in 1 .. Len(tasks) - 1 : i + 1 \in 1 .. Len(tasks) /\ tasks'[i] = tasks[i + 1]
  <2>1. /\ Tail(tasks) \in Seq(Task) /\ Len(Tail(tasks)) = Len(tasks) - 1
        /\ Len(tasks) \in Nat /\ Len(tasks) >= 1
        /\ \A i \in 1 .. Len(tasks) - 1 : i + 1 \in 1 .. Len(tasks) /\ Tail(tasks)[i] = tasks[i + 1]
    BY <1>1, PopFacts
  <2>2. tasks' = Append(Tail(tasks), u)
    BY DEF u
  <2>3. /\ tasks' \in Seq(Task) /\ Len(tasks') = Len(Tail(tasks)) + 1
        /\ \A i \in 1 .. Len(Tail(tasks)) : tasks'[i] = Tail(tasks)[i]
        /\ tasks'[Len(Tail(tasks)) + 1] = u
    BY <2>1, <2>2, <1>3, AppendProperties
  <2>. QED BY <2>1, <2>3
<1>5. \A i \in 1 .. Len(tasks) - 1 : tasks'[i].obj # t.obj
  <2>. SUFFICES ASSUME NEW i \in 1 .. Len(tasks) - 1 PROVE tasks[i + 1].obj # tasks[1].obj
    BY <1>2, <1>4
  <2>1. i + 1 \in 1 .. Len(tasks) /\ 1 \in 1 .. Len(tasks) /\ i + 1 # 1
    BY <1>4
  <2>. QED BY <2>1 DEF IInv, TaskInv
<1>6. \A i \in 1 .. Len(tasks') : i \in 1 .. Len(tasks) - 1 \/ i = Len(tasks)
  <2>1. Len(tasks') = Len(tasks) /\ Len(tasks) \in Nat
    BY <1>4
  <2>2. \A n \in Nat : \A i \in 1 .. n : i \in 1 .. n - 1 \/ i = n
    OBVIOUS
  <2>. QED BY <2>1, <2>2
<1>7. ASSUME NEW i \in 1 .. Len(tasks'), tasks'[i].step = "properties"
      PROVE  tasks'[i].obj \in objects /\ at'[tasks'[i].obj] = Nowhere
  <2>1. i \in 1 .. Len(tasks) - 1
    BY <1>3, <1>4, <1>6, <1>7
  <2>2. i + 1 \in 1 .. Len(tasks) /\ tasks'[i] = tasks[i + 1] /\ tasks[i + 1].step = "properties"
    BY <2>1, <1>4, <1>7
  <2>3. tasks'[i].obj \in objects /\ at[tasks'[i].obj] = Nowhere /\ tasks'[i].obj \in Obj
    BY <2>2, PendingFacts
  <2>. QED BY <2>1, <2>3, <1>1, <1>5
<1>8. ASSUME NEW i \in 1 .. Len(tasks'), NEW j \in 1 .. Len(tasks'), tasks'[i].obj = tasks'[j].obj
      PROVE  i = j
  <2>1. CASE i \in 1 .. Len(tasks) - 1 /\ j \in 1 .. Len(tasks) - 1
    <3>1. i + 1 = j + 1
      BY <2>1, <1>4, <1>8 DEF IInv, TaskInv
    <3>. QED BY <3>1
  <2>2. CASE i = Len(tasks) \/ j = Len(tasks)
    BY <2>2, <1>3, <1>4, <1>5, <1>6, <1>8
  <2>. QED BY <2>1, <2>2, <1>6
<1>9. \A o \in Obj \ objects' : at'[o] = Nowhere
  BY <1>1 DEF IInv, TaskInv
<1>. QED BY <1>4, <1>7, <1>8, <1>9 DEF TaskInv

LEMMA MainThreadIInv == ASSUME IInv, MainThread PROVE IInv'
<1>. DEFINE t == Head(tasks)
<1>1. tasks \in Seq(Task) /\ tasks # <<>> /\ at \in [Obj -> Place] /\ sees \in [Obj -> SUBSET Obj]
  BY DEF MainThread, IInv, TypeOK
<1>2. t = tasks[1] /\ t \in Task /\ 1 \in 1 .. Len(tasks)
  BY <1>1, PopFacts
<1>3. /\ PlaceCreated(t) \/ FinishCreated(t)
      /\ UNCHANGED <<mtDeleteSelfList, updating, moves, usingBackThread>>
  BY DEF MainThread
<1>. HIDE DEF t
<1>4. t.obj \in Obj /\ t.scene \in Scene /\ t.group \in Group
  BY <1>2 DEF Task
<1>5. CASE FinishCreated(t)
  <2>1. tasks' = Tail(tasks) /\ ready' = ready \cup ({t.obj} \cap objects)
        /\ sees' = HasDataView(sees, t.obj, at[t.obj].scene, at[t.obj].group)
        /\ UNCHANGED <<objects, at, scenes, life, groupIndex, groups, mxPlayerList,
                       mxOtherList, announced>>
    BY <1>5 DEF FinishCreated, placeVars
  <2>2. TaskInv' /\ tasks' \in Seq(Task)
    BY <2>1, <1>1, PopTasks
  <2>3. sees' \in [Obj -> SUBSET Obj]
    BY <2>1, <1>1, <1>4, MoveViewTypes
  <2>4. unsaid' \subseteq Obj \X Obj
    BY <1>5, UnsaidType DEF FinishCreated
  <2>5. ready' \subseteq objects'
    BY <2>1 DEF IInv, TypeOK
  <2>6. TypeOK'
    BY <2>1, <2>2, <2>3, <2>4, <2>5, <1>3 DEF IInv, TypeOK
  <2>7. ListInv'
    BY <2>1 DEF IInv, ListInv
  <2>. QED BY <2>2, <2>6, <2>7 DEF IInv
<1>6. CASE PlaceCreated(t)
  <2>. DEFINE place == [scene |-> t.scene, group |-> t.group]
              add == ListedIn(t.obj, t.scene, t.group, t.life)
  <2>1. /\ t.step = "properties" /\ at' = [at EXCEPT ![t.obj] = place]
        /\ mxPlayerList' = IF t.obj \in Player THEN mxPlayerList \cup add ELSE mxPlayerList
        /\ mxOtherList' = IF t.obj \in Player THEN mxOtherList ELSE mxOtherList \cup add
        /\ tasks' = Append(Tail(tasks), [t EXCEPT !.step = "data"])
        /\ UNCHANGED <<objects, ready, scenes, life, groupIndex, groups, sees, unsaid, announced>>
    BY <1>6 DEF PlaceCreated, viewVars
  <2>2. add \subseteq Listing(t.obj, t.scene, t.group)
    BY DEF ListedIn
  <2>. HIDE DEF add
  <2>3. t.obj \in objects /\ at[t.obj] = Nowhere
    BY <2>1, <1>2, PendingFacts
  <2>4. ListInv' /\ mxPlayerList' \subseteq Member /\ mxOtherList' \subseteq Member
    BY <2>1, <2>2, <2>3, <1>4, ListNew
  <2>5. TaskInv' /\ tasks' \in Seq(Task)
    BY <2>1, <2>3, <1>1, PutBackTasks DEF t
  <2>6. place \in Place
    BY <1>4, GroupFacts
  <2>7. at' \in [Obj -> Place]
    BY <2>1, <2>6, <1>1
  <2>8. TypeOK'
    BY <2>1, <2>4, <2>5, <2>7, <1>3 DEF IInv, TypeOK
  <2>. QED BY <2>4, <2>5, <2>8 DEF IInv
<1>. QED BY <1>3, <1>5, <1>6

-----------------------------------------------------------------------------
(* Destroying. *)

LEMMA DestroyIInv ==
  ASSUME IInv, NEW o \in Obj, Destroyable(o), DestroyEffect(o),
         UNCHANGED <<moves, usingBackThread, tasks>>, mtDeleteSelfList' \in Seq(Obj), updating' \in BOOLEAN
  PROVE  IInv'
<1>. DEFINE s == at[o].scene
            g == at[o].group
            leaves == o \in Player /\ <<s, g>> \in groups
            view == IF leaves THEN LeaveView(sees, o, s, g) ELSE sees
            shown == DestroyView(view, o, s, IF leaves THEN 0 ELSE g)
<1>1. /\ objects' = objects \ {o} /\ ready' = ready \ {o} /\ at' = [at EXCEPT ![o] = Nowhere]
      /\ mxPlayerList' = IF leaves THEN mxPlayerList \ {<<s, g, o>>} ELSE mxPlayerList
      /\ mxOtherList' = IF o \in Player THEN mxOtherList ELSE mxOtherList \ {<<s, g, o>>}
      /\ sees' = [shown EXCEPT ![o] = {}]
      /\ unsaid' = Unsaid({o} \cap (Player \ ready)) /\ announced' = announced \ {o}
      /\ UNCHANGED <<scenes, life, groupIndex, groups>>
  BY DEF DestroyEffect
<1>2. o \in objects /\ s \in scenes /\ at \in [Obj -> Place] /\ sees \in [Obj -> SUBSET Obj]
  BY DEF Destroyable, IInv, TypeOK
<1>3. sees' \in [Obj -> SUBSET Obj]
  <2>1. view \in [Obj -> SUBSET Obj]
    BY <1>2, MoveViewTypes
  <2>. HIDE DEF view
  <2>2. shown \in [Obj -> SUBSET Obj]
    BY <2>1, MoveViewTypes
  <2>. QED BY <1>1, <2>2
<1>4. at' \in [Obj -> Place]
  BY <1>1, <1>2, GroupFacts
<1>. HIDE DEF shown, view
<1>5. TypeOK'
  <2>1. unsaid' \subseteq Obj \X Obj
    BY <1>1, UnsaidType
  <2>2. mxPlayerList' \subseteq Member /\ mxOtherList' \subseteq Member
    BY <1>1 DEF IInv, TypeOK
  <2>3. objects' \subseteq Obj /\ ready' \subseteq objects' /\ announced' \subseteq Player
    BY <1>1 DEF IInv, TypeOK
  <2>. QED BY <1>1, <1>3, <1>4, <2>1, <2>2, <2>3 DEF IInv, TypeOK
<1>6. ListInv'
  <2>. SUFFICES ASSUME NEW s2 \in Scene, NEW g2 \in Group, NEW o2 \in Obj
       PROVE  /\ <<s2, g2, o2>> \in mxPlayerList' => <<s2, g2, o2>> \in mxPlayerList /\ o2 # o
              /\ <<s2, g2, o2>> \in mxOtherList' => <<s2, g2, o2>> \in mxOtherList /\ o2 # o
    BY <1>1, <1>2 DEF IInv, ListInv
  <2>1. o2 = o /\ (<<s2, g2, o>> \in mxPlayerList \/ <<s2, g2, o>> \in mxOtherList)
          => at[o] = [scene |-> s2, group |-> g2] /\ <<s2, g2>> \in groups
    BY DEF IInv, ListInv
  <2>2. /\ <<s2, g2, o>> \in mxPlayerList => o \in Player
        /\ <<s2, g2, o>> \in mxOtherList => o \notin Player
    BY DEF IInv, ListInv
  <2>3. at[o] = [scene |-> s2, group |-> g2] => s = s2 /\ g = g2
    OBVIOUS
  <2>. HIDE DEF s, g
  <2>. QED BY <1>1, <2>1, <2>2, <2>3
<1>7. TaskInv'
  <2>1. \A o2 \in Obj \ objects' : at'[o2] = Nowhere
    BY <1>1, <1>2 DEF IInv, TaskInv
  <2>2. ASSUME NEW i \in 1 .. Len(tasks), tasks[i].step = "properties"
        PROVE  tasks[i].obj \in objects' /\ at'[tasks[i].obj] = Nowhere
    BY <2>2, <1>1, <1>2, PendingFacts
  <2>. QED BY <2>1, <2>2 DEF IInv, TaskInv
<1>. QED BY <1>5, <1>6, <1>7 DEF IInv

LEMMA UpdateIInv == ASSUME IInv, Update PROVE IInv'
<1>. DEFINE o == Head(mtDeleteSelfList)
<1>1. /\ mtDeleteSelfList \in Seq(Obj) /\ mtDeleteSelfList # <<>>
      /\ mtDeleteSelfList' = Tail(mtDeleteSelfList)
      /\ UNCHANGED <<moves, usingBackThread, tasks>> /\ updating' \in BOOLEAN
  BY DEF Update, threadVars, IInv, TypeOK
<1>2. o \in Obj /\ mtDeleteSelfList' \in Seq(Obj)
  BY <1>1, HeadTailProperties
<1>3. IF Destroyable(o) THEN DestroyEffect(o) ELSE UNCHANGED <<objects, ready, placeVars, viewVars>>
  BY DEF Update
<1>. HIDE DEF o
<1>4. CASE Destroyable(o)
  BY <1>1, <1>2, <1>3, <1>4, DestroyIInv
<1>5. CASE ~Destroyable(o)
  <2>1. UNCHANGED <<objects, ready, at, scenes, life, groupIndex, groups, mxPlayerList, mxOtherList,
                    sees, unsaid, announced>>
    BY <1>3, <1>5 DEF placeVars, viewVars
  <2>2. TypeOK'
    BY <1>1, <1>2, <2>1 DEF IInv, TypeOK
  <2>3. ListInv'
    BY <2>1 DEF IInv, ListInv
  <2>4. TaskInv'
    BY <1>1, <2>1 DEF IInv, TaskInv
  <2>. QED BY <2>2, <2>3, <2>4 DEF IInv
<1>. QED BY <1>4, <1>5

LEMMA DestroyObjectIInv == ASSUME IInv, NEW o \in Obj, DestroyObject(o) PROVE IInv'
<1>1. mtDeleteSelfList' \in Seq(Obj) /\ updating' \in BOOLEAN /\ UNCHANGED <<moves, usingBackThread, tasks>>
  BY DEF DestroyObject, threadVars, IInv, TypeOK
<1>. QED BY <1>1, DestroyIInv DEF DestroyObject

LEMMA DestroySelfIInv == ASSUME IInv, NEW o \in Obj, DestroySelf(o) PROVE IInv'
<1>1. /\ mtDeleteSelfList' = Append(mtDeleteSelfList, o)
      /\ UNCHANGED <<objects, ready, at, scenes, life, groupIndex, groups, mxPlayerList, mxOtherList,
                     updating, moves, usingBackThread, tasks, sees, unsaid, announced>>
  BY DEF DestroySelf, placeVars, threadVars, viewVars
<1>2. mtDeleteSelfList' \in Seq(Obj)
  BY <1>1, AppendProperties DEF IInv, TypeOK
<1>3. TypeOK'
  BY <1>1, <1>2 DEF IInv, TypeOK
<1>4. ListInv'
  BY <1>1 DEF IInv, ListInv
<1>5. TaskInv'
  BY <1>1 DEF IInv, TaskInv
<1>. QED BY <1>3, <1>4, <1>5 DEF IInv

-----------------------------------------------------------------------------

(* What is on its way the other calls leave alone.                         *)
LEMMA SceneryMoves == ASSUME IInv, MoveInv, Scenery PROVE MoveInv'
<1>1. ASSUME NEW s \in Scene, CreateScene(s) \/ DestroyScene(s) \/ RequestGroupScene(s)
      PROVE  MoveInv'
  <2>1. UNCHANGED <<moves, objects, at>> /\ mxPlayerList' \subseteq mxPlayerList
    BY <1>1 DEF CreateScene, DestroyScene, RequestGroupScene
  <2>. QED BY <2>1, KeepMoves
<1>2. ASSUME NEW s \in Scene, NEW g \in Group, ReleaseGroupScene(s, g)
      PROVE  MoveInv'
  <2>1. /\ objects' = objects \ Others(s, g) /\ UNCHANGED moves
        /\ at' = [o \in Obj |-> IF o \in Others(s, g) THEN Nowhere ELSE at[o]]
        /\ mxPlayerList' \subseteq mxPlayerList
    BY <1>2 DEF ReleaseGroupScene, DestroySceneNPC
  <2>2. \A o \in Obj : InTransit(o) => o \notin Others(s, g)
    <3>0. \A i \in DOMAIN moves : moves[i] \in Move
      BY DEF IInv, TypeOK
    <3>1. \A o \in Obj : InTransit(o) => o \in Player
      BY <3>0 DEF InTransit, Move
    <3>2. \A o \in Others(s, g) : o \notin Player
      BY DEF Others, IInv, ListInv
    <3>. QED BY <3>1, <3>2
  <2>. QED BY <2>1, <2>2, KeepMoves
<1>. QED BY <1>1, <1>2 DEF Scenery

LEMMA LifeMoves == ASSUME IInv, MoveInv, NEW o \in Obj, ~InTransit(o), Life(o) PROVE MoveInv'
<1>0. at \in [Obj -> Place]
  BY DEF IInv, TypeOK
<1>1. ASSUME NEW s \in Scene, NEW g \in Group, CreateObject(o, s, g) PROVE MoveInv'
  <2>1. /\ objects \subseteq objects' /\ UNCHANGED moves
        /\ at' = [at EXCEPT ![o] = [scene |-> s, group |-> g]]
        /\ mxPlayerList' \subseteq mxPlayerList \cup {<<s, g, o>>}
    BY <1>1 DEF CreateObject, Listing
  <2>2. \A x \in Obj : InTransit(x) =>
          at'[x] = at[x] /\ \A a \in Scene, b \in Group : <<a, b, x>> \in mxPlayerList' => <<a, b, x>> \in mxPlayerList
    BY <1>0, <2>1
  <2>. QED BY <2>1, <2>2, KeepMoves
<1>2. ASSUME NEW s \in Scene, NEW g \in Group, CreateAsync(o, s, g) PROVE MoveInv'
  <2>1. objects \subseteq objects' /\ UNCHANGED <<moves, at, mxPlayerList>>
    BY <1>2 DEF CreateAsync, placeVars
  <2>. QED BY <2>1, KeepMoves
<1>3. ASSUME DestroyObject(o) PROVE MoveInv'
  <2>1. /\ objects' = objects \ {o} /\ UNCHANGED moves /\ at' = [at EXCEPT ![o] = Nowhere]
        /\ mxPlayerList' \subseteq mxPlayerList
    BY <1>3 DEF DestroyObject, DestroyEffect
  <2>2. \A x \in Obj : InTransit(x) => at'[x] = at[x] /\ (x \in objects => x \in objects')
    BY <1>0, <2>1
  <2>. QED BY <2>1, <2>2, KeepMoves
<1>. QED BY <1>1, <1>2, <1>3 DEF Life

LEMMA NextIInv == IInv /\ MoveInv /\ [Next]_vars => IInv' /\ MoveInv'
<1>. SUFFICES ASSUME IInv, MoveInv, [Next]_vars PROVE IInv' /\ MoveInv'
  OBVIOUS
<1>1. CASE Scenery
  BY <1>1, SceneryMoves, CreateSceneIInv, DestroySceneIInv, RequestGroupSceneIInv, ReleaseGroupSceneIInv
     DEF Scenery
<1>2. ASSUME NEW o \in Obj, ~InTransit(o), Life(o) PROVE IInv' /\ MoveInv'
  BY <1>2, LifeMoves, CreateObjectIInv, CreateAsyncIInv, DestroyObjectIInv DEF Life
<1>3. ASSUME NEW o \in Obj, ~InTransit(o), Moving(o) PROVE IInv' /\ MoveInv'
  BY <1>3, RequestEnterSceneIInv, LeaveSceneGroupIInv DEF Moving
<1>4. ASSUME NEW o \in objects, DestroySelf(o) PROVE IInv' /\ MoveInv'
  <2>1. o \in Obj
    BY DEF IInv, TypeOK
  <2>2. UNCHANGED <<objects, at, mxPlayerList, moves>>
    BY <1>4 DEF DestroySelf, placeVars
  <2>. QED BY <1>4, <2>1, <2>2, DestroySelfIInv, KeepMoves
<1>5. CASE UNCHANGED vars
  <2>1. UNCHANGED <<objects, ready, at, scenes, life, groupIndex, groups, mxPlayerList, mxOtherList,
                    mtDeleteSelfList, updating, moves, usingBackThread, tasks, sees, unsaid, announced>>
    BY <1>5 DEF vars
  <2>2. TypeOK'
    BY <2>1 DEF IInv, TypeOK
  <2>3. ListInv'
    BY <2>1 DEF IInv, ListInv
  <2>4. TaskInv'
    BY <2>1 DEF IInv, TaskInv
  <2>5. MoveInv'
    BY <2>1, KeepMoves
  <2>. QED BY <2>2, <2>3, <2>4, <2>5 DEF IInv
<1>6. CASE MainThread
  <2>1. moves' = <<>>
    BY <1>6 DEF MainThread
  <2>. QED BY <1>6, <2>1, MainThreadIInv, NoMoves
<1>7. CASE Update
  <2>1. moves' = <<>>
    BY <1>7 DEF Update
  <2>. QED BY <1>7, <2>1, UpdateIInv, NoMoves
<1>8. \/ Scenery \/ (\E o \in Obj : ~InTransit(o) /\ (Life(o) \/ Moving(o)))
      \/ (\E o \in objects : DestroySelf(o)) \/ Depart \/ Swap \/ Arrive \/ MainThread \/ Update
      \/ UNCHANGED vars
  BY Zenon DEF Next
<1>. QED BY <1>1, <1>2, <1>3, <1>4, <1>5, <1>6, <1>7, <1>8, DepartIInv, SwapIInv, ArriveIInv

(* The inductive invariant: lists, places, creations and moves under way   *)
(* fit together.                                                           *)
THEOREM Invariance == Spec => [](IInv /\ MoveInv)
<1>1. Init => IInv /\ MoveInv
  BY InitIInv DEF Init, MoveInv
<1>2. (IInv /\ MoveInv) /\ [Next]_vars => (IInv /\ MoveInv)'
  BY NextIInv
<1>. QED BY <1>1, <1>2, PTL DEF Spec

(* The groups' lists and the places of the objects agree, for any number   *)
(* of objects, scenes and groups, with and without the back thread: a      *)
(* group lists an object only while it exists, is of the list's kind and   *)
(* carries the group's ids, and the group is there (SceneModule's lists    *)
(* against the SceneID and GroupID properties).                            *)
THEOREM ListsStayTrue == Spec => []ListsAgree
BY Invariance, ListsFit, PTL

(* Who asks is told the same from the lists and from the objects.          *)
LEMMA FoundFit == IInv => FoundOnce /\ FoundAlike
<1>. SUFFICES ASSUME IInv PROVE FoundOnce /\ FoundAlike
  OBVIOUS
<1>0. ListsAgree
  BY ListsFit
<1>1. ASSUME NEW s, NEW g, NEW o, <<s, g, o>> \in mxPlayerList \cup mxOtherList
      PROVE  /\ o \in objects /\ at[o] = [scene |-> s, group |-> g]
             /\ <<s, g, o>> \in mxPlayerList <=> o \in Player
  BY <1>0, <1>1 DEF ListsAgree
<1>2. FoundOnce
  <2>. SUFFICES ASSUME NEW o \in Obj, NEW sg \in groups, ExistObjectInGroup(sg[1], sg[2], o),
                       NEW th \in groups, ExistObjectInGroup(th[1], th[2], o)
                PROVE  ExistObject(o) /\ sg = th
    BY DEF FoundOnce
  <2>1. /\ <<sg[1], sg[2], o>> \in mxPlayerList \cup mxOtherList
        /\ <<th[1], th[2], o>> \in mxPlayerList \cup mxOtherList
    BY DEF ExistObjectInGroup
  <2>2. o \in objects
    BY <1>1, <2>1
  <2>3. /\ [scene |-> sg[1], group |-> sg[2]] = [scene |-> th[1], group |-> th[2]]
    BY <1>1, <2>1
  <2>4. sg[1] = th[1] /\ sg[2] = th[2]
    BY <2>3
  <2>5. sg = <<sg[1], sg[2]>> /\ th = <<th[1], th[2]>>
    BY DEF IInv, TypeOK
  <2>. QED BY <2>2, <2>4, <2>5 DEF ExistObject
<1>3. FoundAlike
  <2>. SUFFICES ASSUME NEW s \in Scene, NEW g \in GetGroups(s)
                PROVE  LET all == GetGroupObjectList(s, g)
                       IN /\ GetObjectByProperty(s, g, "scene", s) = all
                          /\ GetObjectByProperty(s, g, "group", g) = all
                          /\ \A self \in all :
                               /\ OfClass(s, g, Player, self) = Players(s, g) \ {self}
                               /\ OfClass(s, g, Obj \ Player, self) = Others(s, g) \ {self}
    BY DEF FoundAlike
  <2>1. \A o \in Players(s, g) : o \in objects /\ o \in Player /\ o \in Obj
                                 /\ at[o] = [scene |-> s, group |-> g]
    BY <1>1 DEF Players
  <2>2. \A o \in Others(s, g) : o \in objects /\ o \notin Player /\ o \in Obj
                                /\ at[o] = [scene |-> s, group |-> g]
    <3>. SUFFICES ASSUME NEW o \in Others(s, g)
                  PROVE  /\ o \in objects /\ o \notin Player /\ o \in Obj
                         /\ at[o] = [scene |-> s, group |-> g]
      OBVIOUS
    <3>1. <<s, g, o>> \in mxOtherList /\ o \in Obj
      BY DEF Others
    <3>2. o \in objects /\ at[o] = [scene |-> s, group |-> g]
      BY <1>1, <3>1
    <3>3. s \in Scene /\ g \in Group
      <4>1. <<s, g, o>> \in Member
        BY <3>1 DEF IInv, TypeOK
      <4>. QED BY <4>1 DEF Member
    <3>4. o \notin Player
      BY <3>1, <3>3 DEF IInv, ListInv
    <3>. QED BY <3>1, <3>2, <3>4
  <2>3. /\ \A o \in Players(s, g) \cup Others(s, g) : at[o]["scene"] = s /\ at[o]["group"] = g
    BY <2>1, <2>2
  <2>4. CASE ExitGroupScene(s, g)
    BY <2>1, <2>2, <2>3, <2>4 DEF GetGroupObjectList, GetObjectByProperty, OfClass, ExistObject
  <2>5. CASE ~ExitGroupScene(s, g)
    BY <2>5 DEF GetGroupObjectList, GetObjectByProperty, OfClass
  <2>. QED BY <2>4, <2>5
<1>. QED BY <1>2, <1>3

(* Each listed player is another one of those that exist.                  *)
LEMMA CountFits == IInv => CountedOnce
<1>. SUFFICES ASSUME IInv PROVE CountedOnce
  OBVIOUS
<1>1. \A m \in mxPlayerList : /\ m = <<m[1], m[2], m[3]>> /\ m[3] \in objects \cap Player
                              /\ at[m[3]] = [scene |-> m[1], group |-> m[2]]
  <2>. SUFFICES ASSUME NEW m \in mxPlayerList
                PROVE  /\ m = <<m[1], m[2], m[3]>> /\ m[3] \in objects \cap Player
                       /\ at[m[3]] = [scene |-> m[1], group |-> m[2]]
    OBVIOUS
  <2>1. m \in Member
    BY DEF IInv, TypeOK
  <2>2. m[1] \in Scene /\ m[2] \in Group /\ m[3] \in Obj /\ m = <<m[1], m[2], m[3]>>
    BY <2>1, MemberFacts
  <2>3. <<m[1], m[2], m[3]>> \in mxPlayerList
    BY <2>2
  <2>4. /\ m[3] \in objects /\ m[3] \in Player
        /\ at[m[3]] = [scene |-> m[1], group |-> m[2]]
    BY <2>2, <2>3 DEF IInv, ListInv
  <2>. QED BY <2>2, <2>4
<1>. DEFINE listed == {o \in objects \cap Player : \E m \in mxPlayerList : m[3] = o}
            f == [o \in listed |-> <<at[o].scene, at[o].group, o>>]
<1>2. IsFiniteSet(objects \cap Player) /\ listed \subseteq objects \cap Player
  <2>1. objects \cap Player \subseteq Obj
    BY DEF IInv, TypeOK
  <2>. QED BY <2>1, ObjAssumption, FS_Subset
<1>3. IsFiniteSet(listed) /\ Cardinality(listed) <= Cardinality(objects \cap Player)
  BY <1>2, FS_Subset
<1>4. \A m \in mxPlayerList : m[3] \in listed /\ f[m[3]] = m
  <2>. SUFFICES ASSUME NEW m \in mxPlayerList PROVE m[3] \in listed /\ f[m[3]] = m
    OBVIOUS
  <2>1. m[3] \in listed
    BY <1>1
  <2>2. at[m[3]].scene = m[1] /\ at[m[3]].group = m[2]
    <3>1. at[m[3]] = [scene |-> m[1], group |-> m[2]]
      BY <1>1
    <3>2. /\ [scene |-> m[1], group |-> m[2]].scene = m[1]
          /\ [scene |-> m[1], group |-> m[2]].group = m[2]
      OBVIOUS
    <3>. QED BY <3>1, <3>2, Zenon
  <2>3. f[m[3]] = <<at[m[3]].scene, at[m[3]].group, m[3]>>
    BY <2>1
  <2>. QED BY <1>1, <2>1, <2>2, <2>3
<1>5. \A o \in listed : f[o] \in mxPlayerList
  <2>. SUFFICES ASSUME NEW o \in listed PROVE f[o] \in mxPlayerList
    OBVIOUS
  <2>1. PICK m \in mxPlayerList : m[3] = o
    OBVIOUS
  <2>. QED BY <1>4, <2>1
<1>6. f \in Surjection(listed, mxPlayerList)
  <2>1. f \in [listed -> mxPlayerList]
    BY <1>5
  <2>2. \A m \in mxPlayerList : \E o \in listed : f[o] = m
    BY <1>4
  <2>. HIDE DEF f, listed
  <2>. QED BY <2>1, <2>2 DEF Surjection
<1>. HIDE DEF f, listed
<1>7. Cardinality(mxPlayerList) <= Cardinality(listed) /\ IsFiniteSet(mxPlayerList)
  BY <1>3, <1>6, FS_Surjection
<1>8. /\ Cardinality(mxPlayerList) \in Nat /\ Cardinality(listed) \in Nat
      /\ Cardinality(objects \cap Player) \in Nat
  BY <1>2, <1>3, <1>7, FS_CardinalityType
<1>. QED BY <1>3, <1>7, <1>8 DEF CountedOnce, GetOnLineCount

(* What other modules are told of places, classes and numbers is true,     *)
(* whatever came, moved and went before (WorldModule's queries against     *)
(* SceneModule's lists and the objects).                                   *)
THEOREM PlacesStayRight == Spec => []PlacesRight
<1>1. IInv => PlacesRight
  BY ListsFit, FoundFit, CountFits DEF PlacesRight, QueriesAgree
<1>. QED BY <1>1, Invariance, PTL

(* No request to destroy an object is lost, also none made twice or        *)
(* answered by a failure: an object leaves the list of DestroySelf by an   *)
(* Update that destroys it, or whose scene is gone                         *)
(* (WorldModule::Update, mtDeleteSelfList).                                *)
THEOREM DeleteRequestsServed == Spec => DeleteListServed
<1>. DEFINE in(o, list) == \E i \in DOMAIN list : list[i] = o
            Served(o) == in(o, mtDeleteSelfList) /\ ~in(o, mtDeleteSelfList')
                           => o \notin objects' \/ at[o].scene \notin scenes
<1>1. IInv /\ [Next]_vars => [\A o \in Obj : Served(o)]_vars
  <2>. SUFFICES ASSUME IInv, Next, NEW o \in Obj, in(o, mtDeleteSelfList), ~in(o, mtDeleteSelfList')
       PROVE  o \notin objects' \/ at[o].scene \notin scenes
    OBVIOUS
  <2>1. mtDeleteSelfList \in Seq(Obj) /\ mtDeleteSelfList' # mtDeleteSelfList
    BY DEF IInv, TypeOK
  <2>2. ~Scenery
    BY <2>1 DEF Scenery, CreateScene, DestroyScene, RequestGroupScene, ReleaseGroupScene
  <2>3. ~MainThread
    BY <2>1 DEF MainThread
  <2>4. \A o2 \in Obj : ~Moving(o2) /\ ~Life(o2)
    <3>1. \A o2 \in Obj, s \in Scene, g \in Group :
            ~RequestEnterScene(o2, s, g) /\ ~CreateObject(o2, s, g) /\ ~CreateAsync(o2, s, g)
      BY <2>1 DEF RequestEnterScene, CreateObject, CreateAsync
    <3>2. \A o2 \in Obj : ~LeaveSceneGroup(o2) /\ ~DestroyObject(o2)
      BY <2>1 DEF LeaveSceneGroup, DestroyObject
    <3>. QED BY <3>1, <3>2 DEF Moving, Life
  <2>a. ~(Depart \/ Swap \/ Arrive)
    BY <2>1 DEF Depart, Swap, Arrive
  <2>5. ASSUME NEW o2 \in objects, DestroySelf(o2) PROVE FALSE
    <3>1. o2 \in Obj
      BY DEF IInv, TypeOK
    <3>2. mtDeleteSelfList' = Append(mtDeleteSelfList, o2)
      BY <2>5 DEF DestroySelf
    <3>3. PICK i \in 1 .. Len(mtDeleteSelfList) : mtDeleteSelfList[i] = o
      BY <2>1
    <3>4. i \in 1 .. Len(mtDeleteSelfList') /\ mtDeleteSelfList'[i] = o
      BY <2>1, <3>1, <3>2, <3>3, AppendProperties
    <3>5. mtDeleteSelfList' \in Seq(Obj)
      BY <2>1, <3>1, <3>2, AppendProperties
    <3>. QED BY <3>4, <3>5
  <2>6. Update
    BY <2>2, <2>3, <2>4, <2>a, <2>5 DEF Next
  <2>7. mtDeleteSelfList # <<>> /\ mtDeleteSelfList' = Tail(mtDeleteSelfList)
    BY <2>6 DEF Update
  <2>8. o = Head(mtDeleteSelfList)
    <3>1. PICK i \in 1 .. Len(mtDeleteSelfList) : mtDeleteSelfList[i] = o
      BY <2>1
    <3>2. /\ Tail(mtDeleteSelfList) \in Seq(Obj)
          /\ Len(Tail(mtDeleteSelfList)) = Len(mtDeleteSelfList) - 1
          /\ \A j \in 1 .. Len(Tail(mtDeleteSelfList)) :
               Tail(mtDeleteSelfList)[j] = mtDeleteSelfList[j + 1]
      BY <2>1, <2>7, HeadTailProperties
    <3>3. Len(mtDeleteSelfList) \in Nat
      BY <2>1
    <3>4. ASSUME i # 1 PROVE FALSE
      <4>1. i - 1 \in 1 .. Len(mtDeleteSelfList) - 1 /\ (i - 1) + 1 = i
        BY <3>3, <3>4
      <4>2. Tail(mtDeleteSelfList)[i - 1] = o
        BY <3>1, <3>2, <4>1
      <4>3. i - 1 \in DOMAIN Tail(mtDeleteSelfList)
        BY <3>2, <4>1
      <4>4. in(o, Tail(mtDeleteSelfList))
        BY <4>2, <4>3
      <4>. QED BY <2>7, <4>4
    <3>. QED BY <2>1, <3>1, <3>4
  <2>9. CASE Destroyable(o)
    BY <2>6, <2>8, <2>9 DEF Update, DestroyEffect
  <2>10. CASE ~Destroyable(o)
    BY <2>6, <2>8, <2>10 DEF Update, Destroyable
  <2>. QED BY <2>9, <2>10
<1>. QED BY <1>1, Invariance, PTL DEF Spec, DeleteListServed

-----------------------------------------------------------------------------
(* What the clients show.                                                  *)

(* A list holds the object at its place; two are there together.           *)
Here(o) == <<at[o].scene, at[o].group, o>> \in mxPlayerList \cup mxOtherList
Beside(p, o) == Here(p) /\ Here(o) /\ at[p] = at[o]

(* What a client shows and no part of the code forgot is beside its        *)
(* player: ViewsFresh speaks of the place only, and an object that is at   *)
(* the place of a group and not in its list would be overlooked when it    *)
(* goes.                                                                   *)
SeenInv ==
  \A p \in objects \cap Player : \A o \in sees[p] \ {p} :
    <<p, o>> \in unsaid \/ Beside(p, o)

(* Who was announced is listed and sees what is beside it and finished.    *)
ToldInv ==
  \A p \in announced :
    /\ Here(p)
    /\ \A o \in Obj \ {p} :
         Beside(p, o) /\ o \in announced \cup (ready \ Player) => o \in sees[p]

(* Nothing is finished before it has its place.                            *)
WaitInv ==
  \A i \in 1 .. Len(tasks) : tasks[i].step = "properties" => tasks[i].obj \notin ready

VInv == IInv /\ SeenInv /\ ToldInv /\ WaitInv

(* A list holds exactly those of its kind that are here.                   *)
LEMMA HereFacts ==
  ASSUME IInv, NEW o \in Obj
  PROVE  /\ Here(o) => /\ o \in objects /\ at[o].scene \in Scene /\ at[o].group \in Group
                       /\ at[o] = [scene |-> at[o].scene, group |-> at[o].group]
                       /\ <<at[o].scene, at[o].group>> \in groups
         /\ \A s, g : o \in Players(s, g) <=> o \in Player /\ Here(o) /\ at[o].scene = s /\ at[o].group = g
         /\ \A s, g : o \in Others(s, g) <=> o \notin Player /\ Here(o) /\ at[o].scene = s /\ at[o].group = g
<1>1. \A s, g : <<s, g, o>> \in mxPlayerList \cup mxOtherList => s \in Scene /\ g \in Group
  BY DEF IInv, TypeOK, Member
<1>2. \A s, g : <<s, g, o>> \in mxPlayerList =>
        o \in objects /\ at[o] = [scene |-> s, group |-> g] /\ <<s, g>> \in groups /\ o \in Player
  BY <1>1 DEF IInv, ListInv
<1>3. \A s, g : <<s, g, o>> \in mxOtherList =>
        o \in objects /\ at[o] = [scene |-> s, group |-> g] /\ <<s, g>> \in groups /\ o \notin Player
  BY <1>1 DEF IInv, ListInv
<1>4. \A s, g : at[o] = [scene |-> s, group |-> g] => at[o].scene = s /\ at[o].group = g
  OBVIOUS
<1>5. Here(o) => /\ o \in objects /\ at[o].scene \in Scene /\ at[o].group \in Group
                 /\ at[o] = [scene |-> at[o].scene, group |-> at[o].group]
                 /\ <<at[o].scene, at[o].group>> \in groups
  BY <1>1, <1>2, <1>3 DEF Here
<1>6. \A s, g : o \in Players(s, g) <=> o \in Player /\ Here(o) /\ at[o].scene = s /\ at[o].group = g
  BY <1>2, <1>3, <1>4 DEF Here, Players
<1>7. \A s, g : o \in Others(s, g) <=> o \notin Player /\ Here(o) /\ at[o].scene = s /\ at[o].group = g
  BY <1>2, <1>3, <1>4 DEF Here, Others
<1>. QED BY <1>5, <1>6, <1>7

LEMMA SamePlace ==
  ASSUME IInv, NEW p \in Obj, NEW o \in Obj, Here(p), Here(o)
  PROVE  at[p] = at[o] <=> at[p].scene = at[o].scene /\ at[p].group = at[o].group
BY HereFacts

LEMMA ViewsFit == VInv => ViewsExact
<1>. SUFFICES ASSUME VInv PROVE ViewsExact
  OBVIOUS
<1>0. IInv /\ objects \subseteq Obj /\ sees \in [Obj -> SUBSET Obj] /\ announced \subseteq Player
      /\ Player \subseteq Obj
  BY ObjAssumption DEF VInv, IInv, TypeOK
<1>1. ViewsFresh
  <2>. SUFFICES ASSUME NEW p \in objects \cap Player, NEW o \in sees[p] \ {p}, Beside(p, o)
                PROVE  o \in objects /\ at[o] = at[p]
    BY DEF VInv, SeenInv, ViewsFresh
  <2>1. o \in Obj
    BY <1>0
  <2>. QED BY <1>0, <2>1, HereFacts DEF Beside
<1>2. ViewsComplete
  <2>. SUFFICES ASSUME NEW p \in announced
                PROVE  /\ <<at[p].scene, at[p].group, p>> \in mxPlayerList
                       /\ \A o \in (Others(at[p].scene, at[p].group) \cap ready)
                                     \cup (Players(at[p].scene, at[p].group) \cap announced) :
                            o \in sees[p] \cup {p}
    BY DEF ViewsComplete
  <2>. DEFINE s == at[p].scene
              g == at[p].group
  <2>1. p \in Obj /\ p \in Player /\ Here(p)
    BY <1>0 DEF VInv, ToldInv
  <2>2. <<s, g, p>> \in mxPlayerList
    <3>1. p \in Players(s, g)
      BY <1>0, <2>1, HereFacts
    <3>. QED BY <3>1 DEF Players
  <2>3. ASSUME NEW o \in Obj, o \in (Others(s, g) \cap ready) \cup (Players(s, g) \cap announced)
        PROVE  o \in sees[p] \cup {p}
    <3>1. Here(o) /\ at[o].scene = s /\ at[o].group = g /\ o \in announced \cup (ready \ Player)
      <4>. HIDE DEF s, g
      <4>. QED BY <1>0, <2>3, HereFacts
    <3>2. Beside(p, o)
      BY <1>0, <2>1, <3>1, SamePlace DEF Beside
    <3>. QED BY <2>1, <3>1, <3>2 DEF VInv, ToldInv
  <2>. QED BY <2>2, <2>3 DEF Others, Players
<1>. QED BY <1>1, <1>2 DEF ViewsExact

LEMMA InitVInv == Init => VInv
<1>. SUFFICES ASSUME Init PROVE VInv
  OBVIOUS
<1>1. IInv
  BY InitIInv
<1>. QED BY <1>1 DEF Init, VInv, SeenInv, ToldInv, WaitInv

(* Who sees whom after a telling.                                          *)
LEMMA Told ==
  ASSUME NEW view \in [Obj -> SUBSET Obj], NEW whom, NEW of, NEW p \in Obj
  PROVE  /\ \A x : x \in Entered(view, whom, of)[p] <=> x \in view[p] \/ (p \in whom /\ x \in of)
         /\ \A x : x \in Left(view, whom, of)[p] <=> x \in view[p] /\ ~(p \in whom /\ x \in of)
BY DEF Entered, Left

LEMMA MoveTold ==
  ASSUME NEW view \in [Obj -> SUBSET Obj], NEW o \in Obj, NEW s, NEW g, NEW p \in Obj, NEW x
  PROVE  LET others == Players(s, g) \ {o}
             told == (p \in others /\ x = o) \/ (p = o /\ x \in others \cup Others(s, g))
         IN /\ x \in LeaveView(view, o, s, g)[p] <=> x \in view[p] /\ ~(Passed(o, g) /\ told)
            /\ x \in EnterView(view, o, s, g)[p] <=> x \in view[p] \/ (Passed(o, g) /\ told)
            /\ x \in DestroyView(view, o, s, g)[p] <=> x \in view[p] /\ ~(p \in others /\ x = o)
<1>. DEFINE others == Players(s, g) \ {o}
            all == others \cup Others(s, g)
<1>1. others \subseteq Obj /\ all \subseteq Obj /\ {o} \subseteq Obj
  BY DEF Players, Others
<1>. HIDE DEF others, all
<1>2. /\ Left(view, others, {o}) \in [Obj -> SUBSET Obj]
      /\ Entered(view, others, {o}) \in [Obj -> SUBSET Obj]
  BY <1>1, ViewTypes
<1>3. /\ x \in Left(view, others, {o})[p] <=> x \in view[p] /\ ~(p \in others /\ x \in {o})
      /\ x \in Entered(view, others, {o})[p] <=> x \in view[p] \/ (p \in others /\ x \in {o})
  BY Told
<1>4. \A w \in [Obj -> SUBSET Obj] :
        /\ x \in Left(w, {o}, all)[p] <=> x \in w[p] /\ ~(p \in {o} /\ x \in all)
        /\ x \in Entered(w, {o}, all)[p] <=> x \in w[p] \/ (p \in {o} /\ x \in all)
  BY Told
<1>5. x \in LeaveView(view, o, s, g)[p] <=>
        x \in view[p] /\ ~(Passed(o, g) /\ ((p \in others /\ x = o) \/ (p = o /\ x \in all)))
  BY <1>2, <1>3, <1>4 DEF LeaveView, others, all
<1>6. x \in EnterView(view, o, s, g)[p] <=>
        x \in view[p] \/ (Passed(o, g) /\ ((p \in others /\ x = o) \/ (p = o /\ x \in all)))
  BY <1>2, <1>3, <1>4 DEF EnterView, others, all
<1>7. x \in DestroyView(view, o, s, g)[p] <=> x \in view[p] /\ ~(p \in others /\ x = o)
  BY <1>3 DEF DestroyView, others
<1>. QED BY <1>5, <1>6, <1>7 DEF others, all

LEMMA HasDataTold ==
  ASSUME NEW view \in [Obj -> SUBSET Obj], NEW o \in Obj, NEW s, NEW g, NEW p \in Obj, NEW x
  PROVE  x \in HasDataView(view, o, s, g)[p] <=>
           \/ x \in view[p]
           \/ o \in Player /\ p = o /\ x = o
           \/ o \notin Player /\ s > 0 /\ <<s, g, p>> \in mxPlayerList /\ x = o
BY Told DEF HasDataView

(* What went without a telling and is still shown is on the list of such.  *)
LEMMA UnsaidFacts ==
  ASSUME NEW these, unsaid' = Unsaid(these), NEW p \in Obj, NEW x \in Obj, p # x, x \in sees'[p],
         <<p, x>> \in unsaid \/ p \in these \/ x \in these
  PROVE  <<p, x>> \in unsaid'
BY DEF Unsaid

(* Moving, listing or unlisting one object leaves the others where they    *)
(* are.                                                                    *)
LEMMA OthersStay ==
  ASSUME IInv, NEW o \in Obj, NEW place, at' = [at EXCEPT ![o] = place],
         \A s, g : \A x \in Obj \ {o} :
           <<s, g, x>> \in mxPlayerList' \cup mxOtherList' <=> <<s, g, x>> \in mxPlayerList \cup mxOtherList
  PROVE  /\ at'[o] = place
         /\ \A x \in Obj \ {o} : at'[x] = at[x] /\ (Here(x)' <=> Here(x))
         /\ \A p, x \in Obj \ {o} : Beside(p, x)' <=> Beside(p, x)
<1>1. at \in [Obj -> Place]
  BY DEF IInv, TypeOK
<1>2. at'[o] = place /\ \A x \in Obj \ {o} : at'[x] = at[x]
  BY <1>1
<1>3. \A x \in Obj \ {o} : Here(x)' <=> Here(x)
  BY <1>2 DEF Here
<1>4. \A p, x \in Obj \ {o} : Beside(p, x)' <=> Beside(p, x)
  BY <1>2, <1>3 DEF Beside
<1>. QED BY <1>2, <1>3, <1>4

(* So only what is shown of it, and to it, can become wrong.               *)
LEMMA SeenFrame ==
  ASSUME VInv, IInv', NEW o \in Obj, objects' \subseteq objects \cup {o},
         \A p, x \in Obj \ {o} : Beside(p, x)' <=> Beside(p, x),
         \A p, x \in Obj \ {o} : p # x /\ x \in sees'[p] =>
           x \in sees[p] /\ (<<p, x>> \in unsaid => <<p, x>> \in unsaid'),
         \A p \in (objects' \cap Player) \ {o} :
           o \in sees'[p] => <<p, o>> \in unsaid' \/ Beside(p, o)',
         o \in objects' \cap Player =>
           \A x \in Obj \ {o} : x \in sees'[o] => <<o, x>> \in unsaid' \/ Beside(o, x)'
  PROVE  SeenInv'
<1>. SUFFICES ASSUME NEW p \in objects' \cap Player, NEW x \in sees'[p] \ {p}
              PROVE  <<p, x>> \in unsaid' \/ Beside(p, x)'
  BY DEF SeenInv
<1>1. p \in Obj /\ x \in Obj
  BY DEF IInv, TypeOK
<1>2. CASE p # o /\ x # o
  <2>1. p \in objects \cap Player /\ x \in sees[p] \ {p}
    BY <1>1, <1>2
  <2>2. <<p, x>> \in unsaid \/ Beside(p, x)
    BY <2>1 DEF VInv, SeenInv
  <2>. QED BY <1>1, <1>2, <2>2
<1>. QED BY <1>1, <1>2

LEMMA ToldFrame ==
  ASSUME VInv, NEW o \in Obj, announced' \subseteq announced \cup {o}, ready' \subseteq ready \cup {o},
         \A x \in Obj \ {o} : Here(x)' <=> Here(x),
         \A p, x \in Obj \ {o} : Beside(p, x)' <=> Beside(p, x),
         \A p, x \in Obj \ {o} : x \in sees[p] => x \in sees'[p],
         \A p \in announced' \ {o} :
           Beside(p, o)' /\ o \in announced' \cup (ready' \ Player) => o \in sees'[p],
         o \in announced' =>
           /\ Here(o)'
           /\ \A x \in Obj \ {o} : Beside(o, x)' /\ x \in announced' \cup (ready' \ Player) => x \in sees'[o]
  PROVE  ToldInv'
<1>. SUFFICES ASSUME NEW p \in announced'
              PROVE  /\ Here(p)'
                     /\ \A x \in Obj \ {p} :
                          Beside(p, x)' /\ x \in announced' \cup (ready' \ Player) => x \in sees'[p]
  BY DEF ToldInv
<1>1. CASE p = o
  BY <1>1
<1>2. CASE p # o
  <2>1. p \in announced /\ p \in Obj
    BY <1>2, ObjAssumption DEF VInv, IInv, TypeOK
  <2>2. Here(p)'
    BY <1>2, <2>1 DEF VInv, ToldInv
  <2>3. ASSUME NEW x \in Obj \ {p}, Beside(p, x)', x \in announced' \cup (ready' \ Player)
        PROVE  x \in sees'[p]
    <3>1. CASE x = o
      BY <1>2, <2>3, <3>1
    <3>2. CASE x # o
      <4>1. Beside(p, x) /\ x \in announced \cup (ready \ Player)
        BY <1>2, <2>1, <2>3, <3>2
      <4>2. x \in sees[p]
        BY <2>1, <2>3, <4>1 DEF VInv, ToldInv
      <4>. QED BY <1>2, <2>1, <3>2, <4>2
    <3>. QED BY <3>1, <3>2
  <2>. QED BY <2>2, <2>3
<1>. QED BY <1>1, <1>2

(* The telling of a leave reaches everybody beside the player, and the     *)
(* player of all of them.                                                  *)
LEMMA LeaveTells ==
  ASSUME VInv, NEW o \in objects \cap Player, NEW p \in objects \cap Player, NEW x \in Obj,
         p # x, p = o \/ x = o, x \in LeaveView(sees, o, at[o].scene, at[o].group)[p]
  PROVE  /\ x \in sees[p]
         /\ <<p, x>> \in unsaid \/ (Beside(p, x) /\ ~Passed(o, at[o].group))
<1>. DEFINE s == at[o].scene
            g == at[o].group
<1>1. IInv /\ sees \in [Obj -> SUBSET Obj] /\ o \in Obj /\ p \in Obj
  BY DEF VInv, IInv, TypeOK
<1>. HIDE DEF s, g
<1>2. /\ x \in sees[p]
      /\ Passed(o, g) => ~(p \in Players(s, g) \ {o} /\ x = o)
      /\ Passed(o, g) => ~(p = o /\ x \in (Players(s, g) \ {o}) \cup Others(s, g))
  <2>1. x \in LeaveView(sees, o, s, g)[p]
    BY DEF s, g
  <2>. QED BY <1>1, <2>1, MoveTold
<1>3. <<p, x>> \in unsaid \/ Beside(p, x)
  BY <1>2 DEF VInv, SeenInv
<1>4. ASSUME Beside(p, x), Passed(o, g) PROVE FALSE
  <2>1. Here(p) /\ Here(x) /\ at[p] = at[x]
    BY <1>4 DEF Beside
  <2>2. CASE p = o
    <3>1. at[x].scene = s /\ at[x].group = g
      BY <2>1, <2>2 DEF s, g
    <3>2. x \in Players(s, g) \cup Others(s, g)
      BY <1>1, <2>1, <3>1, HereFacts
    <3>. QED BY <1>2, <1>4, <2>2, <3>2
  <2>3. CASE x = o
    <3>1. at[p].scene = s /\ at[p].group = g
      BY <2>1, <2>3 DEF s, g
    <3>2. p \in Players(s, g)
      BY <1>1, <2>1, <3>1, HereFacts
    <3>3. p \in Players(s, g) \ {o}
      BY <2>3, <3>2
    <3>. QED BY <1>2, <1>4, <2>3, <3>3
  <2>. QED BY <2>2, <2>3
<1>. QED BY <1>2, <1>3, <1>4 DEF g

(* What changes neither lists, objects nor views.                          *)
LEMMA ViewsStand ==
  ASSUME VInv, UNCHANGED <<objects, ready, at, mxPlayerList, mxOtherList, tasks, sees, unsaid, announced>>
  PROVE  SeenInv' /\ ToldInv' /\ WaitInv'
<1>1. \A x : Here(x)' <=> Here(x)
  BY DEF Here
<1>2. \A p, x : Beside(p, x)' <=> Beside(p, x)
  BY <1>1 DEF Beside
<1>3. SeenInv'
  BY <1>2 DEF VInv, SeenInv
<1>4. ToldInv'
  BY <1>1, <1>2 DEF VInv, ToldInv
<1>. QED BY <1>3, <1>4 DEF VInv, WaitInv

LEMMA DestroySceneVInv == ASSUME VInv, NEW s \in Scene, DestroyScene(s) PROVE VInv'
<1>0. IInv /\ IInv' /\ sees \in [Obj -> SUBSET Obj] /\ objects \subseteq Obj /\ announced \subseteq Obj
  BY DestroySceneIInv, ObjAssumption DEF VInv, IInv, TypeOK
<1>1. /\ mxPlayerList' = mxPlayerList \ Of(s, mxPlayerList)
      /\ mxOtherList' = mxOtherList \ Of(s, mxOtherList)
      /\ unsaid' = Unsaid(Listed(s)) /\ announced' = announced \ Listed(s)
      /\ UNCHANGED <<objects, ready, at, tasks, sees>>
  BY DEF DestroyScene, threadVars
<1>2. \A x : Here(x)' <=> Here(x) /\ at[x].scene # s
  BY <1>1 DEF Here, Of
<1>3. \A x \in Obj : Here(x) /\ at[x].scene = s => x \in Listed(s)
  <2>. SUFFICES ASSUME NEW x \in Obj, Here(x), at[x].scene = s PROVE x \in Listed(s)
    OBVIOUS
  <2>1. at[x].group \in Group
    BY <1>0, HereFacts
  <2>. QED BY <2>1 DEF Listed, Here
<1>4. \A p, x : Beside(p, x)' <=> Beside(p, x) /\ at[p].scene # s
  BY <1>1, <1>2 DEF Beside
<1>5. SeenInv'
  <2>. SUFFICES ASSUME NEW p \in objects \cap Player, NEW x \in sees[p] \ {p}
                PROVE  <<p, x>> \in unsaid' \/ Beside(p, x)'
    BY <1>1 DEF SeenInv
  <2>1. p \in Obj /\ x \in Obj /\ x \in sees'[p] /\ p # x
    BY <1>0, <1>1
  <2>2. <<p, x>> \in unsaid \/ Beside(p, x)
    BY DEF VInv, SeenInv
  <2>3. CASE <<p, x>> \in unsaid \/ p \in Listed(s)
    BY <1>1, <2>1, <2>3, UnsaidFacts
  <2>4. CASE Beside(p, x) /\ p \notin Listed(s)
    BY <1>3, <1>4, <2>1, <2>4 DEF Beside
  <2>. QED BY <2>2, <2>3, <2>4
<1>6. ToldInv'
  <2>. SUFFICES ASSUME NEW p \in announced, p \notin Listed(s)
                PROVE  /\ Here(p)'
                       /\ \A x \in Obj \ {p} :
                            Beside(p, x)' /\ x \in announced' \cup (ready' \ Player) => x \in sees'[p]
    BY <1>1 DEF ToldInv
  <2>1. Here(p)'
    BY <1>0, <1>2, <1>3 DEF VInv, ToldInv
  <2>2. \A x \in Obj \ {p} : Beside(p, x)' /\ x \in announced' \cup (ready' \ Player) => x \in sees'[p]
    BY <1>1, <1>4 DEF VInv, ToldInv
  <2>. QED BY <2>1, <2>2
<1>7. WaitInv'
  BY <1>1 DEF VInv, WaitInv
<1>. QED BY <1>0, <1>5, <1>6, <1>7 DEF VInv

LEMMA ReleaseGroupSceneVInv ==
  ASSUME VInv, NEW s \in Scene, NEW g \in Group, ReleaseGroupScene(s, g) PROVE VInv'
<1>. DEFINE npcs == Others(s, g)
            left == Players(s, g)
<1>0. IInv /\ IInv' /\ sees \in [Obj -> SUBSET Obj] /\ at \in [Obj -> Place] /\ objects \subseteq Obj
      /\ announced \subseteq Player /\ Player \subseteq Obj
  BY ReleaseGroupSceneIInv, ObjAssumption DEF VInv, IInv, TypeOK
<1>1. /\ objects' = objects \ npcs /\ ready' = ready \ npcs
      /\ at' = [o \in Obj |-> IF o \in npcs THEN Nowhere ELSE at[o]]
      /\ mxOtherList' = mxOtherList \ {<<s, g, o>> : o \in npcs}
      /\ mxPlayerList' = mxPlayerList \ {<<s, g, o>> : o \in left}
      /\ sees' = Left(sees, left, npcs) /\ unsaid' = Unsaid(left) /\ announced' = announced \ left
      /\ UNCHANGED tasks
  BY DEF ReleaseGroupScene, DestroySceneNPC, threadVars
<1>2. \A x \in Obj : /\ x \in left <=> x \in Player /\ Here(x) /\ at[x].scene = s /\ at[x].group = g
                     /\ x \in npcs <=> x \notin Player /\ Here(x) /\ at[x].scene = s /\ at[x].group = g
  BY <1>0, HereFacts
<1>. HIDE DEF npcs, left
<1>3. \A x \in Obj : x \notin npcs => at'[x] = at[x]
  BY <1>1
<1>4. \A x \in Obj : Here(x)' => x \notin left \cup npcs
  <2>. SUFFICES ASSUME NEW x \in Obj, Here(x)', x \in left \cup npcs PROVE FALSE
    OBVIOUS
  <2>1. CASE x \in npcs
    <3>1. at'[x].scene = 0
      BY <1>1, <2>1 DEF Nowhere
    <3>2. <<at'[x].scene, at'[x].group, x>> \in mxPlayerList' \cup mxOtherList'
      BY DEF Here
    <3>3. at'[x].scene \in Scene
      BY <1>0, <3>2 DEF IInv, TypeOK, Member
    <3>. QED BY <3>1, <3>3, GroupFacts
  <2>2. CASE x \in left /\ x \notin npcs
    <3>1. at'[x].scene = s /\ at'[x].group = g /\ x \in Player
      BY <1>2, <1>3, <2>2
    <3>2. <<s, g, x>> \in mxPlayerList' \/ <<s, g, x>> \in mxOtherList'
      BY <3>1 DEF Here
    <3>3. <<s, g, x>> \notin mxPlayerList'
      BY <1>1, <2>2
    <3>4. <<s, g, x>> \notin mxOtherList'
      BY <1>0, <3>1 DEF IInv, ListInv
    <3>. QED BY <3>2, <3>3, <3>4
  <2>. QED BY <2>1, <2>2
<1>5. \A x \in Obj : x \notin left \cup npcs => (Here(x)' <=> Here(x))
  <2>. SUFFICES ASSUME NEW x \in Obj, x \notin left \cup npcs PROVE Here(x)' <=> Here(x)
    OBVIOUS
  <2>1. at'[x] = at[x]
    BY <1>3
  <2>2. \A a, b : /\ <<a, b, x>> \in mxPlayerList' <=> <<a, b, x>> \in mxPlayerList
                  /\ <<a, b, x>> \in mxOtherList' <=> <<a, b, x>> \in mxOtherList
    BY <1>1
  <2>. QED BY <2>1, <2>2 DEF Here
<1>6. \A p, x \in Obj : Beside(p, x)' => Beside(p, x)
  <2>. SUFFICES ASSUME NEW p \in Obj, NEW x \in Obj, Beside(p, x)' PROVE Beside(p, x)
    OBVIOUS
  <2>1. Here(p)' /\ Here(x)' /\ at'[p] = at'[x]
    BY DEF Beside
  <2>. QED BY <2>1, <1>3, <1>4, <1>5 DEF Beside
<1>7. \A p, x \in Obj : x \in sees'[p] <=> x \in sees[p] /\ ~(p \in left /\ x \in npcs)
  BY <1>0, <1>1, Told
<1>8. SeenInv'
  <2>. SUFFICES ASSUME NEW p \in objects' \cap Player, NEW x \in sees'[p] \ {p}
                PROVE  <<p, x>> \in unsaid' \/ Beside(p, x)'
    BY DEF SeenInv
  <2>1. p \in Obj /\ x \in Obj /\ p \in objects /\ p # x /\ x \in sees'[p]
    BY <1>0, <1>1 DEF IInv, TypeOK
  <2>2. x \in sees[p]
    BY <1>7, <2>1
  <2>3. <<p, x>> \in unsaid \/ Beside(p, x)
    BY <2>1, <2>2 DEF VInv, SeenInv
  <2>4. CASE <<p, x>> \in unsaid \/ p \in left \/ x \in left
    BY <1>1, <2>1, <2>4, UnsaidFacts
  <2>5. CASE Beside(p, x) /\ p \notin left /\ x \notin left
    <3>1. p \notin npcs /\ x \notin npcs
      BY <1>2, <2>1, <2>5 DEF Beside
    <3>. QED BY <1>3, <1>5, <2>1, <2>5, <3>1 DEF Beside
  <2>. QED BY <2>3, <2>4, <2>5
<1>9. ToldInv'
  <2>. SUFFICES ASSUME NEW p \in announced, p \notin left
                PROVE  /\ Here(p)'
                       /\ \A x \in Obj \ {p} :
                            Beside(p, x)' /\ x \in announced' \cup (ready' \ Player) => x \in sees'[p]
    BY <1>1 DEF ToldInv
  <2>1. p \in Obj /\ p \notin npcs /\ Here(p)
    BY <1>0, <1>2 DEF VInv, ToldInv
  <2>2. Here(p)'
    BY <1>5, <2>1
  <2>3. \A x \in Obj \ {p} : Beside(p, x)' /\ x \in announced' \cup (ready' \ Player) => x \in sees'[p]
    BY <1>1, <1>6, <1>7, <2>1 DEF VInv, ToldInv
  <2>. QED BY <2>2, <2>3
<1>10. WaitInv'
  BY <1>1 DEF VInv, WaitInv
<1>. QED BY <1>0, <1>8, <1>9, <1>10 DEF VInv

(* A player that is told to have left is forgotten by all beside it, and   *)
(* forgets them; without a telling the pairs are counted as unsaid.        *)
LEMMA Parted ==
  ASSUME VInv, NEW o \in objects \cap Player, NEW p \in objects \cap Player, NEW x \in Obj,
         p # x, p = o \/ x = o, x \in LeaveView(sees, o, at[o].scene, at[o].group)[p],
         x \in sees'[p], unsaid' = Unsaid(IF Passed(o, at[o].group) THEN {} ELSE {o})
  PROVE  <<p, x>> \in unsaid'
<1>1. p \in Obj
  BY DEF VInv, IInv, TypeOK
<1>2. <<p, x>> \in unsaid \/ ~Passed(o, at[o].group)
  BY LeaveTells
<1>. QED BY <1>1, <1>2, UnsaidFacts

(* Who is in no list is nowhere, whatever its place says.                  *)
LEMMA NotListed ==
  ASSUME IInv, NEW o \in Player, \A s \in Scene, g \in Group : <<s, g, o>> \notin mxPlayerList
  PROVE  ~Here(o)
<1>. SUFFICES ASSUME NEW a, NEW b, <<a, b, o>> \in mxPlayerList \cup mxOtherList PROVE FALSE
  BY DEF Here
<1>1. a \in Scene /\ b \in Group /\ o \in Obj
  BY DEF IInv, TypeOK, Member
<1>. QED BY <1>1 DEF IInv, ListInv

LEMMA DepartVInv == ASSUME VInv, MoveInv, Depart PROVE VInv'
<1>a. PICK m : m = Innermost
  OBVIOUS
<1>b. moves # <<>> /\ m.phase = "leaving"
  BY <1>a DEF Depart
<1>c. /\ m.obj \in objects \cap Player /\ m.obj \in Obj /\ m.from = at[m.obj]
  BY <1>a, <1>b, InnermostMoves DEF VInv, OnWay
<1>d. PICK o \in Obj : o = m.obj
  BY <1>c
<1>. DEFINE s == at[o].scene
            g == at[o].group
            place == [at[o] EXCEPT !.group = 0]
<1>0. IInv /\ IInv' /\ sees \in [Obj -> SUBSET Obj] /\ objects \subseteq Obj
      /\ announced \subseteq Player /\ Player \subseteq Obj
  BY DepartIInv, ObjAssumption DEF VInv, IInv, TypeOK
<1>1. /\ o \in objects \cap Player
      /\ at' = [at EXCEPT ![o] = place]
      /\ mxPlayerList' = mxPlayerList \ {<<s, g, o>>}
      /\ sees' = LeaveView(sees, o, s, g)
      /\ unsaid' = Unsaid(IF Passed(o, g) THEN {} ELSE {o})
      /\ announced' = announced \ {o}
      /\ UNCHANGED <<objects, ready, mxOtherList, tasks>>
  <2>1. at' = [at EXCEPT ![o].group = 0]
    BY <1>a, <1>d DEF Depart
  <2>2. at' = [at EXCEPT ![o] = place]
    BY <2>1
  <2>3. mxPlayerList' = mxPlayerList \ {<<m.from.scene, m.from.group, m.obj>>}
    BY <1>a DEF Depart, Departed
  <2>. QED BY <1>a, <1>c, <1>d, <2>2, <2>3 DEF Depart, threadVars
<1>2. /\ at'[o] = place
      /\ \A x \in Obj \ {o} : at'[x] = at[x] /\ (Here(x)' <=> Here(x))
      /\ \A p, x \in Obj \ {o} : Beside(p, x)' <=> Beside(p, x)
  <2>1. \A a, b : \A x \in Obj \ {o} :
          <<a, b, x>> \in mxPlayerList' \cup mxOtherList' <=> <<a, b, x>> \in mxPlayerList \cup mxOtherList
    BY <1>1
  <2>. HIDE DEF place
  <2>. QED BY <1>0, <1>1, <2>1, OthersStay
<1>3. ~Here(o)'
  <2>. SUFFICES ASSUME NEW a, NEW b, <<a, b, o>> \in mxPlayerList' \cup mxOtherList' PROVE FALSE
    BY DEF Here
  <2>1. a \in Scene /\ b \in Group
    BY <1>0 DEF IInv, TypeOK, Member
  <2>2. <<a, b, o>> \notin mxOtherList
    BY <1>0, <1>1, <2>1 DEF IInv, ListInv
  <2>3. <<a, b, o>> \in mxPlayerList /\ <<a, b, o>> # <<s, g, o>>
    BY <1>1, <2>2
  <2>4. at[o] = [scene |-> a, group |-> b]
    BY <1>0, <2>1, <2>3 DEF IInv, ListInv
  <2>. QED BY <2>3, <2>4
<1>4. \A x : ~Beside(o, x)' /\ ~Beside(x, o)'
  BY <1>3 DEF Beside
<1>. HIDE DEF place
<1>5. \A p, x \in Obj \ {o} : x \in sees'[p] <=> x \in sees[p]
  <2>. HIDE DEF s, g
  <2>. QED BY <1>0, <1>1, MoveTold
<1>6. ASSUME NEW p \in objects \cap Player, NEW x \in Obj, p # x, p = o \/ x = o, x \in sees'[p]
      PROVE  <<p, x>> \in unsaid'
  BY <1>1, <1>6, Parted
<1>. HIDE DEF s, g
<1>7. SeenInv'
  <2>1. \A p, x \in Obj \ {o} : p # x /\ x \in sees'[p] =>
          x \in sees[p] /\ (<<p, x>> \in unsaid => <<p, x>> \in unsaid')
    BY <1>1, <1>5, UnsaidFacts
  <2>. QED BY <1>0, <1>1, <1>2, <1>6, <2>1, SeenFrame
<1>8. ToldInv'
  BY <1>1, <1>2, <1>4, <1>5, ToldFrame
<1>9. WaitInv'
  BY <1>1 DEF VInv, WaitInv
<1>. QED BY <1>0, <1>7, <1>8, <1>9 DEF VInv

(* Between the lists nobody is beside it.                                  *)
LEMMA SwapVInv == ASSUME VInv, MoveInv, Swap PROVE VInv'
<1>a. PICK m : m = Innermost
  OBVIOUS
<1>b. moves # <<>> /\ m.phase = "left"
  BY <1>a DEF Swap
<1>c. /\ m.obj \in objects \cap Player /\ m.obj \in Obj
      /\ \A s \in Scene, g \in Group : <<s, g, m.obj>> \notin mxPlayerList
  BY <1>a, <1>b, InnermostMoves DEF VInv, OnWay
<1>d. PICK o \in Obj : o = m.obj
  BY <1>c
<1>. DEFINE place == [at[o] EXCEPT !.scene = m.to.scene]
<1>0. IInv /\ IInv' /\ objects \subseteq Obj
  BY SwapIInv DEF VInv, IInv, TypeOK
<1>1. /\ o \in Player
      /\ at' = [at EXCEPT ![o] = place]
      /\ UNCHANGED <<objects, ready, mxPlayerList, mxOtherList, tasks, sees, unsaid, announced>>
  <2>1. at' = [at EXCEPT ![o].scene = m.to.scene]
    BY <1>a, <1>d DEF Swap
  <2>2. at' = [at EXCEPT ![o] = place]
    BY <2>1
  <2>. QED BY <1>c, <1>d, <2>2 DEF Swap, threadVars, viewVars
<1>. HIDE DEF place
<1>2. /\ \A x \in Obj \ {o} : at'[x] = at[x] /\ (Here(x)' <=> Here(x))
      /\ \A p, x \in Obj \ {o} : Beside(p, x)' <=> Beside(p, x)
  BY <1>0, <1>1, OthersStay
<1>3. ~Here(o) /\ ~Here(o)'
  <2>1. \A s \in Scene, g \in Group : <<s, g, o>> \notin mxPlayerList /\ <<s, g, o>> \notin mxPlayerList'
    BY <1>c, <1>d, <1>1
  <2>2. ~Here(o)
    BY <1>0, <1>1, <2>1, NotListed
  <2>3. \A a, b : <<a, b, o>> \notin mxPlayerList \cup mxOtherList
    <3>. SUFFICES ASSUME NEW a, NEW b, <<a, b, o>> \in mxPlayerList \cup mxOtherList PROVE FALSE
      OBVIOUS
    <3>1. a \in Scene /\ b \in Group
      BY <1>0 DEF IInv, TypeOK, Member
    <3>. QED BY <1>0, <1>1, <2>1, <3>1 DEF IInv, ListInv
  <2>4. ~Here(o)'
    BY <1>1, <2>3 DEF Here
  <2>. QED BY <2>2, <2>4
<1>4. \A p, x \in Obj : Beside(p, x)' <=> Beside(p, x)
  BY <1>2, <1>3 DEF Beside
<1>5. SeenInv'
  <2>. SUFFICES ASSUME NEW p \in objects \cap Player, NEW x \in sees[p] \ {p}
                PROVE  <<p, x>> \in unsaid \/ Beside(p, x)'
    BY <1>1 DEF SeenInv
  <2>1. p \in Obj /\ x \in Obj
    BY <1>0 DEF IInv, TypeOK
  <2>. QED BY <1>4, <2>1 DEF VInv, SeenInv
<1>6. ToldInv'
  <2>. SUFFICES ASSUME NEW p \in announced
                PROVE  /\ Here(p)'
                       /\ \A x \in Obj \ {p} :
                            Beside(p, x)' /\ x \in announced \cup (ready \ Player) => x \in sees[p]
    BY <1>1 DEF ToldInv
  <2>1. p \in Obj /\ Here(p)
    BY ObjAssumption DEF VInv, ToldInv, IInv, TypeOK
  <2>2. Here(p)'
    BY <1>2, <1>3, <2>1
  <2>. QED BY <1>4, <2>1, <2>2 DEF VInv, ToldInv
<1>7. WaitInv'
  BY <1>1 DEF VInv, WaitInv
<1>. QED BY <1>0, <1>5, <1>6, <1>7 DEF VInv

LEMMA ArriveVInv == ASSUME VInv, MoveInv, Arrive PROVE VInv'
<1>a. PICK m : m = Innermost
  OBVIOUS
<1>b. moves # <<>> /\ m.phase = "swapped"
  BY <1>a DEF Arrive
<1>c. /\ m.obj \in objects \cap Player /\ m.obj \in Obj /\ m \in Move
      /\ at[m.obj].scene = m.to.scene /\ m.to # Nowhere /\ m.to.scene \in Scene
      /\ \A s \in Scene, g \in Group : <<s, g, m.obj>> \notin mxPlayerList
  BY <1>a, <1>b, InnermostMoves, GroupFacts DEF VInv, OnWay
<1>d. PICK o \in Obj : o = m.obj
  BY <1>c
<1>e. PICK s2 \in Scene : s2 = m.to.scene
  BY <1>c
<1>f. PICK g2 \in Group : g2 = m.to.group
  BY <1>c DEF Move, Place
<1>. DEFINE place == [scene |-> s2, group |-> g2]
            add == ListedIn(o, s2, g2, m.life)
<1>0. IInv /\ IInv' /\ sees \in [Obj -> SUBSET Obj] /\ objects \subseteq Obj /\ at \in [Obj -> Place]
      /\ announced \subseteq Player /\ Player \subseteq Obj
  BY ArriveIInv, ObjAssumption DEF VInv, IInv, TypeOK
<1>1. /\ o \in objects \cap Player
      /\ at' = [at EXCEPT ![o] = place]
      /\ mxPlayerList' = mxPlayerList \cup add
      /\ sees' = EnterView(sees, o, s2, g2)
      /\ unsaid' = Unsaid(IF add = {} THEN {o} ELSE {})
      /\ announced' = IF add # {} /\ Passed(o, g2) THEN announced \cup {o} ELSE announced
      /\ UNCHANGED <<objects, ready, mxOtherList, tasks>>
  <2>1. at' = [at EXCEPT ![o].group = g2]
    BY <1>a, <1>d, <1>f DEF Arrive
  <2>2. at[o] \in Place /\ at[o].scene = s2
    BY <1>0, <1>c, <1>d, <1>e
  <2>3. [at[o] EXCEPT !.group = g2] = place
    BY <2>2 DEF Place
  <2>4. at' = [at EXCEPT ![o] = place]
    BY <2>1, <2>3
  <2>. QED BY <1>a, <1>c, <1>d, <1>e, <1>f, <2>4 DEF Arrive, ArriveView, threadVars
<1>2a. /\ add = {} \/ add = {<<s2, g2, o>>}
  BY DEF ListedIn, Listing
<1>. HIDE DEF add
<1>2. /\ at'[o] = place
      /\ \A x \in Obj \ {o} : at'[x] = at[x] /\ (Here(x)' <=> Here(x))
      /\ \A p, x \in Obj \ {o} : Beside(p, x)' <=> Beside(p, x)
  <2>1. \A a, b : \A x \in Obj \ {o} :
          <<a, b, x>> \in mxPlayerList' \cup mxOtherList' <=> <<a, b, x>> \in mxPlayerList \cup mxOtherList
    BY <1>1, <1>2a
  <2>. HIDE DEF place
  <2>. QED BY <1>0, <1>1, <2>1, OthersStay
<1>3. add # {} => Here(o)'
  BY <1>1, <1>2, <1>2a DEF Here
<1>3a. ~Here(o)
  <2>1. \A s \in Scene, g \in Group : <<s, g, o>> \notin mxPlayerList
    BY <1>c, <1>d
  <2>. QED BY <1>0, <1>1, <2>1, NotListed
<1>3b. o \notin announced
  BY <1>3a DEF VInv, ToldInv
<1>3c. ASSUME NEW p \in objects \cap Player, NEW x \in Obj, p # x, p = o \/ x = o, x \in sees[p]
       PROVE  <<p, x>> \in unsaid
  BY <1>3a, <1>3c DEF VInv, SeenInv, Beside
<1>. DEFINE there == Players(s2, g2) \ {o}
<1>4. \A x \in Obj \ {o} : add # {} =>
        (x \in there \cup Others(s2, g2) <=> Beside(o, x)' /\ Beside(x, o)')
  <2>. SUFFICES ASSUME add # {}, NEW x \in Obj \ {o}
                PROVE  x \in there \cup Others(s2, g2) <=> Beside(o, x)' /\ Beside(x, o)'
    OBVIOUS
  <2>0. x \in Obj
    OBVIOUS
  <2>1. x \in there \cup Others(s2, g2) <=> Here(x) /\ at[x].scene = s2 /\ at[x].group = g2
    <3>1. /\ x \in Players(s2, g2) <=> x \in Player /\ Here(x) /\ at[x].scene = s2 /\ at[x].group = g2
          /\ x \in Others(s2, g2) <=> x \notin Player /\ Here(x) /\ at[x].scene = s2 /\ at[x].group = g2
      BY <1>0, <2>0, HereFacts
    <3>. QED BY <3>1
  <2>2. Here(x) => (at[x] = place <=> at[x].scene = s2 /\ at[x].group = g2)
    <3>1. Here(x) => at[x] = [scene |-> at[x].scene, group |-> at[x].group]
      BY <1>0, <2>0, HereFacts
    <3>. QED BY <3>1
  <2>. QED BY <1>2, <1>3, <2>1, <2>2 DEF Beside
<1>5. there \subseteq Player /\ Others(s2, g2) \cap Player = {}
  BY <1>0, HereFacts DEF Players, Others
<1>. HIDE DEF place
<1>7. \A p, x \in Obj :
        /\ x \in sees[p] => x \in sees'[p]
        /\ Passed(o, g2) /\ p \in there /\ x = o => x \in sees'[p]
        /\ Passed(o, g2) /\ p = o /\ x \in there \cup Others(s2, g2) => x \in sees'[p]
        /\ x \in sees'[p] => \/ x \in sees[p]
                             \/ p \in there /\ x = o
                             \/ p = o /\ x \in there \cup Others(s2, g2)
  <2>1. \A p \in Obj : \A x :
          x \in EnterView(sees, o, s2, g2)[p] <=>
            \/ x \in sees[p]
            \/ Passed(o, g2) /\ ((p \in there /\ x = o) \/ (p = o /\ x \in there \cup Others(s2, g2)))
    BY <1>0, MoveTold
  <2>. QED BY <1>1, <2>1
<1>. HIDE DEF there
<1>8. \A p, x \in Obj \ {o} : x \in sees'[p] <=> x \in sees[p]
  BY <1>7
<1>9. ASSUME NEW p \in objects \cap Player, NEW x \in Obj, p # x, p = o \/ x = o, x \in sees'[p]
      PROVE  <<p, x>> \in unsaid' \/ Beside(p, x)'
  <2>0. p \in Obj
    BY <1>0
  <2>1. CASE x \in sees[p] \/ add = {}
    <3>1. <<p, x>> \in unsaid \/ add = {}
      BY <1>3c, <1>9, <2>1
    <3>2. add = {} => p \in (IF add = {} THEN {o} ELSE {}) \/ x \in (IF add = {} THEN {o} ELSE {})
      BY <1>9
    <3>3. <<p, x>> \in unsaid'
      BY <1>1, <1>9, <2>0, <3>1, <3>2, UnsaidFacts
    <3>. QED BY <3>3
  <2>2. CASE x \notin sees[p] /\ add # {}
    BY <1>4, <1>5, <1>7, <1>9, <2>0, <2>2
  <2>. QED BY <2>1, <2>2
<1>10. SeenInv'
  <2>1. \A p, x \in Obj \ {o} : p # x /\ x \in sees'[p] =>
          x \in sees[p] /\ (<<p, x>> \in unsaid => <<p, x>> \in unsaid')
    BY <1>1, <1>8, UnsaidFacts
  <2>. QED BY <1>0, <1>1, <1>2, <1>9, <2>1, SeenFrame
<1>11. ToldInv'
  <2>1. \A p, x \in Obj \ {o} : x \in sees[p] => x \in sees'[p]
    BY <1>8
  <2>2. ASSUME NEW p \in announced' \ {o}, Beside(p, o)', o \in announced' \cup (ready' \ Player)
        PROVE  o \in sees'[p]
    <3>1. add # {} /\ Passed(o, g2) /\ p \in Obj /\ p \in Player
      BY <1>0, <1>1, <1>3b, <2>2
    <3>2. Beside(o, p)'
      BY <2>2 DEF Beside
    <3>3. p \in there
      BY <1>4, <1>5, <2>2, <3>1, <3>2
    <3>. QED BY <1>7, <3>1, <3>3
  <2>3. ASSUME o \in announced', NEW x \in Obj \ {o}, Beside(o, x)' PROVE x \in sees'[o]
    <3>1. add # {} /\ Passed(o, g2)
      BY <1>1, <1>3b, <2>3
    <3>2. Beside(x, o)'
      BY <2>3 DEF Beside
    <3>. QED BY <1>4, <1>7, <2>3, <3>1, <3>2
  <2>4. announced' \subseteq announced \cup {o} /\ ready' \subseteq ready \cup {o}
    BY <1>1
  <2>5. o \in announced' => Here(o)'
    BY <1>1, <1>3, <1>3b
  <2>. QED BY <1>2, <2>1, <2>2, <2>3, <2>4, <2>5, ToldFrame
<1>12. WaitInv'
  BY <1>1 DEF VInv, WaitInv
<1>. QED BY <1>0, <1>10, <1>11, <1>12 DEF VInv

(* An object without a place is in no list, shows nothing, is announced to *)
(* nobody.                                                                 *)
LEMMA NoPlace ==
  ASSUME VInv, NEW o \in Obj, at[o] = Nowhere
  PROVE  /\ ~Here(o) /\ o \notin announced
         /\ \A s, g : o \notin Players(s, g) \cup Others(s, g)
<1>1. ~Here(o)
  <2>1. at[o].scene \notin Scene
    BY GroupFacts DEF Nowhere
  <2>. QED BY <2>1, HereFacts DEF VInv
<1>2. o \notin announced
  BY <1>1 DEF VInv, ToldInv
<1>3. \A s, g : o \notin Players(s, g) \cup Others(s, g)
  BY <1>1, HereFacts DEF VInv
<1>. QED BY <1>1, <1>2, <1>3

LEMMA CreateObjectVInv ==
  ASSUME VInv, NEW o \in Obj, NEW s \in Scene, NEW g \in Group, CreateObject(o, s, g)
  PROVE  VInv'
<1>. DEFINE place == [scene |-> s, group |-> g]
            blank == [sees EXCEPT ![o] = {}]
<1>0. IInv /\ IInv' /\ sees \in [Obj -> SUBSET Obj] /\ objects \subseteq Obj
      /\ announced \subseteq Player /\ Player \subseteq Obj
  BY CreateObjectIInv, ObjAssumption DEF VInv, IInv, TypeOK
<1>1. /\ o \notin objects /\ objects' = objects \cup {o} /\ ready' = ready \cup {o}
      /\ at' = [at EXCEPT ![o] = place]
      /\ mxPlayerList' = IF o \in Player THEN mxPlayerList \cup {<<s, g, o>>} ELSE mxPlayerList
      /\ mxOtherList' = IF o \in Player THEN mxOtherList ELSE mxOtherList \cup {<<s, g, o>>}
      /\ sees' = HasDataView(blank, o, s, g)
      /\ UNCHANGED <<tasks, unsaid, announced>>
  BY DEF CreateObject, Listing, threadVars
<1>2. /\ at'[o] = place
      /\ \A x \in Obj \ {o} : at'[x] = at[x] /\ (Here(x)' <=> Here(x))
      /\ \A p, x \in Obj \ {o} : Beside(p, x)' <=> Beside(p, x)
  <2>1. \A a, b : \A x \in Obj \ {o} :
          <<a, b, x>> \in mxPlayerList' \cup mxOtherList' <=> <<a, b, x>> \in mxPlayerList \cup mxOtherList
    BY <1>1
  <2>. HIDE DEF place
  <2>. QED BY <1>0, <1>1, <2>1, OthersStay
<1>3. Here(o)'
  BY <1>1, <1>2 DEF Here
<1>4. at[o] = Nowhere
  BY <1>0, <1>1 DEF IInv, TaskInv
<1>5. ~Here(o) /\ o \notin announced
  BY <1>4, NoPlace
<1>6. /\ \A p \in Obj \ {o} : \A x : x \in sees'[p] <=>
           x \in sees[p] \/ (o \notin Player /\ p \in Players(s, g) /\ x = o)
      /\ \A x : x \in sees'[o] => x = o
  <2>1. blank \in [Obj -> SUBSET Obj] /\ blank[o] = {} /\ \A p \in Obj \ {o} : blank[p] = sees[p]
    BY <1>0
  <2>. HIDE DEF blank
  <2>2. \A p \in Obj : \A x : x \in sees'[p] <=>
           \/ x \in blank[p]
           \/ o \in Player /\ p = o /\ x = o
           \/ o \notin Player /\ s > 0 /\ <<s, g, p>> \in mxPlayerList /\ x = o
    BY <1>1, <2>1, HasDataTold
  <2>3. s > 0
    BY GroupFacts
  <2>4. \A p \in Obj : <<s, g, p>> \in mxPlayerList <=> p \in Players(s, g)
    BY DEF Players
  <2>. QED BY <2>1, <2>2, <2>3, <2>4
<1>7. \A p \in Obj \ {o} : p \in Players(s, g) <=> p \in Player /\ Beside(p, o)'
  <2>. SUFFICES ASSUME NEW p \in Obj \ {o} PROVE p \in Players(s, g) <=> p \in Player /\ Beside(p, o)'
    OBVIOUS
  <2>0. p \in Obj
    OBVIOUS
  <2>1. p \in Players(s, g) <=> p \in Player /\ Here(p) /\ at[p].scene = s /\ at[p].group = g
    BY <1>0, <2>0, HereFacts
  <2>2. Here(p) => at[p] = [scene |-> at[p].scene, group |-> at[p].group]
    BY <1>0, <2>0, HereFacts
  <2>. QED BY <1>2, <1>3, <2>1, <2>2 DEF Beside
<1>. HIDE DEF place, blank
<1>8. SeenInv'
  <2>1. \A p, x \in Obj \ {o} : p # x /\ x \in sees'[p] =>
          x \in sees[p] /\ (<<p, x>> \in unsaid => <<p, x>> \in unsaid')
    BY <1>1, <1>6
  <2>2. ASSUME NEW p \in (objects' \cap Player) \ {o}, o \in sees'[p]
        PROVE  <<p, o>> \in unsaid' \/ Beside(p, o)'
    <3>1. p \in Obj /\ p \in objects \cap Player /\ p # o
      BY <1>0, <1>1, <2>2
    <3>2. CASE o \in sees[p]
      BY <1>1, <1>5, <3>1, <3>2 DEF VInv, SeenInv, Beside
    <3>3. CASE p \in Players(s, g)
      BY <1>7, <3>1, <3>3
    <3>. QED BY <1>6, <2>2, <3>1, <3>2, <3>3
  <2>. QED BY <1>0, <1>1, <1>2, <1>6, <2>1, <2>2, SeenFrame
<1>9. ToldInv'
  <2>1. ASSUME NEW p \in announced' \ {o}, Beside(p, o)', o \in announced' \cup (ready' \ Player)
        PROVE  o \in sees'[p]
    <3>1. p \in Obj /\ p \in Player /\ p # o /\ o \notin Player
      BY <1>0, <1>1, <1>5, <2>1
    <3>. QED BY <1>6, <1>7, <2>1, <3>1
  <2>2. announced' \subseteq announced \cup {o} /\ ready' \subseteq ready \cup {o} /\ o \notin announced'
    BY <1>1, <1>5
  <2>3. \A p, x \in Obj \ {o} : x \in sees[p] => x \in sees'[p]
    BY <1>6
  <2>. QED BY <1>2, <2>1, <2>2, <2>3, ToldFrame
<1>10. WaitInv'
  <2>. SUFFICES ASSUME NEW i \in 1 .. Len(tasks), tasks[i].step = "properties"
                PROVE  tasks[i].obj \notin ready'
    BY <1>1 DEF WaitInv
  <2>1. tasks[i].obj \in objects /\ tasks[i].obj \notin ready
    BY <1>0, PendingFacts DEF VInv, WaitInv
  <2>. QED BY <1>1, <2>1
<1>. QED BY <1>0, <1>8, <1>9, <1>10 DEF VInv

LEMMA CreateAsyncVInv ==
  ASSUME VInv, NEW o \in Obj, NEW s \in Scene, NEW g \in Group, CreateAsync(o, s, g)
  PROVE  VInv'
<1>. DEFINE t == [obj |-> o, step |-> "properties", scene |-> s, group |-> g, life |-> life[s]]
<1>0. IInv /\ IInv' /\ sees \in [Obj -> SUBSET Obj] /\ objects \subseteq Obj /\ ready \subseteq objects
      /\ announced \subseteq Player /\ Player \subseteq Obj /\ tasks \in Seq(Task)
  BY CreateAsyncIInv, ObjAssumption DEF VInv, IInv, TypeOK
<1>1. /\ o \notin objects /\ objects' = objects \cup {o}
      /\ sees' = [sees EXCEPT ![o] = {}] /\ tasks' = Append(tasks, t)
      /\ UNCHANGED <<ready, at, mxPlayerList, mxOtherList, unsaid, announced>>
  BY DEF CreateAsync, placeVars
<1>2. t \in Task /\ t.obj = o
  BY <1>0 DEF IInv, TypeOK, Task, Step
<1>. HIDE DEF t
<1>3. \A x : Here(x)' <=> Here(x)
  BY <1>1 DEF Here
<1>4. \A p, x : Beside(p, x)' <=> Beside(p, x)
  BY <1>1, <1>3 DEF Beside
<1>5. sees'[o] = {} /\ \A p \in Obj \ {o} : sees'[p] = sees[p]
  BY <1>0, <1>1
<1>6. SeenInv'
  <2>. SUFFICES ASSUME NEW p \in objects' \cap Player, NEW x \in sees'[p] \ {p}
                PROVE  <<p, x>> \in unsaid \/ Beside(p, x)
    BY <1>1, <1>4 DEF SeenInv
  <2>1. p # o
    BY <1>5
  <2>2. p \in objects \cap Player /\ x \in sees[p] \ {p}
    BY <1>0, <1>1, <1>5, <2>1
  <2>. QED BY <2>2 DEF VInv, SeenInv
<1>7. ToldInv'
  <2>1. o \notin announced
    <3>1. at[o] = Nowhere
      BY <1>0, <1>1 DEF IInv, TaskInv
    <3>. QED BY <3>1, NoPlace
  <2>2. \A p \in announced : sees'[p] = sees[p]
    BY <1>0, <1>5, <2>1
  <2>. QED BY <1>1, <1>3, <1>4, <2>2 DEF VInv, ToldInv
<1>8. WaitInv'
  <2>1. /\ Len(tasks) \in Nat /\ Len(tasks') = Len(tasks) + 1 /\ tasks'[Len(tasks) + 1] = t
        /\ \A i \in 1 .. Len(tasks) : tasks'[i] = tasks[i]
    BY <1>0, <1>1, <1>2, AppendProperties
  <2>2. \A i \in 1 .. Len(tasks') : i \in 1 .. Len(tasks) \/ i = Len(tasks) + 1
    BY <2>1
  <2>. SUFFICES ASSUME NEW i \in 1 .. Len(tasks'), tasks'[i].step = "properties"
                PROVE  tasks'[i].obj \notin ready
    BY <1>1 DEF WaitInv
  <2>3. CASE i \in 1 .. Len(tasks)
    BY <2>1, <2>3 DEF VInv, WaitInv
  <2>4. CASE i = Len(tasks) + 1
    BY <1>0, <1>1, <1>2, <2>1, <2>4
  <2>. QED BY <2>2, <2>3, <2>4
<1>. QED BY <1>0, <1>6, <1>7, <1>8 DEF VInv

(* The first task comes off, or goes back with its properties done: what   *)
(* still waits for them is of a later task.                                *)
LEMMA LaterTasks ==
  ASSUME IInv, tasks # <<>>, NEW u \in Task, u.step = "data",
         tasks' = Tail(tasks) \/ tasks' = Append(Tail(tasks), u),
         NEW i \in 1 .. Len(tasks'), tasks'[i].step = "properties"
  PROVE  \E j \in 1 .. Len(tasks) : /\ tasks'[i] = tasks[j] /\ tasks[j].step = "properties"
                                    /\ tasks[j].obj # Head(tasks).obj
<1>1. tasks \in Seq(Task)
  BY DEF IInv, TypeOK
<1>2. /\ Head(tasks) = tasks[1] /\ Tail(tasks) \in Seq(Task)
      /\ Len(Tail(tasks)) = Len(tasks) - 1 /\ Len(tasks) \in Nat /\ Len(tasks) >= 1
      /\ \A k \in 1 .. Len(Tail(tasks)) : k + 1 \in 1 .. Len(tasks) /\ Tail(tasks)[k] = tasks[k + 1]
  BY <1>1, PopFacts
<1>3. i \in 1 .. Len(Tail(tasks)) /\ tasks'[i] = Tail(tasks)[i]
  <2>1. CASE tasks' = Append(Tail(tasks), u)
    <3>. DEFINE q == Tail(tasks)
    <3>0. q \in Seq(Task) /\ tasks' = Append(q, u)
      BY <1>2, <2>1
    <3>. HIDE DEF q
    <3>1. q \in Seq(Task) /\ Len(q) \in Nat /\ tasks' = Append(q, u)
      BY <3>0
    <3>2. /\ Len(tasks') = Len(q) + 1
          /\ \A k \in 1 .. Len(q) : tasks'[k] = q[k]
          /\ tasks'[Len(q) + 1] = u
      BY <3>1, AppendProperties
    <3>3. i # Len(q) + 1
      BY <3>2
    <3>4. i \in 1 .. Len(q)
      BY <3>1, <3>2, <3>3
    <3>. QED BY <3>2, <3>4 DEF q
  <2>. QED BY <2>1
<1>4. i + 1 \in 1 .. Len(tasks) /\ tasks'[i] = tasks[i + 1] /\ 1 \in 1 .. Len(tasks) /\ i + 1 # 1
  BY <1>2, <1>3
<1>5. tasks[i + 1].obj # tasks[1].obj
  BY <1>4 DEF IInv, TaskInv
<1>. QED BY <1>2, <1>4, <1>5

LEMMA PlaceCreatedVInv ==
  ASSUME VInv, IInv', tasks # <<>>, PlaceCreated(Head(tasks)) PROVE VInv'
<1>. DEFINE t == Head(tasks)
            place == [scene |-> t.scene, group |-> t.group]
            add == ListedIn(t.obj, t.scene, t.group, t.life)
            u == [t EXCEPT !.step = "data"]
            o == t.obj
<1>0. IInv /\ tasks \in Seq(Task) /\ sees \in [Obj -> SUBSET Obj] /\ announced \subseteq Player
      /\ Player \subseteq Obj
  BY ObjAssumption DEF VInv, IInv, TypeOK
<1>1. /\ t.step = "properties" /\ at' = [at EXCEPT ![o] = place]
      /\ mxPlayerList' = IF o \in Player THEN mxPlayerList \cup add ELSE mxPlayerList
      /\ mxOtherList' = IF o \in Player THEN mxOtherList ELSE mxOtherList \cup add
      /\ tasks' = Append(Tail(tasks), u)
      /\ UNCHANGED <<objects, ready, sees, unsaid, announced>>
  BY DEF PlaceCreated, viewVars
<1>2. add \subseteq {<<t.scene, t.group, o>>}
  BY DEF ListedIn, Listing
<1>3. t = tasks[1] /\ t \in Task /\ 1 \in 1 .. Len(tasks)
  BY <1>0, PopFacts
<1>4. u \in Task /\ u.step = "data" /\ o \in Obj
  BY <1>3 DEF Task, Step
<1>. HIDE DEF t, add, u, place
<1>5. at[o] = Nowhere /\ o \notin ready
  BY <1>0, <1>1, <1>3, PendingFacts DEF VInv, WaitInv
<1>. HIDE DEF o
<1>6. ~Here(o) /\ o \notin announced
  BY <1>4, <1>5, NoPlace
<1>7. /\ \A x \in Obj \ {o} : at'[x] = at[x] /\ (Here(x)' <=> Here(x))
      /\ \A p, x \in Obj \ {o} : Beside(p, x)' <=> Beside(p, x)
  <2>1. \A a, b : \A x \in Obj \ {o} :
          <<a, b, x>> \in mxPlayerList' \cup mxOtherList' <=> <<a, b, x>> \in mxPlayerList \cup mxOtherList
    BY <1>1, <1>2
  <2>. QED BY <1>0, <1>1, <1>4, <2>1, OthersStay
<1>8. \A p \in objects \cap Player : \A x \in Obj : x \in sees[p] /\ x # p /\ (p = o \/ x = o)
        => <<p, x>> \in unsaid
  BY <1>6 DEF VInv, SeenInv, Beside
<1>9. SeenInv'
  <2>1. \A p, x \in Obj \ {o} : p # x /\ x \in sees'[p] =>
          x \in sees[p] /\ (<<p, x>> \in unsaid => <<p, x>> \in unsaid')
    BY <1>1
  <2>. QED BY <1>1, <1>4, <1>7, <1>8, <2>1, SeenFrame
<1>10. ToldInv'
  BY <1>1, <1>4, <1>5, <1>6, <1>7, ToldFrame
<1>11. WaitInv'
  <2>. SUFFICES ASSUME NEW i \in 1 .. Len(tasks'), tasks'[i].step = "properties"
                PROVE  tasks'[i].obj \notin ready
    BY <1>1 DEF WaitInv
  <2>1. PICK j \in 1 .. Len(tasks) : tasks'[i] = tasks[j] /\ tasks[j].step = "properties"
    BY <1>0, <1>1, <1>4, LaterTasks
  <2>. QED BY <2>1 DEF VInv, WaitInv
<1>. QED BY <1>9, <1>10, <1>11 DEF VInv

LEMMA FinishCreatedVInv ==
  ASSUME VInv, IInv', tasks # <<>>, FinishCreated(Head(tasks)) PROVE VInv'
<1>. DEFINE t == Head(tasks)
            o == t.obj
            s == at[o].scene
            g == at[o].group
            these == {o} \ {m[3] : m \in mxPlayerList \cup mxOtherList}
<1>0. IInv /\ tasks \in Seq(Task) /\ sees \in [Obj -> SUBSET Obj] /\ announced \subseteq Player
      /\ Player \subseteq Obj /\ objects \subseteq Obj
  BY ObjAssumption DEF VInv, IInv, TypeOK
<1>1. /\ t.step = "data" /\ ready' = ready \cup ({o} \cap objects)
      /\ sees' = HasDataView(sees, o, s, g)
      /\ tasks' = Tail(tasks) /\ unsaid' = Unsaid(these)
      /\ UNCHANGED <<objects, at, mxPlayerList, mxOtherList, announced>>
  BY DEF FinishCreated, placeVars
<1>2. t \in Task
  BY <1>0, PopFacts
<1>. HIDE DEF t
<1>3. o \in Obj
  BY <1>2 DEF Task
<1>4. \A x : Here(x)' <=> Here(x)
  BY <1>1 DEF Here
<1>5. \A p, x : Beside(p, x)' <=> Beside(p, x)
  BY <1>1, <1>4 DEF Beside
<1>. HIDE DEF o, s, g
<1>6. o \in these \/ Here(o)
  <2>. SUFFICES ASSUME NEW m \in mxPlayerList \cup mxOtherList, m[3] = o PROVE Here(o)
    OBVIOUS
  <2>1. m \in Member
    BY <1>0 DEF IInv, TypeOK
  <2>2. m[1] \in Scene /\ m[2] \in Group /\ m = <<m[1], m[2], o>>
    BY <2>1, MemberFacts
  <2>3. <<m[1], m[2], o>> \in mxPlayerList \cup mxOtherList
    BY <2>2
  <2>4. at[o] = [scene |-> m[1], group |-> m[2]]
    BY <1>0, <1>3, <2>2, <2>3 DEF IInv, ListInv
  <2>5. at[o].scene = m[1] /\ at[o].group = m[2]
    BY <2>4
  <2>. QED BY <2>3, <2>5 DEF Here
<1>. HIDE DEF these
<1>7. \A p \in Obj : \A x : x \in sees'[p] <=>
        \/ x \in sees[p]
        \/ o \in Player /\ p = o /\ x = o
        \/ o \notin Player /\ s > 0 /\ <<s, g, p>> \in mxPlayerList /\ x = o
  BY <1>0, <1>1, <1>3, HasDataTold
<1>8. \A p \in Obj : <<s, g, p>> \in mxPlayerList <=>
        p \in Player /\ Here(p) /\ at[p].scene = s /\ at[p].group = g
  <2>1. \A p \in Obj : <<s, g, p>> \in mxPlayerList <=> p \in Players(s, g)
    BY DEF Players
  <2>2. \A p \in Obj : p \in Players(s, g) <=> p \in Player /\ Here(p) /\ at[p].scene = s /\ at[p].group = g
    BY <1>0, HereFacts
  <2>. QED BY <2>1, <2>2
<1>9. SeenInv'
  <2>. SUFFICES ASSUME NEW p \in objects \cap Player, NEW x \in sees'[p] \ {p}
                PROVE  <<p, x>> \in unsaid' \/ Beside(p, x)
    BY <1>1, <1>5 DEF SeenInv
  <2>1. p \in Obj /\ x \in Obj /\ p # x /\ x \in sees'[p]
    BY <1>0, <1>3, <1>7
  <2>2. CASE x \in sees[p]
    <3>1. <<p, x>> \in unsaid \/ Beside(p, x)
      BY <2>1, <2>2 DEF VInv, SeenInv
    <3>. QED BY <1>1, <2>1, <3>1, UnsaidFacts
  <2>3. CASE <<s, g, p>> \in mxPlayerList /\ x = o
    <3>1. CASE o \in these
      BY <1>1, <2>1, <2>3, <3>1, UnsaidFacts
    <3>2. CASE Here(o)
      <4>1. Here(p) /\ at[p].scene = at[o].scene /\ at[p].group = at[o].group
        BY <1>8, <2>1, <2>3 DEF s, g
      <4>. QED BY <1>0, <1>3, <2>1, <2>3, <3>2, <4>1, SamePlace DEF Beside
    <3>. QED BY <1>6, <3>1, <3>2
  <2>. QED BY <1>7, <2>1, <2>2, <2>3
<1>10. ToldInv'
  <2>. SUFFICES ASSUME NEW p \in announced, NEW x \in Obj \ {p}, Beside(p, x),
                       x \in announced \cup (ready' \ Player)
                PROVE  x \in sees'[p]
    BY <1>1, <1>4, <1>5 DEF VInv, ToldInv
  <2>1. p \in Obj /\ p \in Player
    BY <1>0
  <2>2. CASE x \in announced \cup (ready \ Player)
    <3>1. x \in sees[p]
      BY <2>2 DEF VInv, ToldInv
    <3>. QED BY <1>7, <2>1, <3>1
  <2>3. CASE x \notin announced \cup (ready \ Player)
    <3>1. x = o /\ o \notin Player
      BY <1>1, <2>3
    <3>2. Here(p) /\ at[p] = at[o] /\ Here(o)
      BY <3>1 DEF Beside
    <3>3. <<s, g, p>> \in mxPlayerList
      BY <1>8, <2>1, <3>2 DEF s, g
    <3>4. s > 0
      <4>1. s \in Scene
        BY <1>0, <1>3, <3>2, HereFacts DEF s
      <4>. QED BY <4>1, GroupFacts
    <3>. QED BY <1>7, <2>1, <3>1, <3>3, <3>4
  <2>. QED BY <2>2, <2>3
<1>11. WaitInv'
  <2>. SUFFICES ASSUME NEW i \in 1 .. Len(tasks'), tasks'[i].step = "properties"
                PROVE  tasks'[i].obj \notin ready'
    BY DEF WaitInv
  <2>1. PICK j \in 1 .. Len(tasks) : /\ tasks'[i] = tasks[j] /\ tasks[j].step = "properties"
                                     /\ tasks[j].obj # o
    BY <1>0, <1>1, <1>2, LaterTasks DEF t, o
  <2>. QED BY <1>1, <2>1 DEF VInv, WaitInv
<1>. QED BY <1>9, <1>10, <1>11 DEF VInv

LEMMA MainThreadVInv == ASSUME VInv, MainThread PROVE VInv'
<1>1. IInv'
  BY MainThreadIInv DEF VInv
<1>2. tasks # <<>> /\ (PlaceCreated(Head(tasks)) \/ FinishCreated(Head(tasks)))
  BY DEF MainThread
<1>. QED BY <1>1, <1>2, PlaceCreatedVInv, FinishCreatedVInv

LEMMA DestroyVInv ==
  ASSUME VInv, IInv', NEW o \in Obj, Destroyable(o), DestroyEffect(o), UNCHANGED tasks
  PROVE  VInv'
<1>. DEFINE s == at[o].scene
            g == at[o].group
            leaves == o \in Player /\ <<s, g>> \in groups
            view == IF leaves THEN LeaveView(sees, o, s, g) ELSE sees
            h == IF leaves THEN 0 ELSE g
            shown == DestroyView(view, o, s, h)
            these == {o} \cap (Player \ ready)
<1>0. IInv /\ sees \in [Obj -> SUBSET Obj] /\ announced \subseteq Player /\ Player \subseteq Obj
      /\ objects \subseteq Obj /\ at \in [Obj -> Place] /\ o \in objects
  BY ObjAssumption DEF VInv, IInv, TypeOK, Destroyable
<1>1. /\ objects' = objects \ {o} /\ ready' = ready \ {o} /\ at' = [at EXCEPT ![o] = Nowhere]
      /\ mxPlayerList' = IF leaves THEN mxPlayerList \ {<<s, g, o>>} ELSE mxPlayerList
      /\ mxOtherList' = IF o \in Player THEN mxOtherList ELSE mxOtherList \ {<<s, g, o>>}
      /\ sees' = [shown EXCEPT ![o] = {}]
      /\ unsaid' = Unsaid(these) /\ announced' = announced \ {o}
  BY DEF DestroyEffect
<1>2. /\ \A x \in Obj \ {o} : at'[x] = at[x] /\ (Here(x)' <=> Here(x))
      /\ \A p, x \in Obj \ {o} : Beside(p, x)' <=> Beside(p, x)
  <2>1. \A a, b : \A x \in Obj \ {o} :
          <<a, b, x>> \in mxPlayerList' \cup mxOtherList' <=> <<a, b, x>> \in mxPlayerList \cup mxOtherList
    BY <1>1
  <2>. QED BY <1>0, <1>1, <2>1, OthersStay
<1>3. \A p : ~Beside(p, o)'
  <2>. SUFFICES ASSUME Here(o)' PROVE FALSE
    BY DEF Beside
  <2>1. at'[o] = Nowhere
    BY <1>0, <1>1
  <2>2. <<at'[o].scene, at'[o].group, o>> \in mxPlayerList' \cup mxOtherList'
    BY DEF Here
  <2>3. at'[o].scene \in Scene
    BY <2>2 DEF IInv, TypeOK, Member
  <2>. QED BY <2>1, <2>3, GroupFacts DEF Nowhere
<1>4. view \in [Obj -> SUBSET Obj]
  BY <1>0, MoveViewTypes
<1>. HIDE DEF view
<1>5. shown \in [Obj -> SUBSET Obj]
  BY <1>4, MoveViewTypes
<1>6. \A p \in Obj \ {o} : \A x : x \in sees'[p] <=> x \in view[p] /\ ~(p \in Players(s, h) \ {o} /\ x = o)
  <2>. HIDE DEF s, h, shown
  <2>1. \A p \in Obj : \A x : x \in shown[p] <=> x \in view[p] /\ ~(p \in Players(s, h) \ {o} /\ x = o)
    BY <1>4, MoveTold DEF shown
  <2>2. \A p \in Obj \ {o} : sees'[p] = shown[p]
    BY <1>1, <1>5
  <2>. QED BY <2>1, <2>2
<1>7. \A p \in Obj \ {o} : \A x : /\ x \in view[p] => x \in sees[p]
                                  /\ x # o /\ x \in sees[p] => x \in view[p]
  <2>1. CASE leaves
    <3>1. view = LeaveView(sees, o, s, g)
      BY <2>1 DEF view
    <3>. HIDE DEF s, g, leaves
    <3>. QED BY <1>0, <3>1, MoveTold
  <2>2. CASE ~leaves
    BY <2>2 DEF view
  <2>. QED BY <2>1, <2>2
<1>8. ASSUME NEW p \in (objects \cap Player) \ {o}, o \in sees'[p]
      PROVE  <<p, o>> \in unsaid'
  <2>1. p \in Obj /\ p # o /\ o \in view[p] /\ p \notin Players(s, h) /\ o \in sees[p]
    <3>. HIDE DEF s, h, leaves
    <3>. QED BY <1>0, <1>6, <1>7, <1>8
  <2>2. CASE <<p, o>> \in unsaid \/ o \in these
    <3>. HIDE DEF these
    <3>. QED BY <1>1, <1>8, <2>1, <2>2, UnsaidFacts
  <2>3. CASE Beside(p, o) /\ <<p, o>> \notin unsaid /\ o \notin these
    <3>1. Here(p) /\ Here(o) /\ at[p].scene = s /\ at[p].group = g
      BY <2>3 DEF Beside
    <3>2. <<s, g>> \in groups /\ g \in Group
      BY <1>0, <3>1, HereFacts
    <3>3. p \in Players(s, g)
      <4>. HIDE DEF s, g
      <4>. QED BY <1>0, <2>1, <3>1, HereFacts
    <3>4. leaves /\ o \in Player /\ o \in ready
      BY <2>1, <2>3, <3>2, <3>3
    <3>5. view = LeaveView(sees, o, s, g)
      BY <3>4 DEF view
    <3>6. ~Passed(o, g)
      BY <1>0, <2>1, <2>3, <3>4, <3>5, LeaveTells
    <3>7. ~(g > 0)
      BY <3>4, <3>6 DEF Passed, ObjectReady, OfPlayer
    <3>8. g = 0
      <4>1. g \in Nat
        BY <3>2, GroupFacts
      <4>. HIDE DEF g
      <4>. QED BY <3>7, <4>1
    <3>. QED BY <2>1, <3>3, <3>4, <3>8
  <2>4. <<p, o>> \in unsaid \/ Beside(p, o)
    BY <2>1 DEF VInv, SeenInv
  <2>. QED BY <2>2, <2>3, <2>4
<1>. HIDE DEF s, g, h, leaves, shown, these
<1>9. SeenInv'
  <2>1. \A p, x \in Obj \ {o} : p # x /\ x \in sees'[p] =>
          x \in sees[p] /\ (<<p, x>> \in unsaid => <<p, x>> \in unsaid')
    BY <1>1, <1>6, <1>7, UnsaidFacts
  <2>2. \A p \in (objects' \cap Player) \ {o} : o \in sees'[p] => <<p, o>> \in unsaid'
    BY <1>1, <1>8
  <2>3. o \notin objects' /\ objects' \subseteq objects \cup {o}
    BY <1>1
  <2>. QED BY <1>2, <2>1, <2>2, <2>3, SeenFrame
<1>10. ToldInv'
  <2>1. \A p, x \in Obj \ {o} : x \in sees[p] => x \in sees'[p]
    BY <1>6, <1>7
  <2>2. o \notin announced' /\ announced' \subseteq announced \cup {o} /\ ready' \subseteq ready \cup {o}
    BY <1>1
  <2>. QED BY <1>2, <1>3, <2>1, <2>2, ToldFrame
<1>11. WaitInv'
  BY <1>1 DEF VInv, WaitInv
<1>. QED BY <1>9, <1>10, <1>11 DEF VInv

LEMMA DestroyObjectVInv == ASSUME VInv, NEW o \in Obj, DestroyObject(o) PROVE VInv'
<1>1. IInv'
  BY DestroyObjectIInv DEF VInv
<1>. QED BY <1>1, DestroyVInv DEF DestroyObject, threadVars

LEMMA UpdateVInv == ASSUME VInv, Update PROVE VInv'
<1>. DEFINE o == Head(mtDeleteSelfList)
<1>1. IInv'
  BY UpdateIInv DEF VInv
<1>2. o \in Obj
  <2>1. mtDeleteSelfList \in Seq(Obj) /\ mtDeleteSelfList # <<>>
    BY DEF Update, VInv, IInv, TypeOK
  <2>. QED BY <2>1, HeadTailProperties
<1>3. /\ IF Destroyable(o) THEN DestroyEffect(o) ELSE UNCHANGED <<objects, ready, placeVars, viewVars>>
      /\ UNCHANGED tasks
  BY DEF Update, threadVars
<1>. HIDE DEF o
<1>4. CASE Destroyable(o)
  BY <1>1, <1>2, <1>3, <1>4, DestroyVInv
<1>5. CASE ~Destroyable(o)
  <2>1. UNCHANGED <<objects, ready, at, mxPlayerList, mxOtherList, tasks, sees, unsaid, announced>>
    BY <1>3, <1>5 DEF placeVars, viewVars
  <2>. QED BY <1>1, <2>1, ViewsStand DEF VInv
<1>. QED BY <1>4, <1>5

LEMMA NextVInv == VInv /\ MoveInv /\ [Next]_vars => VInv'
<1>. SUFFICES ASSUME VInv, MoveInv, [Next]_vars PROVE VInv'
  OBVIOUS
<1>0. IInv'
  BY NextIInv DEF VInv
<1>1. CASE UNCHANGED <<objects, ready, at, mxPlayerList, mxOtherList, tasks, sees, unsaid, announced>>
  BY <1>0, <1>1, ViewsStand DEF VInv
<1>2. CASE Scenery
  <2>1. ASSUME NEW s \in Scene, CreateScene(s) \/ RequestGroupScene(s) PROVE VInv'
    BY <1>1, <2>1 DEF CreateScene, RequestGroupScene, threadVars, viewVars
  <2>. QED BY <1>2, <2>1, DestroySceneVInv, ReleaseGroupSceneVInv DEF Scenery
<1>3. ASSUME NEW o \in Obj, Life(o) PROVE VInv'
  BY <1>3, CreateObjectVInv, CreateAsyncVInv, DestroyObjectVInv DEF Life
<1>4. ASSUME NEW o \in Obj, Moving(o) PROVE VInv'
  BY <1>1, <1>4 DEF Moving, RequestEnterScene, LeaveSceneGroup, placeVars, threadVars, viewVars
<1>5. ASSUME NEW o \in objects, DestroySelf(o) PROVE VInv'
  BY <1>1, <1>5 DEF DestroySelf, placeVars, threadVars, viewVars
<1>6. CASE UNCHANGED vars
  BY <1>1, <1>6 DEF vars
<1>7. \/ Scenery \/ (\E o \in Obj : ~InTransit(o) /\ (Life(o) \/ Moving(o)))
      \/ (\E o \in objects : DestroySelf(o)) \/ Depart \/ Swap \/ Arrive \/ MainThread \/ Update
      \/ UNCHANGED vars
  BY Zenon DEF Next
<1>. QED BY <1>2, <1>3, <1>4, <1>5, <1>6, <1>7, DepartVInv, SwapVInv, ArriveVInv, MainThreadVInv, UpdateVInv

(* What the clients show is what is there, for any number of players,      *)
(* objects, scenes, groups and creations under way: nobody sees what has   *)
(* gone, unless the code has no telling for the way it went, and who was   *)
(* announced misses nobody (SceneModule's OnPlayerGroupEvent and           *)
(* OnClassCommonEvent, each reading the lists as the step before left      *)
(* them).                                                                  *)
THEOREM ViewsStayExact == Spec => []ViewsExact
<1>1. Init => VInv
  BY InitVInv
<1>2. VInv /\ MoveInv /\ [Next]_vars => VInv'
  BY NextVInv
<1>3. VInv => ViewsExact
  BY ViewsFit
<1>. QED BY <1>1, <1>2, <1>3, Invariance, PTL DEF Spec

=============================================================================
