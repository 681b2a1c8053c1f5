------------------------------ MODULE NetClient ------------------------------
(***************************************************************************)
(* NetClientModule: the outgoing TCP links of one squick process.          *)
(*                                                                         *)
(* Every process keeps one ConnectData per peer node in mxServerMap and    *)
(* drives them all from its main loop: Update() = ProcessUpdate() followed *)
(* by ProcessNetConnect().  ProcessUpdate walks the map with the cursor    *)
(* that lives INSIDE the map (MapEx::mObjectCurIter) and polls the event   *)
(* loop of each peer's Net; the callbacks run inside that poll, use the    *)
(* same cursor, change the peer's state and the index of usable peers      *)
(* (mxServerTypeMap), and queue more peers (mxTempNetList).                *)
(*                                                                         *)
(* Time is kept as ages: elapsed[n] is GetNowTime() - last_time, saturated *)
(* at Delay + 1, which no comparison of the code tells from a larger age.  *)
(***************************************************************************)
EXTENDS Naturals, Sequences

CONSTANTS
  Node,             \* ids of the peers AddNode may be called with
  Type,             \* node types
  TypeOf,           \* the type AddNode gives with each id
  Delay,            \* the 10 seconds of the reconnect and keep-alive tests
  MaxPending,       \* bound: AddNode calls queued between two frames
  ConnectMayFail,   \* may Net::StartClientNet return -1?
  MayBroadcast      \* may a callback send to every node of the map?

ASSUME NodeAssumption == Node \subseteq Nat \ {0}
ASSUME TypeAssumption == TypeOf \in [Node -> Type]
ASSUME DelayAssumption == Delay \in Nat
ASSUME SwitchAssumption == ConnectMayFail \in BOOLEAN /\ MayBroadcast \in BOOLEAN

VARIABLES
  known,      \* keys of mxServerMap
  state,      \* ConnectData::state
  net,        \* ConnectData::net_module and what its Net has reported
  elapsed,    \* GetNowTime() - ConnectData::last_time, saturated
  typed,      \* keys of mxServerTypeMap
  suit,       \* members of mxServerTypeMap[type]
  pending,    \* mxTempNetList, the ids in order
  phase,      \* where the frame is: see Phases
  at,         \* the local pServerData of ProcessUpdate
  cursor,     \* MapEx::mObjectCurIter, End when past the last element
  wasNormal,  \* the switch of ProcessUpdate took its NORMAL case
  crashed,    \* the process followed a null pointer
  tcp,        \* the socket under net, as the kernel sees it
  reach,      \* peers that accept connections
  sinceLoss,  \* history: age of the peer's last disconnection, saturated
  visited,    \* history: peers the current ProcessUpdate has visited
  clobbered   \* history: a callback moved the cursor during this frame

frame  == <<phase, at, cursor, wasNormal, visited, clobbered>>
index  == <<typed, suit>>
env    == <<tcp, reach>>
vars   == <<known, state, net, elapsed, index, pending, frame, crashed, env, sinceLoss>>

End == 0                                    \* mObjectList.end()
States == {"DISCONNECT", "CONNECTING", "NORMAL", "RECONNECT"}

(* "none": net_module is null.  "inert": StartClientNet failed, so no      *)
(* bufferevent exists and no event will come.  "wait": connecting.         *)
(* "open": CONNECTED was delivered.  "broken": EOF or ERROR was delivered. *)
NetStates == {"none", "inert", "wait", "open", "broken"}

(* "syn": handshake under way; "est": accepted; "ref": refused;            *)
(* "fin": accepted and closed by the peer; "no": there is no socket.       *)
TcpStates == {"no", "syn", "est", "ref", "fin"}

(* "idle": other modules run; "switch": ProcessUpdate is at peer `at`;     *)
(* "poll": inside net_module->Update() of `at`; "connect": at the call of  *)
(* ProcessNetConnect.                                                      *)
Phases == {"idle", "switch", "poll", "connect"}

Older(age) == IF age > Delay THEN age ELSE age + 1

TypeOK ==
  /\ known \subseteq Node
  /\ state \in [Node -> States]
  /\ net \in [Node -> NetStates]
  /\ elapsed \in [Node -> 0 .. Delay + 1]
  /\ typed \subseteq Type
  /\ suit \in [Type -> SUBSET Node]
  /\ pending \in Seq(Node)
  /\ phase \in Phases
  /\ at \in known \cup {End}
  /\ cursor \in known \cup {End}
  /\ wasNormal \in BOOLEAN
  /\ crashed \in BOOLEAN
  /\ tcp \in [Node -> TcpStates]
  /\ reach \subseteq Node
  /\ sinceLoss \in [Node -> 0 .. Delay + 1]
  /\ visited \subseteq Node
  /\ clobbered \in BOOLEAN

Init ==
  /\ known = {}
  /\ state = [n \in Node |-> "DISCONNECT"]
  /\ net = [n \in Node |-> "none"]
  /\ elapsed = [n \in Node |-> Delay + 1]
  /\ typed = {}
  /\ suit = [t \in Type |-> {}]
  /\ pending = <<>>
  /\ phase = "idle"
  /\ at = End
  /\ cursor = End
  /\ wasNormal = FALSE
  /\ crashed = FALSE
  /\ tcp = [n \in Node |-> "no"]
  /\ reach = Node
  /\ sinceLoss = [n \in Node |-> Delay + 1]
  /\ visited = {}
  /\ clobbered = FALSE

-----------------------------------------------------------------------------
(* The cursor of MapEx. *)

(* j is the element of mxServerMap that follows i in key order, or End. *)
Follows(i, j) ==
  \/ /\ j \in known
     /\ i < j
     /\ \A k \in known : ~(i < k /\ k < j)
  \/ /\ j = End
     /\ \A k \in known : ~(i < k)

(* MapEx::First() and MapEx::Next(): the cursor moves and its element is   *)
(* the peer ProcessUpdate works on; past the end the walk is over.         *)
WalkTo(j) ==
  /\ cursor' = j
  /\ at' = j
  /\ phase' = IF j = End THEN "connect" ELSE "switch"

FirstElement == \E j \in known \cup {End} : Follows(End, j) /\ WalkTo(j)

NextElement ==
  \/ /\ cursor = End
     /\ WalkTo(End)
  \/ /\ cursor # End
     /\ \E j \in known \cup {End} : Follows(cursor, j) /\ WalkTo(j)

-----------------------------------------------------------------------------
(* What the other modules of the process do with the client. *)


AddNode(n) ==
  /\ phase \in {"idle", "poll"}
  /\ Len(pending) < MaxPending
  /\ pending' = Append(pending, n)
  /\ UNCHANGED <<known, state, net, elapsed, index, frame, crashed, env, sinceLoss>>

(* The ids GetRandomNodeID may answer; 0 when the type never had a peer. *)
RandomNodeIDs(t) == IF t \in typed THEN suit[t] ELSE {0}

(* GetRandomNodeID on a type whose peers are all gone: the hash map has no *)
(* element to return and `node->id` follows a null pointer.  Its other     *)
(* outcomes are reads.                                                     *)
GetRandomNodeID(t) ==
  /\ phase \in {"idle", "poll"}
  /\ RandomNodeIDs(t) = {}
  /\ crashed' = TRUE
  /\ UNCHANGED <<known, state, net, elapsed, index, pending, frame, env, sinceLoss>>

IsConnected(n) == n \in known /\ state[n] = "NORMAL"

(* Net::SendData: mbWorking is set between CONNECTED and the loss. *)
Working(n) == net[n] = "open"

(* What SendByID and SendPBByID answer: a peer without a Net is no error. *)
SendByID(n) == n \in known /\ (net[n] = "none" \/ Working(n))

(* SendToAllNode and its three variants, called from a callback: they walk *)
(* the same map and leave its cursor past the end.                         *)
SendToAllNode ==
  /\ MayBroadcast
  /\ phase = "poll"
  /\ cursor' = End
  /\ clobbered' = TRUE
  /\ UNCHANGED <<known, state, net, elapsed, index, pending, phase, at, wasNormal, visited,
                 crashed, env, sinceLoss>>

-----------------------------------------------------------------------------
(* NetClientModule::Update *)

ProcessUpdate ==
  /\ phase = "idle"
  /\ FirstElement
  /\ visited' = {}
  /\ clobbered' = FALSE
  /\ UNCHANGED <<known, state, net, elapsed, index, pending, wasNormal, crashed, env, sinceLoss>>

(* What a new Net reports of its connection attempt: StartClientNet either *)
(* starts the handshake or returns -1, and nobody looks at its result.     *)
ConnectOutcomes == IF ConnectMayFail THEN {"wait", "inert"} ELSE {"wait"}

Connect(n) ==
  \E outcome \in ConnectOutcomes :
    /\ net' = [net EXCEPT ![n] = outcome]
    /\ tcp' = [tcp EXCEPT ![n] = IF outcome = "wait" THEN "syn" ELSE "no"]

DropNet(n) ==
  /\ net' = [net EXCEPT ![n] = "none"]
  /\ tcp' = [tcp EXCEPT ![n] = "no"]

ScheduleRetryForgotten(n) == UNCHANGED state                     \* mutant
ScheduleRetry(n) == state' = [state EXCEPT ![n] = "RECONNECT"]

CaseDisconnect(n) ==
  /\ state[n] = "DISCONNECT"
  /\ IF net[n] # "none"
     THEN DropNet(n) /\ ScheduleRetry(n)
     ELSE UNCHANGED <<net, tcp, state>>
  /\ NextElement
  /\ UNCHANGED wasNormal

CaseReconnect(n) ==
  /\ state[n] = "RECONNECT"
  /\ IF elapsed[n] > Delay
     THEN Connect(n) /\ state' = [state EXCEPT ![n] = "CONNECTING"]
     ELSE UNCHANGED <<net, tcp, state>>
  /\ NextElement
  /\ UNCHANGED wasNormal

(* The CONNECTING and NORMAL cases start net_module->Update(). *)
CasePoll(n) ==
  /\ state[n] \in {"CONNECTING", "NORMAL"}
  /\ IF net[n] # "none"
     THEN /\ phase' = "poll"
          /\ wasNormal' = (state[n] = "NORMAL")
          /\ UNCHANGED <<at, cursor>>
     ELSE /\ NextElement
          /\ UNCHANGED wasNormal
  /\ UNCHANGED <<net, tcp, state>>

(* The switch of ProcessUpdate on the peer the walk has reached. *)
Switch ==
  /\ phase = "switch"
  /\ CaseDisconnect(at) \/ CaseReconnect(at) \/ CasePoll(at)
  /\ visited' = visited \cup {at}
  /\ UNCHANGED <<known, elapsed, index, pending, clobbered, crashed, reach, sinceLoss>>

(* GetServerNetInfo(pNet) inside a callback of `at`: a walk of the map     *)
(* from First that stops at the peer whose Net reported the event.         *)
GetServerNetInfoToEnd == cursor' = End                           \* mutant
GetServerNetInfo == cursor' = at

OnConnected ==
  /\ phase = "poll"
  /\ net[at] = "wait"
  /\ tcp[at] \in {"est", "fin"}
  /\ net' = [net EXCEPT ![at] = "open"]
  /\ GetServerNetInfo
  /\ state' = [state EXCEPT ![at] = "NORMAL"]
  /\ typed' = typed \cup {TypeOf[at]}
  /\ suit' = [suit EXCEPT ![TypeOf[at]] = @ \cup {at}]
  /\ UNCHANGED <<known, elapsed, pending, phase, at, wasNormal, visited, clobbered, crashed,
                 env, sinceLoss>>

NoteLossTimeForgotten(n) == UNCHANGED elapsed                    \* mutant
NoteLossTime(n) == elapsed' = [elapsed EXCEPT ![n] = 0]

LeaveIndexForgotten(n) == UNCHANGED index                        \* mutant
LeaveIndex(n) ==
  /\ suit' = IF TypeOf[n] \in typed THEN [suit EXCEPT ![TypeOf[n]] = @ \ {n}] ELSE suit
  /\ UNCHANGED typed

OnDisConnected ==
  /\ phase = "poll"
  /\ \/ net[at] = "wait" /\ tcp[at] = "ref"
     \/ net[at] = "open" /\ tcp[at] = "fin"
  /\ net' = [net EXCEPT ![at] = "broken"]
  /\ GetServerNetInfo
  /\ state' = [state EXCEPT ![at] = "DISCONNECT"]
  /\ NoteLossTime(at)
  /\ LeaveIndex(at)
  /\ sinceLoss' = [sinceLoss EXCEPT ![at] = 0]
  /\ UNCHANGED <<known, pending, phase, at, wasNormal, visited, clobbered, crashed, env>>

EventReady ==
  \/ net[at] = "wait" /\ tcp[at] \in {"est", "fin", "ref"}
  \/ net[at] = "open" /\ tcp[at] = "fin"

(* net_module->Update() returns once every ready event is delivered; the   *)
(* NORMAL case goes on with KeepState, then the walk continues.            *)
EndPoll ==
  /\ phase = "poll"
  /\ ~EventReady
  /\ elapsed' = IF wasNormal /\ elapsed[at] >= Delay
                THEN [elapsed EXCEPT ![at] = 0] ELSE elapsed
  /\ wasNormal' = FALSE
  /\ NextElement
  /\ UNCHANGED <<known, state, net, index, pending, visited, clobbered, crashed, env, sinceLoss>>

Queued == {pending[i] : i \in DOMAIN pending}

(* ProcessNetConnect: every queued id that mxServerMap does not hold yet   *)
(* gets a ConnectData and a first connection; the list is cleared.         *)
ProcessNetConnect ==
  /\ phase = "connect"
  /\ phase' = "idle"
  /\ \E opened \in SUBSET (Queued \ known) :
       LET new == Queued \ known IN
       /\ ConnectMayFail \/ opened = new
       /\ net' = [n \in Node |-> IF n \notin new THEN net[n]
                                 ELSE IF n \in opened THEN "wait" ELSE "inert"]
       /\ tcp' = [n \in Node |-> IF n \in opened THEN "syn" ELSE tcp[n]]
       /\ state' = [n \in Node |-> IF n \in new THEN "CONNECTING" ELSE state[n]]
       /\ elapsed' = [n \in Node |-> IF n \in new THEN 0 ELSE elapsed[n]]
  /\ known' = known \cup Queued
  /\ pending' = <<>>
  /\ UNCHANGED <<index, at, cursor, wasNormal, visited, clobbered, crashed, reach, sinceLoss>>

-----------------------------------------------------------------------------
(* The clock, read once per frame, and the peers. *)

Tick ==
  /\ phase = "idle"
  /\ elapsed' = [n \in Node |-> Older(elapsed[n])]
  /\ sinceLoss' = [n \in Node |-> Older(sinceLoss[n])]
  /\ UNCHANGED <<known, state, net, index, pending, frame, crashed, env>>

PeerAnswers(n) ==
  /\ tcp[n] = "syn"
  /\ tcp' = [tcp EXCEPT ![n] = IF n \in reach THEN "est" ELSE "ref"]
  /\ UNCHANGED <<known, state, net, elapsed, index, pending, frame, crashed, reach, sinceLoss>>

PeerDown(n) ==
  /\ n \in reach
  /\ reach' = reach \ {n}
  /\ tcp' = [tcp EXCEPT ![n] = IF @ = "est" THEN "fin" ELSE @]
  /\ UNCHANGED <<known, state, net, elapsed, index, pending, frame, crashed, sinceLoss>>

PeerUp(n) ==
  /\ n \notin reach
  /\ reach' = reach \cup {n}
  /\ UNCHANGED <<known, state, net, elapsed, index, pending, frame, crashed, tcp, sinceLoss>>

Main == ProcessUpdate \/ Switch \/ OnConnected \/ OnDisConnected \/ EndPoll \/ ProcessNetConnect

Next ==
  \/ ~crashed /\ Main
  \/ ~crashed /\ SendToAllNode
  \/ ~crashed /\ Tick
  \/ ~crashed /\ \E n \in Node : AddNode(n)
  \/ ~crashed /\ \E t \in Type : GetRandomNodeID(t)
  \/ \E n \in Node : PeerAnswers(n)
  \/ \E n \in Node : PeerDown(n)
  \/ \E n \in Node : PeerUp(n)

Spec == Init /\ [][Next]_vars

(* The main loop keeps calling Update, the clock advances between frames,  *)
(* and a peer answers a handshake with an accept or a refusal.             *)
Fairness ==
  /\ WF_vars(~crashed /\ Main)
  /\ SF_vars(~crashed /\ Tick)
  /\ \A n \in Node : WF_vars(PeerAnswers(n))

FairSpec == Spec /\ Fairness

-----------------------------------------------------------------------------
(* Properties *)

(* The index GetRandomNodeID draws from holds exactly the peers whose      *)
(* connection is up: a peer enters it when CONNECTED is delivered, leaves  *)
(* it when its loss is delivered, and no other step of the state machine,  *)
(* in whatever frame it falls, separates the two.                          *)
IndexedIffConnected ==
  \A t \in Type, n \in Node :
    n \in suit[t] <=> /\ n \in known
                     /\ TypeOf[n] = t
                     /\ state[n] = "NORMAL"

(* A peer is in the state its Net is in: NORMAL exactly while the          *)
(* connection is open, no Net while it waits for its retry, and a Net      *)
(* that reported its loss is never polled again.                           *)
NetMatchesState ==
  \A n \in known :
    /\ state[n] = "NORMAL" <=> net[n] = "open"
    /\ state[n] = "CONNECTING" <=> net[n] \in {"wait", "inert"}
    /\ state[n] = "RECONNECT" <=> net[n] = "none"
    /\ state[n] = "DISCONNECT" <=> net[n] = "broken"

(* Whom IsConnected or GetRandomNodeID names can be written to, and no      *)
(* other; SendByID answers true although nothing is sent only while the     *)
(* peer waits for its retry.                                                *)
SendsAgree ==
  /\ \A n \in known : /\ IsConnected(n) <=> Working(n)
                     /\ SendByID(n) <=> IsConnected(n) \/ state[n] = "RECONNECT"
  /\ \A t \in Type : \A n \in RandomNodeIDs(t) \ {0} : SendByID(n) /\ Working(n)

(* The links are what the maps say they are: the index of usable peers, the *)
(* state of each peer, its Net and what a sender is told never part,        *)
(* however losses, retries and frames fall.                                 *)
LinksAgree == TypeOK /\ IndexedIffConnected /\ NetMatchesState /\ SendsAgree

(* A lost peer is dialled again only when more than Delay has passed since *)
(* it was lost, whatever KeepState did to last_time while it was up.       *)
RetryAfterDelay ==
  [][\A n \in known : net[n] = "none" /\ net'[n] # "none" => sinceLoss[n] > Delay]_vars

(* The walk of ProcessUpdate shares its cursor with the callbacks it runs. *)
(* Unless one of them walked the whole map, every peer of the map is       *)
(* visited before the frame goes on to ProcessNetConnect.                  *)
FrameVisitsAll ==
  phase = "connect" /\ ~clobbered => visited = known

(* A peer of the map that accepts connections from some time on ends up    *)
(* connected and usable for good, however often it was lost before: unless *)
(* the process crashed, an attempt to dial it failed within the process,   *)
(* or a callback keeps breaking off the walk.                              *)
PeersReconnect ==
  []~crashed /\ <>[]~clobbered =>
    \A n \in Node :
      <>[](n \in known /\ n \in reach /\ net[n] # "inert") => <>[](n \in suit[TypeOf[n]])

=============================================================================
