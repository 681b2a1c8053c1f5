---------------------------- MODULE LoadBalance ----------------------------
(***************************************************************************)
(* The workloads the master balances logins by: every node keeps a record  *)
(* of itself (NodeModule::node_info_), sends it to the master in its       *)
(* registration and in a report every ten seconds, and the master picks a  *)
(* node for a login from the copies in its node_map_.                      *)
(*                                                                         *)
(* A node that lost its connection registers on a new one while the master *)
(* may still read reports from the old one, and a process that starts      *)
(* again registers while the reports of its predecessor arrive: the        *)
(* master compares update times to keep the newest copy.  Whom the master  *)
(* tells of whom is Discovery's subject; here a node only has its copy.    *)
(*                                                                         *)
(* Times are counted in NODE_REPORT_TIME, so a record changes at most once *)
(* per tick.  The workload is whatever CalcWorkLoad yields: its first      *)
(* value overflows an int, the later ones follow the connections.  A lost  *)
(* connection is dialled again ten seconds later: by then the master has   *)
(* read the registration the old one carried, if it was to arrive at all.  *)
(***************************************************************************)
EXTENDS Integers, Sequences

MaxInt == 2147483647    \* ids and workloads are ints

CONSTANTS
  Node,     \* node ids, in the order of the map
  Type,     \* node types
  TypeOf,   \* the type of each node
  Load,     \* workloads
  MaxClock  \* bound: the last instant considered

ASSUME NodeAssumption == Node \subseteq 1 .. MaxInt
ASSUME TypeAssumption == TypeOf \in [Node -> Type]
ASSUME LoadAssumption == Load \subseteq -MaxInt .. MaxInt /\ 0 \in Load
ASSUME ClockAssumption == MaxClock \in Nat

VARIABLES
  clock,   \* SquickGetTimeS(), in report intervals
  up,      \* is the node's process running?
  linked,  \* has the node a connection to the master?
  info,    \* node_info_.info: [time, load]
  wire,    \* sent on the present connection and not read by the master
  late,    \* what earlier connections still hold for the master
  entry    \* the master's node_map_[id].info, or NoEntry

vars == <<clock, up, linked, info, wire, late, entry>>

Info == [time : 0 .. MaxClock, load : Load]
NoEntry == [time |-> -1, load |-> 0]
Message == [kind : {"register", "report"}, info : Info]

TypeOK ==
  /\ clock \in 0 .. MaxClock
  /\ up \in [Node -> BOOLEAN]
  /\ linked \in [Node -> BOOLEAN]
  /\ info \in [Node -> Info]
  /\ wire \in [Node -> Seq(Message)]
  /\ late \in [Node -> Seq(Message)]
  /\ entry \in [Node -> Info \cup {NoEntry}]

Init ==
  /\ clock = 0
  /\ up = [n \in Node |-> FALSE]
  /\ linked = [n \in Node |-> FALSE]
  /\ info = [n \in Node |-> [time |-> 0, load |-> 0]]
  /\ wire = [n \in Node |-> <<>>]
  /\ late = [n \in Node |-> <<>>]
  /\ entry = [n \in Node |-> NoEntry]

-----------------------------------------------------------------------------
(* The nodes. *)

Tick ==
  /\ clock < MaxClock
  /\ clock' = clock + 1
  /\ UNCHANGED <<up, linked, info, wire, late, entry>>

(* Listen: the record of a new process carries the time and no workload. *)
Start(n) ==
  /\ ~up[n]
  /\ up' = [up EXCEPT ![n] = TRUE]
  /\ info' = [info EXCEPT ![n] = [time |-> clock, load |-> 0]]
  /\ UNCHANGED <<clock, linked, wire, late, entry>>

Registers(s) == \E i \in DOMAIN s : s[i].kind = "register"

(* OnUpperNodeConnected *)
Connect(n) ==
  /\ up[n]
  /\ ~linked[n]
  /\ ~Registers(late[n])
  /\ linked' = [linked EXCEPT ![n] = TRUE]
  /\ wire' = [wire EXCEPT ![n] = <<[kind |-> "register", info |-> info[n]]>>]
  /\ UNCHANGED <<clock, up, info, late, entry>>

StampForgotten(n, load) == [info EXCEPT ![n].load = load]        \* mutant

(* set_update_time, set_workload *)
Stamp(n, load) == [info EXCEPT ![n] = [time |-> clock, load |-> load]]

(* UpdateState: the report goes nowhere without a connection. *)
UpdateState(n) ==
  \E load \in Load :
    /\ up[n]
    /\ info[n].time < clock
    /\ info' = Stamp(n, load)
    /\ wire' = IF linked[n]
               THEN [wire EXCEPT ![n] = Append(@, [kind |-> "report", info |-> info'[n]])]
               ELSE wire
    /\ UNCHANGED <<clock, up, linked, late, entry>>

(* The connection ends: a part of what it held still arrives. *)
LinkEnds(n) ==
  /\ linked' = [linked EXCEPT ![n] = FALSE]
  /\ wire' = [wire EXCEPT ![n] = <<>>]
  /\ \E k \in 0 .. Len(wire[n]) : late' = [late EXCEPT ![n] = @ \o SubSeq(wire[n], 1, k)]

LinkLost(n) ==
  /\ linked[n]
  /\ LinkEnds(n)
  /\ UNCHANGED <<clock, up, info, entry>>

Crash(n) ==
  /\ up[n]
  /\ up' = [up EXCEPT ![n] = FALSE]
  /\ LinkEnds(n)
  /\ UNCHANGED <<clock, info, entry>>

-----------------------------------------------------------------------------
(* The master. *)

NeverStale(n, new) == FALSE                                      \* mutant

(* "if (iter->second.info->update_time() >= s.update_time()) continue;" *)
Stale(n, new) == entry[n].time >= new.time

Reported(n, new) == IF Stale(n, new) THEN entry ELSE [entry EXCEPT ![n] = new]

RegisteredOnce(n, new) ==                                        \* mutant
  IF entry[n] = NoEntry THEN [entry EXCEPT ![n] = new] ELSE entry

(* "node_map_[new_node_id] = info", whatever was there. *)
Registered(n, new) == [entry EXCEPT ![n] = new]

Handle(n, m) ==
  entry' = IF m.kind = "register" THEN Registered(n, m.info) ELSE Reported(n, m.info)

(* OnNReqNodeRegister or OnNNtfNodeReport, from the present connection ... *)
OnMessage(n) ==
  /\ wire[n] # <<>>
  /\ Handle(n, Head(wire[n]))
  /\ wire' = [wire EXCEPT ![n] = Tail(@)]
  /\ UNCHANGED <<clock, up, linked, info, late>>

(* ... and from earlier ones. *)
OnLateMessage(n) ==
  /\ late[n] # <<>>
  /\ Handle(n, Head(late[n]))
  /\ late' = [late EXCEPT ![n] = Tail(@)]
  /\ UNCHANGED <<clock, up, linked, info, wire>>

(* The master dies and starts again, without its map and its connections. *)
MasterRestarts ==
  /\ \E n \in Node : linked[n] \/ entry[n] # NoEntry
  /\ entry' = [n \in Node |-> NoEntry]
  /\ linked' = [n \in Node |-> FALSE]
  /\ wire' = [n \in Node |-> <<>>]
  /\ late' = [n \in Node |-> <<>>]
  /\ UNCHANGED <<clock, up, info>>

Next ==
  \/ Tick
  \/ \E n \in Node : Start(n)
  \/ \E n \in Node : Connect(n)
  \/ \E n \in Node : UpdateState(n)
  \/ \E n \in Node : LinkLost(n)
  \/ \E n \in Node : Crash(n)
  \/ \E n \in Node : OnMessage(n)
  \/ \E n \in Node : OnLateMessage(n)
  \/ MasterRestarts

Spec == Init /\ [][Next]_vars

-----------------------------------------------------------------------------
(* What the master answers from its map.  Its own record is there too and  *)
(* is left out.                                                            *)

(* OnGetNodeList: the copies by their ids.                                 *)
OnGetNodeList == [n \in {m \in Node : entry[m] # NoEntry} |-> entry[n]]

(* OnNReqAllNodesInfo: the same as a list. *)
OnNReqAllNodesInfo == {<<n, entry[n]>> : n \in DOMAIN OnGetNodeList}

(* "if (min_workload > server.info->workload())", and min_workload stays   *)
(* 0x7fffffff: the last node of the type is named, or -1 for none.         *)
GetLoadBanlanceNode(type) ==
  LET named == {n \in DOMAIN OnGetNodeList : TypeOf[n] = type /\ entry[n].load < MaxInt}
  IN IF named = {} THEN -1 ELSE CHOOSE n \in named : \A m \in named : m <= n

(* Types without a node are passed over. *)
OnNReqMinWorkNodeInfo(types) ==
  {<<n, entry[n]>> : n \in {GetLoadBanlanceNode(type) : type \in types} \ {-1}}

-----------------------------------------------------------------------------

(* The master reads its sockets and nodes dial it again; nothing makes     *)
(* time pass, a process start or fail, or a node report.                   *)
Fairness ==
  \A n \in Node : WF_vars(Connect(n)) /\ WF_vars(OnMessage(n)) /\ WF_vars(OnLateMessage(n))

FairSpec == Spec /\ Fairness

-----------------------------------------------------------------------------
(* Properties *)

(* The master's copy of a node never goes back in time, although a         *)
(* registration is stored unseen and reports of earlier connections, and   *)
(* of earlier processes, arrive after it.                                  *)
NeverOlder ==
  [][\A n \in Node : entry[n] # NoEntry /\ entry'[n] # NoEntry => entry'[n].time >= entry[n].time]_vars

(* The copies of the master are never newer than the nodes themselves, and *)
(* one as new as the node's record is equal to it, unless the node started *)
(* again within the same interval.                                         *)
CopyIsTrue ==
  \A n \in Node :
    /\ entry[n].time <= info[n].time
    /\ entry[n].time = info[n].time => entry[n] = info[n] \/ info[n].load = 0

(* Who asks where to log in is told a node of each type that a node is     *)
(* known of, unless its workload is the largest int; the record he is told *)
(* was that node's, and he finds it in the list of all nodes.              *)
AnswersTrue ==
  \A types \in SUBSET Type :
    /\ OnNReqMinWorkNodeInfo(types) \subseteq OnNReqAllNodesInfo
    /\ \A answer \in OnNReqMinWorkNodeInfo(types) :
         /\ TypeOf[answer[1]] \in types
         /\ answer[2].time \in 0 .. info[answer[1]].time
    /\ \A n \in DOMAIN OnGetNodeList :
         TypeOf[n] \in types /\ OnGetNodeList[n].load # MaxInt =>
           \E answer \in OnNReqMinWorkNodeInfo(types) : TypeOf[answer[1]] = TypeOf[n]

(* Both, with the types of the state.                                      *)
CopiesTrue == TypeOK /\ CopyIsTrue /\ AnswersTrue

(* Once a node stays up and connected, and reports no more, the master's   *)
(* copy comes to be the node's record: a report lost with a connection is  *)
(* made up for by the registration on the next.                            *)
CopiesCatchUp ==
  \A n \in Node :
    <>[]up[n] /\ <>[][~LinkLost(n) /\ ~MasterRestarts]_vars => <>[](entry[n] = info[n])

=============================================================================
