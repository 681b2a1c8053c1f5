------------------------------ MODULE Discovery ------------------------------
(***************************************************************************)
(* How the nodes find each other: the master's node_map_ and               *)
(* nodes_subscribe_ (node/master/logic) and, in every other process, the   *)
(* NodeModule that registers with the master on each connection and adds   *)
(* the peers the master tells it of (core/node).                           *)
(*                                                                         *)
(* A process keeps one TCP connection to the master (NetClient models how  *)
(* it is dialled again).  The master knows a connection by its descriptor: *)
(* node_map_ keeps the descriptor a node registered from, nothing removes  *)
(* it when the connection closes, and the kernel gives closed numbers out  *)
(* again.  Processes, the master and connections fail and come back.       *)
(*                                                                         *)
(* What the master sends is a list of nodes to add, and AddNode ignores an *)
(* id it has: so the bytes under way to a node are a set of ids, read in   *)
(* any order.  A node sends its registration first and then only reports.  *)
(***************************************************************************)
EXTENDS Integers

CONSTANTS
  Node,        \* ids of the processes that are not the master
  Type,        \* node types
  TypeOf,      \* the type each node announces
  Subs,        \* the types each node passes to AddSubscribeNode
  MasterId,    \* pm_->GetAppID() of the master
  MasterType,  \* ST_MASTER
  Fd,          \* descriptors accept() may return in the master
  InOrder      \* is a node's old connection read before its new one?

ASSUME NodeAssumption == 0 \notin Node \cup {MasterId}
ASSUME TypeAssumption == TypeOf \in [Node -> Type] /\ Subs \in [Node -> SUBSET Type]
ASSUME MasterTypeAssumption == MasterType \in Type /\ \A n \in Node : MasterType \notin Subs[n]
ASSUME FdAssumption == {0, -1} \cap Fd = {}
ASSUME SwitchAssumption == InOrder \in BOOLEAN

VARIABLES
  masterUp,  \* is the master running?
  reg,       \* keys of the master's node_map_
  fdOf,      \* node_map_[id].fd, 0 for the master itself and after a report
  subs,      \* the master's nodes_subscribe_
  owner,     \* the master's mmObject: the node a descriptor leads to, 0 free
  uplink,    \* what a node wrote to a descriptor and the master did not read
  up,        \* is the node's process running?
  link,      \* the node's connection to the master, as a descriptor of it
  inbox,     \* ids sent over `link` and not read yet
  knows,     \* ids the node called AddNode with
  started,   \* history: nodes that have run
  stray      \* history: ids that went to a node over a descriptor which
             \* node_map_ holds for another

master == <<masterUp, reg, fdOf, subs>>
history == <<started, stray>>
vars == <<master, owner, uplink, up, link, inbox, knows, history>>

None == 0    \* no connection
Dead == -1   \* a connection that is gone, which its node did not notice yet
Id == Node \cup {MasterId}

TypeOK ==
  /\ masterUp \in BOOLEAN
  /\ reg \subseteq Id
  /\ fdOf \in [Id -> Fd \cup {0}]
  /\ subs \in [Type -> SUBSET Node]
  /\ owner \in [Fd -> Node \cup {0}]
  /\ uplink \in [Fd -> SUBSET {"register", "report"}]
  /\ up \in [Node -> BOOLEAN]
  /\ link \in [Node -> Fd \cup {None, Dead}]
  /\ inbox \in [Node -> SUBSET Node]
  /\ knows \in [Node -> SUBSET Node]
  /\ started \subseteq Node
  /\ stray \in [Node -> SUBSET Node]

Init ==
  /\ masterUp = FALSE
  /\ reg = {}
  /\ fdOf = [i \in Id |-> 0]
  /\ subs = [t \in Type |-> {}]
  /\ owner = [f \in Fd |-> 0]
  /\ uplink = [f \in Fd |-> {}]
  /\ up = [n \in Node |-> FALSE]
  /\ link = [n \in Node |-> None]
  /\ inbox = [n \in Node |-> {}]
  /\ knows = [n \in Node |-> {}]
  /\ started = {}
  /\ stray = [n \in Node |-> {}]

-----------------------------------------------------------------------------
(* The master. *)

(* UpdateStatus() of AfterStart: the master enters itself. *)
MasterStart ==
  /\ ~masterUp
  /\ masterUp' = TRUE
  /\ reg' = {MasterId}
  /\ UNCHANGED <<fdOf, subs, owner, uplink, up, link, inbox, knows, history>>

(* The process dies with its maps and its sockets. *)
MasterCrash ==
  /\ masterUp
  /\ masterUp' = FALSE
  /\ reg' = {}
  /\ fdOf' = [i \in Id |-> 0]
  /\ subs' = [t \in Type |-> {}]
  /\ owner' = [f \in Fd |-> 0]
  /\ uplink' = [f \in Fd |-> {}]
  /\ link' = [n \in Node |-> IF link[n] = None THEN None ELSE Dead]
  /\ UNCHANGED <<up, inbox, knows, history>>

(* info->type() of an entry of node_map_. *)
InfoType(id) == IF id = MasterId THEN MasterType ELSE TypeOf[id]

StoreKeepingFd(n, fd) ==                                         \* mutant
  /\ reg' = reg \cup {n}
  /\ fdOf' = IF n \in reg THEN fdOf ELSE [fdOf EXCEPT ![n] = fd]

(* node_map_[new_node_id] = info *)
Store(n, fd) ==
  /\ reg' = reg \cup {n}
  /\ fdOf' = [fdOf EXCEPT ![n] = fd]

AddSubscribeNodeForgotten(n) == UNCHANGED subs                   \* mutant
AddSubscribeNode(n) ==
  subs' = [t \in Type |-> IF t \in Subs[n] THEN subs[t] \cup {n} ELSE subs[t]]

AckListUnfiltered(n) == (reg \cup {n}) \ {n, MasterId}           \* mutant

(* The nodes packed into NAckNodeRegister: all but the new one, of a type  *)
(* it subscribes to.                                                       *)
AckList(n) == {s \in reg \ {n} : InfoType(s) \in Subs[n]}

(* NtfSubscribNode: the new node goes to the descriptor of every           *)
(* subscriber of its type that node_map_ holds.                            *)
Notified(n) == {fdOf'[s] : s \in (subs'[InfoType(n)] \cap reg') \ {n}} \cap Fd

(* SendPBToNode(sock = fd): the bytes reach whoever is at the other end    *)
(* of the descriptor now.                                                  *)
Send(ackFd, ack, ntfFds, new) ==
  inbox' = [m \in Node |->
              inbox[m] \cup (IF link[m] = ackFd THEN ack ELSE {})
                       \cup (IF link[m] \in ntfFds THEN {new} ELSE {})]

(* The nodes at the far end of a descriptor that node_map_ holds for       *)
(* another subscriber: they get the notification in its place.             *)
Astray(n) ==
  stray' = [m \in Node |->
              IF \E s \in (subs'[InfoType(n)] \cap reg') \ {n, m} : fdOf'[s] \in Fd /\ fdOf'[s] = link[m]
              THEN stray[m] \cup {n} ELSE stray[m]]

(* With InOrder, what a node wrote to an earlier connection is read first. *)
OldLinksRead(fd) ==
  InOrder /\ link[owner[fd]] = fd =>
    \A g \in Fd \ {fd} : owner[g] = owner[fd] => uplink[g] = {}

(* The master lets no other process pass for itself. *)
Refused(id) == id = MasterId

OnNReqNodeRegister(fd) ==
  LET n == owner[fd] IN
  /\ n # 0
  /\ "register" \in uplink[fd]
  /\ OldLinksRead(fd)
  /\ uplink' = [uplink EXCEPT ![fd] = @ \ {"register"}]
  /\ IF Refused(n)
     THEN /\ UNCHANGED <<reg, fdOf, subs>>
          /\ Send(fd, {}, Notified(n), n)
     ELSE /\ Store(n, fd)
          /\ AddSubscribeNode(n)
          /\ Send(fd, AckList(n), Notified(n), n)
  /\ Astray(n)
  /\ UNCHANGED <<masterUp, owner, up, link, knows, started>>

(* A report refreshes the entry; one from an unknown id makes an entry     *)
(* without a descriptor and tells nobody.                                  *)
OnNNtfNodeReport(fd) ==
  LET n == owner[fd] IN
  /\ n # 0
  /\ "report" \in uplink[fd]
  /\ "register" \notin uplink[fd]
  /\ uplink' = [uplink EXCEPT ![fd] = @ \ {"report"}]
  /\ IF Refused(n) \/ n \in reg
     THEN UNCHANGED <<reg, fdOf>>
     ELSE reg' = reg \cup {n} /\ fdOf' = [fdOf EXCEPT ![n] = 0]
  /\ UNCHANGED <<masterUp, subs, owner, up, link, inbox, knows, history>>

(* The end of a connection: Net frees the descriptor, the logic keeps      *)
(* node_map_ as it is.  A reset may overtake what was written before it.   *)
MasterCloses(fd) ==
  /\ owner[fd] # 0
  /\ link[owner[fd]] # fd
  /\ owner' = [owner EXCEPT ![fd] = 0]
  /\ uplink' = [uplink EXCEPT ![fd] = {}]
  /\ UNCHANGED <<master, up, link, inbox, knows, history>>

-----------------------------------------------------------------------------
(* The other processes. *)

Start(n) ==
  /\ ~up[n]
  /\ up' = [up EXCEPT ![n] = TRUE]
  /\ started' = started \cup {n}
  /\ UNCHANGED <<master, owner, uplink, link, inbox, knows, stray>>

Crash(n) ==
  /\ up[n]
  /\ up' = [up EXCEPT ![n] = FALSE]
  /\ link' = [link EXCEPT ![n] = None]
  /\ inbox' = [inbox EXCEPT ![n] = {}]
  /\ knows' = [knows EXCEPT ![n] = {}]
  /\ stray' = [stray EXCEPT ![n] = {}]
  /\ UNCHANGED <<master, owner, uplink, started>>

(* OnUpperNodeConnected: the first thing written to a new connection. *)
Hello(n) == {"register"}

(* The connection is made and accepted, on any descriptor that is free:    *)
(* one that node_map_ still holds for another node as well.                *)
Connect(n, fd) ==
  /\ up[n]
  /\ link[n] = None
  /\ masterUp
  /\ owner[fd] = 0
  /\ owner' = [owner EXCEPT ![fd] = n]
  /\ uplink' = [uplink EXCEPT ![fd] = Hello(n)]
  /\ link' = [link EXCEPT ![n] = fd]
  /\ UNCHANGED <<master, up, inbox, knows, history>>

(* UpdateState, every ten seconds. *)
Report(n) ==
  /\ link[n] \in Fd
  /\ uplink' = [uplink EXCEPT ![link[n]] = @ \cup {"report"}]
  /\ UNCHANGED <<master, owner, up, link, inbox, knows, history>>

LinkBreaks(n) ==
  /\ link[n] \in Fd
  /\ link' = [link EXCEPT ![n] = Dead]
  /\ UNCHANGED <<master, owner, uplink, up, inbox, knows, history>>

NoticeLossForgetting(n) ==                                       \* mutant
  /\ link[n] = Dead
  /\ link' = [link EXCEPT ![n] = None]
  /\ inbox' = [inbox EXCEPT ![n] = {}]
  /\ knows' = [knows EXCEPT ![n] = {}]
  /\ UNCHANGED <<master, owner, uplink, up, history>>

(* EOF or ERROR of the master's connection; the rest of it is lost. *)
NoticeLoss(n) ==
  /\ link[n] = Dead
  /\ link' = [link EXCEPT ![n] = None]
  /\ inbox' = [inbox EXCEPT ![n] = {}]
  /\ UNCHANGED <<master, owner, uplink, up, knows, history>>

AddNodes(n, m) == knows' = [knows EXCEPT ![n] = @ \cup {m}]

(* OnNAckNodeRegister and OnNNtfNodeAdd. *)
OnNodeAdd(n) ==
  \E m \in inbox[n] :
    /\ AddNodes(n, m)
    /\ inbox' = [inbox EXCEPT ![n] = @ \ {m}]
    /\ UNCHANGED <<master, owner, uplink, up, link, history>>

MasterReads(fd) == OnNReqNodeRegister(fd) \/ OnNNtfNodeReport(fd)

Next ==
  \/ MasterStart
  \/ MasterCrash
  \/ \E fd \in Fd : OnNReqNodeRegister(fd)
  \/ \E fd \in Fd : OnNNtfNodeReport(fd)
  \/ \E fd \in Fd : MasterCloses(fd)
  \/ \E n \in Node : Start(n)
  \/ \E n \in Node : Crash(n)
  \/ \E n \in Node, fd \in Fd : Connect(n, fd)
  \/ \E n \in Node : Report(n)
  \/ \E n \in Node : LinkBreaks(n)
  \/ \E n \in Node : NoticeLoss(n)
  \/ \E n \in Node : OnNodeAdd(n)

Spec == Init /\ [][Next]_vars

(* Main loops run: sockets are read and closed, a lost master is dialled   *)
(* again.  Nothing makes a process start, crash, report or lose a link.    *)
Fairness ==
  /\ \A fd \in Fd : WF_vars(MasterReads(fd)) /\ WF_vars(MasterCloses(fd))
  /\ \A n \in Node : /\ SF_vars(\E fd \in Fd : Connect(n, fd))
                     /\ WF_vars(NoticeLoss(n))
                     /\ WF_vars(OnNodeAdd(n))

FairSpec == Spec /\ Fairness

-----------------------------------------------------------------------------
(* Properties *)

Wanted(n) == {m \in Node \ {n} : TypeOf[m] \in Subs[n]}

(* A node is told of no node but those of the types it subscribed to, and  *)
(* never of itself: logic_module.cc:82 "except self" and :86 "except no    *)
(* subscribe type".  The one exception, whatever descriptors the kernel    *)
(* gives out again: the notification meant for another subscriber, whose   *)
(* lost descriptor node_map_ still holds and this node now has.            *)
OnlySubscribed == \A n \in Node : knows[n] \subseteq Wanted(n) \cup stray[n]

(* Once the master has read a node's registration from its present         *)
(* connection, it has told the node of every entry of node_map_ that the   *)
(* node subscribes to, in whatever order the two nodes registered: the     *)
(* list of the ack and the later notifications leave no gap.               *)
NoMissedNode ==
  \A n \in Node :
    LET fd == link[n] IN
    fd \in Fd /\ n \in reg /\ fdOf[n] = fd /\ "register" \notin uplink[fd] =>
      reg \cap Wanted(n) \subseteq knows[n] \cup inbox[n] \cup {MasterId}

(* A process started with the master's id never takes over the master's    *)
(* entry, neither by registering nor by reporting.                         *)
MasterKeepsItsEntry == masterUp => MasterId \in reg /\ fdOf[MasterId] = 0

(* Both, with the types of the state.                                      *)
NobodyMissed == TypeOK /\ NoMissedNode /\ MasterKeepsItsEntry

(* The nodes do what Directory promises. *)
D == INSTANCE Directory WITH up <- up, started <- started, knows <- knows, stray <- stray
DirectorySpec == D!Spec

(* A node that stays up gets to know every node of its types that stays    *)
(* up, once the master stays up and their own two links stop breaking,     *)
(* whatever crashed before and whatever the other nodes keep doing.        *)
EveryoneLearns ==
  \A n \in Node \ {MasterId} : \A m \in Wanted(n) \ {MasterId} :
    /\ <>[](masterUp /\ up[n] /\ up[m])
    /\ <>[][~LinkBreaks(n) /\ ~LinkBreaks(m)]_vars
    => <>[](m \in knows[n])

=============================================================================
