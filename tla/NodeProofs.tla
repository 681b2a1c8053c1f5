------------------------------ MODULE NodeProofs ------------------------------
(***************************************************************************)
(* Proofs about what every node is part of and made of.                    *)
(*                                                                         *)
(* Discovery, for any nodes, types and descriptors: no subscriber misses a *)
(* node, none hears of a node it did not ask for but by news that went     *)
(* astray, and Discovery implements Directory, whatever descriptors the    *)
(* kernel gives out again.                                                 *)
(*                                                                         *)
(* Process, for any servers, configurations and plugins: what the manager  *)
(* can call exists, and no module leaves its server's phase.               *)
(***************************************************************************)
EXTENDS Discovery, Process, SequenceTheorems, TLAPS

(* A node's own end of its connection. *)
LinkInv ==
  \A n \in Node :
    /\ link[n] \in Fd => owner[link[n]] = n
    /\ link[n] # None => up[n]
    /\ link[n] = None => inbox[n] = {}

(* A master that is down holds nothing, and has no descriptor of its own. *)
DownInv ==
  /\ ~masterUp => reg = {} /\ \A fd \in Fd : owner[fd] = 0
  /\ masterUp => MasterId \in reg
  /\ fdOf[MasterId] = 0

(* Who registered is subscribed, and only to what it asked for. *)
SubsInv ==
  /\ \A n \in reg \ {MasterId} : fdOf[n] # 0 => \A t \in Subs[n] : n \in subs[t]
  /\ \A t \in Type : \A n \in subs[t] : t \in Subs[n]

(* Reports follow the registration of their connection. *)
UplinkInv ==
  \A fd \in Fd : owner[fd] # 0 /\ "register" \notin uplink[fd] => owner[fd] \in reg \cup {MasterId}

IInv == TypeOK /\ LinkInv /\ DownInv /\ SubsInv /\ UplinkInv /\ NoMissedNode

(* What is sent to a node is for that node, or went astray.                *)
SentInv ==
  /\ \A n \in Node : inbox[n] \cup knows[n] \subseteq (Wanted(n) \cap started) \cup stray[n]
  /\ \A n \in Node : up[n] => n \in started
  /\ \A fd \in Fd : owner[fd] \in started \cup {0}
  /\ reg \subseteq started \cup {MasterId}

-----------------------------------------------------------------------------

LEMMA InitIInv == Init => IInv
<1>. SUFFICES ASSUME Init PROVE IInv
  OBVIOUS
<1>. USE DEF Init
<1>1. TypeOK
  BY DEF TypeOK
<1>2. LinkInv /\ NoMissedNode
  BY FdAssumption DEF LinkInv, NoMissedNode, None
<1>3. DownInv /\ SubsInv /\ UplinkInv
  BY DEF DownInv, SubsInv, UplinkInv, Id
<1>. QED BY <1>1, <1>2, <1>3 DEF IInv

LEMMA MasterStartIInv == IInv /\ MasterStart => IInv'
<1>. SUFFICES ASSUME IInv, MasterStart PROVE IInv'
  OBVIOUS
<1>. USE DEF MasterStart, history
<1>1. TypeOK'
  BY DEF IInv, TypeOK, Id
<1>2. LinkInv'
  BY DEF IInv, LinkInv
<1>3. DownInv' /\ SubsInv' /\ UplinkInv'
  BY DEF IInv, DownInv, SubsInv, UplinkInv
<1>4. NoMissedNode'
  BY DEF NoMissedNode, Wanted
<1>. QED BY <1>1, <1>2, <1>3, <1>4 DEF IInv

LEMMA MasterCrashIInv == IInv /\ MasterCrash => IInv'
<1>. SUFFICES ASSUME IInv, MasterCrash PROVE IInv'
  OBVIOUS
<1>. USE DEF MasterCrash, history
<1>1. TypeOK'
  BY DEF IInv, TypeOK
<1>2. LinkInv'
  BY FdAssumption DEF IInv, LinkInv, TypeOK, None, Dead
<1>3. DownInv' /\ SubsInv' /\ UplinkInv'
  BY DEF IInv, DownInv, SubsInv, UplinkInv, Id
<1>4. NoMissedNode'
  BY FdAssumption DEF IInv, NoMissedNode, None, Dead, TypeOK
<1>. QED BY <1>1, <1>2, <1>3, <1>4 DEF IInv

(* What reading a registration does to the maps, whoever it comes from:    *)
(* the sender, unless it bears the master's id, is stored with its         *)
(* descriptor and subscribed.                                              *)
LEMMA RegisterEffect ==
  ASSUME IInv, NEW fd \in Fd, OnNReqNodeRegister(fd), NEW n, n = owner[fd]
  PROVE  /\ n \in Node
         /\ inbox' \in [Node -> SUBSET Node]
         /\ \/ n = MasterId /\ UNCHANGED <<reg, fdOf, subs, inbox>>
            \/ /\ n # MasterId
               /\ reg' = reg \cup {n}
               /\ fdOf' = [fdOf EXCEPT ![n] = fd]
               /\ subs' = [t \in Type |-> IF t \in Subs[n] THEN subs[t] \cup {n} ELSE subs[t]]
               /\ inbox' = [m \in Node |->
                    inbox[m] \cup (IF link[m] = fd THEN AckList(n) ELSE {})
                             \cup (IF link[m] \in Notified(n) THEN {n} ELSE {})]
<1>1. n \in Node
  BY DEF OnNReqNodeRegister, IInv, TypeOK
<1>2. CASE n = MasterId
  <2>1. UNCHANGED <<reg, fdOf, subs>> /\ Send(fd, {}, Notified(n), n)
    BY <1>2 DEF OnNReqNodeRegister, Refused
  <2>2. \A t \in Type : MasterType \notin Subs[n]
    BY <1>1, MasterTypeAssumption
  <2>3. subs'[InfoType(n)] = {}
    BY <1>2, <2>1, MasterTypeAssumption DEF IInv, SubsInv, InfoType, TypeOK
  <2>4. Notified(n) = {}
    BY <2>3 DEF Notified
  <2>5. inbox' = inbox
    BY <2>1, <2>4 DEF Send, IInv, TypeOK
  <2>. QED BY <1>1, <1>2, <2>1, <2>5 DEF IInv, TypeOK
<1>3. CASE n # MasterId
  <2>1. Store(n, fd) /\ AddSubscribeNode(n) /\ Send(fd, AckList(n), Notified(n), n)
    BY <1>3 DEF OnNReqNodeRegister, Refused
  <2>2. AckList(n) \subseteq Node
    BY <1>1, TypeAssumption, MasterTypeAssumption DEF AckList, InfoType, IInv, TypeOK, Id
  <2>3. inbox' \in [Node -> SUBSET Node]
    BY <1>1, <2>1, <2>2 DEF Send, IInv, TypeOK
  <2>. QED BY <1>1, <1>3, <2>1, <2>3 DEF Store, AddSubscribeNode, Send
<1>. QED BY <1>2, <1>3

LEMMA RegisterIInv ==
  ASSUME IInv, NEW fd \in Fd, OnNReqNodeRegister(fd)
  PROVE  IInv'
<1> DEFINE n == owner[fd]
<1>1. /\ n \in Node /\ n # 0
      /\ uplink' = [uplink EXCEPT ![fd] = @ \ {"register"}]
      /\ UNCHANGED <<masterUp, owner, up, link, knows, started>>
      /\ inbox' \in [Node -> SUBSET Node]
      /\ stray' \in [Node -> SUBSET Node]
  BY RegisterEffect DEF OnNReqNodeRegister, Astray, IInv, TypeOK
<1>2. uplink' \in [Fd -> SUBSET {"register", "report"}] /\ \A g \in Fd : g # fd => uplink'[g] = uplink[g]
  BY <1>1 DEF IInv, TypeOK
<1>3. CASE n = MasterId
  <2>1. UNCHANGED <<reg, fdOf, subs, inbox>>
    BY <1>3, RegisterEffect
  <2>2. TypeOK'
    BY <1>1, <1>2, <2>1 DEF IInv, TypeOK
  <2>3. LinkInv' /\ DownInv' /\ SubsInv'
    BY <1>1, <2>1 DEF IInv, LinkInv, DownInv, SubsInv
  <2>4. UplinkInv'
    BY <1>1, <1>2, <1>3, <2>1 DEF IInv, UplinkInv
  <2>5. NoMissedNode'
    <3>. SUFFICES ASSUME NEW m \in Node,
                        link'[m] \in Fd, m \in reg', fdOf'[m] = link'[m],
                        "register" \notin uplink'[link'[m]]
               PROVE  reg' \cap Wanted(m) \subseteq knows'[m] \cup inbox'[m] \cup {MasterId}
      BY DEF NoMissedNode, Wanted
    <3>1. link[m] # fd
      <4>1. SUFFICES ASSUME link[m] = fd PROVE FALSE
        OBVIOUS
      <4>2. m = MasterId
        BY <1>1, <1>3, <4>1 DEF IInv, LinkInv
      <4>. QED BY <1>1, <2>1, <4>2, FdAssumption DEF IInv, DownInv
    <3>2. "register" \notin uplink[link[m]]
      BY <1>1, <1>2, <3>1
    <3>. QED BY <1>1, <2>1, <3>2 DEF IInv, NoMissedNode
  <2>. QED BY <2>2, <2>3, <2>4, <2>5 DEF IInv
<1>4. CASE n # MasterId
  <2>1. /\ reg' = reg \cup {n}
        /\ fdOf' = [fdOf EXCEPT ![n] = fd]
        /\ subs' = [t \in Type |-> IF t \in Subs[n] THEN subs[t] \cup {n} ELSE subs[t]]
        /\ inbox' = [m \in Node |->
             inbox[m] \cup (IF link[m] = fd THEN AckList(n) ELSE {})
                      \cup (IF link[m] \in Notified(n) THEN {n} ELSE {})]
    BY <1>4, RegisterEffect
  <2>2. TypeOK'
    BY <1>1, <1>2, <2>1 DEF IInv, TypeOK, Id
  <2>3. LinkInv'
    <3>1. \A m \in Node : link[m] = None => inbox'[m] = {}
      BY <2>1, FdAssumption DEF IInv, LinkInv, Notified, None
    <3>. QED BY <1>1, <3>1 DEF IInv, LinkInv
  <2>4. DownInv'
    BY <1>1, <1>4, <2>1 DEF IInv, DownInv, TypeOK, Id
  <2>5. SubsInv'
    BY <1>1, <2>1, TypeAssumption DEF IInv, SubsInv, TypeOK, Id
  <2>6. UplinkInv'
    BY <1>1, <1>2, <2>1 DEF IInv, UplinkInv
  <2>7. NoMissedNode'
    <3>. SUFFICES ASSUME NEW m \in Node,
                        link'[m] \in Fd, m \in reg', fdOf'[m] = link'[m],
                        "register" \notin uplink'[link'[m]],
                        NEW w \in reg' \cap Wanted(m), w # MasterId
               PROVE  w \in knows'[m] \cup inbox'[m]
      BY DEF NoMissedNode, Wanted
    <3>0. w \in Node /\ w # m /\ TypeOf[w] \in Subs[m] /\ inbox[m] \subseteq inbox'[m]
      BY <2>1 DEF Wanted
    <3>1. CASE m = n
      <4>1. link[m] = fd
        BY <1>1, <2>1, <3>1 DEF IInv, TypeOK, Id
      <4>2. w \in AckList(n)
        BY <2>1, <3>0, <3>1 DEF AckList, InfoType
      <4>. QED BY <2>1, <4>1, <4>2
    <3>2. CASE m # n
      <4>1. m \in reg /\ fdOf[m] = link[m] /\ link[m] # fd
        BY <1>1, <2>1, <3>2 DEF IInv, TypeOK, Id, LinkInv
      <4>2. "register" \notin uplink[link[m]]
        BY <1>1, <1>2, <4>1
      <4>3. CASE w # n
        <5>1. w \in reg \cap Wanted(m)
          BY <2>1, <4>3
        <5>2. w \in knows[m] \cup inbox[m]
          BY <1>1, <4>1, <4>2, <5>1 DEF IInv, NoMissedNode
        <5>. QED BY <1>1, <3>0, <5>2
      <4>4. CASE w = n
        <5>1. m # MasterId /\ fdOf[m] # 0
          BY <1>1, <4>1, FdAssumption DEF IInv, DownInv
        <5>2. m \in subs[TypeOf[n]]
          BY <3>0, <4>1, <4>4, <5>1 DEF IInv, SubsInv
        <5>3. m \in (subs'[InfoType(n)] \cap reg') \ {n}
          BY <1>1, <1>4, <2>1, <3>2, <4>1, <5>2, TypeAssumption DEF InfoType
        <5>4. fdOf'[m] \in Notified(n)
          BY <1>1, <5>3 DEF Notified
        <5>. QED BY <1>1, <2>1, <4>4, <5>4
      <4>. QED BY <4>3, <4>4
    <3>. QED BY <3>1, <3>2
  <2>. QED BY <2>2, <2>3, <2>4, <2>5, <2>6, <2>7 DEF IInv
<1>. QED BY <1>3, <1>4

(* A report changes nothing but its queue: the sender is registered. *)
LEMMA ReportRead ==
  ASSUME IInv, NEW fd \in Fd, OnNNtfNodeReport(fd)
  PROVE  /\ UNCHANGED <<masterUp, reg, fdOf, subs, owner, up, link, inbox, knows, started, stray>>
         /\ uplink' = [uplink EXCEPT ![fd] = @ \ {"report"}]
<1>1. owner[fd] \in reg \cup {MasterId}
  BY DEF OnNNtfNodeReport, IInv, UplinkInv
<1>. QED BY <1>1 DEF OnNNtfNodeReport, Refused, history

(* The other steps on a descriptor leave the master's maps alone. *)
LEMMA DescriptorStepIInv ==
  ASSUME IInv, NEW fd \in Fd,
         OnNNtfNodeReport(fd) \/ MasterCloses(fd) \/ \E n \in Node : Connect(n, fd)
  PROVE  IInv'
<1>1. CASE OnNNtfNodeReport(fd)
  <2>1. /\ UNCHANGED <<masterUp, reg, fdOf, subs, owner, up, link, inbox, knows, started, stray>>
        /\ uplink' = [uplink EXCEPT ![fd] = @ \ {"report"}]
    BY <1>1, ReportRead
  <2>2. \A g \in Fd : uplink'[g] \subseteq uplink[g] /\ ("register" \in uplink'[g] <=> "register" \in uplink[g])
    BY <2>1 DEF IInv, TypeOK
  <2>. QED BY <2>1, <2>2 DEF IInv, TypeOK, LinkInv, DownInv, SubsInv, UplinkInv, NoMissedNode, Wanted
<1>2. CASE MasterCloses(fd)
  <2>. USE <1>2 DEF MasterCloses, master, history
  <2>1. TypeOK'
    BY DEF IInv, TypeOK
  <2>2. \A m \in Node : link[m] # fd
    BY DEF IInv, LinkInv, TypeOK
  <2>3. LinkInv' /\ DownInv' /\ SubsInv' /\ UplinkInv'
    BY <2>2 DEF IInv, TypeOK, LinkInv, DownInv, SubsInv, UplinkInv
  <2>4. NoMissedNode'
    BY <2>2 DEF IInv, TypeOK, NoMissedNode, Wanted
  <2>. QED BY <2>1, <2>3, <2>4 DEF IInv
<1>3. ASSUME NEW n \in Node, Connect(n, fd)
      PROVE  IInv'
  <2>. USE <1>3 DEF Connect, master, Hello, history
  <2>1. \A m \in Node : link[m] # fd
    BY FdAssumption, NodeAssumption DEF IInv, LinkInv, TypeOK
  <2>2. TypeOK'
    BY DEF IInv, TypeOK
  <2>3. LinkInv'
    BY <2>1, FdAssumption DEF IInv, TypeOK, LinkInv, None
  <2>4. DownInv' /\ SubsInv' /\ UplinkInv'
    BY DEF IInv, TypeOK, DownInv, SubsInv, UplinkInv
  <2>5. NoMissedNode'
    BY <2>1 DEF IInv, TypeOK, NoMissedNode, Wanted
  <2>. QED BY <2>2, <2>3, <2>4, <2>5 DEF IInv
<1>. QED BY <1>1, <1>2, <1>3

(* The steps of a node. *)
LEMMA NodeStepIInv ==
  ASSUME IInv, NEW n \in Node,
         \/ Start(n) \/ Crash(n) \/ Report(n)
         \/ LinkBreaks(n) \/ NoticeLoss(n) \/ OnNodeAdd(n)
  PROVE  IInv'
<1>1. CASE Start(n)
  BY <1>1 DEF Start, master, history, IInv, TypeOK, LinkInv, DownInv, SubsInv, UplinkInv, NoMissedNode, Wanted
<1>2. CASE Crash(n)
  <2>. USE <1>2 DEF Crash, master, history
  <2>1. TypeOK' /\ LinkInv'
    BY FdAssumption DEF IInv, TypeOK, LinkInv, None
  <2>2. DownInv' /\ SubsInv' /\ UplinkInv'
    BY DEF IInv, DownInv, SubsInv, UplinkInv
  <2>3. NoMissedNode'
    BY FdAssumption DEF IInv, TypeOK, NoMissedNode, Wanted, None
  <2>. QED BY <2>1, <2>2, <2>3 DEF IInv
<1>3. CASE Report(n)
  <2>1. /\ UNCHANGED <<masterUp, reg, fdOf, subs, owner, up, link, inbox, knows, started, stray>>
        /\ uplink' \in [Fd -> SUBSET {"register", "report"}]
        /\ \A g \in Fd : "register" \in uplink'[g] <=> "register" \in uplink[g]
    BY <1>3 DEF Report, master, history, IInv, TypeOK
  <2>. QED BY <2>1 DEF IInv, TypeOK, LinkInv, DownInv, SubsInv, UplinkInv, NoMissedNode, Wanted
<1>4. CASE LinkBreaks(n) \/ NoticeLoss(n)
  <2>. USE <1>4 DEF LinkBreaks, NoticeLoss, master, history
  <2>1. TypeOK' /\ LinkInv'
    BY FdAssumption DEF IInv, TypeOK, LinkInv, None, Dead
  <2>2. DownInv' /\ SubsInv' /\ UplinkInv'
    BY DEF IInv, DownInv, SubsInv, UplinkInv
  <2>3. NoMissedNode'
    BY FdAssumption DEF IInv, TypeOK, NoMissedNode, Wanted, None, Dead
  <2>. QED BY <2>1, <2>2, <2>3 DEF IInv
<1>5. CASE OnNodeAdd(n)
  <2>1. PICK m \in inbox[n] :
          /\ knows' = [knows EXCEPT ![n] = @ \cup {m}]
          /\ inbox' = [inbox EXCEPT ![n] = @ \ {m}]
          /\ UNCHANGED <<masterUp, reg, fdOf, subs, owner, uplink, up, link, started, stray>>
    BY <1>5 DEF OnNodeAdd, AddNodes, master, history
  <2>2. m \in Node
    BY <2>1 DEF IInv, TypeOK
  <2>3. TypeOK' /\ LinkInv'
    BY <2>1, <2>2 DEF IInv, TypeOK, LinkInv
  <2>4. DownInv' /\ SubsInv' /\ UplinkInv'
    BY <2>1 DEF IInv, DownInv, SubsInv, UplinkInv
  <2>5. \A k \in Node : knows[k] \cup inbox[k] \subseteq knows'[k] \cup inbox'[k]
    BY <2>1 DEF IInv, TypeOK
  <2>6. NoMissedNode'
    BY <2>1, <2>5 DEF IInv, NoMissedNode, Wanted
  <2>. QED BY <2>3, <2>4, <2>6 DEF IInv
<1>. QED BY <1>1, <1>2, <1>3, <1>4, <1>5

LEMMA NextIInv == IInv /\ [Next]_vars => IInv'
<1>. SUFFICES ASSUME IInv, [Next]_vars PROVE IInv'
  OBVIOUS
<1>1. CASE MasterStart \/ MasterCrash
  BY <1>1, MasterStartIInv, MasterCrashIInv
<1>2. ASSUME NEW fd \in Fd, OnNReqNodeRegister(fd)
      PROVE  IInv'
  BY <1>2, RegisterIInv
<1>3. ASSUME NEW fd \in Fd,
             OnNNtfNodeReport(fd) \/ MasterCloses(fd) \/ \E n \in Node : Connect(n, fd)
      PROVE  IInv'
  BY <1>3, DescriptorStepIInv
<1>4. ASSUME NEW n \in Node,
             Start(n) \/ Crash(n) \/ Report(n) \/ LinkBreaks(n) \/ NoticeLoss(n) \/ OnNodeAdd(n)
      PROVE  IInv'
  BY <1>4, NodeStepIInv
<1>5. CASE UNCHANGED vars
  BY <1>5 DEF vars, master, history, IInv, TypeOK, LinkInv, DownInv, SubsInv, UplinkInv, NoMissedNode, Wanted
<1>6. \/ MasterStart \/ MasterCrash
      \/ \E fd \in Fd : OnNReqNodeRegister(fd) \/ OnNNtfNodeReport(fd) \/ MasterCloses(fd)
      \/ \E n \in Node, fd \in Fd : Connect(n, fd)
      \/ \E n \in Node : \/ Start(n) \/ Crash(n) \/ Report(n)
                         \/ LinkBreaks(n) \/ NoticeLoss(n) \/ OnNodeAdd(n)
      \/ UNCHANGED vars
  BY Zenon DEF Next
<1>. QED BY <1>1, <1>2, <1>3, <1>4, <1>5, <1>6

(* The inductive invariant holds in every behaviour. *)
THEOREM Invariance == Spec => []IInv
BY InitIInv, NextIInv, PTL DEF Spec

(* Every variable of the master and of the nodes keeps its type. *)
THEOREM TypeCorrect == Spec => []TypeOK
<1>1. IInv => TypeOK
  BY DEF IInv
<1>. QED BY Invariance, <1>1, PTL

(* The ack of a registration and the notifications after it leave no gap,  *)
(* whatever descriptors the kernel gives out and in whatever order old and *)
(* new connections are read.                                               *)
THEOREM NothingMissed == Spec => []NoMissedNode
<1>1. IInv => NoMissedNode
  BY DEF IInv
<1>. QED BY Invariance, <1>1, PTL

(* The same, with the types of the state. *)
THEOREM NobodyEverMissed == Spec => []NobodyMissed
<1>1. IInv => NobodyMissed
  BY DEF IInv, DownInv, NobodyMissed, MasterKeepsItsEntry
<1>. QED BY Invariance, <1>1, PTL

(* Neither a registration nor a report under the master's own id touches   *)
(* the master's entry.                                                     *)
THEOREM MasterEntryKept == Spec => []MasterKeepsItsEntry
<1>1. IInv => MasterKeepsItsEntry
  BY DEF IInv, DownInv, MasterKeepsItsEntry
<1>. QED BY Invariance, <1>1, PTL

-----------------------------------------------------------------------------
(* Who hears of whom. *)

LEMMA InitSent == Init => SentInv
BY DEF Init, SentInv

(* What a registration sets off: the ack is for the sender, a notification *)
(* for a subscriber that did start, or it strays from one.                 *)
LEMMA RegisterSends ==
  ASSUME IInv, SentInv, NEW fd \in Fd, OnNReqNodeRegister(fd), NEW n, n = owner[fd]
  PROVE  /\ n \in Node /\ n \in started
         /\ reg' \subseteq started \cup {MasterId}
         /\ \A m \in Node : inbox'[m] \subseteq inbox[m] \cup (Wanted(m) \cap started) \cup stray'[m]
         /\ \E S \in SUBSET Node :
              /\ \A m \in S : up[m] /\ \E s \in started \ {m} : s \in Node /\ n \in Wanted(s)
              /\ stray' = [m \in Node |-> IF m \in S THEN stray[m] \cup {n} ELSE stray[m]]
<1>1. /\ n \in Node /\ n # 0 /\ n \in started
      /\ Astray(n)
      /\ UNCHANGED <<owner, up, link, knows, started>>
  BY RegisterEffect DEF OnNReqNodeRegister, SentInv
<1> DEFINE Goes(s, m) == s \in (subs'[InfoType(n)] \cap reg') \ {n, m} /\ fdOf'[s] \in Fd /\ fdOf'[s] = link[m]
<1> DEFINE S == {m \in Node : \E s \in (subs'[InfoType(n)] \cap reg') \ {n, m} : fdOf'[s] \in Fd /\ fdOf'[s] = link[m]}
<1>2. stray' = [m \in Node |-> IF m \in S THEN stray[m] \cup {n} ELSE stray[m]]
  BY <1>1 DEF Astray
<1>3. IInv'
  BY RegisterIInv
<1>4. reg' \subseteq started \cup {MasterId}
  BY <1>1, RegisterEffect DEF SentInv
<1>5. ASSUME NEW s \in (subs'[InfoType(n)] \cap reg') \ {n}, fdOf'[s] \in Fd
      PROVE  s \in started /\ s \in Node /\ n \in Wanted(s)
  <2>1. n # MasterId
    <3>1. SUFFICES ASSUME n = MasterId PROVE FALSE
      OBVIOUS
    <3>2. InfoType(n) = MasterType /\ MasterType \in Type
      BY <3>1, MasterTypeAssumption DEF InfoType
    <3>3. s \in Node /\ MasterType \in Subs[s]
      BY <1>3, <3>2 DEF IInv, SubsInv, TypeOK
    <3>. QED BY <3>3, MasterTypeAssumption
  <2>2. InfoType(n) = TypeOf[n] /\ TypeOf[n] \in Type
    BY <1>1, <2>1, TypeAssumption DEF InfoType
  <2>3. s \in Node /\ TypeOf[n] \in Subs[s]
    BY <1>3, <2>2 DEF IInv, SubsInv, TypeOK
  <2>4. s # MasterId
    BY <1>3, <1>5, FdAssumption DEF IInv, DownInv
  <2>. QED BY <1>1, <1>4, <2>3, <2>4 DEF Wanted
<1>6. ASSUME NEW m \in S
      PROVE  up[m] /\ \E s \in started \ {m} : s \in Node /\ n \in Wanted(s)
  <2>1. PICK s \in (subs'[InfoType(n)] \cap reg') \ {n, m} : fdOf'[s] \in Fd /\ fdOf'[s] = link[m]
    OBVIOUS
  <2>2. s \in started /\ s \in Node /\ n \in Wanted(s) /\ s # m
    BY <1>5, <2>1
  <2>3. up[m]
    BY <2>1, FdAssumption DEF IInv, LinkInv, None
  <2>. QED BY <2>2, <2>3
<1>7. ASSUME NEW m \in Node
      PROVE  inbox'[m] \subseteq inbox[m] \cup (Wanted(m) \cap started) \cup stray'[m]
  <2>1. CASE n = MasterId
    BY <2>1, RegisterEffect
  <2>2. CASE n # MasterId
    <3>1. /\ reg' = reg \cup {n}
          /\ inbox' = [k \in Node |->
               inbox[k] \cup (IF link[k] = fd THEN AckList(n) ELSE {})
                        \cup (IF link[k] \in Notified(n) THEN {n} ELSE {})]
      BY <2>2, RegisterEffect
    <3>2. link[m] = fd => m = n
      BY <1>1 DEF IInv, LinkInv
    <3>3. AckList(n) \subseteq Wanted(n) \cap started
      BY <1>1, <1>4, <3>1, MasterTypeAssumption DEF AckList, InfoType, Wanted, IInv, TypeOK, Id
    <3>4. link[m] \in Notified(n) => n \in (Wanted(m) \cap started) \cup stray'[m]
      <4>1. SUFFICES ASSUME link[m] \in Notified(n) PROVE n \in (Wanted(m) \cap started) \cup stray'[m]
        OBVIOUS
      <4>2. PICK s \in (subs'[InfoType(n)] \cap reg') \ {n} : fdOf'[s] = link[m] /\ link[m] \in Fd
        BY <4>1 DEF Notified
      <4>3. CASE s = m
        BY <1>1, <1>5, <4>2, <4>3
      <4>4. CASE s # m
        <5>1. m \in S
          BY <4>2, <4>4
        <5>. QED BY <1>2, <5>1
      <4>. QED BY <4>3, <4>4
    <3>. QED BY <3>1, <3>2, <3>3, <3>4
  <2>. QED BY <2>1, <2>2
<1>. QED BY <1>1, <1>2, <1>4, <1>6, <1>7

LEMMA NextSent == IInv /\ SentInv /\ [Next]_vars => SentInv'
<1>. SUFFICES ASSUME IInv, SentInv, [Next]_vars PROVE SentInv'
  OBVIOUS
<1>0. \/ MasterStart \/ MasterCrash
      \/ \E fd \in Fd : OnNReqNodeRegister(fd) \/ OnNNtfNodeReport(fd) \/ MasterCloses(fd)
      \/ \E n \in Node, fd \in Fd : Connect(n, fd)
      \/ \E n \in Node : \/ Start(n) \/ Crash(n) \/ Report(n)
                         \/ LinkBreaks(n) \/ NoticeLoss(n) \/ OnNodeAdd(n)
      \/ UNCHANGED vars
  BY Zenon DEF Next
<1>2. ASSUME NEW fd \in Fd, OnNReqNodeRegister(fd)
      PROVE  SentInv'
  <2>1. UNCHANGED <<owner, up, knows, started>>
    BY <1>2 DEF OnNReqNodeRegister
  <2>2. /\ reg' \subseteq started \cup {MasterId}
        /\ \A m \in Node : inbox'[m] \subseteq inbox[m] \cup (Wanted(m) \cap started) \cup stray'[m]
    BY <1>2, RegisterSends
  <2>3. PICK S \in SUBSET Node :
          stray' = [m \in Node |-> IF m \in S THEN stray[m] \cup {owner[fd]} ELSE stray[m]]
    BY <1>2, RegisterSends
  <2>4. \A m \in Node : stray[m] \subseteq stray'[m]
    BY <2>3
  <2>. QED BY <2>1, <2>2, <2>4 DEF SentInv, Wanted
<1>. USE DEF master, history, Wanted, SentInv
<1>1. CASE MasterStart \/ MasterCrash
  BY <1>1 DEF MasterStart, MasterCrash
<1>3. ASSUME NEW fd \in Fd, OnNNtfNodeReport(fd)
      PROVE  SentInv'
  BY <1>3, ReportRead
<1>4. ASSUME NEW fd \in Fd, MasterCloses(fd)
      PROVE  SentInv'
  BY <1>4 DEF MasterCloses, IInv, TypeOK
<1>5. ASSUME NEW n \in Node, NEW fd \in Fd, Connect(n, fd)
      PROVE  SentInv'
  BY <1>5 DEF Connect, IInv, TypeOK
<1>6. ASSUME NEW n \in Node, Start(n) \/ Crash(n)
      PROVE  SentInv'
  BY <1>6 DEF Start, Crash, IInv, TypeOK
<1>7. ASSUME NEW n \in Node, Report(n) \/ LinkBreaks(n) \/ NoticeLoss(n)
      PROVE  SentInv'
  BY <1>7 DEF Report, LinkBreaks, NoticeLoss, IInv, TypeOK
<1>8. ASSUME NEW n \in Node, OnNodeAdd(n)
      PROVE  SentInv'
  BY <1>8 DEF OnNodeAdd, AddNodes, IInv, TypeOK
<1>9. CASE UNCHANGED vars
  BY <1>9 DEF vars
<1>. QED BY <1>1, <1>2, <1>3, <1>4, <1>5, <1>6, <1>7, <1>8, <1>9, <1>0

LEMMA Sent == Spec => [](IInv /\ SentInv)
BY InitSent, NextSent, Invariance, PTL DEF Spec

(* No node is ever told of a node of another type or of itself but by the  *)
(* notification meant for another subscriber whose descriptor it now has:  *)
(* the ack is filtered by type, a notification goes to subscribers only.   *)
THEOREM SubscriptionsRespected == Spec => []OnlySubscribed
<1>1. IInv /\ SentInv => OnlySubscribed
  BY DEF SentInv, OnlySubscribed
<1>. QED BY Sent, <1>1, PTL

(* A step of Discovery is a step of Directory, or leaves it alone. *)
LEMMA StepRefines ==
  ASSUME IInv, SentInv, [Next]_vars
  PROVE  [D!Next]_(D!vars)
<1>1. ASSUME NEW n \in Node, Start(n) \/ Crash(n)
      PROVE  D!Start(n) \/ D!Stop(n)
  BY <1>1 DEF Start, Crash, D!Start, D!Stop
<1>2. ASSUME NEW n \in Node, OnNodeAdd(n)
      PROVE  \E m \in Node : D!Learn(n, m)
  <2>1. PICK m \in inbox[n] :
          knows' = [knows EXCEPT ![n] = @ \cup {m}] /\ UNCHANGED <<up, started, stray>>
    BY <1>2 DEF OnNodeAdd, AddNodes, history
  <2>2. up[n]
    BY <2>1 DEF IInv, LinkInv
  <2>3. m \in (Wanted(n) \cap started) \cup stray[n]
    BY <2>1 DEF SentInv
  <2>4. m \in Node
    BY <2>1 DEF IInv, TypeOK
  <2>. QED BY <2>1, <2>2, <2>3, <2>4 DEF D!Learn, D!Wanted, Wanted
<1>3. ASSUME NEW fd \in Fd, OnNReqNodeRegister(fd)
      PROVE  \E m \in Node, S \in SUBSET Node : D!Astray(m, S)
  <2>1. owner[fd] \in Node /\ owner[fd] \in started /\ UNCHANGED <<up, started, knows>>
    BY <1>3, RegisterSends DEF OnNReqNodeRegister
  <2>2. PICK S \in SUBSET Node :
          /\ \A m \in S : up[m] /\ \E s \in started \ {m} : s \in Node /\ owner[fd] \in Wanted(s)
          /\ stray' = [m \in Node |-> IF m \in S THEN stray[m] \cup {owner[fd]} ELSE stray[m]]
    BY <1>3, RegisterSends
  <2>3. D!Astray(owner[fd], S)
    BY <2>1, <2>2 DEF D!Astray, D!Wanted, Wanted
  <2>. QED BY <2>1, <2>3
<1>4. CASE \/ MasterStart \/ MasterCrash
           \/ \E fd \in Fd : OnNNtfNodeReport(fd) \/ MasterCloses(fd)
           \/ \E n \in Node, fd \in Fd : Connect(n, fd)
           \/ \E n \in Node : Report(n) \/ LinkBreaks(n) \/ NoticeLoss(n)
           \/ UNCHANGED vars
  <2>1. UNCHANGED <<up, started, knows, stray>>
    BY <1>4 DEF MasterStart, MasterCrash, OnNNtfNodeReport, MasterCloses,
         Connect, Report, LinkBreaks, NoticeLoss, vars, history
  <2>. QED BY <2>1 DEF D!vars
<1>5. \/ MasterStart \/ MasterCrash
      \/ \E fd \in Fd : OnNReqNodeRegister(fd)
      \/ \E fd \in Fd : OnNNtfNodeReport(fd) \/ MasterCloses(fd)
      \/ \E n \in Node, fd \in Fd : Connect(n, fd)
      \/ \E n \in Node : Report(n) \/ LinkBreaks(n) \/ NoticeLoss(n)
      \/ \E n \in Node : Start(n) \/ Crash(n)
      \/ \E n \in Node : OnNodeAdd(n)
      \/ UNCHANGED vars
  BY Zenon DEF Next
<1>. QED BY <1>1, <1>2, <1>3, <1>4, <1>5 DEF D!Next

(* Discovery does what Directory promises: with the registrations, lists,  *)
(* notifications, crashes and lost connections hidden, nodes start, stop   *)
(* and learn of nodes that did start, those they subscribed to or those    *)
(* whose news strayed to them.                                             *)
THEOREM ImplementsDirectory == Spec => DirectorySpec
<1>1. Init => D!Init
  BY DEF Init, D!Init
<1>2. IInv /\ SentInv /\ [Next]_vars => [D!Next]_(D!vars)
  BY StepRefines
<1>. QED BY Sent, <1>1, <1>2, PTL DEF Spec, DirectorySpec, D!Spec
-----------------------------------------------------------------------------
(* Process: the step at hand.                                              *)
Op == Steps(Here)[step].op

(* What all modules of a server have reached before step n of its program. *)
Seen(st, s, n) ==
  LET k == n - Len(Listed[s])
  IN  CASE st = "boot" /\ k <= 1 -> "none"
        [] st = "boot" /\ k = 2 -> "Awake"
        [] st = "boot" /\ k = 3 -> "Start"
        [] st = "boot" /\ k = 4 -> "AfterStart"
        [] st = "boot" /\ k = 5 -> "CheckConfig"
        [] st = "final" /\ n = 2 -> "BeforeDestroy"
        [] st = "final" /\ n = 3 -> "Destroy"
        [] st = "final" /\ n > 3 -> "Finalize"
        [] OTHER -> "ReadyUpdate"

(* What the main thread is in the middle of.                               *)
BusyInv ==
  /\ stage \in {"boot", "final"} => at # 0
  /\ busy # "no" => InStep
  /\ busy = "install" => Op = "load"
  /\ busy = "phase" => Op \in {"phase", "reload"}
  /\ busy = "update" => Op = "update"
  /\ busy = "uninstall" => Op = "unload"
  /\ busy \in {"install", "uninstall"} => Doing \in libs[Here]
  /\ left # {} => busy = "phase" /\ left \subseteq own[Here]
  /\ reading # <<>> => busy = "phase"

(* How far the modules of each server are: not begun, in the program, or   *)
(* ready.                                                                  *)
FreshAt(i) == stage = "boot" /\ (i > at \/ (i = at /\ step <= Len(Listed[Here])))
ReadyAt(i) == \/ stage = "boot" /\ i < at
              \/ stage = "loop"
              \/ stage = "final" /\ i > at

ReachInv ==
  /\ \A i \in DOMAIN Servers : FreshAt(i) => \A m \in Module : reached[Servers[i]][m] = "none"
  /\ \A i \in DOMAIN Servers :
       ReadyAt(i) => \A m \in Loaded(Servers[i]) : reached[Servers[i]][m] = "ReadyUpdate"
  /\ stage \in {"boot", "final"} /\ at \in DOMAIN Servers =>
       \A m \in Loaded(Here) :
         reached[Here][m] = Seen(stage, Here, IF busy = "phase" /\ m \notin left
                                              THEN step + 1 ELSE step)

(* A plugin has all its modules, but while it is installed or uninstalled. *)
OwnInv ==
  /\ \A s \in Server : own[s] \subseteq Loaded(s)
  /\ \A s \in Server : \A m \in Loaded(s) :
       \/ m \in own[s]
       \/ /\ busy \in {"install", "uninstall"} /\ s = Here /\ m[1] = Doing
          /\ busy = "install" =>
               \A j \in DOMAIN Install[Doing] : j < next => Install[Doing][j] # m[2]
  /\ busy = "uninstall" =>
       \A j \in DOMAIN Install[Doing] : j < next => <<Doing, Install[Doing][j]>> \notin own[Here]

(* Nothing is deleted before the server unloads.                           *)
WholeAt(i) == \/ stage \in {"boot", "loop"}
              \/ stage = "final" /\ (i > at \/ (i = at /\ step <= 3))

FreedInv == \A i \in DOMAIN Servers : WholeAt(i) => freed[Servers[i]] = {}

MapInv ==
  /\ \A s \in Server :
        /\ IsInjective(vec[s])
        /\ Range(vec[s]) = {m \in Modules(s) : m[2] \in Updated}
        /\ \A f \in Face :
              LET m == FindModule(s, f) IN m # NoModule => m[2] = f /\ Alive(s, m)
  /\ busy = "uninstall" =>
       \A j \in DOMAIN Install[Doing] : j < next => map[Here][Install[Doing][j]] = NoModule

ProcessInv == ProcessTypeOK /\ BusyInv /\ ReachInv /\ OwnInv /\ FreedInv /\ MapInv

-----------------------------------------------------------------------------
LEMMA ListFacts ==
  /\ \A i \in DOMAIN Servers : Servers[i] \in Server
  /\ DOMAIN Servers = 1 .. Len(Servers) /\ Len(Servers) \in Nat
  /\ \A i, j \in DOMAIN Servers : Servers[i] = Servers[j] => i = j
  /\ \A s \in Server : /\ Listed[s] \in Seq(Plugin) /\ Len(Listed[s]) \in Nat
                        /\ DOMAIN Listed[s] = 1 .. Len(Listed[s])
                        /\ \A n \in 1 .. Len(Listed[s]) : Listed[s][n] \in Plugin
  /\ \A p \in Plugin : /\ Install[p] \in Seq(Face) /\ Len(Install[p]) \in Nat
                        /\ DOMAIN Install[p] = 1 .. Len(Install[p])
                        /\ \A j \in DOMAIN Install[p] : <<p, Install[p][j]>> \in Module
<1>. USE ProcessAssumption
<1>1. /\ \A i \in DOMAIN Servers : Servers[i] \in Server
      /\ DOMAIN Servers = 1 .. Len(Servers) /\ Len(Servers) \in Nat
  BY DEF Server, Range
<1>2. \A i, j \in DOMAIN Servers : Servers[i] = Servers[j] => i = j
  BY DEF IsInjective
<1>3. \A s \in Server : /\ Listed[s] \in Seq(Plugin) /\ Len(Listed[s]) \in Nat
                         /\ DOMAIN Listed[s] = 1 .. Len(Listed[s])
                         /\ \A n \in 1 .. Len(Listed[s]) : Listed[s][n] \in Plugin
  OBVIOUS
<1>4. ASSUME NEW p \in Plugin
      PROVE  /\ Install[p] \in Seq(Face) /\ Len(Install[p]) \in Nat
             /\ DOMAIN Install[p] = 1 .. Len(Install[p])
             /\ \A j \in DOMAIN Install[p] : <<p, Install[p][j]>> \in Module
  <2>1. /\ Install[p] \in Seq(Face) /\ Len(Install[p]) \in Nat
        /\ DOMAIN Install[p] = 1 .. Len(Install[p])
    OBVIOUS
  <2>2. \A j \in DOMAIN Install[p] : Install[p][j] \in Face /\ Install[p][j] \in Range(Install[p])
    BY <2>1 DEF Range
  <2>. QED BY <2>1, <2>2 DEF Module
<1>. QED BY <1>1, <1>2, <1>3, <1>4

LEMMA ModuleFacts ==
  /\ \A m \in Module : m[1] \in Plugin /\ m[2] \in Face /\ m = <<m[1], m[2]>> /\ m # NoModule
  /\ \A m \in Module : \E j \in DOMAIN Install[m[1]] : Install[m[1]][j] = m[2]
BY DEF Module, NoModule, Range

LEMMA Chained ==
  ASSUME NEW X, NEW A \in Seq(X), NEW B \in Seq(X)
  PROVE  /\ DOMAIN (A \o B) = 1 .. Len(A) + Len(B)
         /\ \A i \in 1 .. Len(A) : (A \o B)[i] = A[i]
         /\ \A k \in 1 .. Len(B) : (A \o B)[Len(A) + k] = B[k]
<1>1. /\ A \o B \in Seq(X) /\ Len(A \o B) = Len(A) + Len(B)
      /\ \A i \in 1 .. Len(A) + Len(B) :
           (A \o B)[i] = IF i <= Len(A) THEN A[i] ELSE B[i - Len(A)]
      /\ Len(A) \in Nat /\ Len(B) \in Nat
  BY ConcatProperties
<1>2. ASSUME NEW k \in 1 .. Len(B) PROVE (A \o B)[Len(A) + k] = B[k]
  <2>1. /\ Len(A) + k \in 1 .. Len(A) + Len(B) /\ ~(Len(A) + k <= Len(A))
        /\ (Len(A) + k) - Len(A) = k
    BY <1>1
  <2>. QED BY <1>1, <2>1
<1>3. \A i \in 1 .. Len(A) : i \in 1 .. Len(A) + Len(B) /\ i <= Len(A)
  BY <1>1
<1>. QED BY <1>1, <1>2, <1>3

(* The programs, step by step.                                             *)
LEMMA StartAt ==
  ASSUME NEW s \in Server, NEW L, L = Len(Listed[s])
  PROVE      /\ DOMAIN StartSteps(s) = 1 .. L + 5
             /\ \A n \in 1 .. L : StartSteps(s)[n] = LoadStep(Listed[s][n])
             /\ \A k \in 1 .. 5 : StartSteps(s)[L + k] = PhaseStep(Boot[k])
<1>1. PICK A : A = [i \in DOMAIN Listed[s] |-> LoadStep(Listed[s][i])]
  OBVIOUS
<1>2. PICK B : B = [i \in DOMAIN Boot |-> PhaseStep(Boot[i])]
  OBVIOUS
<1>3. PICK X : X = {LoadStep(p) : p \in Plugin} \cup {PhaseStep(k) : k \in Phase}
  OBVIOUS
<1>5. /\ L \in Nat /\ A \in Seq(X) /\ Len(A) = L
      /\ \A n \in 1 .. L : A[n] = LoadStep(Listed[s][n])
  <2>1. L \in Nat /\ DOMAIN Listed[s] = 1 .. L /\ \A n \in 1 .. L : Listed[s][n] \in Plugin
    BY ListFacts
  <2>2. A \in [1 .. L -> X] /\ \A n \in 1 .. L : A[n] = LoadStep(Listed[s][n])
    BY <2>1, <1>1, <1>3
  <2>3. A \in Seq(X)
    BY <2>1, <2>2, SeqDef
  <2>. QED BY <2>1, <2>2, <2>3, LenProperties
<1>6. /\ B \in Seq(X) /\ Len(B) = 5
      /\ \A k \in 1 .. 5 : B[k] = PhaseStep(Boot[k])
  <2>1. DOMAIN Boot = 1 .. 5 /\ \A i \in 1 .. 5 : Boot[i] \in Phase
    BY DEF Boot, Phase
  <2>2. B \in [1 .. 5 -> X] /\ \A k \in 1 .. 5 : B[k] = PhaseStep(Boot[k])
    BY <2>1, <1>2, <1>3
  <2>3. B \in Seq(X)
    BY <2>2, SeqDef
  <2>. QED BY <2>2, <2>3, LenProperties
<1>7. StartSteps(s) = A \o B
  BY <1>1, <1>2 DEF StartSteps
<1>8. /\ DOMAIN (A \o B) = 1 .. L + 5
      /\ \A i \in 1 .. L : (A \o B)[i] = A[i]
      /\ \A k \in 1 .. 5 : (A \o B)[L + k] = B[k]
  <2>0. A \in Seq(X) /\ B \in Seq(X)
    BY <1>5, <1>6
  <2>1. /\ DOMAIN (A \o B) = 1 .. Len(A) + Len(B)
        /\ \A i \in 1 .. Len(A) : (A \o B)[i] = A[i]
        /\ \A k \in 1 .. Len(B) : (A \o B)[Len(A) + k] = B[k]
    BY <2>0, Chained
  <2>. QED BY <1>5, <1>6, <2>1
<1>9. \A n \in 1 .. L : StartSteps(s)[n] = LoadStep(Listed[s][n])
  BY <1>5, <1>7, <1>8
<1>10. \A k \in 1 .. 5 : StartSteps(s)[L + k] = PhaseStep(Boot[k])
  BY <1>6, <1>7, <1>8
<1>. QED BY <1>7, <1>8, <1>9, <1>10

LEMMA FinalAt ==
  ASSUME NEW s \in Server, NEW L, L = Len(Listed[s])
  PROVE      /\ DOMAIN FinalSteps(s) = 1 .. 3 + L
             /\ \A n \in 1 .. L : FinalSteps(s)[3 + n] = UnloadStep(Listed[s][n])
             /\ \A k \in 1 .. 3 : FinalSteps(s)[k] = PhaseStep(Stop[k])
<1>1. PICK A : A = [i \in DOMAIN Listed[s] |-> UnloadStep(Listed[s][i])]
  OBVIOUS
<1>2. PICK B : B = [i \in DOMAIN Stop |-> PhaseStep(Stop[i])]
  OBVIOUS
<1>3. PICK X : X = {UnloadStep(p) : p \in Plugin} \cup {PhaseStep(k) : k \in Phase}
  OBVIOUS
<1>5. /\ L \in Nat /\ A \in Seq(X) /\ Len(A) = L
      /\ \A n \in 1 .. L : A[n] = UnloadStep(Listed[s][n])
  <2>1. L \in Nat /\ DOMAIN Listed[s] = 1 .. L /\ \A n \in 1 .. L : Listed[s][n] \in Plugin
    BY ListFacts
  <2>2. A \in [1 .. L -> X] /\ \A n \in 1 .. L : A[n] = UnloadStep(Listed[s][n])
    BY <2>1, <1>1, <1>3
  <2>3. A \in Seq(X)
    BY <2>1, <2>2, SeqDef
  <2>. QED BY <2>1, <2>2, <2>3, LenProperties
<1>6. /\ B \in Seq(X) /\ Len(B) = 3
      /\ \A k \in 1 .. 3 : B[k] = PhaseStep(Stop[k])
  <2>1. DOMAIN Stop = 1 .. 3 /\ \A i \in 1 .. 3 : Stop[i] \in Phase
    BY DEF Stop, Phase
  <2>2. B \in [1 .. 3 -> X] /\ \A k \in 1 .. 3 : B[k] = PhaseStep(Stop[k])
    BY <2>1, <1>2, <1>3
  <2>3. B \in Seq(X)
    BY <2>2, SeqDef
  <2>. QED BY <2>2, <2>3, LenProperties
<1>7. FinalSteps(s) = B \o A
  BY <1>1, <1>2 DEF FinalSteps
<1>8. /\ DOMAIN (B \o A) = 1 .. 3 + L
      /\ \A k \in 1 .. L : (B \o A)[3 + k] = A[k]
      /\ \A i \in 1 .. 3 : (B \o A)[i] = B[i]
  <2>0. A \in Seq(X) /\ B \in Seq(X)
    BY <1>5, <1>6
  <2>1. /\ DOMAIN (B \o A) = 1 .. Len(B) + Len(A)
        /\ \A k \in 1 .. Len(A) : (B \o A)[Len(B) + k] = A[k]
        /\ \A i \in 1 .. Len(B) : (B \o A)[i] = B[i]
    BY <2>0, Chained
  <2>. QED BY <1>5, <1>6, <2>1
<1>9. \A n \in 1 .. L : FinalSteps(s)[3 + n] = UnloadStep(Listed[s][n])
  BY <1>5, <1>7, <1>8
<1>10. \A k \in 1 .. 3 : FinalSteps(s)[k] = PhaseStep(Stop[k])
  BY <1>6, <1>7, <1>8
<1>. QED BY <1>7, <1>8, <1>9, <1>10

(* What the step at hand is, and what it takes the modules to.             *)
LEMMA StepFacts ==
  ASSUME ProcessTypeOK, InStep
  PROVE  /\ at \in DOMAIN Servers /\ Here \in Server /\ step \in Nat
         /\ Op \in {"load", "phase", "update", "reload", "unload"}
         /\ Op = "load" => /\ stage = "boot" /\ step \in 1 .. Len(Listed[Here])
                           /\ Doing \in Plugin
                           /\ Seen(stage, Here, step) = "none"
                           /\ Seen(stage, Here, step + 1) = "none"
         /\ Op = "phase" => /\ Doing \in Phase
                            /\ Seen(stage, Here, step) = Before(Doing)
                            /\ Seen(stage, Here, step + 1) = Doing
                            /\ \/ stage = "boot" /\ step > Len(Listed[Here])
                               \/ stage = "final" /\ step \in 1 .. 3
         /\ Op = "update" => stage = "loop" /\ Doing = "Update"
         /\ Op = "reload" => stage = "loop" /\ Doing = "Reload"
         /\ Op = "unload" => /\ stage = "final" /\ step > 3
                             /\ Doing \in Plugin
                             /\ Seen(stage, Here, step) = "Finalize"
                             /\ Seen(stage, Here, step + 1) = "Finalize"
<1>1. /\ at \in DOMAIN Servers /\ Here \in Server /\ step \in Nat
      /\ stage \in {"boot", "loop", "final"} /\ step \in DOMAIN Steps(Here)
  BY ListFacts DEF ProcessTypeOK, InStep, Running, Here
<1>2. PICK L : L = Len(Listed[Here]) /\ L \in Nat
  BY <1>1, ListFacts
<1>3. CASE stage = "boot"
  <2>1. Steps(Here) = StartSteps(Here)
    BY <1>3 DEF Steps
  <2>2. /\ DOMAIN StartSteps(Here) = 1 .. L + 5
        /\ \A n \in 1 .. L : StartSteps(Here)[n] = LoadStep(Listed[Here][n])
        /\ \A k \in 1 .. 5 : StartSteps(Here)[L + k] = PhaseStep(Boot[k])
    BY <1>1, <1>2, StartAt
  <2>3. CASE step <= L
    <3>1. step \in 1 .. L /\ Op = "load" /\ Doing = Listed[Here][step]
      <4>1. step \in 1 .. L
        BY <1>1, <1>2, <2>1, <2>2, <2>3
      <4>2. Steps(Here)[step] = LoadStep(Listed[Here][step])
        BY <2>1, <2>2, <4>1
      <4>. QED BY <4>1, <4>2 DEF Op, Doing, LoadStep
    <3>2. Doing \in Plugin
      BY <1>1, <1>2, <3>1, ListFacts
    <3>3. Seen("boot", Here, step) = "none" /\ Seen("boot", Here, step + 1) = "none"
      BY <1>1, <1>2, <2>3 DEF Seen
    <3>. QED BY <1>1, <1>2, <1>3, <3>1, <3>2, <3>3
  <2>4. CASE ~(step <= L)
    <3>1. PICK k \in 1 .. 5 : step = L + k
      <4>0. step \in Nat /\ step \in 1 .. L + 5 /\ ~(step <= L)
        BY <1>1, <2>1, <2>2, <2>4
      <4>1. step - L \in 1 .. 5 /\ step = L + (step - L)
        BY <1>2, <4>0
      <4>. QED BY <4>1
    <3>2. Op = "phase" /\ Doing = Boot[k]
      BY <2>1, <2>2, <3>1 DEF Op, Doing, PhaseStep
    <3>3. k \in {1, 2, 3, 4, 5} /\ step - L = k /\ (step + 1) - L = k + 1
      <4>1. k \in 1 .. 5 /\ step = L + k /\ L \in Nat
        BY <1>2, <3>1
      <4>2. k \in {1, 2, 3, 4, 5}
        BY <4>1
      <4>. QED BY <4>1, <4>2
    <3>4. /\ Doing \in Phase /\ Seen("boot", Here, step) = Before(Doing)
          /\ Seen("boot", Here, step + 1) = Doing
      BY <1>2, <3>2, <3>3 DEF Boot, Phase, Before, Seen
    <3>. QED BY <1>1, <1>2, <1>3, <2>4, <3>2, <3>4
  <2>. QED BY <2>3, <2>4
<1>4. CASE stage = "final"
  <2>1. Steps(Here) = FinalSteps(Here)
    BY <1>4 DEF Steps
  <2>2. /\ DOMAIN FinalSteps(Here) = 1 .. 3 + L
        /\ \A n \in 1 .. L : FinalSteps(Here)[3 + n] = UnloadStep(Listed[Here][n])
        /\ \A k \in 1 .. 3 : FinalSteps(Here)[k] = PhaseStep(Stop[k])
    BY <1>1, <1>2, FinalAt
  <2>3. CASE step <= 3
    <3>1. step \in {1, 2, 3} /\ step \in 1 .. 3
      BY <1>1, <1>2, <2>1, <2>2, <2>3
    <3>2. Op = "phase" /\ Doing = Stop[step]
      BY <2>1, <2>2, <3>1 DEF Op, Doing, PhaseStep
    <3>3. /\ Doing \in Phase /\ Seen("final", Here, step) = Before(Doing)
          /\ Seen("final", Here, step + 1) = Doing
      BY <1>2, <3>1, <3>2 DEF Stop, Phase, Before, Seen
    <3>. QED BY <1>1, <1>4, <3>1, <3>2, <3>3
  <2>4. CASE ~(step <= 3)
    <3>1. PICK n \in 1 .. L : step = 3 + n
      <4>1. step - 3 \in 1 .. L /\ step = 3 + (step - 3)
        BY <1>1, <1>2, <2>1, <2>2, <2>4
      <4>. QED BY <4>1
    <3>2. Op = "unload" /\ Doing = Listed[Here][n]
      <4>1. Steps(Here)[step] = UnloadStep(Listed[Here][n])
        BY <2>1, <2>2, <3>1
      <4>. QED BY <4>1 DEF Op, Doing, UnloadStep
    <3>3. Doing \in Plugin
      BY <1>1, <1>2, <3>1, <3>2, ListFacts
    <3>4. Seen("final", Here, step) = "Finalize" /\ Seen("final", Here, step + 1) = "Finalize"
      BY <1>1, <2>4 DEF Seen
    <3>. QED BY <1>1, <1>4, <2>4, <3>2, <3>3, <3>4
  <2>. QED BY <2>3, <2>4
<1>5. CASE stage = "loop"
  <2>1. Steps(Here) = <<[op |-> "update", arg |-> "Update"], [op |-> "reload", arg |-> "Reload"]>>
    BY <1>5 DEF Steps, TurnSteps
  <2>2. step \in {1, 2}
    BY <1>1, <2>1
  <2>3. \/ Op = "update" /\ Doing = "Update"
        \/ Op = "reload" /\ Doing = "Reload"
    BY <2>1, <2>2 DEF Op, Doing
  <2>. QED BY <1>1, <1>5, <2>3
<1>. QED BY <1>1, <1>3, <1>4, <1>5

(* The ends of the programs.                                               *)
LEMMA BeginFacts ==
  ASSUME NEW s \in Server
  PROVE  Seen("boot", s, 1) = "none" /\ Seen("final", s, 1) = "ReadyUpdate"
<1>1. Len(Listed[s]) \in Nat
  BY ListFacts
<1>. QED BY <1>1 DEF Seen

LEMMA EndFacts ==
  ASSUME ProcessTypeOK, stage = "boot", Running, step \notin DOMAIN Steps(Here)
  PROVE  Seen(stage, Here, step) = "ReadyUpdate" /\ at \in DOMAIN Servers /\ Here \in Server
<1>1. at \in DOMAIN Servers /\ Here \in Server /\ step \in Nat \ {0}
  BY ListFacts DEF ProcessTypeOK, Running, Here
<1>2. PICK L : L = Len(Listed[Here]) /\ L \in Nat
  BY <1>1, ListFacts
<1>3. DOMAIN Steps(Here) = 1 .. L + 5
  BY <1>1, <1>2, StartAt DEF Steps
<1>4. step - L > 5
  BY <1>1, <1>2, <1>3
<1>. QED BY <1>1, <1>2, <1>4 DEF Seen
-----------------------------------------------------------------------------
(* Steps that do not move the thread, end its step, or begin its calls.    *)
LEMMA SameStep ==
  ASSUME UNCHANGED <<stage, at, step>>
  PROVE  /\ Here' = Here /\ Running' = Running /\ InStep' = InStep /\ Op' = Op /\ Doing' = Doing
         /\ \A i \in DOMAIN Servers : /\ FreshAt(i)' = FreshAt(i)
                                      /\ ReadyAt(i)' = ReadyAt(i)
                                      /\ WholeAt(i)' = WholeAt(i)
<1>1. Here' = Here /\ Running' = Running
  BY DEF Here, Running
<1>2. \A s : Steps(s)' = Steps(s)
  BY DEF Steps, StartSteps, FinalSteps, TurnSteps
<1>3. Steps(Here)' = Steps(Here)
  BY <1>1, <1>2
<1>4. InStep' = InStep /\ Op' = Op /\ Doing' = Doing
  BY <1>1, <1>3 DEF InStep, Op, Doing
<1>5. \A i \in DOMAIN Servers : /\ FreshAt(i)' = FreshAt(i)
                                /\ ReadyAt(i)' = ReadyAt(i)
                                /\ WholeAt(i)' = WholeAt(i)
  BY <1>1 DEF FreshAt, ReadyAt, WholeAt
<1>. QED BY <1>1, <1>4, <1>5

LEMMA SameMaps ==
  ASSUME UNCHANGED maps
  PROVE  /\ libs' = libs /\ map' = map /\ vec' = vec /\ own' = own /\ freed' = freed
         /\ \A s : Loaded(s)' = Loaded(s) /\ Modules(s)' = Modules(s)
         /\ \A s, f : FindModule(s, f)' = FindModule(s, f)
         /\ \A s, m : Alive(s, m)' = Alive(s, m)
BY DEF maps, Loaded, Modules, FindModule, Alive

MapsRight ==
  \A s \in Server :
    /\ IsInjective(vec[s])
    /\ Range(vec[s]) = {m \in Modules(s) : m[2] \in Updated}
    /\ \A f \in Face :
          LET m == FindModule(s, f) IN m # NoModule => m[2] = f /\ Alive(s, m)

LEMMA SameRight ==
  ASSUME UNCHANGED maps, MapsRight
  PROVE  MapsRight'
BY SameMaps DEF MapsRight, maps

LEMMA InvRight == ProcessInv => MapsRight
BY DEF ProcessInv, MapInv, MapsRight

LEMMA StandStill ==
  ASSUME ProcessInv, UNCHANGED <<thread, maps, reached>>,
         reading' # <<>> => reading # <<>>,
         quit' \in BOOLEAN /\ reload' \in BOOLEAN /\ state' \in BOOLEAN
           /\ asked' \subseteq Server /\ asks' \in 0 .. MaxReload
  PROVE  ProcessInv'
<1>. USE SameStep, SameMaps
<1>1. ProcessTypeOK'
  BY DEF ProcessInv, ProcessTypeOK, thread, maps
<1>2. BusyInv'
  BY DEF ProcessInv, BusyInv, thread, maps
<1>3. ReachInv'
  BY DEF ProcessInv, ReachInv, Seen, thread, maps
<1>4. OwnInv'
  BY DEF ProcessInv, OwnInv, thread, maps
<1>5. FreedInv'
  BY DEF ProcessInv, FreedInv, thread, maps
<1>6. MapInv'
  BY InvRight, SameRight DEF ProcessInv, MapInv, MapsRight, thread, maps
<1>. QED BY <1>1, <1>2, <1>3, <1>4, <1>5, <1>6 DEF ProcessInv
(* A step that is over has taken the modules where the next one finds them *)
(* and leaves no plugin half installed.                                    *)
LEMMA StepOver ==
  ASSUME ProcessInv, InStep, Over, UNCHANGED <<maps, reached>>, reading' = <<>>,
         \A s \in Server : Loaded(s) \subseteq own[s],
         stage \in {"boot", "final"} =>
           \A m \in Loaded(Here) : reached[Here][m] = Seen(stage, Here, step + 1),
         quit' \in BOOLEAN /\ reload' \in BOOLEAN /\ state' \in BOOLEAN
           /\ asked' \subseteq Server /\ asks' \in 0 .. MaxReload
  PROVE  ProcessInv'
<1>. USE SameMaps
<1>1. ProcessTypeOK'
  BY DEF ProcessInv, ProcessTypeOK, Over, maps
<1>2. BusyInv'
  BY DEF ProcessInv, BusyInv, Over
<1>3. at \in DOMAIN Servers /\ Here \in Server /\ step \in Nat /\ Len(Listed[Here]) \in Nat
  BY StepFacts, ListFacts DEF ProcessInv
<1>4. Here' = Here /\ stage' = stage /\ at' = at /\ step' = step + 1 /\ busy' = "no"
  BY DEF Over, Here
<1>5. ReachInv'
  <2>1. \A i \in DOMAIN Servers : (FreshAt(i)' => FreshAt(i)) /\ ReadyAt(i)' = ReadyAt(i)
    BY <1>3, <1>4 DEF FreshAt, ReadyAt
  <2>2. (\A i \in DOMAIN Servers : FreshAt(i) => \A m \in Module : reached[Servers[i]][m] = "none")'
    BY <2>1 DEF ProcessInv, ReachInv
  <2>3. (\A i \in DOMAIN Servers :
           ReadyAt(i) => \A m \in Loaded(Servers[i]) : reached[Servers[i]][m] = "ReadyUpdate")'
    BY <2>1 DEF ProcessInv, ReachInv
  <2>4. (stage \in {"boot", "final"} /\ at \in DOMAIN Servers =>
           \A m \in Loaded(Here) :
             reached[Here][m] = Seen(stage, Here, IF busy = "phase" /\ m \notin left
                                                  THEN step + 1 ELSE step))'
    BY <1>4 DEF Seen
  <2>. QED BY <2>2, <2>3, <2>4 DEF ReachInv
<1>6. OwnInv'
  BY <1>4 DEF ProcessInv, OwnInv
<1>7. FreedInv'
  <2>1. \A i \in DOMAIN Servers : WholeAt(i)' => WholeAt(i)
    BY <1>3, <1>4 DEF WholeAt
  <2>. QED BY <2>1 DEF ProcessInv, FreedInv
<1>8. MapInv'
  BY <1>4, InvRight, SameRight DEF MapInv, MapsRight
<1>. QED BY <1>1, <1>2, <1>5, <1>6, <1>7, <1>8 DEF ProcessInv

(* The calls of a step begin.                                              *)
LEMMA StepBegins ==
  ASSUME ProcessInv, NEW what \in {"phase", "update", "uninstall"}, NEW ms,
         busy = "no", InStep, Begin(what, ms), UNCHANGED <<maps, reached, reading>>,
         ms = IF what = "phase" THEN own[Here] ELSE {},
         what = "phase" => Op \in {"phase", "reload"},
         what = "update" => Op = "update",
         what = "uninstall" => Op = "unload" /\ Doing \in libs[Here],
         quit' \in BOOLEAN /\ reload' \in BOOLEAN /\ state' \in BOOLEAN
           /\ asked' \subseteq Server /\ asks' \in 0 .. MaxReload
  PROVE  ProcessInv'
<1>1. /\ stage' = stage /\ at' = at /\ step' = step
      /\ busy' = what /\ next' = 1 /\ left' = ms
  BY DEF Begin
<1>. USE SameMaps
<1>2. /\ Here' = Here /\ Running' = Running /\ InStep' = InStep /\ Op' = Op /\ Doing' = Doing
      /\ \A i \in DOMAIN Servers : /\ FreshAt(i)' = FreshAt(i)
                                   /\ ReadyAt(i)' = ReadyAt(i)
                                   /\ WholeAt(i)' = WholeAt(i)
  BY <1>1, SameStep
<1>3. Here \in Server /\ at \in DOMAIN Servers
  BY StepFacts DEF ProcessInv
<1>4. \A s \in Server : own[s] = Loaded(s) /\ own[s] \subseteq Module
  BY DEF ProcessInv, OwnInv, ProcessTypeOK
<1>5. ms \subseteq Module
  BY <1>3, <1>4
<1>6. ProcessTypeOK'
  BY <1>1, <1>5 DEF ProcessInv, ProcessTypeOK, maps
<1>7. BusyInv'
  BY <1>1, <1>2 DEF ProcessInv, BusyInv
<1>8. ReachInv'
  <2>1. (\A i \in DOMAIN Servers : FreshAt(i) => \A m \in Module : reached[Servers[i]][m] = "none")'
    BY <1>2 DEF ProcessInv, ReachInv
  <2>2. (\A i \in DOMAIN Servers :
           ReadyAt(i) => \A m \in Loaded(Servers[i]) : reached[Servers[i]][m] = "ReadyUpdate")'
    BY <1>2 DEF ProcessInv, ReachInv
  <2>3. stage \in {"boot", "final"} =>
          \A m \in Loaded(Here) : reached[Here][m] = Seen(stage, Here, step)
    BY <1>3 DEF ProcessInv, ReachInv
  <2>4. \A m \in Loaded(Here) : what = "phase" => m \in left'
    BY <1>1, <1>3, <1>4
  <2>5. (stage \in {"boot", "final"} /\ at \in DOMAIN Servers =>
           \A m \in Loaded(Here) :
             reached[Here][m] = Seen(stage, Here, IF busy = "phase" /\ m \notin left
                                                  THEN step + 1 ELSE step))'
    BY <1>1, <1>2, <2>3, <2>4 DEF Seen
  <2>. QED BY <2>1, <2>2, <2>5 DEF ReachInv
<1>9. OwnInv'
  BY <1>1, <1>2, <1>4, ListFacts, StepFacts DEF ProcessInv, OwnInv
<1>10. FreedInv'
  BY <1>2 DEF ProcessInv, FreedInv
<1>11. MapInv'
  <2>1. (busy = "uninstall" =>
           \A j \in DOMAIN Install[Doing] : j < next => map[Here][Install[Doing][j]] = NoModule)'
    BY <1>1, <1>2, ListFacts, StepFacts DEF ProcessInv
  <2>. QED BY <2>1, InvRight, SameRight DEF MapInv, MapsRight
<1>. QED BY <1>6, <1>7, <1>8, <1>9, <1>10, <1>11 DEF ProcessInv

(* The process ends, or goes no further.                                   *)
LEMMA Halts ==
  ASSUME ProcessInv, NEW st \in {"ended", "stuck", "dead"}, GoTo(st, at),
         UNCHANGED <<maps, reached, loop>>, reading' = <<>>,
         busy \in {"no", "phase"}
  PROVE  ProcessInv'
<1>. USE SameMaps
<1>1. stage' = st /\ at' = at /\ step' = 1 /\ busy' = "no" /\ next' = 1 /\ left' = {}
  BY DEF GoTo
<1>2. ProcessTypeOK'
  BY <1>1 DEF ProcessInv, ProcessTypeOK, maps, loop
<1>3. BusyInv'
  BY <1>1 DEF BusyInv
<1>4. ReachInv'
  BY <1>1 DEF ReachInv, FreshAt, ReadyAt
<1>5. OwnInv'
  BY <1>1 DEF ProcessInv, OwnInv
<1>6. FreedInv'
  BY <1>1 DEF FreedInv, WholeAt
<1>7. MapInv'
  BY <1>1, InvRight, SameRight DEF MapInv, MapsRight
<1>. QED BY <1>2, <1>3, <1>4, <1>5, <1>6, <1>7 DEF ProcessInv
(* The thread goes from server to server and from stage to stage: where it *)
(* arrives the modules are as the program found them or left them.         *)
LEMMA Arrives ==
  ASSUME ProcessInv, busy = "no", NEW st \in {"boot", "loop", "final"},
         NEW i \in 0 .. Len(Servers) + 1, GoTo(st, i), UNCHANGED <<maps, reached, reading>>,
         st \in {"boot", "final"} => i # 0,
         \A k \in DOMAIN Servers : st = "boot" /\ k >= i => FreshAt(k),
         \A k \in DOMAIN Servers :
           (st = "boot" /\ k < i) \/ st = "loop" \/ (st = "final" /\ k >= i)
             => \A m \in Loaded(Servers[k]) : reached[Servers[k]][m] = "ReadyUpdate",
         \A k \in DOMAIN Servers : st \in {"boot", "loop"} \/ k >= i => freed[Servers[k]] = {},
         quit' \in BOOLEAN /\ reload' \in BOOLEAN /\ state' \in BOOLEAN
           /\ asked' \subseteq Server /\ asks' \in 0 .. MaxReload
  PROVE  ProcessInv'
<1>. USE SameMaps
<1>1. stage' = st /\ at' = i /\ step' = 1 /\ busy' = "no" /\ next' = 1 /\ left' = {}
  BY DEF GoTo
<1>2. ProcessTypeOK'
  BY <1>1 DEF ProcessInv, ProcessTypeOK, maps
<1>3. BusyInv'
  BY <1>1 DEF ProcessInv, BusyInv
<1>4. \A k \in DOMAIN Servers : k \in Nat /\ Servers[k] \in Server
  BY ListFacts
<1>5. ReachInv'
  <2>1. (\A k \in DOMAIN Servers : FreshAt(k) => \A m \in Module : reached[Servers[k]][m] = "none")'
    BY <1>1, <1>4 DEF ProcessInv, ReachInv, FreshAt
  <2>2. (\A k \in DOMAIN Servers :
           ReadyAt(k) => \A m \in Loaded(Servers[k]) : reached[Servers[k]][m] = "ReadyUpdate")'
    BY <1>1, <1>4 DEF ReadyAt
  <2>3. (stage \in {"boot", "final"} /\ at \in DOMAIN Servers =>
           \A m \in Loaded(Here) :
             reached[Here][m] = Seen(stage, Here, IF busy = "phase" /\ m \notin left
                                                  THEN step + 1 ELSE step))'
    <3>1. SUFFICES ASSUME st \in {"boot", "final"}, i \in DOMAIN Servers,
                          NEW m \in Loaded(Servers[i])
                   PROVE  reached[Servers[i]][m] = Seen(st, Servers[i], 1)
      BY <1>1 DEF Here, Seen
    <3>2. CASE st = "boot"
      <4>1. FreshAt(i) /\ m \in Module
        BY <3>1, <3>2, <1>4 DEF Loaded
      <4>2. reached[Servers[i]][m] = "none"
        BY <3>1, <4>1 DEF ProcessInv, ReachInv
      <4>. QED BY <3>1, <3>2, <4>2, <1>4, BeginFacts
    <3>3. CASE st = "final"
      BY <3>1, <3>3, <1>4, BeginFacts
    <3>. QED BY <3>1, <3>2, <3>3
  <2>. QED BY <2>1, <2>2, <2>3 DEF ReachInv
<1>6. OwnInv'
  BY <1>1 DEF ProcessInv, OwnInv
<1>7. FreedInv'
  BY <1>1, <1>4 DEF FreedInv, WholeAt
<1>8. MapInv'
  BY <1>1, InvRight, SameRight DEF MapInv, MapsRight
<1>. QED BY <1>2, <1>3, <1>5, <1>6, <1>7, <1>8 DEF ProcessInv

-----------------------------------------------------------------------------
(* The actions.                                                            *)
LEMMA LoopTypes ==
  ProcessTypeOK /\ UNCHANGED loop =>
    quit' \in BOOLEAN /\ reload' \in BOOLEAN /\ state' \in BOOLEAN
      /\ asked' \subseteq Server /\ asks' \in 0 .. MaxReload
BY DEF ProcessTypeOK, loop

LEMMA InvNextServer == ASSUME ProcessInv, NextServer PROVE ProcessInv'
<1>1. /\ Running /\ step \notin DOMAIN Steps(Here) /\ GoTo(stage, at + 1)
      /\ UNCHANGED <<reading, maps, reached, loop, config>>
  BY DEF NextServer
<1>2. /\ at \in DOMAIN Servers /\ at \in 1 .. Len(Servers) /\ at + 1 \in 0 .. Len(Servers) + 1
      /\ stage \in {"boot", "loop", "final"} /\ busy = "no"
      /\ \A k \in DOMAIN Servers : k \in Nat
  BY <1>1, ListFacts DEF ProcessInv, BusyInv, InStep, Running
<1>3. ASSUME NEW k \in DOMAIN Servers, stage = "boot", k >= at + 1 PROVE FreshAt(k)
  BY <1>2, <1>3 DEF FreshAt
<1>4. ASSUME NEW k \in DOMAIN Servers,
             (stage = "boot" /\ k < at + 1) \/ stage = "loop" \/ (stage = "final" /\ k >= at + 1)
      PROVE  \A m \in Loaded(Servers[k]) : reached[Servers[k]][m] = "ReadyUpdate"
  <2>1. CASE stage = "boot" /\ k = at
    <3>1. Seen(stage, Here, step) = "ReadyUpdate" /\ Servers[k] = Here
      BY <1>1, <2>1, EndFacts DEF ProcessInv, Here
    <3>. QED BY <1>2, <2>1, <3>1 DEF ProcessInv, ReachInv
  <2>2. CASE ~(stage = "boot" /\ k = at)
    <3>1. ReadyAt(k)
      BY <1>2, <1>4, <2>2 DEF ReadyAt
    <3>. QED BY <3>1 DEF ProcessInv, ReachInv
  <2>. QED BY <2>1, <2>2
<1>5. ASSUME NEW k \in DOMAIN Servers, stage \in {"boot", "loop"} \/ k >= at + 1
      PROVE  freed[Servers[k]] = {}
  <2>1. WholeAt(k)
    BY <1>2, <1>5 DEF WholeAt
  <2>. QED BY <2>1 DEF ProcessInv, FreedInv
<1>. QED BY <1>1, <1>2, <1>3, <1>4, <1>5, Arrives, LoopTypes DEF ProcessInv

LEMMA InvBooted == ASSUME ProcessInv, Booted PROVE ProcessInv'
<1>1. /\ stage = "boot" /\ at \notin DOMAIN Servers /\ GoTo("loop", 0)
      /\ UNCHANGED <<reading, maps, reached, loop, config>>
  BY DEF Booted
<1>2. busy = "no" /\ \A k \in DOMAIN Servers : k < at /\ k \in Nat
  BY <1>1, ListFacts DEF ProcessInv, ProcessTypeOK, BusyInv, InStep, Running
<1>3. \A k \in DOMAIN Servers : ReadyAt(k) /\ WholeAt(k)
  BY <1>1, <1>2 DEF ReadyAt, WholeAt
<1>4. \A k \in DOMAIN Servers :
        /\ \A m \in Loaded(Servers[k]) : reached[Servers[k]][m] = "ReadyUpdate"
        /\ freed[Servers[k]] = {}
  BY <1>3 DEF ProcessInv, ReachInv, FreedInv
<1>5. 0 \in 0 .. Len(Servers) + 1
  BY ListFacts
<1>. QED BY <1>1, <1>2, <1>4, <1>5, Arrives, LoopTypes DEF ProcessInv

LEMMA InvTurns == ASSUME ProcessInv, BeginTurn \/ EndTurn PROVE ProcessInv'
<1>1. /\ stage = "loop" /\ at \notin DOMAIN Servers
      /\ UNCHANGED <<reading, maps, reached, quit, asked, asks>>
  BY ListFacts DEF BeginTurn, EndTurn
<1>2. busy = "no"
  BY <1>1 DEF ProcessInv, BusyInv, InStep, Running
<1>3. \A k \in DOMAIN Servers : ReadyAt(k) /\ WholeAt(k)
  BY <1>1 DEF ReadyAt, WholeAt
<1>4. \A k \in DOMAIN Servers :
        /\ \A m \in Loaded(Servers[k]) : reached[Servers[k]][m] = "ReadyUpdate"
        /\ freed[Servers[k]] = {}
  BY <1>3 DEF ProcessInv, ReachInv, FreedInv
<1>5. /\ quit' \in BOOLEAN /\ reload' \in BOOLEAN /\ state' \in BOOLEAN
      /\ asked' \subseteq Server /\ asks' \in 0 .. MaxReload
  BY <1>1 DEF ProcessInv, ProcessTypeOK, BeginTurn, EndTurn, ClearState
<1>6. 0 \in 0 .. Len(Servers) + 1 /\ 1 \in 0 .. Len(Servers) + 1
  BY ListFacts
<1>7. GoTo("loop", 0) \/ GoTo("loop", 1) \/ GoTo("final", 1)
  BY DEF BeginTurn, EndTurn
<1>8. CASE GoTo("loop", 0)
  BY <1>1, <1>2, <1>4, <1>5, <1>6, <1>8, Arrives
<1>9. CASE GoTo("loop", 1)
  BY <1>1, <1>2, <1>4, <1>5, <1>6, <1>9, Arrives
<1>10. CASE GoTo("final", 1)
  BY <1>1, <1>2, <1>4, <1>5, <1>6, <1>10, Arrives
<1>. QED BY <1>7, <1>8, <1>9, <1>10
LEMMA NoHalf ==
  ASSUME ProcessInv, busy \notin {"install", "uninstall"}
  PROVE  \A s \in Server : Loaded(s) \subseteq own[s]
BY DEF ProcessInv, OwnInv

LEMMA AtSeen ==
  ASSUME ProcessInv, InStep, busy # "phase"
  PROVE  stage \in {"boot", "final"} =>
           \A m \in Loaded(Here) : reached[Here][m] = Seen(stage, Here, step)
BY StepFacts DEF ProcessInv, ReachInv

LEMMA InvStill == ASSUME ProcessInv, LoadClass \/ LoadElements \/ Signal PROVE ProcessInv'
<1>1. UNCHANGED <<thread, maps, reached>>
  BY DEF LoadClass, LoadElements, Signal
<1>2. reading' # <<>> => reading # <<>>
  BY DEF LoadClass, LoadElements, Signal, Reads
<1>3. quit' \in BOOLEAN /\ reload' \in BOOLEAN /\ state' \in BOOLEAN
        /\ asked' \subseteq Server /\ asks' \in 0 .. MaxReload
  BY DEF LoadClass, LoadElements, Signal, ProcessInv, ProcessTypeOK, loop
<1>. QED BY <1>1, <1>2, <1>3, StandStill

LEMMA InvHalts == ASSUME ProcessInv,
                        LoadFails \/ CallFails \/ ClassFails \/ RowsFail \/ LoadSpins \/ Ended
  PROVE  ProcessInv'
<1>1. PICK st \in {"ended", "stuck", "dead"} : GoTo(st, at)
  BY DEF LoadFails, CallFails, ClassFails, RowsFail, LoadSpins, Ended
<1>2. UNCHANGED <<maps, reached, loop>>
  BY DEF LoadFails, CallFails, ClassFails, RowsFail, LoadSpins, Ended
<1>3. reading' = <<>> /\ busy \in {"no", "phase"}
  <2>1. CASE LoadFails
    BY <2>1 DEF LoadFails, Comes, ProcessInv, BusyInv
  <2>2. CASE CallFails
    BY <2>2 DEF CallFails
  <2>3. CASE ClassFails \/ RowsFail \/ LoadSpins
    BY <2>3 DEF ClassFails, RowsFail, LoadSpins, Reads, ProcessInv, BusyInv
  <2>4. CASE Ended
    BY <2>4 DEF Ended, ProcessInv, BusyInv, InStep, Running
  <2>. QED BY <2>1, <2>2, <2>3, <2>4
<1>. QED BY <1>1, <1>2, <1>3, Halts

LEMMA InvLoad == ASSUME ProcessInv, Load PROVE ProcessInv'
<1>1. /\ InStep /\ busy = "no" /\ Op = "load"
      /\ UNCHANGED <<reading, map, vec, own, freed, reached, loop>>
  BY DEF Load, Comes, Op
<1>2. /\ at \in DOMAIN Servers /\ Here \in Server /\ step \in Nat /\ stage = "boot"
      /\ step \in 1 .. Len(Listed[Here]) /\ Doing \in Plugin
      /\ Seen(stage, Here, step) = "none" /\ Seen(stage, Here, step + 1) = "none"
  BY <1>1, StepFacts DEF ProcessInv
<1>3. reading = <<>> /\ left = {}
  BY <1>1 DEF ProcessInv, BusyInv
<1>4. CASE Doing \in libs[Here]
  <2>1. Over /\ UNCHANGED maps
    BY <1>1, <1>4 DEF Load, maps
  <2>. QED BY <1>1, <1>2, <1>3, <2>1, NoHalf, AtSeen, StepOver, LoopTypes DEF ProcessInv
<1>5. CASE Doing \notin libs[Here]
  <2>1. /\ UNCHANGED <<stage, at, step>>
        /\ busy' = "install" /\ next' = 1 /\ left' = {}
        /\ libs' = [libs EXCEPT ![Here] = @ \cup {Doing}]
    BY <1>5 DEF Load, Begin
  <2>2. /\ Here' = Here /\ Running' = Running /\ InStep' = InStep /\ Op' = Op /\ Doing' = Doing
        /\ \A i \in DOMAIN Servers : /\ FreshAt(i)' = FreshAt(i)
                                     /\ ReadyAt(i)' = ReadyAt(i)
                                     /\ WholeAt(i)' = WholeAt(i)
    BY <2>1, SameStep
  <2>3. libs \in [Server -> SUBSET Plugin]
    BY DEF ProcessInv, ProcessTypeOK
  <2>4. /\ libs' \in [Server -> SUBSET Plugin]
        /\ libs'[Here] = libs[Here] \cup {Doing}
        /\ \A s \in Server : s # Here => libs'[s] = libs[s]
    BY <1>2, <2>1, <2>3
  <2>5. /\ \A s \in Server : Loaded(s) \subseteq Loaded(s)'
        /\ \A s \in Server : s # Here => Loaded(s)' = Loaded(s)
        /\ \A m \in Loaded(Here)' : m \in Module /\ (m \in Loaded(Here) \/ m[1] = Doing)
    BY <2>2, <2>4 DEF Loaded
  <2>6. ProcessTypeOK'
    BY <1>1, <2>1, <2>4, LoopTypes DEF ProcessInv, ProcessTypeOK
  <2>7. BusyInv'
    BY <1>1, <1>3, <2>1, <2>2, <2>4 DEF ProcessInv, BusyInv
  <2>8. ReachInv'
    <3>1. \A m \in Module : reached[Here][m] = "none"
      <4>1. FreshAt(at) /\ Here = Servers[at]
        BY <1>2 DEF FreshAt, Here
      <4>. QED BY <1>2, <4>1 DEF ProcessInv, ReachInv
    <3>2. (\A i \in DOMAIN Servers : FreshAt(i) => \A m \in Module : reached[Servers[i]][m] = "none")'
      BY <1>1, <2>2 DEF ProcessInv, ReachInv
    <3>3. (\A i \in DOMAIN Servers :
             ReadyAt(i) => \A m \in Loaded(Servers[i]) : reached[Servers[i]][m] = "ReadyUpdate")'
      <4>1. ASSUME NEW i \in DOMAIN Servers, ReadyAt(i)
            PROVE  Servers[i] # Here /\ Servers[i] \in Server
        <5>1. i # at /\ Servers[i] \in Server
          BY <1>2, <4>1, ListFacts DEF ReadyAt
        <5>. QED BY <1>2, <5>1, ListFacts DEF Here
      <4>2. \A i \in DOMAIN Servers : ReadyAt(i) => Loaded(Servers[i])' = Loaded(Servers[i])
        BY <2>5, <4>1
      <4>. QED BY <1>1, <2>2, <4>2 DEF ProcessInv, ReachInv
    <3>4. (stage \in {"boot", "final"} /\ at \in DOMAIN Servers =>
             \A m \in Loaded(Here) :
               reached[Here][m] = Seen(stage, Here, IF busy = "phase" /\ m \notin left
                                                    THEN step + 1 ELSE step))'
      BY <1>1, <1>2, <2>1, <2>2, <2>5, <3>1 DEF Seen
    <3>. QED BY <3>2, <3>3, <3>4 DEF ReachInv
  <2>9. OwnInv'
    <3>1. \A s \in Server : own[s] = Loaded(s)
      BY <1>1, NoHalf DEF ProcessInv, OwnInv
    <3>2. DOMAIN Install[Doing] \subseteq Nat /\ \A j \in DOMAIN Install[Doing] : ~(j < 1)
      BY <1>2, ListFacts
    <3>3. \A s \in Server : own'[s] \subseteq Loaded(s)'
      BY <1>1, <2>5, <3>1
    <3>4. ASSUME NEW s \in Server, NEW m \in Loaded(s)', m \notin own'[s]
          PROVE  s = Here /\ m[1] = Doing
      <4>1. CASE s = Here
        <5>1. m \in Loaded(Here) \/ m[1] = Doing
          BY <2>2, <2>5, <3>4, <4>1
        <5>. QED BY <1>1, <1>2, <3>1, <3>4, <4>1, <5>1
      <4>2. CASE s # Here
        BY <1>1, <2>5, <3>1, <3>4, <4>2
      <4>. QED BY <4>1, <4>2
    <3>5. (\A s \in Server : \A m \in Loaded(s) :
             \/ m \in own[s]
             \/ /\ busy \in {"install", "uninstall"} /\ s = Here /\ m[1] = Doing
                /\ busy = "install" =>
                     \A j \in DOMAIN Install[Doing] : j < next => Install[Doing][j] # m[2])'
      BY <2>1, <2>2, <3>2, <3>4
    <3>6. busy' # "uninstall"
      BY <2>1
    <3>. QED BY <3>3, <3>5, <3>6 DEF OwnInv
  <2>10. FreedInv'
    BY <1>1, <2>2 DEF ProcessInv, FreedInv
  <2>11. MapInv'
    <3>1. \A s \in Server : \A m : Alive(s, m) => Alive(s, m)'
      BY <1>1, <2>4 DEF Alive
    <3>2. \A s \in Server : Modules(s)' = Modules(s) /\ \A f : FindModule(s, f)' = FindModule(s, f)
      BY <1>1 DEF Modules, FindModule
    <3>. QED BY <1>1, <2>1, <3>1, <3>2, InvRight DEF MapInv, MapsRight
  <2>. QED BY <2>6, <2>7, <2>8, <2>9, <2>10, <2>11 DEF ProcessInv
<1>. QED BY <1>4, <1>5
LEMMA InvInstalled == ASSUME ProcessInv, Installed PROVE ProcessInv'
<1>1. /\ InStep /\ busy = "install" /\ next \notin DOMAIN Install[Doing] /\ Over
      /\ UNCHANGED <<reading, maps, reached, loop>>
  BY DEF Installed
<1>2. Op = "load" /\ reading = <<>>
  BY <1>1 DEF ProcessInv, BusyInv
<1>3. Here \in Server /\ Doing \in Plugin /\ Seen(stage, Here, step) = Seen(stage, Here, step + 1)
  BY <1>1, <1>2, StepFacts DEF ProcessInv
<1>4. \A j \in DOMAIN Install[Doing] : j < next
  BY <1>1, <1>3, ListFacts DEF ProcessInv, ProcessTypeOK
<1>5. ASSUME NEW s \in Server, NEW m \in Loaded(s) PROVE m \in own[s]
  <2>1. \E j \in DOMAIN Install[m[1]] : Install[m[1]][j] = m[2]
    BY ModuleFacts DEF Loaded
  <2>. QED BY <1>1, <1>4, <2>1 DEF ProcessInv, OwnInv
<1>6. stage \in {"boot", "final"} =>
        \A m \in Loaded(Here) : reached[Here][m] = Seen(stage, Here, step + 1)
  BY <1>1, <1>3, AtSeen
<1>. QED BY <1>1, <1>2, <1>5, <1>6, StepOver, LoopTypes DEF ProcessInv

LEMMA InvStartPhase == ASSUME ProcessInv, StartPhase PROVE ProcessInv'
<1>1. /\ InStep /\ busy = "no" /\ Op = "phase" /\ Begin("phase", own[Here])
      /\ UNCHANGED <<reading, maps, reached, loop>>
  BY DEF StartPhase, Comes, Op
<1>. QED BY <1>1, StepBegins, LoopTypes DEF ProcessInv

LEMMA InvCalled == ASSUME ProcessInv, Called PROVE ProcessInv'
<1>1. /\ InStep /\ busy = "phase" /\ reading = <<>> /\ left = {} /\ Over
      /\ UNCHANGED <<reading, maps, reached, loop>>
  BY DEF Called
<1>2. stage \in {"boot", "final"} =>
        \A m \in Loaded(Here) : reached[Here][m] = Seen(stage, Here, step + 1)
  BY <1>1, StepFacts DEF ProcessInv, ReachInv
<1>. QED BY <1>1, <1>2, NoHalf, StepOver, LoopTypes DEF ProcessInv

LEMMA InvUpdate == ASSUME ProcessInv, UpdateServer \/ UpdatedAll PROVE ProcessInv'
<1>1. CASE UpdateServer
  <2>1. /\ InStep /\ busy = "no" /\ Op = "update" /\ Begin("update", {})
        /\ UNCHANGED <<reading, maps, reached, loop>>
    BY <1>1 DEF UpdateServer, Comes, Op
  <2>. QED BY <2>1, StepBegins, LoopTypes DEF ProcessInv
<1>2. CASE UpdatedAll
  <2>1. /\ InStep /\ busy = "update" /\ Over
        /\ UNCHANGED <<reading, maps, reached, loop>>
    BY <1>2 DEF UpdatedAll
  <2>2. stage = "loop" /\ reading = <<>>
    BY <2>1, StepFacts DEF ProcessInv, BusyInv
  <2>. QED BY <2>1, <2>2, NoHalf, StepOver, LoopTypes DEF ProcessInv
<1>. QED BY <1>1, <1>2

LEMMA InvReloadServer == ASSUME ProcessInv, ReloadServer PROVE ProcessInv'
<1>1. /\ InStep /\ busy = "no" /\ Op = "reload"
      /\ UNCHANGED <<reading, maps, reached, quit, reload, state, asks>>
      /\ \/ Begin("phase", own[Here]) /\ asked' = asked \ {Here}
         \/ Over /\ asked' = asked
  BY DEF ReloadServer, Comes, Op
<1>2. /\ quit' \in BOOLEAN /\ reload' \in BOOLEAN /\ state' \in BOOLEAN
      /\ asked' \subseteq Server /\ asks' \in 0 .. MaxReload
  BY <1>1 DEF ProcessInv, ProcessTypeOK
<1>3. CASE Begin("phase", own[Here])
  BY <1>1, <1>2, <1>3, StepBegins
<1>4. CASE Over
  <2>1. stage = "loop" /\ reading = <<>>
    BY <1>1, StepFacts DEF ProcessInv, BusyInv
  <2>. QED BY <1>1, <1>2, <1>4, <2>1, NoHalf, StepOver
<1>. QED BY <1>1, <1>3, <1>4

LEMMA InvUpdateModule == ASSUME ProcessInv, UpdateModule PROVE ProcessInv'
<1>1. /\ InStep /\ busy = "update" /\ Onward /\ UNCHANGED <<reading, maps, reached, quit, state>>
      /\ next' = next + 1 /\ UNCHANGED <<stage, at, step, busy, left>>
  BY DEF UpdateModule, Onward
<1>2. Here \in Server
  BY <1>1, StepFacts DEF ProcessInv
<1>3. /\ reload' \in BOOLEAN /\ asked' \subseteq Server /\ asks' \in 0 .. MaxReload
  <2>1. reload \in BOOLEAN /\ asked \subseteq Server /\ asks \in 0 .. MaxReload
    BY DEF ProcessInv, ProcessTypeOK
  <2>2. CASE UNCHANGED <<reload, asked, asks>>
    BY <2>1, <2>2
  <2>3. CASE OnNReqReload(Here)
    BY <1>2, <2>1, <2>3, ProcessAssumption DEF OnNReqReload
  <2>. QED BY <2>2, <2>3 DEF UpdateModule
<1>. USE SameStep, SameMaps
<1>4. ProcessTypeOK'
  BY <1>1, <1>3 DEF ProcessInv, ProcessTypeOK, maps
<1>5. BusyInv'
  BY <1>1 DEF ProcessInv, BusyInv
<1>6. ReachInv'
  BY <1>1 DEF ProcessInv, ReachInv, Seen
<1>7. OwnInv'
  BY <1>1 DEF ProcessInv, OwnInv
<1>8. FreedInv'
  BY <1>1 DEF ProcessInv, FreedInv
<1>9. MapInv'
  BY <1>1, InvRight, SameRight DEF MapInv, MapsRight
<1>. QED BY <1>4, <1>5, <1>6, <1>7, <1>8, <1>9 DEF ProcessInv

LEMMA InvUnload == ASSUME ProcessInv, Unload PROVE ProcessInv'
<1>1. /\ InStep /\ busy = "no" /\ Op = "unload" /\ UNCHANGED <<reading, maps, reached, loop>>
      /\ \/ Doing \in libs[Here] /\ Begin("uninstall", {})
         \/ Over
  BY DEF Unload, Comes, Op
<1>2. CASE Doing \in libs[Here] /\ Begin("uninstall", {})
  BY <1>1, <1>2, StepBegins, LoopTypes DEF ProcessInv
<1>3. CASE Over
  <2>1. reading = <<>> /\ Seen(stage, Here, step) = Seen(stage, Here, step + 1)
    BY <1>1, StepFacts DEF ProcessInv, BusyInv
  <2>. QED BY <1>1, <1>3, <2>1, NoHalf, AtSeen, StepOver, LoopTypes DEF ProcessInv
<1>. QED BY <1>1, <1>2, <1>3

LEMMA InvCall == ASSUME ProcessInv, Call PROVE ProcessInv'
<1>1. /\ InStep /\ busy = "phase" /\ reading = <<>>
      /\ UNCHANGED <<stage, at, step, busy, next, maps, loop>>
  BY DEF Call
<1>2. PICK m \in left :
        /\ left' = left \ {m}
        /\ reached' = IF Doing = "Reload" THEN reached
                      ELSE [reached EXCEPT ![Here][m] = Doing]
  BY DEF Call
<1>3. /\ Here \in Server /\ at \in DOMAIN Servers /\ Here = Servers[at] /\ m \in Module
      /\ Op \in {"phase", "reload"}
  BY <1>1, <1>2, StepFacts DEF ProcessInv, BusyInv, ProcessTypeOK, Here
<1>. USE SameStep, SameMaps
<1>4. \/ /\ Op = "reload" /\ stage = "loop" /\ reached' = reached
      \/ /\ Op = "phase" /\ stage \in {"boot", "final"}
         /\ Doing \in Phase /\ Seen(stage, Here, step + 1) = Doing
         /\ stage = "boot" => step > Len(Listed[Here])
         /\ reached' = [reached EXCEPT ![Here][m] = Doing]
  <2>1. "Reload" \notin Phase
    BY DEF Phase
  <2>. QED BY <1>1, <1>2, <1>3, <2>1, StepFacts DEF ProcessInv
<1>5. reached \in [Server -> [Module -> Phase \cup {"none"}]]
  BY DEF ProcessInv, ProcessTypeOK
<1>6. /\ reached' \in [Server -> [Module -> Phase \cup {"none"}]]
      /\ \A s \in Server : s # Here => reached'[s] = reached[s]
      /\ \A n \in Module : n # m => reached'[Here][n] = reached[Here][n]
      /\ stage \in {"boot", "final"} => reached'[Here][m] = Doing
  BY <1>3, <1>4, <1>5
<1>7. ProcessTypeOK'
  BY <1>1, <1>2, <1>6, LoopTypes DEF ProcessInv, ProcessTypeOK, maps
<1>8. BusyInv'
  BY <1>1, <1>2 DEF ProcessInv, BusyInv
<1>9. ReachInv'
  <2>1. ASSUME NEW i \in DOMAIN Servers, i # at
        PROVE  Servers[i] \in Server /\ reached'[Servers[i]] = reached[Servers[i]]
    BY <1>3, <1>6, <2>1, ListFacts
  <2>2. stage \in {"boot", "final"} => ~FreshAt(at) /\ ~ReadyAt(at)
    <3>1. at \in Nat /\ step \in Nat /\ Len(Listed[Here]) \in Nat
      BY <1>1, <1>3, ListFacts DEF ProcessInv, ProcessTypeOK
    <3>2. ~(at > at) /\ ~(at < at)
      BY <3>1
    <3>3. stage = "boot" => ~(step <= Len(Listed[Here]))
      BY <1>4, <3>1
    <3>. QED BY <3>2, <3>3 DEF FreshAt, ReadyAt
  <2>3. stage = "loop" => reached' = reached /\ \A i : ~FreshAt(i)
    BY <1>4 DEF FreshAt
  <2>4. stage \in {"boot", "loop", "final"}
    BY <1>1 DEF InStep, Running
  <2>5. (\A i \in DOMAIN Servers : FreshAt(i) => \A n \in Module : reached[Servers[i]][n] = "none")'
    BY <1>1, <2>1, <2>2, <2>3, <2>4 DEF ProcessInv, ReachInv
  <2>6. (\A i \in DOMAIN Servers :
           ReadyAt(i) => \A n \in Loaded(Servers[i]) : reached[Servers[i]][n] = "ReadyUpdate")'
    BY <1>1, <2>1, <2>2, <2>3, <2>4 DEF ProcessInv, ReachInv
  <2>7. (stage \in {"boot", "final"} /\ at \in DOMAIN Servers =>
           \A n \in Loaded(Here) :
             reached[Here][n] = Seen(stage, Here, IF busy = "phase" /\ n \notin left
                                                  THEN step + 1 ELSE step))'
    <3>1. SUFFICES ASSUME stage \in {"boot", "final"}, NEW n \in Loaded(Here)
                   PROVE  reached'[Here][n] = Seen(stage, Here, IF n \notin left' THEN step + 1
                                                               ELSE step)
      BY <1>1 DEF Seen
    <3>2. n \in Module /\ Seen(stage, Here, step + 1) = Doing
      BY <1>4, <3>1 DEF Loaded
    <3>3. CASE n = m
      BY <1>2, <1>6, <3>1, <3>2, <3>3
    <3>4. CASE n # m
      <4>1. reached'[Here][n] = reached[Here][n] /\ (n \in left' <=> n \in left)
        BY <1>2, <1>6, <3>2, <3>4
      <4>2. reached[Here][n] = Seen(stage, Here, IF n \notin left THEN step + 1 ELSE step)
        BY <1>1, <1>3, <3>1 DEF ProcessInv, ReachInv
      <4>. QED BY <4>1, <4>2
    <3>. QED BY <3>3, <3>4
  <2>. QED BY <2>5, <2>6, <2>7 DEF ReachInv
<1>10. OwnInv'
  BY <1>1 DEF ProcessInv, OwnInv
<1>11. FreedInv'
  BY <1>1 DEF ProcessInv, FreedInv
<1>12. MapInv'
  BY <1>1, InvRight, SameRight DEF MapInv, MapsRight
<1>. QED BY <1>7, <1>8, <1>9, <1>10, <1>11, <1>12 DEF ProcessInv
-----------------------------------------------------------------------------
(* The update list when a module comes and when one goes.                  *)
LEMMA Appended ==
  ASSUME NEW S, NEW q \in Seq(S), NEW x \in S, IsInjective(q), x \notin Range(q)
  PROVE  /\ Append(q, x) \in Seq(S) /\ IsInjective(Append(q, x))
         /\ Range(Append(q, x)) = Range(q) \cup {x}
<1>1. /\ Len(q) \in Nat /\ DOMAIN q = 1 .. Len(q)
      /\ Append(q, x) \in Seq(S) /\ DOMAIN Append(q, x) = 1 .. Len(q) + 1
      /\ \A i \in 1 .. Len(q) : Append(q, x)[i] = q[i]
      /\ Append(q, x)[Len(q) + 1] = x
  OBVIOUS
<1>2. \A i \in 1 .. Len(q) + 1 : i \in 1 .. Len(q) \/ i = Len(q) + 1
  BY <1>1
<1>3. \A i \in 1 .. Len(q) : i \in 1 .. Len(q) + 1 /\ q[i] # x
  BY <1>1 DEF Range
<1>4. IsInjective(Append(q, x))
  BY <1>1, <1>2, <1>3 DEF IsInjective
<1>5. Len(q) + 1 \in 1 .. Len(q) + 1
  BY <1>1
<1>6. Range(Append(q, x)) = Range(q) \cup {x}
  BY <1>1, <1>2, <1>3, <1>5 DEF Range
<1>. QED BY <1>1, <1>4, <1>6

LEMMA Removed ==
  ASSUME NEW S, NEW q \in Seq(S), NEW i \in DOMAIN q, IsInjective(q)
  PROVE  /\ RemoveAt(q, i) \in Seq(S) /\ IsInjective(RemoveAt(q, i))
         /\ Range(RemoveAt(q, i)) = Range(q) \ {q[i]}
<1>1. /\ Len(q) \in Nat /\ DOMAIN q = 1 .. Len(q) /\ i \in 1 .. Len(q)
  OBVIOUS
<1>2. PICK A : A = SubSeq(q, 1, i - 1)
  OBVIOUS
<1>3. PICK B : B = SubSeq(q, i + 1, Len(q))
  OBVIOUS
<1>4. /\ A \in Seq(S) /\ Len(A) = i - 1
      /\ \A k \in 1 .. i - 1 : A[k] = q[k]
  <2>1. 1 \in Int /\ i - 1 \in Int /\ \A k \in 1 .. i - 1 : k \in 1 .. Len(q)
    BY <1>1
  <2>2. /\ A = [k \in 1 .. (i - 1) |-> q[k]] /\ \A k \in 1 .. (i - 1) : q[k] \in S
    BY <1>1, <1>2, <2>1
  <2>3. A \in [1 .. (i - 1) -> S] /\ i - 1 \in Nat
    BY <1>1, <2>2
  <2>4. A \in Seq(S)
    BY <2>3, SeqDef
  <2>. QED BY <2>2, <2>3, <2>4, LenProperties
<1>5. /\ B \in Seq(S) /\ Len(B) = Len(q) - i
      /\ \A k \in 1 .. Len(q) - i : B[k] = q[i + k]
  <2>0. i + 1 \in Int /\ Len(q) \in Int
    BY <1>1
  <2>1. PICK m, n : m = i + 1 /\ n = Len(q) /\ m \in Int /\ n \in Int
    BY <2>0
  <2>2. \A k \in m .. n : q[k] \in S
    BY <1>1, <2>1
  <2>3. /\ SubSeq(q, m, n) \in Seq(S)
        /\ Len(SubSeq(q, m, n)) = IF m <= n THEN n - m + 1 ELSE 0
        /\ \A k \in 1 .. n - m + 1 : SubSeq(q, m, n)[k] = q[m + k - 1]
    BY <2>1, <2>2, SubSeqProperties
  <2>4. B = SubSeq(q, m, n)
    BY <1>3, <2>1
  <2>5. /\ (IF m <= n THEN n - m + 1 ELSE 0) = Len(q) - i /\ n - m + 1 = Len(q) - i
        /\ \A k \in Int : m + k - 1 = i + k
    BY <1>1, <2>1
  <2>6. /\ SubSeq(q, m, n) \in Seq(S)
        /\ Len(SubSeq(q, m, n)) = Len(q) - i
    BY <2>3, <2>5
  <2>7. ASSUME NEW k \in 1 .. Len(q) - i PROVE SubSeq(q, m, n)[k] = q[i + k]
    <3>1. k \in 1 .. n - m + 1 /\ m + k - 1 = i + k
      BY <2>5, <1>1
    <3>. QED BY <2>3, <3>1
  <2>. QED BY <2>4, <2>6, <2>7
<1>6. PICK r : r = RemoveAt(q, i)
  OBVIOUS
<1>7. r = A \o B
  BY <1>2, <1>3, <1>6 DEF RemoveAt
<1>8. /\ r \in Seq(S) /\ DOMAIN r = 1 .. Len(q) - 1
      /\ \A k \in 1 .. i - 1 : r[k] = q[k]
      /\ \A k \in 1 .. Len(q) - i : r[(i - 1) + k] = q[i + k]
  <2>0. A \in Seq(S) /\ B \in Seq(S)
    BY <1>4, <1>5
  <2>1. /\ DOMAIN (A \o B) = 1 .. Len(A) + Len(B)
        /\ \A k \in 1 .. Len(A) : (A \o B)[k] = A[k]
        /\ \A k \in 1 .. Len(B) : (A \o B)[Len(A) + k] = B[k]
    BY <2>0, Chained
  <2>2. (i - 1) + (Len(q) - i) = Len(q) - 1
    BY <1>1
  <2>3. A \o B \in Seq(S)
    BY <1>4, <1>5
  <2>. QED BY <1>4, <1>5, <1>7, <2>1, <2>2, <2>3
<1>9. \A k \in DOMAIN r : r[k] = q[IF k < i THEN k ELSE k + 1]
  <2>1. SUFFICES ASSUME NEW k \in DOMAIN r PROVE r[k] = q[IF k < i THEN k ELSE k + 1]
    OBVIOUS
  <2>2. CASE k < i
    <3>1. k \in 1 .. i - 1
      BY <1>1, <1>8, <2>1, <2>2
    <3>. QED BY <1>8, <2>2, <3>1
  <2>3. CASE ~(k < i)
    <3>1. k - (i - 1) \in 1 .. Len(q) - i /\ (i - 1) + (k - (i - 1)) = k /\ i + (k - (i - 1)) = k + 1
      BY <1>1, <1>8, <2>1, <2>3
    <3>. QED BY <1>8, <2>3, <3>1
  <2>. QED BY <2>2, <2>3
<1>10. \A k \in DOMAIN r : (IF k < i THEN k ELSE k + 1) \in DOMAIN q \ {i}
  BY <1>1, <1>8
<1>11. \A k, l \in DOMAIN r :
         (IF k < i THEN k ELSE k + 1) = (IF l < i THEN l ELSE l + 1) => k = l
  BY <1>1, <1>8
<1>12. IsInjective(r)
  <2>1. \A a, b \in DOMAIN q : q[a] = q[b] => a = b
    BY DEF IsInjective
  <2>2. ASSUME NEW k \in DOMAIN r, NEW l \in DOMAIN r, r[k] = r[l] PROVE k = l
    BY <1>9, <1>10, <1>11, <2>1, <2>2
  <2>. QED BY <2>2 DEF IsInjective
<1>13. ASSUME NEW j \in DOMAIN q, j # i PROVE \E k \in DOMAIN r : r[k] = q[j]
  <2>1. CASE j < i
    <3>1. j \in DOMAIN r
      BY <1>1, <1>8, <2>1
    <3>. QED BY <1>9, <2>1, <3>1
  <2>2. CASE ~(j < i)
    <3>1. j - 1 \in DOMAIN r /\ ~(j - 1 < i) /\ (j - 1) + 1 = j
      BY <1>1, <1>8, <1>13, <2>2
    <3>. QED BY <1>9, <3>1
  <2>. QED BY <2>1, <2>2
<1>14. Range(r) = Range(q) \ {q[i]}
  <2>1. ASSUME NEW x \in Range(r) PROVE x \in Range(q) /\ x # q[i]
    <3>1. PICK k \in DOMAIN r : x = r[k]
      BY DEF Range
    <3>. QED BY <1>9, <1>10, <3>1 DEF Range, IsInjective
  <2>2. ASSUME NEW x \in Range(q), x # q[i] PROVE x \in Range(r)
    <3>1. PICK j \in DOMAIN q : x = q[j]
      BY DEF Range
    <3>. QED BY <1>13, <2>2, <3>1 DEF Range
  <2>. QED BY <2>1, <2>2
<1>. QED BY <1>6, <1>8, <1>12, <1>14

(* One server's maps.                                                      *)
RightAt(s) ==
  /\ IsInjective(vec[s])
  /\ Range(vec[s]) = {m \in Modules(s) : m[2] \in Updated}
  /\ \A f \in Face : map[s][f] # NoModule => map[s][f][2] = f /\ Alive(s, map[s][f])

LEMMA RightEach == MapsRight <=> \A s \in Server : RightAt(s)
BY DEF MapsRight, RightAt, FindModule

LEMMA RightEachNext == (\A s \in Server : RightAt(s)') => MapsRight'
BY DEF MapsRight, RightAt, FindModule

LEMMA RightOthers ==
  ASSUME MapsRight, NEW s \in Server, libs'[s] = libs[s], map'[s] = map[s],
         vec'[s] = vec[s], freed'[s] = freed[s]
  PROVE  RightAt(s)'
BY DEF MapsRight, RightAt, FindModule, Modules, Alive

LEMMA ServerTypes ==
  ASSUME ProcessInv, NEW s \in Server
  PROVE  /\ libs[s] \subseteq Plugin /\ map[s] \in [Face -> Module \cup {NoModule}]
         /\ vec[s] \in Seq(Module) /\ own[s] \subseteq Module /\ freed[s] \subseteq Module
         /\ Modules(s) \subseteq Module
         /\ \A m \in Modules(s) : m[2] \in Face /\ map[s][m[2]] = m /\ Alive(s, m)
<1>1. /\ libs[s] \subseteq Plugin /\ map[s] \in [Face -> Module \cup {NoModule}]
      /\ vec[s] \in Seq(Module) /\ own[s] \subseteq Module /\ freed[s] \subseteq Module
  BY DEF ProcessInv, ProcessTypeOK
<1>2. Modules(s) \subseteq Module
  BY <1>1 DEF Modules
<1>3. ASSUME NEW m \in Modules(s) PROVE m[2] \in Face /\ map[s][m[2]] = m /\ Alive(s, m)
  <2>1. PICK f \in Face : m = map[s][f] /\ m # NoModule
    BY DEF Modules
  <2>. QED BY <2>1, InvRight DEF MapsRight, FindModule
<1>. QED BY <1>1, <1>2, <1>3

LEMMA InvRegister == ASSUME ProcessInv, Register PROVE ProcessInv'
<1>1. /\ InStep /\ busy = "install" /\ next \in DOMAIN Install[Doing]
      /\ next' = next + 1 /\ UNCHANGED <<stage, at, step, busy, left>>
      /\ UNCHANGED <<reading, libs, freed, reached, loop>>
  BY DEF Register, Onward
<1>2. PICK f : f = Install[Doing][next]
  OBVIOUS
<1>3. PICK m : m = <<Doing, f>>
  OBVIOUS
<1>4. AddModule(Here, f, m) /\ own' = [own EXCEPT ![Here] = @ \cup {m}]
  BY <1>2, <1>3 DEF Register
<1>5. /\ Here \in Server /\ at \in DOMAIN Servers /\ Here = Servers[at]
      /\ stage = "boot" /\ Doing \in Plugin /\ Doing \in libs[Here]
  BY <1>1, StepFacts DEF ProcessInv, BusyInv, Here
<1>6. f \in Face /\ m \in Module /\ m[1] = Doing /\ m[2] = f /\ m # NoModule
  <2>1. <<Doing, Install[Doing][next]>> \in Module
    BY <1>1, <1>5, ListFacts
  <2>2. m \in Module /\ m[1] = Doing /\ m[2] = f
    BY <1>2, <1>3, <2>1
  <2>. QED BY <2>2, ModuleFacts
<1>7. /\ Here' = Here /\ Running' = Running /\ InStep' = InStep /\ Op' = Op /\ Doing' = Doing
      /\ \A i \in DOMAIN Servers : /\ FreshAt(i)' = FreshAt(i)
                                   /\ ReadyAt(i)' = ReadyAt(i)
                                   /\ WholeAt(i)' = WholeAt(i)
  BY <1>1, SameStep
<1>8. \A s : Loaded(s)' = Loaded(s)
  BY <1>1 DEF Loaded
<1>9. /\ own \in [Server -> SUBSET Module] /\ map \in [Server -> [Face -> Module \cup {NoModule}]]
      /\ vec \in [Server -> Seq(Module)] /\ next \in Nat \ {0}
  BY DEF ProcessInv, ProcessTypeOK
<1>10. /\ own' \in [Server -> SUBSET Module] /\ own'[Here] = own[Here] \cup {m}
       /\ \A s \in Server : s # Here => own'[s] = own[s]
  BY <1>4, <1>5, <1>6, <1>9
<1>11. ASSUME map[Here][f] = NoModule
       PROVE  /\ map' = [map EXCEPT ![Here][f] = m]
              /\ vec' = IF f \in Updated THEN [vec EXCEPT ![Here] = Append(@, m)] ELSE vec
  BY <1>4, <1>11 DEF AddModule
<1>12. ASSUME map[Here][f] # NoModule
       PROVE  map' = map /\ vec' = vec
  BY <1>4, <1>12 DEF AddModule
<1>13. /\ map' \in [Server -> [Face -> Module \cup {NoModule}]]
       /\ vec' \in [Server -> Seq(Module)]
       /\ \A s \in Server : s # Here => map'[s] = map[s] /\ vec'[s] = vec[s]
  <2>1. CASE map[Here][f] = NoModule
    <3>1. map' = [map EXCEPT ![Here][f] = m]
      BY <1>11, <2>1
    <3>2. vec' = vec \/ vec' = [vec EXCEPT ![Here] = Append(@, m)]
      BY <1>11, <2>1
    <3>3. Append(vec[Here], m) \in Seq(Module)
      BY <1>5, <1>6, <1>9
    <3>. QED BY <1>5, <1>6, <1>9, <3>1, <3>2, <3>3
  <2>2. CASE map[Here][f] # NoModule
    BY <1>9, <1>12, <2>2
  <2>. QED BY <2>1, <2>2
<1>14. ProcessTypeOK'
  BY <1>1, <1>9, <1>10, <1>13, LoopTypes DEF ProcessInv, ProcessTypeOK
<1>15. BusyInv'
  BY <1>1, <1>7 DEF ProcessInv, BusyInv
<1>16. ReachInv'
  BY <1>1, <1>7, <1>8 DEF ProcessInv, ReachInv, Seen
<1>17. OwnInv'
  <2>1. \A s \in Server : own'[s] \subseteq Loaded(s)
    BY <1>5, <1>6, <1>10 DEF ProcessInv, OwnInv, Loaded
  <2>2. ASSUME NEW s \in Server, NEW n \in Loaded(s), n \notin own'[s]
        PROVE  /\ s = Here /\ n[1] = Doing
               /\ \A j \in DOMAIN Install[Doing] : j < next + 1 => Install[Doing][j] # n[2]
    <3>1. n \notin own[s]
      BY <1>10, <2>2
    <3>2. /\ s = Here /\ n[1] = Doing
          /\ \A j \in DOMAIN Install[Doing] : j < next => Install[Doing][j] # n[2]
      BY <1>1, <2>2, <3>1 DEF ProcessInv, OwnInv
    <3>3. n # m /\ n = <<n[1], n[2]>>
      BY <1>10, <2>2, <3>2, ModuleFacts DEF Loaded
    <3>4. n[2] # f
      BY <1>3, <3>2, <3>3
    <3>5. \A j \in DOMAIN Install[Doing] : j < next + 1 => j < next \/ j = next
      BY <1>5, <1>9, ListFacts
    <3>. QED BY <1>2, <3>2, <3>4, <3>5
  <2>. QED BY <1>1, <1>7, <1>8, <2>1, <2>2 DEF OwnInv
<1>18. FreedInv'
  BY <1>1, <1>7 DEF ProcessInv, FreedInv
<1>19. MapInv'
  <2>1. MapsRight
    BY InvRight
  <2>2. ASSUME NEW s \in Server, s # Here PROVE RightAt(s)'
    BY <1>1, <1>13, <2>1, <2>2, RightOthers
  <2>0. PICK h \in Server : h = Here
    BY <1>5
  <2>3. RightAt(h)'
    <3>1. CASE map[Here][f] # NoModule
      <4>1. libs' = libs /\ map' = map /\ vec' = vec /\ freed' = freed
        BY <1>1, <1>12, <3>1
      <4>. QED BY <2>1, <4>1, RightOthers
    <3>2. CASE map[Here][f] = NoModule
      <4>1. /\ map'[Here][f] = m
            /\ \A g \in Face : g # f => map'[Here][g] = map[Here][g]
        BY <1>5, <1>6, <1>9, <1>11, <3>2
      <4>2. Modules(Here)' = Modules(Here) \cup {m}
        BY <1>6, <1>7, <3>2, <4>1 DEF Modules
      <4>3. m \notin Modules(Here)
        BY <1>5, <1>6, <3>2, ServerTypes
      <4>4. Alive(Here, m)
        <5>1. WholeAt(at)
          BY <1>5 DEF WholeAt
        <5>. QED BY <1>5, <1>6, <5>1 DEF ProcessInv, FreedInv, Alive
      <4>5. \A n : Alive(Here, n)' <=> Alive(Here, n)
        BY <1>1, <1>7 DEF Alive
      <4>6. /\ IsInjective(vec[Here]) /\ vec[Here] \in Seq(Module)
            /\ Range(vec[Here]) = {n \in Modules(Here) : n[2] \in Updated}
        BY <1>5, <1>9, <2>1 DEF MapsRight
      <4>7. /\ IsInjective(vec'[Here])
            /\ Range(vec'[Here]) = {n \in Modules(Here) \cup {m} : n[2] \in Updated}
        <5>1. CASE f \in Updated
          <6>1. vec'[Here] = Append(vec[Here], m)
            BY <1>5, <1>9, <1>11, <3>2, <5>1
          <6>2. m \notin Range(vec[Here])
            BY <4>3, <4>6
          <6>3. /\ IsInjective(Append(vec[Here], m))
                /\ Range(Append(vec[Here], m)) = Range(vec[Here]) \cup {m}
            BY <1>6, <4>6, <6>2, Appended
          <6>. QED BY <1>6, <4>6, <5>1, <6>1, <6>3
        <5>2. CASE f \notin Updated
          BY <1>6, <1>11, <3>2, <4>6, <5>2
        <5>. QED BY <5>1, <5>2
      <4>8. \A g \in Face : map'[Here][g] # NoModule =>
              map'[Here][g][2] = g /\ Alive(Here, map'[Here][g])
        BY <1>5, <1>6, <2>1, <4>1, <4>4 DEF MapsRight, FindModule
      <4>. QED BY <1>7, <2>0, <4>2, <4>5, <4>7, <4>8 DEF RightAt
    <3>. QED BY <3>1, <3>2
  <2>4. MapsRight'
    BY <2>0, <2>2, <2>3, RightEach, RightEachNext
  <2>. QED BY <1>1, <2>4 DEF MapInv, MapsRight
<1>. QED BY <1>14, <1>15, <1>16, <1>17, <1>18, <1>19 DEF ProcessInv
LEMMA InvUnregister == ASSUME ProcessInv, Unregister PROVE ProcessInv'
<1>1. /\ InStep /\ busy = "uninstall" /\ next \in DOMAIN Install[Doing]
      /\ next' = next + 1 /\ UNCHANGED <<stage, at, step, busy, left>>
      /\ UNCHANGED <<reading, libs, reached, loop>>
  BY DEF Unregister, Onward
<1>2. PICK h, f : h = Here /\ f = Install[Doing][next]
  OBVIOUS
<1>3. PICK m, gone : m = <<Doing, f>> /\ gone = map[h][f]
  OBVIOUS
<1>4. /\ RemoveModule(h, f) /\ own' = [own EXCEPT ![h] = @ \ {m}]
      /\ freed' = [freed EXCEPT ![h] = @ \cup ({gone} \ {NoModule})]
  BY <1>2, <1>3 DEF Unregister, FindModule
<1>5. /\ h \in Server /\ at \in DOMAIN Servers /\ h = Servers[at]
      /\ stage = "final" /\ step > 3 /\ Doing \in Plugin /\ Doing \in libs[h]
  BY <1>1, <1>2, StepFacts DEF ProcessInv, BusyInv, Here
<1>6. f \in Face /\ m \in Module /\ m[1] = Doing /\ m[2] = f
  <2>1. <<Doing, Install[Doing][next]>> \in Module
    BY <1>1, <1>5, ListFacts
  <2>2. m \in Module /\ m[1] = Doing /\ m[2] = f
    BY <1>2, <1>3, <2>1
  <2>. QED BY <2>2, ModuleFacts
<1>7. /\ Here' = Here /\ Running' = Running /\ InStep' = InStep /\ Op' = Op /\ Doing' = Doing
      /\ \A i \in DOMAIN Servers : /\ FreshAt(i)' = FreshAt(i)
                                   /\ ReadyAt(i)' = ReadyAt(i)
                                   /\ WholeAt(i)' = WholeAt(i)
  BY <1>1, SameStep
<1>8. \A s : Loaded(s)' = Loaded(s)
  BY <1>1 DEF Loaded
<1>9. /\ own \in [Server -> SUBSET Module] /\ map \in [Server -> [Face -> Module \cup {NoModule}]]
      /\ vec \in [Server -> Seq(Module)] /\ freed \in [Server -> SUBSET Module]
      /\ next \in Nat \ {0}
  BY DEF ProcessInv, ProcessTypeOK
<1>10. /\ own' \in [Server -> SUBSET Module] /\ own'[h] = own[h] \ {m}
       /\ \A s \in Server : s # h => own'[s] = own[s]
  BY <1>4, <1>5, <1>9
<1>11. /\ freed' \in [Server -> SUBSET Module] /\ freed'[h] = freed[h] \cup ({gone} \ {NoModule})
       /\ \A s \in Server : s # h => freed'[s] = freed[s]
  BY <1>3, <1>4, <1>5, <1>6, <1>9
<1>12. /\ IsInjective(vec[h]) /\ vec[h] \in Seq(Module)
       /\ Range(vec[h]) = {n \in Modules(h) : n[2] \in Updated}
  BY <1>5, <1>9, InvRight DEF MapsRight
<1>13. \A n \in Modules(h) : n \in Module /\ n[2] \in Face /\ map[h][n[2]] = n /\ Alive(h, n)
  BY <1>5, ServerTypes
<1>14. ASSUME gone = NoModule PROVE map' = map /\ vec' = vec /\ freed' = freed
  <2>1. map' = map /\ vec' = vec
    BY <1>3, <1>4, <1>14 DEF RemoveModule
  <2>2. freed'[h] = freed[h]
    BY <1>11, <1>14
  <2>3. freed' = freed
    BY <1>9, <1>11, <2>2
  <2>. QED BY <2>1, <2>3
<1>15. ASSUME gone # NoModule
       PROVE  /\ map' \in [Server -> [Face -> Module \cup {NoModule}]]
              /\ map'[h][f] = NoModule
              /\ \A g \in Face : g # f => map'[h][g] = map[h][g]
              /\ \A s \in Server : s # h => map'[s] = map[s]
              /\ gone \in Modules(h) /\ gone[2] = f /\ gone \in Module
  <2>1. map' = [map EXCEPT ![h][f] = NoModule]
    BY <1>3, <1>4, <1>15 DEF RemoveModule
  <2>2. gone \in Modules(h)
    BY <1>3, <1>6, <1>15 DEF Modules
  <2>3. gone[2] = f
    BY <1>3, <1>5, <1>6, <1>15, InvRight DEF MapsRight, FindModule
  <2>. QED BY <1>5, <1>6, <1>9, <1>13, <2>1, <2>2, <2>3
<1>16. ASSUME gone # NoModule
       PROVE  /\ vec' \in [Server -> Seq(Module)] /\ IsInjective(vec'[h])
              /\ Range(vec'[h]) = Range(vec[h]) \ {gone}
              /\ \A s \in Server : s # h => vec'[s] = vec[s]
  <2>1. vec' = IF \E i \in DOMAIN vec[h] : vec[h][i][2] = f
               THEN [vec EXCEPT ![h] = RemoveAt(@, CHOOSE i \in DOMAIN @ : @[i][2] = f)]
               ELSE vec
    BY <1>3, <1>4, <1>16 DEF RemoveModule
  <2>2. \A i \in DOMAIN vec[h] : vec[h][i] \in Modules(h)
    BY <1>12 DEF Range
  <2>3. CASE \E i \in DOMAIN vec[h] : vec[h][i][2] = f
    <3>1. PICK i \in DOMAIN vec[h] :
            /\ vec[h][i][2] = f
            /\ vec' = [vec EXCEPT ![h] = RemoveAt(@, i)]
      BY <1>5, <1>9, <2>1, <2>3
    <3>2. vec[h][i] = gone
      BY <1>3, <1>13, <2>2, <3>1
    <3>3. /\ RemoveAt(vec[h], i) \in Seq(Module) /\ IsInjective(RemoveAt(vec[h], i))
          /\ Range(RemoveAt(vec[h], i)) = Range(vec[h]) \ {vec[h][i]}
      BY <1>12, <3>1, Removed
    <3>4. vec'[h] = RemoveAt(vec[h], i) /\ \A s \in Server : s # h => vec'[s] = vec[s]
      BY <1>5, <1>9, <3>1
    <3>5. vec' \in [Server -> Seq(Module)]
      BY <1>5, <1>9, <3>1, <3>3
    <3>. QED BY <3>2, <3>3, <3>4, <3>5
  <2>4. CASE ~ \E i \in DOMAIN vec[h] : vec[h][i][2] = f
    <3>1. gone \notin Range(vec[h])
      BY <1>15, <1>16, <2>4 DEF Range
    <3>. QED BY <1>9, <1>12, <2>1, <2>4, <3>1
  <2>. QED BY <2>3, <2>4
<1>17. /\ map' \in [Server -> [Face -> Module \cup {NoModule}]] /\ vec' \in [Server -> Seq(Module)]
       /\ \A s \in Server : s # h => map'[s] = map[s] /\ vec'[s] = vec[s]
  BY <1>9, <1>14, <1>15, <1>16
<1>18. ProcessTypeOK'
  BY <1>1, <1>9, <1>10, <1>11, <1>17, LoopTypes DEF ProcessInv, ProcessTypeOK
<1>19. BusyInv'
  <2>1. left = {}
    BY <1>1 DEF ProcessInv, BusyInv
  <2>. QED BY <1>1, <1>7, <2>1 DEF ProcessInv, BusyInv
<1>20. ReachInv'
  BY <1>1, <1>7, <1>8 DEF ProcessInv, ReachInv, Seen
<1>21. \A j \in DOMAIN Install[Doing] : j < next + 1 => j < next \/ j = next
  BY <1>5, <1>9, ListFacts
<1>22. OwnInv'
  <2>1. \A s \in Server : own'[s] \subseteq Loaded(s)
    BY <1>10 DEF ProcessInv, OwnInv
  <2>2. ASSUME NEW s \in Server, NEW n \in Loaded(s), n \notin own'[s]
        PROVE  s = h /\ n[1] = Doing
    <3>1. CASE n \in own[s]
      BY <1>6, <1>10, <2>2, <3>1
    <3>2. CASE n \notin own[s]
      BY <1>1, <1>2, <2>2, <3>2 DEF ProcessInv, OwnInv
    <3>. QED BY <3>1, <3>2
  <2>3. ASSUME NEW j \in DOMAIN Install[Doing], j < next + 1
        PROVE  <<Doing, Install[Doing][j]>> \notin own'[h]
    <3>1. CASE j = next
      BY <1>2, <1>3, <1>10, <3>1
    <3>2. CASE j < next
      BY <1>1, <1>2, <1>10, <3>2 DEF ProcessInv, OwnInv
    <3>. QED BY <1>21, <2>3, <3>1, <3>2
  <2>. QED BY <1>1, <1>2, <1>7, <1>8, <2>1, <2>2, <2>3 DEF OwnInv
<1>23. FreedInv'
  <2>1. ~WholeAt(at)
    BY <1>5 DEF WholeAt, ProcessInv, ProcessTypeOK
  <2>2. \A i \in DOMAIN Servers : i # at => Servers[i] # h /\ Servers[i] \in Server
    BY <1>5, ListFacts
  <2>. QED BY <1>7, <1>11, <2>1, <2>2 DEF ProcessInv, FreedInv
<1>24. MapInv'
  <2>1. MapsRight
    BY InvRight
  <2>2. ASSUME NEW s \in Server, s # h PROVE RightAt(s)'
    BY <1>1, <1>11, <1>17, <2>1, <2>2, RightOthers
  <2>3. RightAt(h)'
    <3>1. CASE gone = NoModule
      <4>1. libs' = libs /\ map' = map /\ vec' = vec /\ freed' = freed
        BY <1>1, <1>14, <3>1
      <4>. QED BY <1>5, <2>1, <4>1, RightOthers
    <3>2. CASE gone # NoModule
      <4>1. Modules(h)' = Modules(h) \ {gone}
        <5>1. ASSUME NEW n \in Modules(h)' PROVE n \in Modules(h) /\ n # gone
          <6>1. PICK g \in Face : n = map'[h][g] /\ n # NoModule
            BY DEF Modules
          <6>2. g # f /\ n = map[h][g]
            BY <1>15, <3>2, <6>1
          <6>3. n[2] = g
            BY <1>5, <2>1, <6>1, <6>2 DEF MapsRight, FindModule
          <6>. QED BY <1>15, <3>2, <6>1, <6>2, <6>3 DEF Modules
        <5>2. \A n \in Modules(h) : n # gone => n[2] # f
          BY <1>3, <1>13
        <5>3. \A n \in Modules(h) : n # gone => n \in Modules(h)'
          BY <1>13, <1>15, <3>2, <5>2, ModuleFacts DEF Modules
        <5>. QED BY <5>1, <5>3
      <4>2. \A n : Alive(h, n) /\ n # gone => Alive(h, n)'
        BY <1>1, <1>11 DEF Alive
      <4>3. (\A g \in Face : map[h][g] # NoModule => map[h][g][2] = g /\ Alive(h, map[h][g]))'
        <5>1. SUFFICES ASSUME NEW g \in Face, NEW n, n = map'[h][g], n # NoModule
                       PROVE  n[2] = g /\ Alive(h, n)'
          OBVIOUS
        <5>2. g # f /\ n = map[h][g]
          BY <1>15, <3>2, <5>1
        <5>3. n[2] = g /\ Alive(h, n)
          BY <1>5, <2>1, <5>1, <5>2 DEF MapsRight, FindModule
        <5>. QED BY <1>15, <3>2, <4>2, <5>2, <5>3
      <4>. QED BY <1>12, <1>16, <3>2, <4>1, <4>3 DEF RightAt
    <3>. QED BY <3>1, <3>2
  <2>4. MapsRight'
    BY <2>2, <2>3, RightEachNext
  <2>5. ASSUME NEW j \in DOMAIN Install[Doing], j < next + 1
        PROVE  map'[h][Install[Doing][j]] = NoModule
    <3>1. Install[Doing][j] \in Face
      BY <1>5, ListFacts
    <3>2. CASE j = next
      BY <1>2, <1>3, <1>14, <1>15, <3>2
    <3>3. CASE j < next
      <4>1. map[h][Install[Doing][j]] = NoModule
        BY <1>1, <1>2, <3>3 DEF ProcessInv, MapInv
      <4>. QED BY <1>14, <1>15, <3>1, <4>1
    <3>. QED BY <1>21, <2>5, <3>2, <3>3
  <2>. QED BY <1>1, <1>2, <1>7, <2>4, <2>5 DEF MapInv, MapsRight
<1>. QED BY <1>18, <1>19, <1>20, <1>22, <1>23, <1>24 DEF ProcessInv

LEMMA InvUninstalled == ASSUME ProcessInv, Uninstalled PROVE ProcessInv'
<1>1. /\ InStep /\ busy = "uninstall" /\ next \notin DOMAIN Install[Doing] /\ Over
      /\ UNCHANGED <<reading, map, vec, own, freed, reached, loop>>
      /\ libs' = [libs EXCEPT ![Here] = @ \ {Doing}]
  BY DEF Uninstalled
<1>2. /\ stage' = stage /\ at' = at /\ step' = step + 1 /\ busy' = "no" /\ next' = 1 /\ left' = {}
  BY <1>1 DEF Over
<1>3. PICK h : h = Here
  OBVIOUS
<1>4. /\ h \in Server /\ at \in DOMAIN Servers /\ h = Servers[at] /\ step \in Nat
      /\ stage = "final" /\ step > 3 /\ Doing \in Plugin /\ reading = <<>>
      /\ Seen(stage, h, step) = Seen(stage, h, step + 1)
  BY <1>1, <1>3, StepFacts DEF ProcessInv, BusyInv, Here
<1>5. Here' = h
  BY <1>2, <1>3 DEF Here
<1>6. libs \in [Server -> SUBSET Plugin]
  BY DEF ProcessInv, ProcessTypeOK
<1>7. /\ libs' \in [Server -> SUBSET Plugin] /\ libs'[h] = libs[h] \ {Doing}
      /\ \A s \in Server : s # h => libs'[s] = libs[s]
  BY <1>1, <1>3, <1>4, <1>6
<1>8. \A j \in DOMAIN Install[Doing] : j < next
  BY <1>1, <1>4, ListFacts DEF ProcessInv, ProcessTypeOK
<1>9. \A n \in Module : n[1] = Doing => n \notin own[h] /\ map[h][n[2]] = NoModule
  <2>1. SUFFICES ASSUME NEW n \in Module, n[1] = Doing
                 PROVE  n \notin own[h] /\ map[h][n[2]] = NoModule
    OBVIOUS
  <2>2. PICK j \in DOMAIN Install[Doing] : Install[Doing][j] = n[2]
    BY <2>1, ModuleFacts
  <2>3. n = <<Doing, Install[Doing][j]>>
    BY <2>1, <2>2, ModuleFacts
  <2>4. <<Doing, Install[Doing][j]>> \notin own[h] /\ map[h][Install[Doing][j]] = NoModule
    BY <1>1, <1>3, <1>8 DEF ProcessInv, OwnInv, MapInv
  <2>. QED BY <2>2, <2>3, <2>4
<1>10. /\ \A s \in Server : Loaded(s)' \subseteq Loaded(s)
       /\ \A n \in Loaded(h)' : n[1] # Doing
       /\ \A s \in Server : \A n \in Loaded(s) : s # h \/ n[1] # Doing => n \in Loaded(s)'
  BY <1>7 DEF Loaded
<1>11. ProcessTypeOK'
  BY <1>1, <1>2, <1>7, <1>4, LoopTypes DEF ProcessInv, ProcessTypeOK
<1>12. BusyInv'
  BY <1>1, <1>2, <1>4 DEF ProcessInv, BusyInv
<1>13. ReachInv'
  <2>1. \A i \in DOMAIN Servers : ~FreshAt(i)' /\ (ReadyAt(i)' => ReadyAt(i))
    BY <1>2, <1>4 DEF FreshAt, ReadyAt
  <2>2. \A n \in Loaded(h) : reached[h][n] = Seen(stage, h, step)
    BY <1>1, <1>3, <1>4, AtSeen
  <2>3. (\A i \in DOMAIN Servers :
           ReadyAt(i) => \A n \in Loaded(Servers[i]) : reached[Servers[i]][n] = "ReadyUpdate")'
    BY <1>1, <1>10, <2>1, ListFacts DEF ProcessInv, ReachInv
  <2>4. (stage \in {"boot", "final"} /\ at \in DOMAIN Servers =>
           \A n \in Loaded(Here) :
             reached[Here][n] = Seen(stage, Here, IF busy = "phase" /\ n \notin left
                                                  THEN step + 1 ELSE step))'
    <3>1. \A n \in Loaded(h)' : reached'[h][n] = Seen(stage, h, step + 1)
      BY <1>1, <1>4, <1>10, <2>2
    <3>. QED BY <1>2, <1>5, <3>1 DEF Seen
  <2>. QED BY <2>1, <2>3, <2>4 DEF ReachInv
<1>14. OwnInv'
  <2>1. \A s \in Server : own[s] \subseteq Loaded(s) /\ own[s] \subseteq Module
    BY DEF ProcessInv, OwnInv, ProcessTypeOK
  <2>2. \A s \in Server : own[s] \subseteq Loaded(s)'
    BY <1>9, <1>10, <2>1
  <2>3. ASSUME NEW s \in Server, NEW n \in Loaded(s)' PROVE n \in own[s]
    <3>1. n \in Loaded(s) /\ ~(s = h /\ n[1] = Doing)
      BY <1>10, <2>3
    <3>. QED BY <1>3, <3>1 DEF ProcessInv, OwnInv
  <2>. QED BY <1>1, <1>2, <2>2, <2>3 DEF OwnInv
<1>15. FreedInv'
  <2>1. \A i \in DOMAIN Servers : WholeAt(i)' => WholeAt(i)
    BY <1>2, <1>4 DEF WholeAt
  <2>. QED BY <1>1, <2>1 DEF ProcessInv, FreedInv
<1>16. MapInv'
  <2>1. MapsRight
    BY InvRight
  <2>2. ASSUME NEW s \in Server, s # h PROVE RightAt(s)'
    BY <1>1, <1>7, <2>1, <2>2, RightOthers
  <2>3. RightAt(h)'
    <3>1. Modules(h)' = Modules(h)
      BY <1>1 DEF Modules
    <3>2. ASSUME NEW g \in Face, map[h][g] # NoModule
          PROVE  map[h][g][2] = g /\ Alive(h, map[h][g])'
      <4>1. map[h][g][2] = g /\ Alive(h, map[h][g])
        BY <1>4, <2>1, <3>2 DEF MapsRight, FindModule
      <4>2. map[h][g][1] # Doing
        BY <1>9, <3>2, <4>1 DEF Alive
      <4>. QED BY <1>1, <1>7, <4>1, <4>2 DEF Alive
    <3>3. IsInjective(vec[h]) /\ Range(vec[h]) = {n \in Modules(h) : n[2] \in Updated}
      BY <1>4, <2>1 DEF MapsRight
    <3>. QED BY <1>1, <3>1, <3>2, <3>3 DEF RightAt
  <2>4. MapsRight'
    BY <2>2, <2>3, RightEachNext
  <2>. QED BY <1>2, <2>4 DEF MapInv, MapsRight
<1>. QED BY <1>11, <1>12, <1>13, <1>14, <1>15, <1>16 DEF ProcessInv
-----------------------------------------------------------------------------
LEMMA InitInv == ProcessInit => ProcessInv
<1>. SUFFICES ASSUME ProcessInit PROVE ProcessInv
  OBVIOUS
<1>. USE DEF ProcessInit
<1>1. \A s \in Server : Loaded(s) = {} /\ Modules(s) = {}
  BY DEF Loaded, Modules
<1>2. ProcessTypeOK
  <2>1. at \in 0 .. Len(Servers) + 1
    BY ListFacts
  <2>2. \A f \in Face : NoModule \in Module \cup {NoModule}
    OBVIOUS
  <2>3. \A s \in Server : <<>> \in Seq(Module)
    OBVIOUS
  <2>4. asks \in 0 .. MaxReload
    BY ProcessAssumption
  <2>5. /\ libs \in [Server -> SUBSET Plugin] /\ own \in [Server -> SUBSET Module]
        /\ freed \in [Server -> SUBSET Module]
    OBVIOUS
  <2>6. map \in [Server -> [Face -> Module \cup {NoModule}]]
    BY <2>2
  <2>7. vec \in [Server -> Seq(Module)]
    BY <2>3
  <2>8. reached \in [Server -> [Module -> Phase \cup {"none"}]]
    OBVIOUS
  <2>. HIDE DEF ProcessInit
  <2>9. /\ stage = "boot" /\ step = 1 /\ next = 1 /\ busy = "no" /\ left = {}
        /\ quit = FALSE /\ reload = FALSE /\ state = FALSE /\ asked = {}
    BY DEF ProcessInit
  <2>10. /\ step \in Nat \ {0} /\ next \in Nat \ {0}
    BY <2>9
  <2>12. left \subseteq Module /\ asked \subseteq Server
    BY <2>9
  <2>13. quit \in BOOLEAN /\ reload \in BOOLEAN /\ state \in BOOLEAN
    BY <2>9
  <2>11. /\ stage \in {"boot", "loop", "final", "ended", "stuck", "dead"}
         /\ busy \in {"no", "install", "phase", "update", "uninstall"}
    BY <2>9
  <2>. QED BY <2>1, <2>4, <2>5, <2>6, <2>7, <2>8, <2>10, <2>11, <2>12, <2>13 DEF ProcessTypeOK
<1>3. BusyInv
  BY DEF BusyInv
<1>4. ReachInv
  <2>1. ASSUME NEW i \in DOMAIN Servers PROVE ~ReadyAt(i) /\ Servers[i] \in Server
    BY ListFacts DEF ReadyAt
  <2>2. at \in DOMAIN Servers => Here \in Server
    BY ListFacts DEF Here
  <2>. QED BY <1>1, <2>1, <2>2 DEF ReachInv
<1>5. OwnInv
  BY <1>1 DEF OwnInv
<1>6. FreedInv
  BY ListFacts DEF FreedInv
<1>7. MapInv
  <2>1. \A s \in Server : IsInjective(vec[s]) /\ Range(vec[s]) = {}
    BY DEF IsInjective, Range
  <2>. QED BY <1>1, <2>1 DEF MapInv, FindModule
<1>. QED BY <1>2, <1>3, <1>4, <1>5, <1>6, <1>7 DEF ProcessInv

LEMMA NextInv == ProcessInv /\ [ProcessNext]_procVars => ProcessInv'
<1>1. ASSUME ProcessInv, MainThread PROVE ProcessInv'
  BY <1>1, InvLoad, InvHalts, InvRegister, InvInstalled, InvStartPhase, InvCall, InvCalled,
     InvStill, InvNextServer, InvBooted, InvTurns, InvUpdate, InvUpdateModule,
     InvReloadServer, InvUnload, InvUnregister, InvUninstalled
  DEF MainThread
<1>2. ASSUME ProcessInv, UNCHANGED procVars PROVE ProcessInv'
  <2>1. UNCHANGED <<thread, maps, reached, loop, reading>>
    BY <1>2 DEF procVars
  <2>. QED BY <1>2, <2>1, StandStill, LoopTypes DEF ProcessInv
<1>. QED BY <1>1, <1>2, InvStill DEF ProcessNext

(* The modules of a phase or a reload are not deleted yet.                 *)
LEMMA PendingAlive ==
  ASSUME ProcessInv, NEW m \in Pending
  PROVE  Alive(Here, m)
<1>1. CASE m \in left
  <2>1. /\ InStep /\ busy = "phase" /\ Op \in {"phase", "reload"} /\ m \in own[Here]
    BY <1>1 DEF ProcessInv, BusyInv
  <2>2. /\ at \in DOMAIN Servers /\ Here \in Server /\ Here = Servers[at]
        /\ stage \in {"boot", "loop"} \/ (stage = "final" /\ step \in 1 .. 3)
    BY <2>1, StepFacts DEF ProcessInv, Here
  <2>3. WholeAt(at)
    BY <2>2 DEF WholeAt
  <2>4. freed[Here] = {}
    BY <2>2, <2>3 DEF ProcessInv, FreedInv
  <2>5. m \in Loaded(Here)
    BY <2>1, <2>2 DEF ProcessInv, OwnInv
  <2>. QED BY <2>4, <2>5 DEF Loaded, Alive
<1>2. CASE m \notin left
  <2>1. PICK i \in DOMAIN vec[Here] : InStep /\ m = vec[Here][i]
    BY <1>2 DEF Pending, Calling
  <2>2. Here \in Server
    BY <2>1, StepFacts DEF ProcessInv
  <2>3. m \in Modules(Here)
    BY <2>1, <2>2, InvRight DEF MapsRight, Range
  <2>. QED BY <2>2, <2>3, ServerTypes
<1>. QED BY <1>1, <1>2

LEMMA InvLive == ProcessInv => ModulesLive
BY PendingAlive DEF ProcessInv, MapInv, ModulesLive

LEMMA InvBarrier == ProcessInv => PhaseBarrier
<1>. SUFFICES ASSUME ProcessInv PROVE PhaseBarrier
  OBVIOUS
<1>1. ASSUME Calling, NEW m \in Loaded(Here)
      PROVE  /\ reached[Here][m] \in {Before(Doing)} \cup ({Doing} \cap Phase)
             /\ m \in left => reached[Here][m] = Before(Doing)
  <2>1. /\ InStep /\ busy \in {"phase", "update"} /\ Here \in Server /\ at \in DOMAIN Servers
        /\ Here = Servers[at]
    BY <1>1, StepFacts DEF ProcessInv, Calling, Here
  <2>2. CASE Op = "phase"
    <3>1. /\ Doing \in Phase /\ stage \in {"boot", "final"} /\ busy = "phase"
          /\ Seen(stage, Here, step) = Before(Doing) /\ Seen(stage, Here, step + 1) = Doing
      BY <2>1, <2>2, StepFacts DEF ProcessInv, BusyInv
    <3>2. reached[Here][m] = Seen(stage, Here, IF m \notin left THEN step + 1 ELSE step)
      BY <1>1, <2>1, <3>1 DEF ProcessInv, ReachInv
    <3>. QED BY <3>1, <3>2
  <2>3. CASE Op # "phase"
    <3>1. stage = "loop" /\ Doing \in {"Update", "Reload"}
      BY <2>1, <2>3, StepFacts DEF ProcessInv, BusyInv
    <3>2. reached[Here][m] = "ReadyUpdate"
      BY <1>1, <2>1, <3>1 DEF ProcessInv, ReachInv, ReadyAt
    <3>. QED BY <3>1, <3>2 DEF Before
  <2>. QED BY <2>2, <2>3
<1>2. ASSUME Calling PROVE left \subseteq Loaded(Here)
  BY <1>2, StepFacts DEF Calling, ProcessInv, BusyInv, OwnInv
<1>3. ASSUME InStep, Steps(Here)[step].op = "unload", NEW m \in Loaded(Here)
      PROVE  reached[Here][m] = "Finalize"
  <2>1. /\ Op = "unload" /\ busy # "phase"
    BY <1>3 DEF Op, ProcessInv, BusyInv
  <2>2. stage = "final" /\ Seen(stage, Here, step) = "Finalize"
    BY <1>3, <2>1, StepFacts DEF ProcessInv
  <2>. QED BY <1>3, <2>1, <2>2, AtSeen
<1>. QED BY <1>1, <1>2, <1>3 DEF PhaseBarrier

LEMMA ProcessAlways == ProcessSpec => []ProcessInv
BY InitInv, NextInv, PTL DEF ProcessSpec

(* In every process, for every configuration, set of plugins and interfaces *)
(* they share: what the manager can still call exists and is found once     *)
(* (PluginManager).                                                         *)
THEOREM OnlyTheLiving == ProcessSpec => []ModulesLive
BY ProcessAlways, InvLive, PTL

(* In every process no module is ahead of the phase of its server, nor      *)
(* behind, in whatever order they are called (PluginServer, PluginManager). *)
THEOREM PhasesKeepOrder == ProcessSpec => []PhaseBarrier
BY ProcessAlways, InvBarrier, PTL

=============================================================================
