--------------------------- MODULE CallbackProofs ---------------------------
(***************************************************************************)
(* Proofs about the parts that call others back: NetClient, the links to   *)
(* other nodes, Web, the requests that a coroutine answers when it has     *)
(* asked another node, and Callbacks, events and schedules.  They share no *)
(* state, only the lemmas about sequences and recursive functions.         *)
(*                                                                         *)
(* NetClient, for any set of peers, any assignment of types and any delay: *)
(* type correctness, the three safety invariants and the spacing of        *)
(* retries, all from one inductive invariant.                              *)
(***************************************************************************)
EXTENDS NetClient, Web, Callbacks, FiniteSetTheorems, SequenceTheorems,
        WellFoundedInduction, NaturalsInduction, TLAPS

(* A peer outside the map has never been given a Net. *)
UnknownInv == \A n \in Node \ known : state[n] = "DISCONNECT" /\ net[n] = "none"

(* OnDisConnected looks the type up before it removes a peer: a type with  *)
(* a member is always found.                                               *)
IndexInv ==
  /\ IndexedIffConnected
  /\ \A t \in Type : suit[t] # {} => t \in typed

(* Where the walk of ProcessUpdate stands and what it has done. *)
FrameInv ==
  /\ visited \subseteq known
  /\ phase = "switch" => at \in known /\ cursor = at
  /\ phase = "poll" => /\ at \in known
                       /\ cursor \in {at, End}
                       /\ state[at] # "RECONNECT"
                       /\ at \in visited
                       /\ clobbered \/ cursor = at
  /\ phase \in {"switch", "poll"} /\ ~clobbered => \A k \in known : k < at => k \in visited
  /\ phase = "connect" /\ ~clobbered => known \subseteq visited

(* The age the retry test reads is the age of the loss. *)
RetryInv ==
  /\ \A n \in known : state[n] \in {"DISCONNECT", "RECONNECT"} => elapsed[n] = sinceLoss[n]
  /\ phase = "poll" /\ state[at] = "DISCONNECT" => elapsed[at] = 0

IInv == TypeOK /\ UnknownInv /\ NetMatchesState /\ IndexInv /\ FrameInv /\ RetryInv

-----------------------------------------------------------------------------

(* Saturated ages stay in their range, and equal ages stay equal. *)
LEMMA OlderRange ==
  ASSUME NEW age \in 0 .. Delay + 1
  PROVE  Older(age) \in 0 .. Delay + 1
BY DelayAssumption DEF Older

LEMMA ConnectOutcomeRange == ConnectOutcomes \subseteq {"wait", "inert"}
BY DEF ConnectOutcomes

LEMMA InitIInv == Init => IInv
<1>. SUFFICES ASSUME Init PROVE IInv
  OBVIOUS
<1>1. TypeOK
  <2>1. pending \in Seq(Node)
    BY DEF Init
  <2>2. Delay + 1 \in 0 .. Delay + 1
    BY DelayAssumption
  <2>. QED BY <2>1, <2>2 DEF Init, TypeOK, States, NetStates, TcpStates, Phases
<1>2. UnknownInv /\ NetMatchesState
  BY DEF Init, UnknownInv, NetMatchesState
<1>3. IndexInv
  BY DEF Init, IndexInv, IndexedIffConnected
<1>4. FrameInv /\ RetryInv
  BY DEF Init, FrameInv, RetryInv
<1>. QED BY <1>1, <1>2, <1>3, <1>4 DEF IInv

(* One move of the walk, from a peer that has been visited: the next peer  *)
(* of the map, or the end once no larger key is left.                      *)
LEMMA WalkOn ==
  ASSUME TypeOK, NextElement,
         at \in known, cursor \in {at, End}, clobbered \/ cursor = at,
         NEW seen, at \in seen,
         ~clobbered => \A k \in known : k < at => k \in seen
  PROVE  /\ at' \in known \cup {End}
         /\ cursor' = at'
         /\ phase' \in {"switch", "connect"}
         /\ phase' = "switch" => at' \in known
         /\ phase' = "switch" /\ ~clobbered => \A k \in known : k < at' => k \in seen
         /\ phase' = "connect" /\ ~clobbered => known \subseteq seen
<1>1. CASE cursor = End
  <2>1. clobbered
    BY <1>1, NodeAssumption DEF End, TypeOK
  <2>2. cursor' = End /\ at' = End /\ phase' = "connect"
    BY <1>1 DEF NextElement, WalkTo
  <2>. QED BY <2>1, <2>2
<1>2. CASE cursor # End
  <2>1. cursor = at
    BY <1>2
  <2>2. PICK j \in known \cup {End} : Follows(at, j) /\ WalkTo(j)
    BY <1>2, <2>1 DEF NextElement
  <2>3. known \subseteq Nat
    BY NodeAssumption DEF TypeOK
  <2>4. CASE j = End
    <3>1. \A k \in known : ~(at < k)
      BY <2>2, <2>3, <2>4 DEF Follows, End
    <3>2. \A k \in known : k < at \/ k = at
      BY <3>1, <2>3
    <3>3. cursor' = End /\ at' = End /\ phase' = "connect"
      BY <2>2, <2>4 DEF WalkTo
    <3>. QED BY <3>2, <3>3
  <2>5. CASE j # End
    <3>1. j \in known /\ at < j /\ \A k \in known : ~(at < k /\ k < j)
      BY <2>2, <2>5 DEF Follows
    <3>2. \A k \in known : k < j => k < at \/ k = at
      BY <3>1, <2>3
    <3>3. cursor' = j /\ at' = j /\ phase' = "switch"
      BY <2>2, <2>5 DEF WalkTo
    <3>. QED BY <3>1, <3>2, <3>3
  <2>. QED BY <2>4, <2>5
<1>. QED BY <1>1, <1>2

LEMMA ProcessUpdateIInv == IInv /\ ProcessUpdate => IInv'
<1>. SUFFICES ASSUME IInv, ProcessUpdate PROVE IInv'
  OBVIOUS
<1>. USE DEF ProcessUpdate, index, env
<1>1. PICK j \in known \cup {End} : Follows(End, j) /\ WalkTo(j)
  BY DEF FirstElement
<1>2. known \subseteq Nat /\ End = 0 /\ \A k \in known : k > 0
  BY NodeAssumption DEF IInv, TypeOK, End
<1>3. TypeOK'
  BY <1>1 DEF IInv, TypeOK, WalkTo, Phases
<1>4. FrameInv'
  <2>1. CASE j = End
    <3>1. known = {}
      BY <1>1, <1>2, <2>1 DEF Follows
    <3>. QED BY <1>1, <2>1, <3>1 DEF WalkTo, FrameInv
  <2>2. CASE j # End
    <3>1. j \in known /\ \A k \in known : ~(End < k /\ k < j)
      BY <1>1, <2>2 DEF Follows
    <3>2. \A k \in known : ~(k < j)
      BY <3>1, <1>2
    <3>. QED BY <1>1, <2>2, <3>1, <3>2 DEF WalkTo, FrameInv
  <2>. QED BY <2>1, <2>2
<1>5. RetryInv'
  BY <1>1 DEF IInv, RetryInv, WalkTo
<1>6. UnknownInv' /\ NetMatchesState' /\ IndexInv'
  BY DEF IInv, UnknownInv, NetMatchesState, IndexInv, IndexedIffConnected
<1>. QED BY <1>3, <1>4, <1>5, <1>6 DEF IInv

(* The frame facts after a step that ends at NextElement. *)
LEMMA WalkFrame ==
  ASSUME IInv, NextElement, known' = known, clobbered' = clobbered,
         at \in known, cursor \in {at, End}, clobbered \/ cursor = at,
         at \in visited', visited' \subseteq known, visited \subseteq visited',
         phase \in {"switch", "poll"}
  PROVE  FrameInv' /\ phase' \in {"switch", "connect"} /\ at' \in known' \cup {End} /\ cursor' = at'
<1>1. ~clobbered => \A k \in known : k < at => k \in visited'
  BY DEF IInv, FrameInv
<1>2. /\ at' \in known \cup {End}
      /\ cursor' = at'
      /\ phase' \in {"switch", "connect"}
      /\ phase' = "switch" => at' \in known
      /\ phase' = "switch" /\ ~clobbered => \A k \in known : k < at' => k \in visited'
      /\ phase' = "connect" /\ ~clobbered => known \subseteq visited'
  BY <1>1, WalkOn DEF IInv
<1>. QED BY <1>2 DEF FrameInv

LEMMA SwitchIInv == IInv /\ Switch => IInv'
<1>. SUFFICES ASSUME IInv, Switch PROVE IInv'
  OBVIOUS
<1>. USE DEF Switch, index, env
<1>1. at \in known /\ at \in Node /\ cursor = at /\ visited' \subseteq known /\ phase = "switch"
  BY DEF IInv, TypeOK, FrameInv
<1>2. CASE CaseDisconnect(at)
  <2>. USE <1>2 DEF CaseDisconnect
  <2>1. net[at] = "broken"
    BY <1>1 DEF IInv, NetMatchesState
  <2>2. /\ net' = [net EXCEPT ![at] = "none"]
        /\ tcp' = [tcp EXCEPT ![at] = "no"]
        /\ state' = [state EXCEPT ![at] = "RECONNECT"]
    BY <2>1 DEF DropNet, ScheduleRetry
  <2>3. FrameInv' /\ phase' \in {"switch", "connect"} /\ at' \in known \cup {End} /\ cursor' = at'
    BY <1>1, WalkFrame
  <2>4. TypeOK'
    BY <1>1, <2>2, <2>3 DEF IInv, TypeOK, States, NetStates, TcpStates, Phases
  <2>5. UnknownInv' /\ NetMatchesState'
    BY <1>1, <2>2 DEF IInv, TypeOK, UnknownInv, NetMatchesState
  <2>6. IndexInv'
    BY <1>1, <2>2 DEF IInv, TypeOK, IndexInv, IndexedIffConnected
  <2>7. RetryInv'
    BY <1>1, <2>2, <2>3 DEF IInv, TypeOK, RetryInv
  <2>. QED BY <2>3, <2>4, <2>5, <2>6, <2>7 DEF IInv
<1>3. CASE CaseReconnect(at)
  <2>. USE <1>3 DEF CaseReconnect
  <2>1. FrameInv' /\ phase' \in {"switch", "connect"} /\ at' \in known \cup {End} /\ cursor' = at'
    BY <1>1, WalkFrame
  <2>2. CASE elapsed[at] > Delay
    <3>1. PICK outcome \in {"wait", "inert"} :
            /\ net' = [net EXCEPT ![at] = outcome]
            /\ tcp' = [tcp EXCEPT ![at] = IF outcome = "wait" THEN "syn" ELSE "no"]
      BY <2>2, ConnectOutcomeRange DEF Connect
    <3>2. state' = [state EXCEPT ![at] = "CONNECTING"]
      BY <2>2
    <3>3. TypeOK'
      BY <1>1, <2>1, <3>1, <3>2 DEF IInv, TypeOK, States, NetStates, TcpStates, Phases
    <3>4. UnknownInv' /\ NetMatchesState'
      BY <1>1, <3>1, <3>2 DEF IInv, TypeOK, UnknownInv, NetMatchesState
    <3>5. IndexInv'
      BY <1>1, <3>2 DEF IInv, TypeOK, IndexInv, IndexedIffConnected
    <3>6. RetryInv'
      BY <1>1, <2>1, <3>2 DEF IInv, TypeOK, RetryInv
    <3>. QED BY <2>1, <3>3, <3>4, <3>5, <3>6 DEF IInv
  <2>3. CASE ~(elapsed[at] > Delay)
    <3>1. UNCHANGED <<net, tcp, state>>
      BY <2>3
    <3>2. TypeOK'
      BY <1>1, <2>1, <3>1 DEF IInv, TypeOK, Phases
    <3>3. UnknownInv' /\ NetMatchesState' /\ IndexInv' /\ RetryInv'
      BY <2>1, <3>1 DEF IInv, UnknownInv, NetMatchesState, IndexInv, IndexedIffConnected, RetryInv
    <3>. QED BY <2>1, <3>2, <3>3 DEF IInv
  <2>. QED BY <2>2, <2>3
<1>4. CASE CasePoll(at)
  <2>. USE <1>4 DEF CasePoll
  <2>1. net[at] # "none"
    BY <1>1 DEF IInv, NetMatchesState
  <2>2. /\ phase' = "poll"
        /\ wasNormal' \in BOOLEAN
        /\ UNCHANGED <<at, cursor, net, tcp, state>>
    BY <2>1
  <2>3. TypeOK'
    BY <1>1, <2>2 DEF IInv, TypeOK, Phases
  <2>4. FrameInv' /\ RetryInv'
    BY <1>1, <2>2 DEF IInv, FrameInv, RetryInv
  <2>5. UnknownInv' /\ NetMatchesState' /\ IndexInv'
    BY <2>2 DEF IInv, UnknownInv, NetMatchesState, IndexInv, IndexedIffConnected
  <2>. QED BY <2>3, <2>4, <2>5 DEF IInv
<1>. QED BY <1>2, <1>3, <1>4

LEMMA OnConnectedIInv == IInv /\ OnConnected => IInv'
<1>. SUFFICES ASSUME IInv, OnConnected PROVE IInv'
  OBVIOUS
<1>. USE DEF OnConnected, GetServerNetInfo, index, env
<1>1. at \in known /\ at \in Node /\ TypeOf[at] \in Type
  BY TypeAssumption DEF IInv, TypeOK, FrameInv
<1>2. TypeOK'
  BY <1>1 DEF IInv, TypeOK, States, NetStates
<1>3. UnknownInv' /\ NetMatchesState'
  BY <1>1 DEF IInv, TypeOK, UnknownInv, NetMatchesState
<1>4. IndexInv'
  BY <1>1 DEF IInv, TypeOK, IndexInv, IndexedIffConnected
<1>5. FrameInv' /\ RetryInv'
  BY <1>1 DEF IInv, TypeOK, FrameInv, RetryInv
<1>. QED BY <1>2, <1>3, <1>4, <1>5 DEF IInv

LEMMA OnDisConnectedIInv == IInv /\ OnDisConnected => IInv'
<1>. SUFFICES ASSUME IInv, OnDisConnected PROVE IInv'
  OBVIOUS
<1>. USE DEF OnDisConnected, GetServerNetInfo, NoteLossTime, LeaveIndex, index, env
<1>1. at \in known /\ at \in Node /\ TypeOf[at] \in Type
  BY TypeAssumption DEF IInv, TypeOK, FrameInv
<1>2. 0 \in 0 .. Delay + 1
  BY DelayAssumption
<1>3. TypeOK'
  BY <1>1, <1>2 DEF IInv, TypeOK, States, NetStates
<1>4. UnknownInv' /\ NetMatchesState'
  BY <1>1 DEF IInv, TypeOK, UnknownInv, NetMatchesState
<1>5. IndexInv'
  <2>1. suit' = [suit EXCEPT ![TypeOf[at]] = @ \ {at}]
    <3>1. CASE TypeOf[at] \in typed
      BY <3>1
    <3>2. CASE TypeOf[at] \notin typed
      <4>1. suit[TypeOf[at]] = {}
        BY <1>1, <3>2 DEF IInv, IndexInv
      <4>. QED BY <1>1, <3>2, <4>1 DEF IInv, TypeOK
    <3>. QED BY <3>1, <3>2
  <2>. QED BY <1>1, <2>1 DEF IInv, TypeOK, IndexInv, IndexedIffConnected
<1>6. FrameInv' /\ RetryInv'
  BY <1>1 DEF IInv, TypeOK, FrameInv, RetryInv
<1>. QED BY <1>3, <1>4, <1>5, <1>6 DEF IInv

LEMMA EndPollIInv == IInv /\ EndPoll => IInv'
<1>. SUFFICES ASSUME IInv, EndPoll PROVE IInv'
  OBVIOUS
<1>. USE DEF EndPoll, index, env
<1>1. at \in known /\ at \in Node /\ 0 \in 0 .. Delay + 1
  BY DelayAssumption DEF IInv, TypeOK, FrameInv
<1>2. FrameInv' /\ phase' \in {"switch", "connect"} /\ at' \in known \cup {End} /\ cursor' = at'
  <2>1. at \in visited /\ cursor \in {at, End} /\ (clobbered \/ cursor = at) /\ visited \subseteq known
    BY DEF IInv, FrameInv
  <2>. QED BY <1>1, <2>1, WalkFrame
<1>3. TypeOK'
  BY <1>1, <1>2 DEF IInv, TypeOK, Phases
<1>4. RetryInv'
  <2>1. state[at] # "RECONNECT" /\ (state[at] = "DISCONNECT" => elapsed[at] = 0)
    BY DEF IInv, FrameInv, RetryInv
  <2>. QED BY <1>1, <1>2, <2>1 DEF IInv, TypeOK, RetryInv
<1>5. UnknownInv' /\ NetMatchesState' /\ IndexInv'
  BY DEF IInv, UnknownInv, NetMatchesState, IndexInv, IndexedIffConnected
<1>. QED BY <1>2, <1>3, <1>4, <1>5 DEF IInv

LEMMA ProcessNetConnectIInv == IInv /\ ProcessNetConnect => IInv'
<1>. SUFFICES ASSUME IInv, ProcessNetConnect PROVE IInv'
  OBVIOUS
<1>. USE DEF ProcessNetConnect, index, env
<1>1. Queued \subseteq Node
  BY DEF IInv, TypeOK, Queued
<1>2. PICK opened \in SUBSET (Queued \ known) :
        /\ net' = [n \in Node |-> IF n \notin Queued \ known THEN net[n]
                                  ELSE IF n \in opened THEN "wait" ELSE "inert"]
        /\ tcp' = [n \in Node |-> IF n \in opened THEN "syn" ELSE tcp[n]]
        /\ state' = [n \in Node |-> IF n \in Queued \ known THEN "CONNECTING" ELSE state[n]]
        /\ elapsed' = [n \in Node |-> IF n \in Queued \ known THEN 0 ELSE elapsed[n]]
  OBVIOUS
<1>3. 0 \in 0 .. Delay + 1
  BY DelayAssumption
<1>4. TypeOK'
  <2>1. known' \subseteq Node
    BY <1>1 DEF IInv, TypeOK
  <2>2. pending' \in Seq(Node)
    OBVIOUS
  <2>. QED BY <1>2, <1>3, <2>1, <2>2 DEF IInv, TypeOK, States, NetStates, TcpStates, Phases
<1>5. UnknownInv' /\ NetMatchesState'
  BY <1>1, <1>2 DEF IInv, TypeOK, UnknownInv, NetMatchesState
<1>6. IndexInv'
  BY <1>1, <1>2 DEF IInv, TypeOK, UnknownInv, IndexInv, IndexedIffConnected
<1>7. FrameInv' /\ RetryInv'
  BY <1>1, <1>2 DEF IInv, TypeOK, FrameInv, RetryInv
<1>. QED BY <1>4, <1>5, <1>6, <1>7 DEF IInv

(* The clock does not move inside a poll, and keeps equal ages equal. *)
LEMMA TickIInv == IInv /\ Tick => IInv'
<1>. SUFFICES ASSUME IInv, Tick PROVE IInv'
  OBVIOUS
<1>. USE DEF Tick, frame, index, env
<1>1. TypeOK'
  BY OlderRange DEF IInv, TypeOK
<1>2. RetryInv'
  BY DEF IInv, TypeOK, RetryInv
<1>3. UnknownInv' /\ NetMatchesState' /\ IndexInv' /\ FrameInv'
  BY DEF IInv, UnknownInv, NetMatchesState, IndexInv, IndexedIffConnected, FrameInv
<1>. QED BY <1>1, <1>2, <1>3 DEF IInv

(* The calls of the other modules and the steps of the peers. *)
LEMMA OthersIInv ==
  ASSUME IInv, NEW n \in Node, NEW t \in Type,
         \/ AddNode(n) \/ GetRandomNodeID(t) \/ SendToAllNode
         \/ PeerAnswers(n) \/ PeerDown(n) \/ PeerUp(n)
  PROVE  IInv'
<1>1. CASE AddNode(n)
  <2>1. pending' \in Seq(Node)
    BY <1>1 DEF AddNode, IInv, TypeOK
  <2>. QED BY <1>1, <2>1 DEF AddNode, frame, index, env, IInv, TypeOK, UnknownInv,
         NetMatchesState, IndexInv, IndexedIffConnected, FrameInv, RetryInv
<1>2. CASE GetRandomNodeID(t)
  BY <1>2 DEF GetRandomNodeID, frame, index, env, IInv, TypeOK, UnknownInv,
       NetMatchesState, IndexInv, IndexedIffConnected, FrameInv, RetryInv
<1>3. CASE SendToAllNode
  <2>1. cursor' = End /\ clobbered' = TRUE /\ phase = "poll" /\ UNCHANGED <<known, phase, at, visited, state>>
    BY <1>3 DEF SendToAllNode
  <2>2. FrameInv'
    BY <2>1 DEF IInv, FrameInv
  <2>. QED BY <1>3, <2>2 DEF SendToAllNode, index, env, IInv, TypeOK, UnknownInv,
         NetMatchesState, IndexInv, IndexedIffConnected, RetryInv
<1>4. CASE PeerAnswers(n) \/ PeerDown(n) \/ PeerUp(n)
  <2>1. tcp' \in [Node -> TcpStates] /\ reach' \subseteq Node
    BY <1>4 DEF PeerAnswers, PeerDown, PeerUp, IInv, TypeOK, TcpStates
  <2>2. UNCHANGED <<known, state, net, elapsed, index, pending, frame, crashed, sinceLoss>>
    BY <1>4 DEF PeerAnswers, PeerDown, PeerUp
  <2>. QED BY <2>1, <2>2 DEF frame, index, IInv, TypeOK, UnknownInv,
         NetMatchesState, IndexInv, IndexedIffConnected, FrameInv, RetryInv
<1>. QED BY <1>1, <1>2, <1>3, <1>4

LEMMA NextIInv == IInv /\ [Next]_vars => IInv'
<1>. SUFFICES ASSUME IInv, [Next]_vars PROVE IInv'
  OBVIOUS
<1>1. CASE Main
  BY <1>1, ProcessUpdateIInv, SwitchIInv, OnConnectedIInv, OnDisConnectedIInv, EndPollIInv,
     ProcessNetConnectIInv DEF Main
<1>2. CASE Tick
  BY <1>2, TickIInv
<1>3. CASE SendToAllNode
  <2>1. at \in Node /\ TypeOf[at] \in Type
    BY <1>3, TypeAssumption DEF SendToAllNode, IInv, TypeOK, FrameInv
  <2>. QED BY <1>3, <2>1, OthersIInv
<1>4. ASSUME NEW n \in Node, AddNode(n) \/ PeerAnswers(n) \/ PeerDown(n) \/ PeerUp(n)
      PROVE  IInv'
  <2>1. TypeOf[n] \in Type
    BY TypeAssumption
  <2>. QED BY <1>4, <2>1, OthersIInv
<1>5. ASSUME NEW t \in Type, GetRandomNodeID(t)
      PROVE  IInv'
  BY <1>5 DEF GetRandomNodeID, frame, index, env, IInv, TypeOK, UnknownInv,
       NetMatchesState, IndexInv, IndexedIffConnected, FrameInv, RetryInv
<1>6. CASE UNCHANGED vars
  BY <1>6 DEF vars, frame, index, env, IInv, TypeOK, UnknownInv, NetMatchesState, IndexInv,
       IndexedIffConnected, FrameInv, RetryInv
<1>7. \/ Main \/ Tick \/ SendToAllNode
      \/ \E n \in Node : AddNode(n) \/ PeerAnswers(n) \/ PeerDown(n) \/ PeerUp(n)
      \/ \E t \in Type : GetRandomNodeID(t)
      \/ UNCHANGED vars
  BY Zenon DEF Next
<1>. QED BY <1>1, <1>2, <1>3, <1>4, <1>5, <1>6, <1>7

-----------------------------------------------------------------------------

(* The inductive invariant holds in every behaviour. *)
THEOREM Invariance == Spec => []IInv
BY InitIInv, NextIInv, PTL DEF Spec

(* Every variable keeps its type, for any peers, types and delay. *)
THEOREM TypeCorrect == Spec => []TypeOK
<1>1. IInv => TypeOK
  BY DEF IInv
<1>. QED BY Invariance, <1>1, PTL

(* The index of usable peers holds exactly the connected ones: OnConnected *)
(* and OnDisConnected are its only writers and each moves the state too.   *)
THEOREM IndexCorrect == Spec => []IndexedIffConnected
<1>1. IInv => IndexedIffConnected
  BY DEF IInv, IndexInv
<1>. QED BY Invariance, <1>1, PTL

(* ConnectData::state and the Net under it agree in every state, between   *)
(* any two callbacks and any two frames.                                   *)
THEOREM NetFollowsState == Spec => []NetMatchesState
<1>1. IInv => NetMatchesState
  BY DEF IInv
<1>. QED BY Invariance, <1>1, PTL

LEMMA SendsFit == TypeOK /\ IndexedIffConnected /\ NetMatchesState => SendsAgree
<1>. SUFFICES ASSUME TypeOK, IndexedIffConnected, NetMatchesState PROVE SendsAgree
  OBVIOUS
<1>1. ASSUME NEW n \in known
      PROVE  /\ IsConnected(n) <=> Working(n)
             /\ SendByID(n) <=> IsConnected(n) \/ state[n] = "RECONNECT"
  BY DEF NetMatchesState, IsConnected, Working, SendByID
<1>2. ASSUME NEW t \in Type, NEW n \in RandomNodeIDs(t) \ {0} PROVE SendByID(n) /\ Working(n)
  <2>1. n \in suit[t] /\ n \in Node
    BY DEF RandomNodeIDs, TypeOK
  <2>2. n \in known /\ state[n] = "NORMAL"
    BY <2>1 DEF IndexedIffConnected
  <2>. QED BY <1>1, <2>2 DEF IsConnected
<1>. QED BY <1>1, <1>2 DEF SendsAgree

(* The links never part from their index and their connections, nor what a *)
(* sender is told of them.                                                 *)
THEOREM LinksStayTrue == Spec => []LinksAgree
<1>1. IInv => LinksAgree
  BY SendsFit DEF IInv, IndexInv, LinksAgree
<1>. QED BY Invariance, <1>1, PTL

(* A frame whose callbacks left the shared cursor alone polls every peer,  *)
(* however many there are: the walk's own calls of GetServerNetInfo give   *)
(* the cursor back where they found it.                                    *)
THEOREM FrameComplete == Spec => []FrameVisitsAll
<1>1. IInv => FrameVisitsAll
  BY DEF IInv, FrameInv, FrameVisitsAll
<1>. QED BY Invariance, <1>1, PTL

(* No step but the RECONNECT case of ProcessUpdate gives a Net to a peer   *)
(* that had one before, and it does so only after the whole delay.         *)
THEOREM RetriesSpaced == Spec => RetryAfterDelay
<1> DEFINE Late == \A n \in known : net[n] = "none" /\ net'[n] # "none" => sinceLoss[n] > Delay
<1>1. IInv /\ [Next]_vars => [Late]_vars
  <2>. SUFFICES ASSUME IInv, Next, NEW n \in known, net[n] = "none", net'[n] # "none"
               PROVE  sinceLoss[n] > Delay
    BY Zenon
  <2>1. n \in Node /\ state[n] = "RECONNECT" /\ elapsed[n] = sinceLoss[n]
    BY DEF IInv, TypeOK, NetMatchesState, RetryInv
  <2>2. net' # net
    BY <2>1
  <2>3. Switch \/ OnConnected \/ OnDisConnected \/ ProcessNetConnect
    BY <2>2 DEF Next, Main, ProcessUpdate, EndPoll, SendToAllNode, Tick, AddNode, GetRandomNodeID,
         PeerAnswers, PeerDown, PeerUp, env
  <2>4. ~OnConnected /\ ~OnDisConnected
    BY <2>1 DEF OnConnected, OnDisConnected, IInv, TypeOK
  <2>5. ~ProcessNetConnect
    BY <2>1 DEF ProcessNetConnect
  <2>6. Switch
    BY <2>3, <2>4, <2>5
  <2>7. CASE at # n
    BY <2>1, <2>2, <2>6, <2>7 DEF Switch, CaseDisconnect, CaseReconnect, CasePoll, Connect,
         DropNet, IInv, TypeOK
  <2>8. CASE at = n
    BY <2>1, <2>2, <2>6, <2>8 DEF Switch, CaseDisconnect, CaseReconnect, CasePoll
  <2>. QED BY <2>7, <2>8
<1>2. Spec => [][Late]_vars
  BY Invariance, <1>1, PTL DEF Spec
<1>. QED BY <1>2 DEF RetryAfterDelay

-----------------------------------------------------------------------------
(***************************************************************************)
(* Web.  The objects of the HTTP server, the coroutines that hold them and *)
(* the clients they answer, for any number of requests, of coroutines and  *)
(* any size of a batch: type correctness and AnsweredRight, OwnAnswer.     *)
(***************************************************************************)

(* Among: a recursive definition has a value at every place. *)
AmongFrom(s, S, g) ==
  g = [n \in 0 .. Len(s) |-> IF n = 0 THEN <<>>
                             ELSE IF s[n] \in S THEN Append(g[n - 1], s[n]) ELSE g[n - 1]]

(* A set of numbers with an element has a least one.                       *)
LEMMA LeastOf ==
  ASSUME NEW S, S \subseteq Nat, S # {}
  PROVE  \E n \in S : \A m \in S : n <= m
<1>. DEFINE R == {p \in Nat \X Nat : p[1] < p[2]}
<1>1. IsWellFoundedOn(R, Nat)
  BY NatLessThanWellFounded, SMT DEF OpToRel
<1>2. \A n, m \in Nat : m < n => <<m, n>> \in R
  OBVIOUS
<1>. HIDE DEF R
<1>3. PICK n \in S : \A m \in S : ~ (<<m, n>> \in R)
  BY <1>1, WFMin
<1>4. ASSUME NEW m \in S PROVE n <= m
  <2>1. m \in Nat /\ n \in Nat
    OBVIOUS
  <2>2. ~(m < n)
    BY <2>1, <1>2, <1>3
  <2>. QED BY <2>1, <2>2
<1>. QED BY <1>4

(* What holds at 0 and goes on from each number below m to the next holds  *)
(* up to m: said for a set of numbers. *)
LEMMA UpTo ==
  ASSUME NEW m \in Nat, NEW P, 0 \in P,
         \A n \in 0 .. m : n # 0 /\ n - 1 \in P => n \in P
  PROVE  0 .. m \subseteq P
<1>. DEFINE Q == {n \in 0 .. m : n \notin P}
<1>1. SUFFICES ASSUME Q # {} PROVE FALSE
  OBVIOUS
<1>2. PICK n \in Q : \A k \in Q : n <= k
  <2>1. Q \subseteq Nat
    OBVIOUS
  <2>. HIDE DEF Q
  <2>. QED BY <1>1, <2>1, LeastOf
<1>3. n # 0 /\ n \in 0 .. m /\ n - 1 \in 0 .. m
  BY <1>2
<1>4. n - 1 \notin Q
  BY <1>2, <1>3
<1>. QED BY <1>2, <1>3, <1>4

(* There is such a function: from each place the next one is got.          *)
LEMMA AmongExists ==
  ASSUME NEW s, NEW S, Len(s) \in Nat
  PROVE  \E g : AmongFrom(s, S, g)
<1>. DEFINE Part(g, k) == g = [n \in 0 .. k |->
               IF n = 0 THEN <<>> ELSE IF s[n] \in S THEN Append(g[n - 1], s[n]) ELSE g[n - 1]]
            P == {k \in 0 .. Len(s) : \E g : Part(g, k)}
<1>1. 0 \in P
  <2>. DEFINE g == [n \in 0 .. 0 |-> <<>>]
  <2>1. Part(g, 0)
    OBVIOUS
  <2>2. \E f : Part(f, 0)
    <3>. HIDE DEF g, Part
    <3>. QED BY <2>1
  <2>. HIDE DEF g, Part
  <2>. QED BY <2>2
<1>2. ASSUME NEW n \in 0 .. Len(s), n # 0, n - 1 \in P PROVE n \in P
  <2>1. PICK g : Part(g, n - 1)
    BY <1>2
  <2>. DEFINE h == [i \in 0 .. n |-> IF i < n THEN g[i]
                      ELSE IF s[n] \in S THEN Append(g[n - 1], s[n]) ELSE g[n - 1]]
  <2>2. \A i \in 0 .. n - 1 : g[i] = IF i = 0 THEN <<>> ELSE IF s[i] \in S THEN Append(g[i - 1], s[i]) ELSE g[i - 1]
    BY <2>1
  <2>3. \A i \in 0 .. n : h[i] = IF i = 0 THEN <<>> ELSE IF s[i] \in S THEN Append(h[i - 1], s[i]) ELSE h[i - 1]
    <3>. TAKE i \in 0 .. n
    <3>1. CASE i = n
      BY <3>1, <1>2
    <3>2. CASE i < n
      BY <3>2, <2>2, <1>2
    <3>. QED BY <3>1, <3>2
  <2>. HIDE DEF h
  <2>4. h = [i \in 0 .. n |-> h[i]]
    BY DEF h
  <2>5. Part(h, n)
    BY <2>3, <2>4
  <2>. QED BY <2>5
<1>. HIDE DEF P
<1>3. 0 .. Len(s) \subseteq P
  BY <1>1, <1>2, UpTo
<1>. QED BY <1>3 DEF P, AmongFrom

(* Among is its last value.                                                *)
LEMMA AmongIs ==
  ASSUME NEW s, NEW S, Len(s) \in Nat
  PROVE  \E g : AmongFrom(s, S, g) /\ Among(s, S) = g[Len(s)]
<1>. DEFINE g == CHOOSE g : AmongFrom(s, S, g)
<1>1. AmongFrom(s, S, g)
  BY AmongExists
<1>2. Among(s, S) = g[Len(s)]
  BY DEF Among, AmongFrom
<1>. QED BY <1>1, <1>2

(* Among keeps the elements of s that are in S, all of them and no others, *)
(* and none twice.                                                         *)
LEMMA AmongRight ==
  ASSUME NEW T, NEW s \in Seq(T), NEW S
  PROVE  /\ Among(s, S) \in Seq(T)
         /\ \A i \in 1 .. Len(Among(s, S)) :
              Among(s, S)[i] \in S /\ \E j \in 1 .. Len(s) : s[j] = Among(s, S)[i]
         /\ \A j \in 1 .. Len(s) : s[j] \in S =>
              \E i \in 1 .. Len(Among(s, S)) : Among(s, S)[i] = s[j]
         /\ IsInjective(s) => IsInjective(Among(s, S))
<1>. DEFINE Good(a, n) ==
              /\ a \in Seq(T)
              /\ \A i \in 1 .. Len(a) : a[i] \in S /\ \E j \in 1 .. n : s[j] = a[i]
              /\ \A j \in 1 .. n : s[j] \in S => \E i \in 1 .. Len(a) : a[i] = s[j]
              /\ IsInjective(s) => \A i, j \in 1 .. Len(a) : a[i] = a[j] => i = j
<1>0. Len(s) \in Nat /\ DOMAIN s = 1 .. Len(s) /\ \A j \in 1 .. Len(s) : s[j] \in T
  OBVIOUS
<1>1. PICK g : AmongFrom(s, S, g) /\ Among(s, S) = g[Len(s)]
  BY <1>0, AmongIs
<1>2. \A n \in 0 .. Len(s) : g[n] = IF n = 0 THEN <<>>
                                     ELSE IF s[n] \in S THEN Append(g[n - 1], s[n]) ELSE g[n - 1]
  BY <1>1 DEF AmongFrom
<1>. DEFINE P == {n \in 0 .. Len(s) : Good(g[n], n)}
<1>3. 0 \in P
  <2>1. g[0] = <<>>
    BY <1>0, <1>2
  <2>2. Good(<<>>, 0)
    OBVIOUS
  <2>. HIDE DEF Good
  <2>. QED BY <1>0, <2>1, <2>2
<1>4. ASSUME NEW n \in 0 .. Len(s), n # 0, n - 1 \in P PROVE n \in P
  <2>. DEFINE b == g[n - 1]
              a == g[n]
  <2>1. Good(b, n - 1)
    BY <1>4
  <2>2. CASE s[n] \notin S
    <3>1. a = b
      BY <1>2, <1>4, <2>2
    <3>. HIDE DEF a, b
    <3>2. /\ \A j \in 1 .. n : j = n \/ j \in 1 .. n - 1
          /\ \A j \in 1 .. n - 1 : j \in 1 .. n
      BY <1>4, <1>0
    <3>3. Good(b, n)
      BY <2>1, <2>2, <3>2
    <3>. QED BY <3>1, <3>3 DEF a
  <2>3. CASE s[n] \in S
    <3>1. a = Append(b, s[n])
      BY <1>2, <1>4, <2>3
    <3>. HIDE DEF a, b
    <3>. DEFINE m == Len(b)
    <3>2. /\ b \in Seq(T) /\ s[n] \in T /\ m \in Nat
          /\ a \in Seq(T) /\ Len(a) = m + 1 /\ a[m + 1] = s[n] /\ \A i \in 1 .. m : a[i] = b[i]
      BY <2>1, <3>1, <1>0, <1>4
    <3>3. ASSUME NEW i \in 1 .. Len(a)
          PROVE  a[i] \in S /\ \E j \in 1 .. n : s[j] = a[i]
      <4>. HIDE DEF m
      <4>1. CASE i = m + 1
        <5>1. n \in 1 .. n
          BY <1>4
        <5>. QED BY <4>1, <5>1, <3>2, <2>3
      <4>2. CASE i \in 1 .. m
        <5>1. PICK j \in 1 .. n - 1 : s[j] = b[i]
          BY <4>2, <2>1 DEF m
        <5>2. j \in 1 .. n
          BY <1>4
        <5>. QED BY <4>2, <5>1, <5>2, <3>2, <2>1 DEF m
      <4>. QED BY <4>1, <4>2, <3>2
    <3>4. ASSUME NEW j \in 1 .. n, s[j] \in S
          PROVE  \E i \in 1 .. Len(a) : a[i] = s[j]
      <4>. HIDE DEF m
      <4>1. CASE j = n
        BY <4>1, <3>2
      <4>2. CASE j # n
        <5>1. j \in 1 .. n - 1
          BY <4>2, <1>4, <1>0
        <5>2. PICK i \in 1 .. m : b[i] = s[j]
          BY <5>1, <2>1, <3>4 DEF m
        <5>. QED BY <5>2, <3>2
      <4>. QED BY <4>1, <4>2
    <3>5. ASSUME IsInjective(s), NEW i \in 1 .. Len(a), NEW j \in 1 .. Len(a), a[i] = a[j]
          PROVE  i = j
      <4>0. \A k \in 1 .. m : a[k] # s[n]
        <5>. SUFFICES ASSUME NEW k \in 1 .. m PROVE b[k] # s[n]
          BY <3>2
        <5>1. PICK l \in 1 .. n - 1 : s[l] = b[k]
          BY <2>1
        <5>2. l \in DOMAIN s /\ n \in DOMAIN s /\ l # n
          BY <1>0, <1>4
        <5>. QED BY <5>1, <5>2, <3>5 DEF IsInjective
      <4>. HIDE DEF m
      <4>1. \A k \in 1 .. Len(a) : k = m + 1 \/ k \in 1 .. m
        BY <3>2
      <4>2. CASE i \in 1 .. m /\ j \in 1 .. m
        BY <4>2, <3>2, <2>1, <3>5 DEF m
      <4>. QED BY <4>0, <4>1, <4>2, <3>2, <3>5
    <3>6. Good(a, n)
      BY <3>2, <3>3, <3>4, <3>5
    <3>. QED BY <3>6 DEF a
  <2>. QED BY <2>2, <2>3
<1>. HIDE DEF P
<1>5. Len(s) \in P
  BY <1>0, <1>3, <1>4, UpTo
<1>6. Good(Among(s, S), Len(s))
  BY <1>1, <1>5 DEF P
<1>7. Good(Among(s, S), Len(s)) => DOMAIN Among(s, S) = 1 .. Len(Among(s, S))
  OBVIOUS
<1>. QED BY <1>6, <1>7 DEF IsInjective

(* The coroutines and what each holds: an address is in the list once, a   *)
(* client is served by one of them.                                        *)
CoroutineInv ==
  /\ IsInjective(coroutines_)
  /\ \A f \in Living : coro[f].object \in 1 .. mIndex /\ coro[f].client \in Clients
  /\ \A f, g \in Living : coro[f].client = coro[g].client => f = g

(* Numbers are given once: no object, answer or question is of a client    *)
(* that has not come yet.                                                  *)
NumberInv ==
  /\ Len(asked) <= MaxRequest /\ last_req_id_ <= Len(asked)
  /\ \A o \in 1 .. mIndex : req[o] <= Len(asked)
  /\ \A r \in 1 .. MaxRequest :
       /\ r \notin Clients => answers[r] = <<>>
       /\ \A i \in DOMAIN answers[r] : answers[r][i].of \in Clients

(* Until an object goes back twice, the one a waiting coroutine holds is   *)
(* its alone, is not in the pool, and stands for its client, who has no    *)
(* answer yet.                                                             *)
Undone == {f \in Living : ~coro[f].done}
HeldInv ==
  ~doubled =>
    /\ \A f, g \in Undone : coro[f].object = coro[g].object => f = g
    /\ \A f \in Undone :
         /\ coro[f].object \notin Range(mxHttpRequestPool)
         /\ req[coro[f].object] = coro[f].client
         /\ answers[coro[f].client] = <<>>

WebInv ==
  /\ WebTypeOK /\ IsInjective(mlHttpObject)
  /\ CoroutineInv /\ NumberInv
  /\ HeldInv /\ ObjectsExclusive /\ AnsweredOnce /\ OwnAnswer

-----------------------------------------------------------------------------
(* Sequences: what is appended, and what is left of one without its head.  *)
LEMMA AppendRange ==
  ASSUME NEW T, NEW s \in Seq(T), NEW x
  PROVE  /\ Range(Append(s, x)) = Range(s) \cup {x}
         /\ IsInjective(s) /\ x \notin Range(s) => IsInjective(Append(s, x))
<1>. DEFINE n == Len(s)
            a == Append(s, x)
<1>1. /\ n \in Nat /\ DOMAIN s = 1 .. n /\ DOMAIN a = 1 .. n + 1
      /\ a[n + 1] = x /\ \A i \in 1 .. n : a[i] = s[i]
  OBVIOUS
<1>. HIDE DEF a, n
<1>2. Range(a) = Range(s) \cup {x}
  <2>1. \A i \in 1 .. n + 1 : i \in 1 .. n \/ i = n + 1
    BY <1>1
  <2>2. 1 .. n \subseteq 1 .. n + 1 /\ n + 1 \in 1 .. n + 1
    BY <1>1
  <2>. QED BY <1>1, <2>1, <2>2 DEF Range
<1>3. ASSUME IsInjective(s), x \notin Range(s), NEW i \in 1 .. n + 1, NEW j \in 1 .. n + 1, a[i] = a[j]
      PROVE  i = j
  <2>1. \A k \in 1 .. n + 1 : k \in 1 .. n \/ k = n + 1
    BY <1>1
  <2>2. \A k \in 1 .. n : s[k] # x
    BY <1>1, <1>3 DEF Range
  <2>. QED BY <1>1, <1>3, <2>1, <2>2 DEF IsInjective
<1>. QED BY <1>1, <1>2, <1>3 DEF a, IsInjective

(* What a sequence made of two holds, and when it holds nothing twice.     *)
LEMMA ConcatRange ==
  ASSUME NEW T, NEW s \in Seq(T), NEW t \in Seq(T)
  PROVE  /\ Range(s \o t) = Range(s) \cup Range(t)
         /\ IsInjective(s) /\ IsInjective(t) /\ Range(s) \cap Range(t) = {} => IsInjective(s \o t)
<1>. DEFINE n == Len(s)
            m == Len(t)
            a == s \o t
<1>1. /\ n \in Nat /\ m \in Nat /\ DOMAIN s = 1 .. n /\ DOMAIN t = 1 .. m /\ DOMAIN a = 1 .. n + m
      /\ \A i \in 1 .. n : a[i] = s[i]
      /\ \A i \in n + 1 .. n + m : i - n \in 1 .. m /\ a[i] = t[i - n]
  OBVIOUS
<1>. HIDE DEF a, n, m
<1>2. \A i \in 1 .. n + m : i \in 1 .. n \/ i \in n + 1 .. n + m
  BY <1>1
<1>3. Range(a) = Range(s) \cup Range(t)
  <2>1. \A i \in 1 .. n : i \in 1 .. n + m
    BY <1>1
  <2>2. ASSUME NEW i \in 1 .. m PROVE i + n \in 1 .. n + m /\ a[i + n] = t[i]
    <3>1. i + n \in n + 1 .. n + m /\ (i + n) - n = i
      BY <1>1
    <3>2. a[i + n] = t[(i + n) - n]
      BY <3>1, <1>1
    <3>. QED BY <1>1, <3>1, <3>2
  <2>3. ASSUME NEW v \in Range(a) PROVE v \in Range(s) \cup Range(t)
    BY <1>1, <1>2 DEF Range
  <2>4. ASSUME NEW v \in Range(s) PROVE v \in Range(a)
    BY <1>1, <2>1 DEF Range
  <2>5. ASSUME NEW v \in Range(t) PROVE v \in Range(a)
    <3>1. PICK i \in 1 .. m : t[i] = v
      BY <1>1 DEF Range
    <3>. QED BY <3>1, <2>2, <1>1 DEF Range
  <2>. QED BY <2>3, <2>4, <2>5
<1>4. ASSUME IsInjective(s), IsInjective(t), Range(s) \cap Range(t) = {},
             NEW i \in 1 .. n + m, NEW j \in 1 .. n + m, a[i] = a[j]
      PROVE  i = j
  <2>1. CASE i \in 1 .. n /\ j \in 1 .. n
    BY <2>1, <1>1, <1>4 DEF IsInjective
  <2>2. CASE i \in n + 1 .. n + m /\ j \in n + 1 .. n + m
    <3>1. i - n = j - n
      BY <2>2, <1>1, <1>4 DEF IsInjective
    <3>. QED BY <3>1, <1>1
  <2>3. \A k \in 1 .. n : a[k] \in Range(s)
    BY <1>1 DEF Range
  <2>4. \A k \in n + 1 .. n + m : a[k] \in Range(t)
    BY <1>1 DEF Range
  <2>. QED BY <1>2, <1>4, <2>1, <2>2, <2>3, <2>4
<1>. QED BY <1>1, <1>3, <1>4 DEF a, IsInjective

(* What is left without the head, which a sequence that holds nothing      *)
(* twice has only there.                                                   *)
LEMMA TailRange ==
  ASSUME NEW T, NEW s \in Seq(T), s # <<>>
  PROVE  /\ Head(s) \in T /\ Tail(s) \in Seq(T)
         /\ Range(s) = {Head(s)} \cup Range(Tail(s))
         /\ IsInjective(s) => IsInjective(Tail(s)) /\ Head(s) \notin Range(Tail(s))
<1>. DEFINE n == Len(s)
            t == Tail(s)
<1>1. /\ n \in Nat \ {0} /\ DOMAIN s = 1 .. n /\ DOMAIN t = 1 .. n - 1 /\ Head(s) = s[1]
      /\ \A i \in 1 .. n - 1 : t[i] = s[i + 1]
      /\ Head(s) \in T /\ t \in Seq(T)
  OBVIOUS
<1>. HIDE DEF n, t
<1>2. \A i \in 1 .. n - 1 : i + 1 \in 1 .. n /\ i + 1 # 1
  BY <1>1
<1>3. \A i \in 1 .. n : i = 1 \/ (i - 1 \in 1 .. n - 1 /\ (i - 1) + 1 = i)
  BY <1>1
<1>4. Range(s) = {Head(s)} \cup Range(t)
  <2>1. ASSUME NEW v \in Range(s) PROVE v \in {Head(s)} \cup Range(t)
    <3>1. PICK i \in 1 .. n : s[i] = v
      BY <1>1 DEF Range
    <3>2. i = 1 \/ t[i - 1] = v
      BY <3>1, <1>3, <1>1
    <3>. QED BY <3>1, <3>2, <1>1, <1>3 DEF Range
  <2>2. ASSUME NEW v \in Range(t) PROVE v \in Range(s)
    BY <1>1, <1>2 DEF Range
  <2>3. Head(s) \in Range(s)
    BY <1>1 DEF Range
  <2>. QED BY <2>1, <2>2, <2>3
<1>5. ASSUME IsInjective(s) PROVE IsInjective(t) /\ Head(s) \notin Range(t)
  <2>1. ASSUME NEW i \in 1 .. n - 1, NEW j \in 1 .. n - 1, t[i] = t[j] PROVE i = j
    <3>0. i + 1 \in DOMAIN s /\ j + 1 \in DOMAIN s /\ s[i + 1] = s[j + 1]
      BY <2>1, <1>1, <1>2
    <3>1. i + 1 = j + 1
      BY <3>0, <1>5 DEF IsInjective
    <3>. QED BY <3>1, <1>1
  <2>2. \A i \in 1 .. n - 1 : t[i] # Head(s)
    <3>1. 1 \in DOMAIN s /\ \A i \in 1 .. n - 1 : i + 1 \in DOMAIN s /\ i + 1 # 1
      BY <1>1, <1>2
    <3>2. \A i \in 1 .. n - 1 : s[i + 1] # s[1]
      BY <3>1, <1>5 DEF IsInjective
    <3>. QED BY <3>2, <1>1
  <2>. QED BY <1>1, <2>1, <2>2 DEF IsInjective, Range
<1>. QED BY <1>1, <1>4, <1>5 DEF t

(* AllocHttpRequest takes an object that was free or that is new, and puts *)
(* it back as often as it is told to.                                      *)
LEMMA AllocRight ==
  ASSUME WebTypeOK, Len(asked) + 1 \in 1 .. MaxRequest,
         NEW back \in Seq({Head(Filled)}), Alloc(back)
  PROVE  LET o == Head(Filled)
         IN /\ mIndex' \in Nat /\ mIndex <= mIndex' /\ o \in 1 .. mIndex'
            /\ o \in Range(mxHttpRequestPool) \/ o \notin 1 .. mIndex
            /\ mxHttpRequestPool' \in Seq(1 .. mIndex')
            /\ Range(mxHttpRequestPool') \cap (1 .. mIndex) \subseteq Range(mxHttpRequestPool)
            /\ req' \in [1 .. mIndex' -> 0 .. MaxRequest]
            /\ \A p \in 1 .. mIndex' : req'[p] = IF p = o THEN Len(asked) + 1
                                                 ELSE IF p \in 1 .. mIndex THEN req[p] ELSE 0
            /\ IsInjective(mxHttpRequestPool) /\ back = <<>> =>
                 IsInjective(mxHttpRequestPool') /\ o \notin Range(mxHttpRequestPool')
            /\ IsInjective(mxHttpRequestPool) /\ back = <<o>> => IsInjective(mxHttpRequestPool')
<1>. DEFINE o == Head(Filled)
            pool == mxHttpRequestPool
            new == [i \in 1 .. Batch |-> mIndex + i]
<1>1. /\ mIndex \in Nat /\ Batch \in Nat \ {0} /\ MaxRequest \in Nat
      /\ pool \in Seq(1 .. mIndex) /\ Len(asked) + 1 \in 0 .. MaxRequest
      /\ req \in [1 .. mIndex -> 0 .. MaxRequest]
  BY BoundAssumption DEF WebTypeOK
<1>2. /\ mIndex' \in Nat /\ mIndex <= mIndex'
      /\ Filled \in Seq(1 .. mIndex') /\ Filled # <<>>
      /\ \A v \in Range(Filled) : v \in Range(pool) \/ v \notin 1 .. mIndex
      /\ IsInjective(pool) => IsInjective(Filled)
  <2>1. CASE pool = <<>>
    <3>1. Filled = new /\ mIndex' = mIndex + Batch
      BY <2>1 DEF Filled, Alloc
    <3>2. /\ new \in [1 .. Batch -> 1 .. mIndex + Batch]
          /\ \A i \in 1 .. Batch : new[i] = mIndex + i
      BY <1>1
    <3>3. new \in Seq(1 .. mIndex + Batch) /\ Len(new) = Batch /\ DOMAIN new = 1 .. Batch
      BY <1>1, <3>2
    <3>. HIDE DEF new
    <3>4. new # <<>>
      BY <1>1, <3>3
    <3>5. \A v \in Range(new) : v \notin 1 .. mIndex
      BY <1>1, <3>2, <3>3 DEF Range
    <3>6. IsInjective(new)
      BY <1>1, <3>2, <3>3 DEF IsInjective
    <3>. QED BY <1>1, <3>1, <3>3, <3>4, <3>5, <3>6
  <2>2. CASE pool # <<>>
    BY <1>1, <2>2 DEF Filled, Alloc
  <2>. QED BY <2>1, <2>2
<1>3. /\ o \in 1 .. mIndex' /\ Tail(Filled) \in Seq(1 .. mIndex')
      /\ Range(Filled) = {o} \cup Range(Tail(Filled))
      /\ IsInjective(Filled) => IsInjective(Tail(Filled)) /\ o \notin Range(Tail(Filled))
  BY <1>2, TailRange
<1>4. pool' = Tail(Filled) \o back
  BY DEF Alloc
<1>. HIDE DEF o
<1>5. back \in Seq(1 .. mIndex') /\ Range(back) \subseteq {o}
  BY <1>3 DEF o, Range
<1>6. /\ pool' \in Seq(1 .. mIndex')
      /\ Range(pool') = Range(Tail(Filled)) \cup Range(back)
      /\ IsInjective(Tail(Filled)) /\ IsInjective(back) /\ Range(Tail(Filled)) \cap Range(back) = {}
           => IsInjective(pool')
  <2>1. Tail(Filled) \o back \in Seq(1 .. mIndex')
    BY <1>3, <1>5
  <2>. DEFINE rest == Tail(Filled)
  <2>2. rest \in Seq(1 .. mIndex') /\ back \in Seq(1 .. mIndex')
    BY <1>3, <1>5
  <2>. HIDE DEF rest
  <2>3. /\ Range(rest \o back) = Range(rest) \cup Range(back)
        /\ IsInjective(rest) /\ IsInjective(back) /\ Range(rest) \cap Range(back) = {}
             => IsInjective(rest \o back)
    BY <2>2, ConcatRange
  <2>. QED BY <2>1, <2>3, <1>4 DEF rest
<1>7. req' = [p \in 1 .. mIndex' |-> IF p = o THEN Len(asked) + 1
                                    ELSE IF p <= mIndex THEN req[p] ELSE 0]
  BY DEF Alloc, o
<1>8. /\ req' \in [1 .. mIndex' -> 0 .. MaxRequest]
      /\ \A p \in 1 .. mIndex' : req'[p] = IF p = o THEN Len(asked) + 1
                                          ELSE IF p \in 1 .. mIndex THEN req[p] ELSE 0
  <2>1. ASSUME NEW p \in 1 .. mIndex'
        PROVE  /\ p <= mIndex <=> p \in 1 .. mIndex
               /\ p \in 1 .. mIndex => req[p] \in 0 .. MaxRequest
               /\ 0 \in 0 .. MaxRequest
    BY <1>1, <1>2
  <2>. QED BY <1>1, <1>7, <2>1
<1>9. o \in Range(pool) \/ o \notin 1 .. mIndex
  BY <1>2, <1>3
<1>10. Range(pool') \cap (1 .. mIndex) \subseteq Range(pool)
  BY <1>2, <1>3, <1>5, <1>6
<1>11. ASSUME IsInjective(pool), back = <<>> PROVE IsInjective(pool') /\ o \notin Range(pool')
  <2>1. Range(back) = {} /\ IsInjective(back)
    BY <1>11 DEF Range, IsInjective
  <2>. QED BY <2>1, <1>2, <1>3, <1>6, <1>11
<1>12. ASSUME IsInjective(pool), back = <<o>> PROVE IsInjective(pool')
  <2>1. IsInjective(back)
    BY <1>12 DEF IsInjective
  <2>. QED BY <2>1, <1>2, <1>3, <1>5, <1>6, <1>12
<1>. QED BY <1>2, <1>3, <1>6, <1>8, <1>9, <1>10, <1>11, <1>12 DEF o

(* A request has come: it is one more, and its client is new.              *)
LEMMA AskedMore ==
  ASSUME WebInv, NEW kind \in Kind, asked' = Append(asked, kind), Len(asked) + 1 <= MaxRequest
  PROVE  /\ Len(asked) \in Nat /\ asked' \in Seq(Kind) /\ Len(asked') = Len(asked) + 1
         /\ Len(asked') \in 1 .. MaxRequest
         /\ Clients' = Clients \cup {Len(asked')} /\ Len(asked') \notin Clients
         /\ Clients \subseteq 1 .. MaxRequest
<1>1. asked \in Seq(Kind) /\ MaxRequest \in Nat
  BY BoundAssumption DEF WebInv, WebTypeOK
<1>. QED BY <1>1 DEF Clients

(* An answer holds what it was made of.                                    *)
LEMMA ToldRight ==
  ASSUME NEW of \in 1 .. MaxRequest, NEW ok \in BOOLEAN, NEW data \in (1 .. MaxRequest) \cup {None}
  PROVE  /\ Told(of, ok, data) \in Answer
         /\ Told(of, ok, data).of = of /\ Told(of, ok, data).ok = ok /\ Told(of, ok, data).data = data
BY DEF Told, Answer

(* A request arrives, whatever becomes of it: its object and its answers,  *)
(* if it has some at once.                                                 *)
Arriving(kind, r, o, back, said) ==
  /\ kind \in Kind /\ asked' = Append(asked, kind) /\ r = Len(asked) + 1 /\ r <= MaxRequest
  /\ o = Head(Filled) /\ back \in Seq({o}) /\ Alloc(back)
  /\ said \in Seq(Answer) /\ answers' = [answers EXCEPT ![r] = said]
  /\ \A i \in DOMAIN said : said[i].of = r
  /\ ~doubled' => /\ ~doubled /\ (back = <<>> \/ back = <<o>>)
                  /\ (said = <<>> => back = <<>>) /\ Len(said) <= 1

Arrived(r, o, back, said) ==
  /\ mIndex' \in Nat /\ mIndex <= mIndex' /\ o \in 1 .. mIndex'
  /\ o \in Range(mxHttpRequestPool) \/ o \notin 1 .. mIndex
  /\ mxHttpRequestPool' \in Seq(1 .. mIndex')
  /\ Range(mxHttpRequestPool') \cap (1 .. mIndex) \subseteq Range(mxHttpRequestPool)
  /\ ~doubled' /\ back = <<>> => o \notin Range(mxHttpRequestPool')
  /\ req' \in [1 .. mIndex' -> 0 .. MaxRequest]
  /\ \A p \in 1 .. mIndex' : /\ req'[p] <= r
                             /\ req'[p] = IF p = o THEN r
                                          ELSE IF p \in 1 .. mIndex THEN req[p] ELSE 0
  /\ answers' \in [1 .. MaxRequest -> Seq(Answer)]
  /\ \A q \in 1 .. MaxRequest :
       /\ answers'[q] = IF q = r THEN said ELSE answers[q]
       /\ q \notin Clients' => answers'[q] = <<>>
       /\ \A i \in DOMAIN answers'[q] : answers'[q][i].of \in Clients'
  /\ ObjectsExclusive' /\ AnsweredOnce'

(* An arrival keeps the server's objects apart: the object is of the new   *)
(* client alone.                                                           *)
LEMMA Arrives ==
  ASSUME WebInv, NEW kind, NEW r, NEW o, NEW back, NEW said, Arriving(kind, r, o, back, said)
  PROVE  Arrived(r, o, back, said)
<1>. USE DEF Arriving
<1>1. /\ Len(asked) \in Nat /\ asked' \in Seq(Kind) /\ Len(asked') = r /\ r \in 1 .. MaxRequest
      /\ r \in Nat \ {0}
      /\ Clients' = Clients \cup {r} /\ r \notin Clients /\ Clients \subseteq 1 .. MaxRequest
  BY AskedMore
<1>4. WebTypeOK /\ answers \in [1 .. MaxRequest -> Seq(Answer)]
      /\ NumberInv /\ ObjectsExclusive /\ AnsweredOnce
  BY DEF WebInv, WebTypeOK
<1>6. /\ mIndex' \in Nat /\ mIndex <= mIndex' /\ o \in 1 .. mIndex'
      /\ o \in Range(mxHttpRequestPool) \/ o \notin 1 .. mIndex
      /\ mxHttpRequestPool' \in Seq(1 .. mIndex')
      /\ Range(mxHttpRequestPool') \cap (1 .. mIndex) \subseteq Range(mxHttpRequestPool)
      /\ req' \in [1 .. mIndex' -> 0 .. MaxRequest]
      /\ \A p \in 1 .. mIndex' : req'[p] = IF p = o THEN r
                                           ELSE IF p \in 1 .. mIndex THEN req[p] ELSE 0
      /\ IsInjective(mxHttpRequestPool) /\ back = <<>> =>
           IsInjective(mxHttpRequestPool') /\ o \notin Range(mxHttpRequestPool')
      /\ IsInjective(mxHttpRequestPool) /\ back = <<o>> => IsInjective(mxHttpRequestPool')
  BY <1>1, <1>4, AllocRight
<1>8. /\ answers' \in [1 .. MaxRequest -> Seq(Answer)]
      /\ \A q \in 1 .. MaxRequest : answers'[q] = IF q = r THEN said ELSE answers[q]
  BY <1>1, <1>4
<1>9. \A p \in 1 .. mIndex' : req'[p] <= r
  <2>1. \A p \in 1 .. mIndex : req[p] <= r
    BY <1>1, <1>4 DEF NumberInv, WebTypeOK
  <2>. QED
    <3>. TAKE p \in 1 .. mIndex'
    <3>1. req'[p] = r \/ req'[p] = 0 \/ (p \in 1 .. mIndex /\ req'[p] = req[p])
      BY <1>6
    <3>. QED BY <3>1, <2>1, <1>1
<1>10. \A q \in 1 .. MaxRequest :
        /\ q \notin Clients' => answers'[q] = <<>>
        /\ \A i \in DOMAIN answers'[q] : answers'[q][i].of \in Clients'
  <2>. TAKE q \in 1 .. MaxRequest
  <2>1. CASE q = r
    BY <2>1, <1>1, <1>8
  <2>2. CASE q # r
    <3>1. answers'[q] = answers[q]
        BY <2>2, <1>8
    <3>. QED BY <3>1, <1>1, <1>4 DEF NumberInv
  <2>. QED BY <2>1, <2>2
<1>11. ObjectsExclusive' /\ AnsweredOnce' /\ (~doubled' /\ back = <<>> => o \notin Range(mxHttpRequestPool'))
  <2>. SUFFICES ASSUME ~doubled'
                PROVE ObjectsExclusive' /\ AnsweredOnce' /\ (back = <<>> => o \notin Range(mxHttpRequestPool'))
    BY DEF ObjectsExclusive, AnsweredOnce
  <2>1. ~doubled /\ (back = <<>> \/ back = <<o>>) /\ (said = <<>> => back = <<>>)
    OBVIOUS
  <2>2. IsInjective(mxHttpRequestPool') /\ (back = <<>> => o \notin Range(mxHttpRequestPool'))
    BY <1>4, <1>6, <2>1 DEF ObjectsExclusive
  <2>6. ObjectsExclusive'
    <3>0. Unanswered' \subseteq Unanswered \cup {r} /\ (said # <<>> => r \notin Unanswered')
      BY <1>1, <1>8 DEF Unanswered
    <3>1. ASSUME NEW p \in 1 .. mIndex', req'[p] \in Unanswered'
          PROVE  p \notin Range(mxHttpRequestPool')
      <4>1. CASE p = o
        <5>1. said = <<>>
          BY <4>1, <3>0, <3>1, <1>6
        <5>. QED BY <5>1, <4>1, <2>2
      <4>2. CASE p # o /\ p \in 1 .. mIndex
        <5>1. req[p] \in Unanswered
          <6>1. req'[p] = req[p] /\ req[p] <= Len(asked) /\ req[p] \in 0 .. MaxRequest
            BY <4>2, <1>4, <1>6 DEF NumberInv, WebTypeOK
          <6>2. req[p] # r
            BY <6>1, <1>1
          <6>. QED BY <6>1, <6>2, <3>0, <3>1
        <5>2. p \notin Range(mxHttpRequestPool)
          BY <5>1, <4>2, <1>4, <2>1 DEF ObjectsExclusive
        <5>. QED BY <5>2, <4>2, <1>6
      <4>3. CASE p # o /\ p \notin 1 .. mIndex
        <5>1. req'[p] = 0 /\ 0 \notin Unanswered'
          <6>1. 0 \notin Clients'
            BY <1>1 DEF Clients
          <6>. QED BY <4>3, <1>6, <6>1 DEF Unanswered
        <5>. QED BY <5>1, <3>1
      <4>. QED BY <4>1, <4>2, <4>3
    <3>2. ASSUME NEW p \in 1 .. mIndex', NEW q \in 1 .. mIndex', req'[p] = req'[q], req'[p] # 0
          PROVE  p = q
      <4>1. \A x \in 1 .. mIndex' : req'[x] = r <=> x = o
        <5>. TAKE x \in 1 .. mIndex'
        <5>1. x \in 1 .. mIndex => req[x] \in Nat /\ req[x] <= Len(asked)
          BY <1>4 DEF NumberInv, WebTypeOK
        <5>2. req'[o] = r /\ (x # o => req'[x] = 0 \/ (x \in 1 .. mIndex /\ req'[x] = req[x]))
          BY <1>6
        <5>3. r # 0 /\ r > Len(asked)
          BY <1>1
        <5>. QED BY <5>1, <5>2, <5>3, <1>1
      <4>2. CASE p # o /\ q # o
        <5>1. p \in 1 .. mIndex /\ q \in 1 .. mIndex /\ req[p] = req[q] /\ req[p] # 0
          BY <1>6, <4>2, <3>2
        <5>. QED BY <5>1, <1>4, <2>1 DEF ObjectsExclusive
      <4>. QED BY <4>1, <4>2, <3>2
    <3>. QED BY <2>2, <3>1, <3>2 DEF ObjectsExclusive
  <2>7. AnsweredOnce'
    BY <1>1, <1>4, <1>8, <2>1 DEF AnsweredOnce
  <2>. QED BY <2>2, <2>6, <2>7
<1>. QED BY <1>1, <1>6, <1>8, <1>9, <1>10, <1>11 DEF Arrived

(* listener_cb whose handler answers at once, or never.                    *)
LEMMA ListenerKeeps ==
  ASSUME WebInv, NEW kind \in Kind, Listener(kind)
  PROVE  WebInv'
<1>. DEFINE r == Len(asked) + 1
            o == Head(Filled)
            n == Times(kind)
            said == [i \in 1 .. n.told |-> Told(r, kind = "call", None)]
<1>1. /\ asked' = Append(asked, kind) /\ r <= MaxRequest
      /\ Len(asked) \in Nat /\ asked' \in Seq(Kind) /\ Len(asked') = r /\ r \in 1 .. MaxRequest /\ r \in Nat \ {0}
      /\ Clients' = Clients \cup {r} /\ r \notin Clients /\ Clients \subseteq 1 .. MaxRequest
  BY AskedMore DEF Listener
<1>2. /\ n.told \in {0, 1, 2} /\ n.back \in {0, 1, 2}
      /\ (kind \notin Twice) => n.told = n.back /\ n.told \in {0, 1}
  BY DEF Listener, Times, Kind, Twice, Waiting
<1>3. /\ answers' = [answers EXCEPT ![r] = said]
      /\ doubled' = (doubled \/ kind \in Twice)
      /\ Alloc([i \in 1 .. n.back |-> o])
      /\ UNCHANGED <<coroutines_, coro, co_awaitbles_, last_req_id_, acks, mlHttpObject, asks,
                     flying, dangling, mute>>
  BY DEF Listener, client
<1>4. WebTypeOK /\ IsInjective(mlHttpObject) /\ answers \in [1 .. MaxRequest -> Seq(Answer)]
      /\ CoroutineInv /\ NumberInv
      /\ HeldInv /\ ObjectsExclusive /\ AnsweredOnce /\ OwnAnswer
  BY DEF WebInv, WebTypeOK
<1>. DEFINE back == [i \in 1 .. n.back |-> o]
<1>5. /\ back \in Seq({o}) /\ (n.back = 0 => back = <<>>) /\ (n.back = 1 => back = <<o>>)
  <2>1. n.back \in Nat /\ back \in [1 .. n.back -> {o}]
    BY <1>2
  <2>2. back \in Seq({o}) /\ Len(back) = n.back
    BY <2>1
  <2>3. ASSUME n.back = 1 PROVE back = <<o>>
    <3>. HIDE DEF o, n
    <3>. QED BY <2>3
  <2>4. ASSUME n.back = 0 PROVE back = <<>>
    <3>. HIDE DEF o, n
    <3>. QED BY <2>4
  <2>. QED BY <2>2, <2>3, <2>4
<1>7. /\ said \in Seq(Answer) /\ Len(said) = n.told /\ DOMAIN said = 1 .. n.told
      /\ (n.told = 0 => said = <<>>) /\ (n.told # 0 => said # <<>>)
      /\ \A i \in DOMAIN said : said[i].of = r /\ (said[i].ok => kind = "call")
  <2>1. /\ Told(r, kind = "call", None) \in Answer /\ Told(r, kind = "call", None).of = r
        /\ Told(r, kind = "call", None).ok = (kind = "call")
    <3>. DEFINE b == kind = "call"
                d == None
    <3>1. b \in BOOLEAN /\ d \in (1 .. MaxRequest) \cup {None} /\ r \in 1 .. MaxRequest
      BY <1>1
    <3>. HIDE DEF b, d, r
    <3>2. /\ Told(r, b, d) \in Answer /\ Told(r, b, d).of = r /\ Told(r, b, d).ok = b
      BY <3>1, ToldRight
    <3>. QED BY <3>2 DEF b, d
  <2>2. n.told \in Nat /\ \A i \in 1 .. n.told : said[i] = Told(r, kind = "call", None)
    BY <1>2
  <2>3. said \in [1 .. n.told -> Answer]
    BY <2>1
  <2>4. said \in Seq(Answer) /\ Len(said) = n.told /\ DOMAIN said = 1 .. n.told
    BY <2>2, <2>3
  <2>5. (n.told = 0 => said = <<>>) /\ (n.told # 0 => said # <<>>)
    <3>. HIDE DEF said, n
    <3>. QED BY <2>4
  <2>6. \A i \in DOMAIN said : said[i].of = r /\ (said[i].ok => kind = "call")
    <3>1. \A i \in DOMAIN said : said[i] = Told(r, kind = "call", None)
      BY <2>2, <2>4
    <3>. HIDE DEF said, n, r
    <3>. QED BY <2>1, <3>1
  <2>. QED BY <2>4, <2>5, <2>6
<1>. HIDE DEF said, n, o, back
<1>8. /\ back \in Seq({o}) /\ Alloc(back) /\ said \in Seq(Answer)
      /\ \A i \in DOMAIN said : said[i].of = r
      /\ answers' = [answers EXCEPT ![r] = said]
      /\ ~doubled' => /\ ~doubled /\ (back = <<>> \/ back = <<o>>)
                      /\ (said = <<>> => back = <<>>) /\ Len(said) <= 1
  <2>1. ASSUME ~doubled' PROVE ~doubled /\ n.told \in {0, 1} /\ n.back = n.told
    BY <2>1, <1>2, <1>3
  <2>. QED BY <2>1, <1>3, <1>5, <1>7 DEF back
<1>. HIDE DEF said, n, back, o
<1>9. o = Head(Filled) /\ r = Len(asked) + 1
  BY DEF o
<1>10. /\ mIndex' \in Nat /\ mIndex <= mIndex' /\ o \in 1 .. mIndex'
       /\ o \in Range(mxHttpRequestPool) \/ o \notin 1 .. mIndex
       /\ mxHttpRequestPool' \in Seq(1 .. mIndex')
       /\ Range(mxHttpRequestPool') \cap (1 .. mIndex) \subseteq Range(mxHttpRequestPool)
       /\ ~doubled' /\ back = <<>> => o \notin Range(mxHttpRequestPool')
       /\ req' \in [1 .. mIndex' -> 0 .. MaxRequest]
       /\ \A p \in 1 .. mIndex' : /\ req'[p] <= r
                                  /\ req'[p] = IF p = o THEN r
                                               ELSE IF p \in 1 .. mIndex THEN req[p] ELSE 0
       /\ answers' \in [1 .. MaxRequest -> Seq(Answer)]
       /\ \A q \in 1 .. MaxRequest :
            /\ answers'[q] = IF q = r THEN said ELSE answers[q]
            /\ q \notin Clients' => answers'[q] = <<>>
            /\ \A i \in DOMAIN answers'[q] : answers'[q][i].of \in Clients'
       /\ ObjectsExclusive' /\ AnsweredOnce'
  <2>1. Arriving(kind, r, o, back, said)
    BY <1>1, <1>8, <1>9 DEF Arriving
  <2>. HIDE DEF r
  <2>. QED BY <2>1, Arrives DEF Arrived
<1>. HIDE DEF r
<1>11. WebTypeOK'
  <2>1. (\A f \in Frame : coro[f] # None <=> \E i \in DOMAIN coroutines_ : coroutines_[i] = f)'
    BY <1>3, <1>4 DEF WebTypeOK
  <2>. QED BY <1>1, <1>3, <1>4, <1>10, <2>1 DEF WebTypeOK
<1>12. CoroutineInv'
  <2>1. Living' = Living
    BY <1>3 DEF Living
  <2>2. 1 .. mIndex \subseteq 1 .. mIndex'
    BY <1>4, <1>10 DEF WebTypeOK
  <2>. QED BY <1>1, <1>3, <1>4, <2>1, <2>2 DEF CoroutineInv
<1>13. NumberInv'
  <2>1. last_req_id_' <= r
    BY <1>1, <1>3, <1>4 DEF NumberInv, WebTypeOK, r
  <2>. QED BY <1>1, <1>9, <1>10, <2>1 DEF NumberInv
<1>14. HeldInv'
  <2>. SUFFICES ASSUME ~doubled' PROVE HeldInv'
    BY DEF HeldInv
  <2>1. ~doubled /\ Undone' = Undone /\ Undone \subseteq Living
    BY <1>3 DEF Undone, Living
  <2>2. \A f \in Undone : /\ coro[f].object \in 1 .. mIndex /\ coro[f].object \in 1 .. mIndex'
                          /\ coro[f].object # o
                          /\ coro[f].object \notin Range(mxHttpRequestPool')
    <3>. TAKE f \in Undone
    <3>1. coro[f].object \in 1 .. mIndex
      BY <1>4, <2>1 DEF CoroutineInv
    <3>2. coro[f].object \notin Range(mxHttpRequestPool)
      BY <1>4, <2>1 DEF HeldInv
    <3>3. 1 .. mIndex \subseteq 1 .. mIndex'
      BY <1>4, <1>10 DEF WebTypeOK
    <3>. QED BY <3>1, <3>2, <3>3, <1>10
  <2>. QED
    <3>1. ASSUME NEW f \in Undone
          PROVE  /\ coro[f].object \notin Range(mxHttpRequestPool')
                 /\ req'[coro[f].object] = coro[f].client
                 /\ answers'[coro[f].client] = <<>>
      <4>1. req'[coro[f].object] = req[coro[f].object]
        BY <1>10, <2>2
      <4>2. coro[f].client \in Clients /\ coro[f].client # r
        BY <1>1, <1>4, <2>1 DEF CoroutineInv
      <4>. QED BY <4>1, <4>2, <1>1, <1>4, <1>10, <2>1, <2>2 DEF HeldInv
    <3>2. \A f, g \in Undone : coro[f].object = coro[g].object => f = g
      BY <1>4, <2>1 DEF HeldInv
    <3>. QED BY <3>1, <3>2, <2>1, <1>3 DEF HeldInv
<1>15. OwnAnswer'
  <2>. SUFFICES ASSUME ~dangling, NEW f \in Frame, NEW q \in Clients', NEW i \in DOMAIN answers'[q],
                       coro[f] # None, coro[f].via = "node",
                       answers'[q][i].of = coro[f].client, answers'[q][i].ok
                PROVE  answers'[q][i].data = coro[f].req_id
    BY <1>3 DEF OwnAnswer
  <2>1. coro[f].client \in Clients /\ coro[f].client # r
    BY <1>1, <1>4 DEF CoroutineInv, Living
  <2>2. q # r
    <3>. SUFFICES ASSUME q = r PROVE FALSE
      OBVIOUS
    <3>1. answers'[q] = said
      BY <1>1, <1>10
    <3>. QED BY <3>1, <1>7, <2>1
  <2>3. q \in Clients /\ answers'[q] = answers[q]
    BY <2>2, <1>1, <1>10
  <2>. QED BY <2>3, <1>4 DEF OwnAnswer
<1>. QED BY <1>3, <1>4, <1>10, <1>11, <1>12, <1>13, <1>14, <1>15 DEF WebInv

(* The two clients: which questions are out, which objects are free.       *)
AskInv ==
  /\ acks \subseteq 1 .. MaxRequest /\ asks \in Seq(1 .. MaxRequest)
  /\ mlHttpObject \in Seq((1 .. Len(asks)) \ flying) /\ flying \subseteq 1 .. Len(asks)
  /\ IsInjective(mlHttpObject)

(* A question goes out: what HttpClient's pool and evhttp have afterwards. *)
LEMMA AskRight ==
  ASSUME WebTypeOK, IsInjective(mlHttpObject), NEW k \in 1 .. MaxRequest, NEW sent \in BOOLEAN,
         NEW via, IF via = "node" THEN Request(k, sent) ELSE CoGet(k, sent)
  PROVE  /\ acks' \subseteq 1 .. MaxRequest /\ asks' \in Seq(1 .. MaxRequest)
         /\ mlHttpObject' \in Seq((1 .. Len(asks')) \ flying') /\ flying' \subseteq 1 .. Len(asks')
         /\ IsInjective(mlHttpObject')
<1>. DEFINE ml == mlHttpObject
            h == IF ml = <<>> THEN Len(asks) + 1 ELSE Head(ml)
            more == IF ml = <<>> THEN Append(asks, k) ELSE [asks EXCEPT ![h] = k]
            rest == IF ml = <<>> THEN <<>> ELSE Tail(ml)
<1>1. /\ acks \subseteq 1 .. MaxRequest /\ asks \in Seq(1 .. MaxRequest) /\ Len(asks) \in Nat
      /\ ml \in Seq((1 .. Len(asks)) \ flying) /\ flying \subseteq 1 .. Len(asks)
  BY DEF WebTypeOK
<1>2. CASE via = "node"
  <2>1. acks' = acks \cup {k} /\ UNCHANGED <<mlHttpObject, asks, flying>>
    BY <1>2 DEF Request, SendRequest
  <2>. QED BY <1>1, <2>1
<1>3. CASE via # "node" /\ UNCHANGED <<mlHttpObject, asks, flying>>
  <2>1. acks' = acks
    BY <1>3 DEF CoGet, MakeRequest
  <2>. QED BY <1>1, <1>3, <2>1
<1>4. CASE /\ via # "node" /\ ml' = rest /\ asks' = more
           /\ flying' = flying \/ flying' = flying \cup {h}
  <2>0. acks' = acks
    BY <1>4 DEF CoGet, MakeRequest
  <2>1. CASE ml = <<>>
    <3>1. /\ asks' \in Seq(1 .. MaxRequest) /\ Len(asks') = Len(asks) + 1 /\ h = Len(asks) + 1
          /\ ml' = <<>>
      BY <1>1, <1>4, <2>1
    <3>2. flying' \subseteq 1 .. Len(asks')
      <4>1. h \in 1 .. Len(asks') /\ 1 .. Len(asks) \subseteq 1 .. Len(asks')
        BY <1>1, <3>1
      <4>. HIDE DEF h
      <4>. QED BY <4>1, <1>1, <1>4
    <3>3. IsInjective(ml') /\ ml' \in Seq((1 .. Len(asks')) \ flying')
      BY <3>1 DEF IsInjective
    <3>. QED BY <1>1, <2>0, <3>1, <3>2, <3>3
  <2>2. CASE ml # <<>>
    <3>1. /\ h = Head(ml) /\ h \in (1 .. Len(asks)) \ flying /\ Tail(ml) \in Seq((1 .. Len(asks)) \ flying)
          /\ IsInjective(Tail(ml)) /\ h \notin Range(Tail(ml)) /\ rest = Tail(ml)
      BY <1>1, <2>2, TailRange
    <3>2. asks' \in Seq(1 .. MaxRequest) /\ Len(asks') = Len(asks)
      <4>1. asks' = [asks EXCEPT ![h] = k]
        BY <1>4, <2>2
      <4>2. h \in 1 .. Len(asks) /\ k \in 1 .. MaxRequest
        BY <1>1, <3>1
      <4>. HIDE DEF h
      <4>3. [asks EXCEPT ![h] = k] \in Seq(1 .. MaxRequest) /\ Len([asks EXCEPT ![h] = k]) = Len(asks)
        BY <1>1, <4>2, ExceptSeq
      <4>. QED BY <4>1, <4>3
    <3>. DEFINE t == Tail(ml)
    <3>. HIDE DEF h, more, rest, t
    <3>3. t \in Seq((1 .. Len(asks)) \ (flying \cup {h}))
      <4>1. t \in Seq((1 .. Len(asks)) \ flying) /\ h \notin Range(t)
        BY <3>1 DEF t
      <4>2. \A i \in 1 .. Len(t) : t[i] \in (1 .. Len(asks)) \ (flying \cup {h})
        BY <4>1 DEF Range
      <4>. QED BY <4>1, <4>2
    <3>4. ml' = t /\ IsInjective(ml')
      BY <1>4, <3>1 DEF t
    <3>5. CASE flying' = flying
      BY <1>1, <2>0, <3>1, <3>2, <3>4, <3>5 DEF t
    <3>6. CASE flying' = flying \cup {h}
      BY <1>1, <2>0, <3>1, <3>2, <3>3, <3>4, <3>6
    <3>. QED BY <1>4, <3>5, <3>6
  <2>. QED BY <2>1, <2>2
<1>5. via = "node" \/ UNCHANGED <<mlHttpObject, asks, flying>>
        \/ (ml' = rest /\ asks' = more /\ (flying' = flying \/ flying' = flying \cup {h}))
  BY DEF CoGet, MakeRequest
<1>. QED BY <1>2, <1>3, <1>4, <1>5

(* The record of a coroutine that has just been started. *)
LEMMA NewCoroutine ==
  ASSUME NEW r \in 1 .. MaxRequest, NEW o \in Nat, NEW k \in 1 .. MaxRequest, NEW via \in {"node", "http"},
         NEW c, c = [client |-> r, object |-> o, req_id |-> k, via |-> via, done |-> FALSE]
  PROVE  /\ c \in Coro /\ c # None
         /\ c.client = r /\ c.object = o /\ c.req_id = k /\ c.via = via /\ ~c.done
<1>1. c \in Coro
  BY DEF Coro
<1>2. c # None
  BY <1>1, NoneAssumption
<1>. QED BY <1>1, <1>2

(* A handler that starts a coroutine: the address, the object and the      *)
(* number are its own.                                                     *)
LEMMA StartKeeps ==
  ASSUME WebInv, NEW kind \in Kind, NEW f \in Frame, NEW sent \in BOOLEAN, Start(kind, f, sent)
  PROVE  WebInv'
<1>. DEFINE r == Len(asked) + 1
            o == Head(Filled)
            k == last_req_id_ + 1
            via == IF kind = "http" THEN "http" ELSE "node"
            threw == kind = "throws"
            back == IF threw THEN <<o>> ELSE <<>>
            said == IF threw THEN <<Told(r, FALSE, None)>> ELSE <<>>
            c == [client |-> r, object |-> o, req_id |-> k, via |-> via, done |-> FALSE]
<1>1. /\ asked' = Append(asked, kind) /\ r <= MaxRequest
      /\ Len(asked) \in Nat /\ asked' \in Seq(Kind) /\ Len(asked') = r /\ r \in 1 .. MaxRequest
      /\ r \in Nat \ {0}
      /\ Clients' = Clients \cup {r} /\ r \notin Clients /\ Clients \subseteq 1 .. MaxRequest
  BY AskedMore DEF Start
<1>2. WebTypeOK /\ IsInjective(mlHttpObject) /\ answers \in [1 .. MaxRequest -> Seq(Answer)]
      /\ CoroutineInv /\ NumberInv
      /\ HeldInv /\ ObjectsExclusive /\ AnsweredOnce /\ OwnAnswer
      /\ k \in 1 .. MaxRequest /\ k <= r
  <2>1. WebTypeOK /\ NumberInv
    BY DEF WebInv
  <2>2. last_req_id_ \in 0 .. MaxRequest /\ last_req_id_ <= Len(asked) /\ MaxRequest \in Nat
    BY <2>1, BoundAssumption DEF WebTypeOK, NumberInv
  <2>3. k \in 1 .. MaxRequest /\ k <= r
    BY <2>2, <1>1
  <2>. QED BY <2>3 DEF WebInv, WebTypeOK
<1>3. /\ coro[f] = None
      /\ coroutines_' = Append(coroutines_, f)
      /\ coro' = [coro EXCEPT ![f] = c]
      /\ last_req_id_' = k
      /\ IF via = "node" THEN Request(k, sent) ELSE CoGet(k, sent)
      /\ Bind(k, f)
      /\ doubled' = (doubled \/ threw)
      /\ UNCHANGED <<dangling, mute>>
  BY DEF Start, GenerateRequestID
<1>4. /\ acks' \subseteq 1 .. MaxRequest /\ asks' \in Seq(1 .. MaxRequest)
      /\ mlHttpObject' \in Seq((1 .. Len(asks')) \ flying') /\ flying' \subseteq 1 .. Len(asks')
      /\ IsInjective(mlHttpObject')
  <2>. HIDE DEF k, via
  <2>. QED BY <1>2, <1>3, AskRight
<1>5. answers[r] = <<>>
  BY <1>1, <1>2 DEF NumberInv
<1>6. /\ said \in Seq(Answer) /\ \A i \in DOMAIN said : said[i].of = r /\ ~said[i].ok
      /\ Len(said) <= 1 /\ (threw => said # <<>>) /\ (~threw => said = <<>>)
  <2>. DEFINE t == Told(r, FALSE, None)
  <2>1. t \in Answer /\ t.of = r /\ ~t.ok
    <3>. DEFINE b == FALSE
                d == None
    <3>1. b \in BOOLEAN /\ d \in (1 .. MaxRequest) \cup {None} /\ r \in 1 .. MaxRequest
      BY <1>1
    <3>. HIDE DEF b, d, r
    <3>2. /\ Told(r, b, d) \in Answer /\ Told(r, b, d).of = r /\ Told(r, b, d).ok = b
      BY <3>1, ToldRight
    <3>. QED BY <3>2 DEF b, d
  <2>. HIDE DEF t
  <2>2. /\ <<t>> \in Seq(Answer) /\ Len(<<t>>) = 1 /\ DOMAIN <<t>> = {1} /\ <<t>>[1] = t
    BY <2>1
  <2>3. CASE threw
    <3>1. said = <<t>>
      BY <2>3 DEF t
    <3>. HIDE DEF said
    <3>. QED BY <3>1, <2>1, <2>2, <2>3
  <2>4. CASE ~threw
    <3>1. said = <<>>
      BY <2>4
    <3>. HIDE DEF said
    <3>. QED BY <3>1, <2>4
  <2>. QED BY <2>3, <2>4
<1>7. answers' = [answers EXCEPT ![r] = said]
  <2>1. CASE threw
    BY <2>1 DEF Start
  <2>2. CASE ~threw
    <3>1. answers' = answers /\ said = <<>>
      BY <2>2 DEF Start
    <3>. HIDE DEF r, said
    <3>. QED BY <3>1, <1>2, <1>5
  <2>. QED BY <2>1, <2>2
<1>8. /\ back \in Seq({o}) /\ Alloc(back)
      /\ ~doubled' => /\ ~doubled /\ ~threw /\ (back = <<>> \/ back = <<o>>)
                      /\ (said = <<>> => back = <<>>) /\ back = <<>>
  <2>1. Alloc(back)
    BY DEF Start
  <2>2. back \in Seq({o})
    <3>. HIDE DEF o, threw
    <3>. QED OBVIOUS
  <2>3. ASSUME ~doubled' PROVE ~doubled /\ ~threw /\ back = <<>>
    BY <2>3, <1>3
  <2>. HIDE DEF back, said, threw
  <2>. QED BY <2>1, <2>2, <2>3
<1>. HIDE DEF said, back
<1>9. o = Head(Filled) /\ r = Len(asked) + 1
  OBVIOUS
<1>. HIDE DEF o, threw, via
<1>10. /\ mIndex' \in Nat /\ mIndex <= mIndex' /\ o \in 1 .. mIndex'
       /\ o \in Range(mxHttpRequestPool) \/ o \notin 1 .. mIndex
       /\ mxHttpRequestPool' \in Seq(1 .. mIndex')
       /\ Range(mxHttpRequestPool') \cap (1 .. mIndex) \subseteq Range(mxHttpRequestPool)
       /\ ~doubled' /\ back = <<>> => o \notin Range(mxHttpRequestPool')
       /\ req' \in [1 .. mIndex' -> 0 .. MaxRequest]
       /\ \A p \in 1 .. mIndex' : /\ req'[p] <= r
                                  /\ req'[p] = IF p = o THEN r
                                               ELSE IF p \in 1 .. mIndex THEN req[p] ELSE 0
       /\ answers' \in [1 .. MaxRequest -> Seq(Answer)]
       /\ \A q \in 1 .. MaxRequest :
            /\ answers'[q] = IF q = r THEN said ELSE answers[q]
            /\ q \notin Clients' => answers'[q] = <<>>
            /\ \A i \in DOMAIN answers'[q] : answers'[q][i].of \in Clients'
       /\ ObjectsExclusive' /\ AnsweredOnce'
  <2>1. Arriving(kind, r, o, back, said)
    BY <1>1, <1>6, <1>7, <1>8, <1>9 DEF Arriving
  <2>. HIDE DEF r
  <2>. QED BY <2>1, Arrives DEF Arrived
<1>11. /\ c \in Coro /\ c # None
       /\ c.client = r /\ c.object = o /\ c.req_id = k /\ c.via = via /\ ~c.done
  <2>1. o \in Nat /\ via \in {"node", "http"}
    BY <1>10 DEF via
  <2>. HIDE DEF r, k
  <2>. QED BY <1>1, <1>2, <2>1, NewCoroutine
<1>. HIDE DEF c, r, k
<1>12. /\ coro \in [Frame -> Coro \cup {None}] /\ coroutines_ \in Seq(Frame)
       /\ coro' \in [Frame -> Coro \cup {None}] /\ coro'[f] = c
       /\ \A g \in Frame \ {f} : coro'[g] = coro[g]
       /\ Living' = Living \cup {f} /\ f \notin Living
       /\ Living = Range(coroutines_) /\ f \notin Range(coroutines_)
       /\ coroutines_' \in Seq(Frame) /\ Range(coroutines_') = Range(coroutines_) \cup {f}
       /\ IsInjective(coroutines_')
  <2>1. coro \in [Frame -> Coro \cup {None}] /\ coroutines_ \in Seq(Frame)
    BY <1>2 DEF WebTypeOK
  <2>2. /\ coro' \in [Frame -> Coro \cup {None}] /\ coro'[f] = c
        /\ \A g \in Frame \ {f} : coro'[g] = coro[g]
    BY <2>1, <1>3, <1>11
  <2>3. Living' = Living \cup {f} /\ f \notin Living
    BY <2>2, <1>3, <1>11 DEF Living
  <2>4. Living = Range(coroutines_)
    BY <1>2 DEF WebTypeOK, Living, Range
  <2>5. IsInjective(coroutines_)
    BY <1>2 DEF CoroutineInv
  <2>. QED BY <2>1, <2>2, <2>3, <2>4, <2>5, <1>3, AppendRange
<1>13. WebTypeOK'
  <2>1. (\A g \in Frame : coro[g] # None <=> \E i \in DOMAIN coroutines_ : coroutines_[i] = g)'
    <3>1. \A g \in Frame : coro'[g] # None <=> g \in Range(coroutines_')
      BY <1>12 DEF Living
    <3>. QED BY <3>1 DEF Range
  <2>2. co_awaitbles_' \in [1 .. MaxRequest -> Frame \cup {None}]
    BY <1>2, <1>3 DEF Bind, WebTypeOK
  <2>3. last_req_id_' \in 0 .. MaxRequest
    BY <1>2, <1>3
  <2>4. {doubled', dangling'} \subseteq BOOLEAN /\ mute' \subseteq 1 .. MaxRequest
    BY <1>2, <1>3 DEF WebTypeOK, threw
  <2>. QED BY <1>1, <1>4, <1>10, <1>12, <2>1, <2>2, <2>3, <2>4 DEF WebTypeOK
<1>14. CoroutineInv'
  <2>1. 1 .. mIndex \subseteq 1 .. mIndex'
    BY <1>2, <1>10 DEF WebTypeOK
  <2>2. \A g \in Living : /\ coro'[g] = coro[g] /\ coro[g].object \in 1 .. mIndex
                          /\ coro[g].client \in Clients /\ coro[g].client # r
    BY <1>1, <1>2, <1>12 DEF CoroutineInv, Living
  <2>3. \A g \in Living' : coro'[g].object \in 1 .. mIndex' /\ coro'[g].client \in Clients'
    BY <1>1, <1>10, <1>11, <1>12, <2>1, <2>2
  <2>4. \A g, q \in Living : coro[g].client = coro[q].client => g = q
    BY <1>2 DEF CoroutineInv
  <2>5. \A g, q \in Living' : coro'[g].client = coro'[q].client => g = q
    BY <1>11, <1>12, <2>2, <2>4
  <2>. QED BY <1>12, <2>3, <2>5 DEF CoroutineInv
<1>15. NumberInv'
  BY <1>1, <1>2, <1>3, <1>10 DEF NumberInv
<1>16. HeldInv'
  <2>. SUFFICES ASSUME ~doubled' PROVE HeldInv'
    BY DEF HeldInv
  <2>1. ~doubled /\ said = <<>> /\ o \notin Range(mxHttpRequestPool')
    BY <1>6, <1>8, <1>10
  <2>2. /\ Undone' = Undone \cup {f} /\ Undone \subseteq Living /\ f \notin Undone
        /\ \A g \in Undone : coro'[g] = coro[g]
    BY <1>11, <1>12 DEF Undone, Living
  <2>3. \A g \in Undone : /\ coro[g].object \in 1 .. mIndex /\ coro[g].object \in 1 .. mIndex'
                          /\ coro[g].object # o
                          /\ coro[g].object \notin Range(mxHttpRequestPool')
    <3>. TAKE g \in Undone
    <3>1. coro[g].object \in 1 .. mIndex
      BY <1>2, <2>2 DEF CoroutineInv
    <3>2. coro[g].object \notin Range(mxHttpRequestPool)
      BY <1>2, <2>1 DEF HeldInv
    <3>3. 1 .. mIndex \subseteq 1 .. mIndex'
      BY <1>2, <1>10 DEF WebTypeOK
    <3>. QED BY <3>1, <3>2, <3>3, <1>10
  <2>4. ASSUME NEW g \in Undone
        PROVE  req'[coro[g].object] = coro[g].client /\ answers'[coro[g].client] = <<>>
    <3>1. req'[coro[g].object] = req[coro[g].object]
      BY <1>10, <2>3
    <3>2. coro[g].client \in Clients /\ coro[g].client # r
      BY <1>1, <1>2, <2>2 DEF CoroutineInv
    <3>. QED BY <3>1, <3>2, <1>1, <1>2, <1>10, <2>1 DEF HeldInv
  <2>5. req'[o] = r /\ answers'[r] = <<>>
    BY <1>1, <1>10, <2>1
  <2>6. \A g, h \in Undone : coro[g].object = coro[h].object => g = h
    BY <1>2, <2>1 DEF HeldInv
  <2>. QED BY <2>1, <2>2, <2>3, <2>4, <2>5, <2>6, <1>11, <1>12 DEF HeldInv
<1>17. OwnAnswer'
  <2>. SUFFICES ASSUME ~dangling, NEW g \in Frame, NEW q \in Clients', NEW i \in DOMAIN answers'[q],
                       coro'[g] # None, coro'[g].via = "node",
                       answers'[q][i].of = coro'[g].client, answers'[q][i].ok
                PROVE  answers'[q][i].data = coro'[g].req_id
    BY <1>3 DEF OwnAnswer
  <2>1. q # r
    <3>. SUFFICES ASSUME q = r PROVE FALSE
      OBVIOUS
    <3>1. answers'[q] = said
      BY <1>1, <1>10
    <3>. QED BY <3>1, <1>6
  <2>2. q \in Clients /\ answers'[q] = answers[q]
    BY <2>1, <1>1, <1>10
  <2>3. answers[q][i].of \in Clients
    BY <2>2, <1>1, <1>2 DEF NumberInv
  <2>4. g # f
    BY <2>2, <2>3, <1>1, <1>11, <1>12
  <2>5. coro'[g] = coro[g]
    BY <2>4, <1>12
  <2>6. i \in DOMAIN answers[q] /\ OwnAnswer
    BY <2>2, <1>2
  <2>. QED BY <2>2, <2>5, <2>6 DEF OwnAnswer
<1>. QED BY <1>4, <1>10, <1>13, <1>14, <1>15, <1>16, <1>17 DEF WebInv

(* An answer resumes the coroutine that is at its address, or nobody.      *)
LEMMA ResumeKeeps ==
  ASSUME WebInv, NEW k \in 1 .. MaxRequest, NEW parsed \in BOOLEAN, Resume(k, parsed), AskInv'
  PROVE  WebInv'
<1>. DEFINE f == co_awaitbles_[k]
            c == coro[f]
            q == req[c.object]
            t == Told(c.client, TRUE, k)
            d == [c EXCEPT !.done = TRUE]
<1>1. /\ WebTypeOK /\ IsInjective(mlHttpObject)
      /\ CoroutineInv /\ NumberInv
      /\ HeldInv /\ ObjectsExclusive /\ AnsweredOnce /\ OwnAnswer
      /\ answers \in [1 .. MaxRequest -> Seq(Answer)]
      /\ coro \in [Frame -> Coro \cup {None}] /\ f \in Frame
  <2>1. co_awaitbles_ \in [1 .. MaxRequest -> Frame \cup {None}] /\ f # None
    BY DEF WebInv, WebTypeOK, Resume
  <2>. QED BY <2>1 DEF WebInv, WebTypeOK
<1>2. /\ co_awaitbles_' \in [1 .. MaxRequest -> Frame \cup {None}]
      /\ dangling' = (dangling \/ c = None \/ (c # None /\ ~c.done /\ c.req_id # k))
      /\ dangling \in BOOLEAN /\ dangling' \in BOOLEAN
      /\ UNCHANGED <<mIndex, req, coroutines_, last_req_id_, asked, doubled>>
  BY <1>1 DEF Resume, WebTypeOK
<1>3. CASE c = None \/ c.done
  <2>1. UNCHANGED <<coro, answers, mxHttpRequestPool, mute>>
    BY <1>3 DEF Resume
  <2>2. WebTypeOK'
    BY <1>1, <1>2, <2>1 DEF WebTypeOK, AskInv
  <2>3. CoroutineInv' /\ NumberInv'
    BY <1>1, <1>2, <2>1 DEF CoroutineInv, NumberInv, Living, Clients
  <2>4. HeldInv' /\ ObjectsExclusive' /\ AnsweredOnce'
    BY <1>1, <1>2, <2>1 DEF HeldInv, Undone, Living, ObjectsExclusive, AnsweredOnce, Unanswered, Clients
  <2>5. OwnAnswer'
    BY <1>1, <1>2, <2>1 DEF OwnAnswer, Clients
  <2>. QED BY <2>2, <2>3, <2>4, <2>5 DEF WebInv, AskInv
<1>4. CASE c # None /\ ~c.done /\ Speaks(c, parsed)
  <2>1. /\ coro' = [coro EXCEPT ![f] = d]
        /\ answers' = [answers EXCEPT ![q] = Append(@, t)]
        /\ mxHttpRequestPool' = Append(mxHttpRequestPool, c.object)
        /\ mute' = mute
    BY <1>4 DEF Resume
  <2>2. /\ c \in Coro /\ f \in Living /\ f \in Undone
        /\ c.object \in 1 .. mIndex /\ c.client \in Clients /\ c.client \in 1 .. MaxRequest
        /\ c.req_id \in 1 .. MaxRequest
    BY <1>1, <1>4 DEF Living, Undone, CoroutineInv, Coro
  <2>3. /\ d \in Coro /\ d # None
        /\ d.client = c.client /\ d.object = c.object /\ d.req_id = c.req_id /\ d.via = c.via /\ d.done
    <3>. HIDE DEF c
    <3>1. d \in Coro /\ d.client = c.client /\ d.object = c.object /\ d.req_id = c.req_id /\ d.via = c.via /\ d.done
      BY <2>2 DEF Coro
    <3>. QED BY <3>1, NoneAssumption
  <2>4. /\ t \in Answer /\ t.of = c.client /\ t.ok /\ t.data = k
    <3>. DEFINE b == TRUE
                p == c.client
    <3>1. b \in BOOLEAN /\ k \in (1 .. MaxRequest) \cup {None} /\ p \in 1 .. MaxRequest
      BY <2>2
    <3>. HIDE DEF b, p, c
    <3>2. /\ Told(p, b, k) \in Answer /\ Told(p, b, k).of = p /\ Told(p, b, k).ok = b
          /\ Told(p, b, k).data = k
      BY <3>1, ToldRight
    <3>. QED BY <3>2 DEF b, p
  <2>5. q \in 0 .. MaxRequest /\ q <= Len(asked) /\ (q # 0 => q \in Clients /\ q \in 1 .. MaxRequest)
        /\ Clients \subseteq 1 .. MaxRequest /\ Len(asked) \in Nat
    <3>0. mIndex \in Nat /\ req \in [1 .. mIndex -> 0 .. MaxRequest] /\ asked \in Seq(Kind)
          /\ MaxRequest \in Nat
      BY <1>1, BoundAssumption DEF WebTypeOK
    <3>1. q \in 0 .. MaxRequest /\ q <= Len(asked)
      BY <3>0, <1>1, <2>2 DEF NumberInv
    <3>2. Len(asked) \in Nat /\ Len(asked) <= MaxRequest
      BY <3>0, <1>1 DEF NumberInv
    <3>. HIDE DEF q
    <3>. QED BY <3>0, <3>1, <3>2 DEF Clients
  <2>. HIDE DEF c, q, t, d, f
  <2>6. /\ coro' \in [Frame -> Coro \cup {None}] /\ coro'[f] = d
        /\ \A g \in Frame \ {f} : coro'[g] = coro[g]
        /\ coro[f] = c
    BY <1>1, <2>1, <2>3 DEF c
  <2>7. /\ answers' \in [1 .. MaxRequest -> Seq(Answer)]
        /\ \A r \in 1 .. MaxRequest : answers'[r] = IF r = q THEN Append(answers[r], t) ELSE answers[r]
    <3>1. CASE q \in 1 .. MaxRequest
      BY <3>1, <1>1, <2>1, <2>4
    <3>2. CASE q \notin 1 .. MaxRequest
      <4>1. answers' = answers
        BY <3>2, <1>1, <2>1
      <4>. QED BY <4>1, <3>2, <1>1
    <3>. QED BY <3>1, <3>2
  <2>8. \A r \in 1 .. MaxRequest : r # q => answers'[r] = answers[r]
    BY <2>7
  <2>9. q \in 1 .. MaxRequest =>
           /\ answers'[q] # <<>>
           /\ \A i \in DOMAIN answers'[q] : answers'[q][i] = t \/ (i \in DOMAIN answers[q] /\ answers'[q][i] = answers[q][i])
           /\ answers[q] = <<>> => Len(answers'[q]) = 1
    <3>. SUFFICES ASSUME q \in 1 .. MaxRequest
         PROVE /\ answers'[q] # <<>>
               /\ \A i \in DOMAIN answers'[q] : answers'[q][i] = t \/ (i \in DOMAIN answers[q] /\ answers'[q][i] = answers[q][i])
               /\ answers[q] = <<>> => Len(answers'[q]) = 1
      OBVIOUS
    <3>. DEFINE a == answers[q]
    <3>1. a \in Seq(Answer) /\ answers'[q] = Append(a, t)
      BY <1>1, <2>7
    <3>. HIDE DEF a
    <3>2. /\ Append(a, t) # <<>> /\ Len(Append(a, t)) = Len(a) + 1
          /\ \A i \in DOMAIN Append(a, t) : Append(a, t)[i] = t \/ (i \in DOMAIN a /\ Append(a, t)[i] = a[i])
          /\ a = <<>> => Len(a) = 0
      BY <3>1, <2>4
    <3>. QED BY <3>1, <3>2 DEF a
  <2>10. /\ Living' = Living /\ Undone' = Undone \ {f}
         /\ \A g \in Living : /\ coro'[g].client = coro[g].client /\ coro'[g].object = coro[g].object
                              /\ coro'[g].via = coro[g].via /\ coro'[g].req_id = coro[g].req_id
    BY <2>3, <2>6, <2>2 DEF Living, Undone
  <2>11. WebTypeOK'
    <3>1. mxHttpRequestPool' \in Seq(1 .. mIndex')
      <4>1. mxHttpRequestPool \in Seq(1 .. mIndex)
        BY <1>1 DEF WebTypeOK
      <4>. QED BY <4>1, <1>2, <2>1, <2>2
    <3>2. (\A g \in Frame : coro[g] # None <=> \E i \in DOMAIN coroutines_ : coroutines_[i] = g)'
      BY <1>1, <1>2, <2>10 DEF WebTypeOK, Living
    <3>. QED BY <1>1, <1>2, <2>1, <2>6, <2>7, <3>1, <3>2 DEF WebTypeOK, AskInv
  <2>12. CoroutineInv'
    <3>1. Clients' = Clients
      BY <1>2 DEF Clients
    <3>. QED BY <3>1, <1>1, <1>2, <2>10 DEF CoroutineInv
  <2>13. NumberInv'
    <3>1. Clients' = Clients
      BY <1>2 DEF Clients
    <3>2. \A r \in 1 .. MaxRequest :
            /\ r \notin Clients => answers'[r] = <<>>
            /\ \A i \in DOMAIN answers'[r] : answers'[r][i].of \in Clients
      <4>. TAKE r \in 1 .. MaxRequest
      <4>1. CASE r = q
        <5>1. r \in Clients
          BY <4>1, <2>5
        <5>. QED BY <5>1, <4>1, <2>9, <2>4, <2>2, <1>1 DEF NumberInv
      <4>2. CASE r # q
        BY <4>2, <2>8, <1>1 DEF NumberInv
      <4>. QED BY <4>1, <4>2
    <3>. QED BY <3>1, <3>2, <1>1, <1>2 DEF NumberInv
  <2>14. HeldInv' /\ ObjectsExclusive' /\ AnsweredOnce'
    <3>. SUFFICES ASSUME ~doubled PROVE HeldInv' /\ ObjectsExclusive' /\ AnsweredOnce'
      BY <1>2 DEF HeldInv, ObjectsExclusive, AnsweredOnce
    <3>1. /\ c.object \notin Range(mxHttpRequestPool) /\ q = c.client /\ answers[q] = <<>>
          /\ q \in Clients /\ q \in 1 .. MaxRequest
      BY <1>1, <2>2, <2>5, <2>6 DEF HeldInv, q
    <3>2. /\ Range(mxHttpRequestPool') = Range(mxHttpRequestPool) \cup {c.object}
          /\ IsInjective(mxHttpRequestPool')
      <4>1. mxHttpRequestPool \in Seq(1 .. mIndex) /\ IsInjective(mxHttpRequestPool)
        BY <1>1 DEF WebTypeOK, ObjectsExclusive
      <4>. QED BY <4>1, <3>1, <2>1, AppendRange
    <3>3. \A g \in Undone' : /\ g \in Undone /\ g \in Living /\ coro[g].object # c.object /\ coro[g].client # q
      <4>. TAKE g \in Undone'
      <4>1. g \in Undone /\ g # f /\ g \in Living /\ f \in Undone /\ f \in Living
        BY <2>2, <2>10 DEF Undone
      <4>. QED BY <4>1, <3>1, <2>6, <1>1 DEF HeldInv, CoroutineInv
    <3>4. HeldInv'
      <4>1. ASSUME NEW g \in Undone'
            PROVE  /\ coro'[g].object \notin Range(mxHttpRequestPool')
                   /\ req'[coro'[g].object] = coro'[g].client
                   /\ answers'[coro'[g].client] = <<>>
        <5>1. /\ coro'[g].object = coro[g].object /\ coro'[g].client = coro[g].client
              /\ coro[g].client \in 1 .. MaxRequest
          BY <3>3, <2>5, <2>10, <1>1 DEF CoroutineInv
        <5>. QED BY <5>1, <3>2, <3>3, <2>8, <1>1, <1>2 DEF HeldInv
      <4>2. ASSUME NEW g \in Undone', NEW h \in Undone', coro'[g].object = coro'[h].object
            PROVE  g = h
        BY <4>2, <3>3, <2>10, <1>1 DEF HeldInv
      <4>. QED BY <4>1, <4>2 DEF HeldInv
    <3>5. ObjectsExclusive'
      <4>1. Unanswered' \subseteq Unanswered \ {q}
        BY <1>2, <2>5, <2>8, <2>9, <3>1 DEF Unanswered, Clients
      <4>2. req[c.object] = q
        BY DEF q
      <4>. QED BY <4>1, <4>2, <3>2, <1>1, <1>2 DEF ObjectsExclusive
    <3>6. AnsweredOnce'
      <4>1. Clients' = Clients
        BY <1>2 DEF Clients
      <4>2. ASSUME NEW r \in Clients
            PROVE  Len(answers'[r]) <= 1 /\ \A i \in DOMAIN answers'[r] : answers'[r][i].of = r
        <5>1. CASE r = q
          <6>1. Len(answers'[r]) = 1 /\ DOMAIN answers[r] = {}
            BY <5>1, <3>1, <2>9
          <6>2. \A i \in DOMAIN answers'[r] : answers'[r][i] = t
            BY <6>1, <5>1, <3>1, <2>9
          <6>. QED BY <6>1, <6>2, <5>1, <3>1, <2>4
        <5>2. CASE r # q
          BY <5>2, <2>5, <2>8, <1>1 DEF AnsweredOnce
        <5>. QED BY <5>1, <5>2
      <4>. QED BY <4>1, <4>2 DEF AnsweredOnce
    <3>. QED BY <3>4, <3>5, <3>6
  <2>15. OwnAnswer'
    <3>. SUFFICES ASSUME ~dangling', NEW g \in Frame, NEW r \in Clients', NEW i \in DOMAIN answers'[r],
                         coro'[g] # None, coro'[g].via = "node",
                         answers'[r][i].of = coro'[g].client, answers'[r][i].ok
                  PROVE  answers'[r][i].data = coro'[g].req_id
      BY DEF OwnAnswer
    <3>0. ~dangling /\ c.req_id = k
      BY <1>2, <1>4, <2>6 DEF c
    <3>1. g \in Living /\ r \in Clients /\ r \in 1 .. MaxRequest
      BY <1>2, <2>5, <2>10 DEF Clients, Living
    <3>2. CASE r = q /\ answers'[r][i] = t
      <4>1. coro[g].client = coro[f].client
        BY <3>1, <3>2, <2>4, <2>6, <2>10
      <4>2. g = f
        BY <4>1, <3>1, <2>2, <1>1 DEF CoroutineInv
      <4>. QED BY <4>2, <3>0, <3>2, <2>4, <2>6, <2>3
    <3>3. CASE i \in DOMAIN answers[r] /\ answers'[r][i] = answers[r][i]
      BY <3>0, <3>1, <3>3, <2>10, <1>1 DEF OwnAnswer, Living
    <3>. QED BY <3>1, <3>2, <3>3, <2>8, <2>9
  <2>. QED BY <2>11, <2>12, <2>13, <2>14, <2>15 DEF WebInv, AskInv
<1>5. CASE c # None /\ ~c.done /\ ~Speaks(c, parsed)
  <2>1. /\ coro' = [coro EXCEPT ![f] = d] /\ mute' = mute \cup {c.client}
        /\ UNCHANGED <<answers, mxHttpRequestPool>>
    BY <1>5 DEF Resume
  <2>2. c \in Coro /\ f \in Living /\ f \in Undone /\ c.client \in 1 .. MaxRequest
    BY <1>1, <1>5 DEF Living, Undone, CoroutineInv, Coro
  <2>3. /\ d \in Coro /\ d # None
        /\ d.client = c.client /\ d.object = c.object /\ d.req_id = c.req_id /\ d.via = c.via /\ d.done
    <3>. HIDE DEF c
    <3>1. d \in Coro /\ d.client = c.client /\ d.object = c.object /\ d.req_id = c.req_id /\ d.via = c.via /\ d.done
      BY <2>2 DEF Coro
    <3>. QED BY <3>1, NoneAssumption
  <2>. HIDE DEF d
  <2>4. /\ coro' \in [Frame -> Coro \cup {None}] /\ coro'[f] = d
        /\ \A g \in Frame \ {f} : coro'[g] = coro[g]
    BY <1>1, <2>1, <2>3
  <2>. HIDE DEF f
  <2>5. /\ Living' = Living /\ Undone' = Undone \ {f}
        /\ \A g \in Living : /\ coro'[g].client = coro[g].client /\ coro'[g].object = coro[g].object
                             /\ coro'[g].via = coro[g].via /\ coro'[g].req_id = coro[g].req_id
    BY <2>2, <2>3, <2>4 DEF Living, Undone
  <2>. HIDE DEF c
  <2>6. Clients' = Clients /\ Unanswered' = Unanswered
    BY <1>2, <2>1 DEF Clients, Unanswered
  <2>7. WebTypeOK'
    <3>1. (\A g \in Frame : coro[g] # None <=> \E i \in DOMAIN coroutines_ : coroutines_[i] = g)'
      BY <1>1, <1>2, <2>5 DEF WebTypeOK, Living
    <3>. QED BY <1>1, <1>2, <2>1, <2>2, <2>4, <3>1 DEF WebTypeOK, AskInv
  <2>8. CoroutineInv' /\ NumberInv'
    BY <1>1, <1>2, <2>1, <2>5, <2>6 DEF CoroutineInv, NumberInv
  <2>9. HeldInv'
    BY <1>1, <1>2, <2>1, <2>5 DEF HeldInv, Undone
  <2>10. ObjectsExclusive' /\ AnsweredOnce'
    BY <1>1, <1>2, <2>1, <2>6 DEF ObjectsExclusive, AnsweredOnce
  <2>11. OwnAnswer'
    BY <1>1, <1>2, <2>1, <2>5, <2>6 DEF OwnAnswer, Living
  <2>. QED BY <2>7, <2>8, <2>9, <2>10, <2>11 DEF WebInv, AskInv
<1>. QED BY <1>3, <1>4, <1>5

(* The answer of a node.                                                   *)
LEMMA OnAckHandlerKeeps ==
  ASSUME WebInv, NEW k \in 1 .. MaxRequest, NEW parsed \in BOOLEAN, OnAckHandler(k, parsed)
  PROVE  WebInv'
<1>1. AskInv'
  BY DEF OnAckHandler, WebInv, WebTypeOK, AskInv
<1>2. Resume(k, parsed)
  BY DEF OnAckHandler
<1>. QED BY <1>1, <1>2, ResumeKeeps

(* The answer of another server: HttpClient has its object back.           *)
LEMMA OnHttpReqDoneKeeps ==
  ASSUME WebInv, NEW h \in 1 .. Len(asks), NEW failed \in BOOLEAN, NEW parsed \in BOOLEAN,
         OnHttpReqDone(h, failed, parsed)
  PROVE  WebInv'
<1>. DEFINE ml == mlHttpObject
<1>1. /\ acks \subseteq 1 .. MaxRequest /\ asks \in Seq(1 .. MaxRequest)
      /\ ml \in Seq((1 .. Len(asks)) \ flying) /\ flying \subseteq 1 .. Len(asks)
      /\ IsInjective(ml)
  BY DEF WebInv, WebTypeOK
<1>2. /\ h \in flying /\ flying' = flying \ {h} /\ ml' = Append(ml, h) /\ UNCHANGED <<acks, asks>>
      /\ asks[h] \in 1 .. MaxRequest
  <2>1. h \in flying /\ flying' = flying \ {h} /\ ml' = Append(ml, h) /\ UNCHANGED <<acks, asks>>
    BY DEF OnHttpReqDone
  <2>2. asks[h] \in 1 .. MaxRequest
    BY <1>1, ElementOfSeq
  <2>. QED BY <2>1, <2>2
<1>3. AskInv'
  <2>1. h \notin Range(ml) /\ ml \in Seq((1 .. Len(asks)) \ flying')
    <3>1. \A i \in 1 .. Len(ml) : ml[i] \in (1 .. Len(asks)) \ flying
      BY <1>1
    <3>. QED BY <3>1, <1>1, <1>2 DEF Range
  <2>2. IsInjective(Append(ml, h))
    BY <1>1, <2>1, AppendRange
  <2>. QED BY <1>1, <1>2, <2>1, <2>2 DEF AskInv
<1>4. CASE ~failed
  <2>1. Resume(asks[h], parsed)
    BY <1>4 DEF OnHttpReqDone
  <2>. QED BY <1>2, <1>3, <2>1, ResumeKeeps
<1>5. CASE failed
  <2>1. UNCHANGED <<mxHttpRequestPool, mIndex, req, coroutines_, coro, co_awaitbles_,
                    last_req_id_, asked, answers, doubled, dangling, mute>>
    BY <1>5 DEF OnHttpReqDone
  <2>2. WebTypeOK /\ CoroutineInv /\ NumberInv /\ HeldInv /\ ObjectsExclusive /\ AnsweredOnce /\ OwnAnswer
    BY DEF WebInv
  <2>3. WebTypeOK'
    BY <1>3, <2>1, <2>2 DEF WebTypeOK, AskInv
  <2>4. CoroutineInv' /\ NumberInv'
    BY <2>1, <2>2 DEF CoroutineInv, NumberInv, Living, Clients
  <2>5. HeldInv' /\ ObjectsExclusive' /\ AnsweredOnce' /\ OwnAnswer'
    BY <2>1, <2>2 DEF HeldInv, Undone, Living, ObjectsExclusive, AnsweredOnce, Unanswered, Clients, OwnAnswer
  <2>. QED BY <1>3, <2>3, <2>4, <2>5 DEF WebInv, AskInv
<1>. QED BY <1>4, <1>5

-----------------------------------------------------------------------------
(* What Among selects. *)
LEMMA AmongRange ==
  ASSUME NEW T, NEW s \in Seq(T), NEW S
  PROVE  /\ Among(s, S) \in Seq(T) /\ Range(Among(s, S)) = Range(s) \cap S
         /\ IsInjective(s) => IsInjective(Among(s, S))
<1>. DEFINE a == Among(s, S)
<1>1. /\ a \in Seq(T)
      /\ \A i \in 1 .. Len(a) : a[i] \in S /\ \E j \in 1 .. Len(s) : s[j] = a[i]
      /\ \A j \in 1 .. Len(s) : s[j] \in S => \E i \in 1 .. Len(a) : a[i] = s[j]
      /\ IsInjective(s) => IsInjective(a)
  BY AmongRight
<1>. HIDE DEF a
<1>2. DOMAIN a = 1 .. Len(a) /\ DOMAIN s = 1 .. Len(s)
  BY <1>1
<1>3. Range(a) = Range(s) \cap S
  <2>1. \A i \in DOMAIN a : a[i] \in Range(s) \cap S
    BY <1>1, <1>2 DEF Range
  <2>2. \A j \in DOMAIN s : s[j] \in S => s[j] \in Range(a)
    <3>. TAKE j \in DOMAIN s
    <3>. HAVE s[j] \in S
    <3>1. PICK i \in 1 .. Len(a) : a[i] = s[j]
      BY <1>1, <1>2
    <3>. QED BY <3>1, <1>2 DEF Range
  <2>. QED BY <2>1, <2>2 DEF Range
<1>. QED BY <1>1, <1>3 DEF a

(* A sequence of nothing is empty.                                         *)
LEMMA NoElements ==
  ASSUME NEW T, NEW s \in Seq(T), DOMAIN s = {} \/ Range(s) = {}
  PROVE  s = <<>> /\ Len(s) = 0
<1>1. Len(s) \in Nat /\ DOMAIN s = 1 .. Len(s)
  OBVIOUS
<1>2. DOMAIN s = {}
  BY DEF Range
<1>3. Len(s) = 0
  BY <1>1, <1>2
<1>. QED BY <1>3

(* A sequence that holds one thing and nothing twice is no longer than     *)
(* one.                                                                    *)
LEMMA AtMostOne ==
  ASSUME NEW T, NEW s \in Seq(T), IsInjective(s), \A x, y \in Range(s) : x = y
  PROVE  Len(s) <= 1
<1>. SUFFICES ASSUME Len(s) > 1 PROVE FALSE
  OBVIOUS
<1>1. 1 \in DOMAIN s /\ 2 \in DOMAIN s
  OBVIOUS
<1>2. s[1] = s[2]
  BY <1>1 DEF Range
<1>. QED BY <1>1, <1>2 DEF IsInjective

(* FixCoroutines: those that are late are done; those of them that answer  *)
(* do so once, and each gives back an object of its own.                   *)
LEMMA FixCoroutinesKeeps ==
  ASSUME WebInv, NEW late \in SUBSET Living, NEW wrong \in SUBSET SeenOk(late),
         FixCoroutines(late, wrong)
  PROVE  WebInv'
<1>. DEFINE all == Overdue(late)
            due == Answering(late)
            resumed == Among(coroutines_, due)
            Of(r) == Among(resumed, {f \in due : req[coro[f].object] = r})
            told(r) == [i \in DOMAIN Of(r) |-> Told(coro[Of(r)[i]].client, Of(r)[i] \in wrong, None)]
            given == [i \in DOMAIN resumed |-> coro[resumed[i]].object]
<1>1. /\ WebTypeOK /\ IsInjective(mlHttpObject)
      /\ CoroutineInv /\ NumberInv
      /\ HeldInv /\ ObjectsExclusive /\ AnsweredOnce /\ OwnAnswer
      /\ answers \in [1 .. MaxRequest -> Seq(Answer)]
      /\ coro \in [Frame -> Coro \cup {None}]
      /\ coroutines_ \in Seq(Frame) /\ IsInjective(coroutines_) /\ Range(coroutines_) = Living
  <2>1. WebTypeOK /\ CoroutineInv
    BY DEF WebInv
  <2>. QED BY <2>1 DEF WebInv, WebTypeOK, CoroutineInv, Living, Range
<1>2. /\ coroutines_' = Among(coroutines_, Kept(late))
      /\ coro' = [f \in Frame |->
                    IF coro[f] = None THEN None ELSE IF coro[f].done THEN None
                    ELSE IF f \in all THEN [coro[f] EXCEPT !.done = TRUE] ELSE coro[f]]
      /\ answers' = [r \in 1 .. MaxRequest |-> answers[r] \o told(r)]
      /\ mxHttpRequestPool' = mxHttpRequestPool \o given
      /\ mute' = mute \cup {coro[f].client : f \in all \ due}
      /\ UNCHANGED <<mIndex, req, co_awaitbles_, last_req_id_, acks, mlHttpObject, asks, flying,
                     asked, doubled, dangling>>
  BY DEF FixCoroutines, client
<1>3. /\ due \subseteq all /\ all \subseteq Undone /\ Undone \subseteq Living /\ Kept(late) = Undone
      /\ wrong \subseteq Living /\ \A f \in wrong : coro[f].via = "http"
  BY DEF Overdue, Answering, Undone, Kept, SeenOk
<1>4. /\ resumed \in Seq(Frame) /\ Range(resumed) = due /\ IsInjective(resumed)
  <2>1. due \subseteq Range(coroutines_)
    BY <1>1, <1>3
  <2>. HIDE DEF due
  <2>2. /\ resumed \in Seq(Frame) /\ Range(resumed) = Range(coroutines_) \cap due
        /\ IsInjective(coroutines_) => IsInjective(resumed)
    BY <1>1, AmongRange
  <2>. QED BY <1>1, <2>1, <2>2
<1>5. \A r : /\ Of(r) \in Seq(Frame) /\ Range(Of(r)) = {f \in due : req[coro[f].object] = r}
             /\ IsInjective(Of(r))
  <2>. TAKE r
  <2>. DEFINE P == {f \in due : req[coro[f].object] = r}
  <2>1. P \subseteq due
    OBVIOUS
  <2>. HIDE DEF P, due, resumed
  <2>2. Among(resumed, P) \in Seq(Frame) /\ Range(Among(resumed, P)) = Range(resumed) \cap P
        /\ IsInjective(Among(resumed, P))
    BY <1>4, AmongRange
  <2>. QED BY <1>4, <2>1, <2>2 DEF P
<1>6. \A f \in Living : /\ coro[f] \in Coro /\ coro[f].client \in Clients
                        /\ coro[f].client \in 1 .. MaxRequest /\ coro[f].object \in 1 .. mIndex
                        /\ f \in Frame
  BY <1>1 DEF Living, CoroutineInv, Coro
<1>7. \A r : /\ told(r) \in Seq(Answer) /\ Len(told(r)) = Len(Of(r)) /\ DOMAIN told(r) = DOMAIN Of(r)
             /\ \A i \in DOMAIN told(r) :
                  \E f \in due : /\ req[coro[f].object] = r /\ told(r)[i].of = coro[f].client
                                 /\ told(r)[i].ok => f \in wrong
  <2>. TAKE r
  <2>. DEFINE s == Of(r)
  <2>1. s \in Seq(Frame) /\ Range(s) = {f \in due : req[coro[f].object] = r}
    BY <1>5
  <2>. HIDE DEF s, due
  <2>. DEFINE u == [i \in DOMAIN s |-> Told(coro[s[i]].client, s[i] \in wrong, None)]
  <2>2. ASSUME NEW i \in DOMAIN s
        PROVE  /\ u[i] \in Answer /\ u[i].of = coro[s[i]].client /\ (u[i].ok <=> s[i] \in wrong)
               /\ s[i] \in due /\ req[coro[s[i]].object] = r
    <3>1. s[i] \in due /\ req[coro[s[i]].object] = r
      BY <2>1 DEF Range
    <3>. DEFINE b == s[i] \in wrong
                p == coro[s[i]].client
                d == None
    <3>2. b \in BOOLEAN /\ p \in 1 .. MaxRequest /\ d \in (1 .. MaxRequest) \cup {None}
      BY <3>1, <1>3, <1>6
    <3>3. u[i] = Told(p, b, d)
      OBVIOUS
    <3>. HIDE DEF b, p, d, u
    <3>4. /\ Told(p, b, d) \in Answer /\ Told(p, b, d).of = p /\ Told(p, b, d).ok = b
      BY <3>2, ToldRight
    <3>5. u[i] \in Answer /\ u[i].of = p /\ u[i].ok = b
      BY <3>3, <3>4
    <3>. QED BY <3>1, <3>5 DEF b, p
  <2>3. DOMAIN u = DOMAIN s /\ DOMAIN s = 1 .. Len(s) /\ Len(s) \in Nat /\ u = [i \in DOMAIN s |-> u[i]]
    BY <2>1
  <2>4. u = told(r)
    BY DEF s
  <2>. HIDE DEF u
  <2>5. u \in Seq(Answer) /\ Len(u) = Len(s)
    <3>1. u \in [1 .. Len(s) -> Answer]
      BY <2>2, <2>3
    <3>. QED BY <2>3, <3>1
  <2>6. \A i \in DOMAIN u : \E f \in due : /\ req[coro[f].object] = r /\ u[i].of = coro[f].client
                                           /\ u[i].ok => f \in wrong
    BY <2>2, <2>3
  <2>7. Of(r) = s
    BY DEF s
  <2>. QED BY <2>3, <2>4, <2>5, <2>6, <2>7
<1>8. /\ given \in Seq(1 .. mIndex)
      /\ Range(given) = {coro[f].object : f \in due}
      /\ ~doubled => IsInjective(given)
  <2>. DEFINE s == resumed
  <2>1. s \in Seq(Frame) /\ Range(s) = due /\ IsInjective(s)
    BY <1>4
  <2>. HIDE DEF s, due
  <2>. DEFINE u == [i \in DOMAIN s |-> coro[s[i]].object]
  <2>2. \A i \in DOMAIN s : u[i] = coro[s[i]].object /\ s[i] \in due /\ u[i] \in 1 .. mIndex
    BY <2>1, <1>3, <1>6 DEF Range
  <2>3. DOMAIN u = DOMAIN s /\ DOMAIN s = 1 .. Len(s) /\ Len(s) \in Nat /\ u = [i \in DOMAIN s |-> u[i]]
    BY <2>1
  <2>4. given = u
    BY DEF s
  <2>. HIDE DEF u
  <2>5. u \in Seq(1 .. mIndex)
    <3>1. u \in [1 .. Len(s) -> 1 .. mIndex]
      BY <2>2, <2>3
    <3>. QED BY <2>3, <3>1
  <2>6. Range(u) = {coro[f].object : f \in due}
    BY <2>1, <2>2, <2>3 DEF Range
  <2>7. ASSUME ~doubled PROVE IsInjective(u)
    <3>1. \A f, g \in due : coro[f].object = coro[g].object => f = g
      BY <1>1, <1>3, <2>7 DEF HeldInv
    <3>. QED BY <3>1, <2>1, <2>2, <2>3 DEF IsInjective
  <2>. QED BY <2>4, <2>5, <2>6, <2>7
<1>. HIDE DEF resumed, Of, given, told
<1>9. /\ coro' \in [Frame -> Coro \cup {None}]
      /\ Living' = Undone /\ Undone' = Undone \ all
      /\ \A g \in Undone : /\ coro'[g].client = coro[g].client /\ coro'[g].object = coro[g].object
                           /\ coro'[g].via = coro[g].via /\ coro'[g].req_id = coro[g].req_id
  <2>1. ASSUME NEW g \in Frame
        PROVE  /\ coro'[g] \in Coro \cup {None} /\ (g \notin Undone => coro'[g] = None)
               /\ g \in Undone =>
                    /\ coro'[g] # None /\ (coro'[g].done <=> g \in all)
                    /\ coro'[g].client = coro[g].client /\ coro'[g].object = coro[g].object
                    /\ coro'[g].via = coro[g].via /\ coro'[g].req_id = coro[g].req_id
    <3>. DEFINE c == coro[g]
                d == [c EXCEPT !.done = TRUE]
    <3>1. coro'[g] = IF c = None \/ (c # None /\ c.done) THEN None ELSE IF g \in all THEN d ELSE c
      BY <1>2
    <3>2. CASE g \notin Undone
      <4>1. c = None \/ (c # None /\ c.done)
        BY <3>2 DEF Undone, Living
      <4>. QED BY <3>1, <3>2, <4>1
    <3>3. CASE g \in Undone
      <4>1. c # None /\ ~c.done /\ c \in Coro
        BY <3>3, <1>3, <1>6 DEF Undone, Living
      <4>. HIDE DEF c
      <4>2. d \in Coro /\ d.client = c.client /\ d.object = c.object /\ d.req_id = c.req_id /\ d.via = c.via /\ d.done
        BY <4>1 DEF Coro
      <4>3. d # None
        BY <4>2, NoneAssumption
      <4>. HIDE DEF d
      <4>. QED BY <3>1, <3>3, <4>1, <4>2, <4>3 DEF c
    <3>. QED BY <3>2, <3>3
  <2>2. coro' = [g \in Frame |-> coro'[g]]
    BY <1>2
  <2>. HIDE DEF all
  <2>3. Living' = Undone /\ Undone' = Undone \ all
    BY <2>1, <1>3, <1>6 DEF Living, Undone
  <2>4. \A g \in Undone : g \in Frame
    BY <1>3, <1>6
  <2>. QED BY <2>1, <2>2, <2>3, <2>4
<1>10. /\ coroutines_' \in Seq(Frame) /\ Range(coroutines_') = Undone /\ IsInjective(coroutines_')
  <2>. DEFINE K == Kept(late)
  <2>. HIDE DEF K
  <2>1. /\ Among(coroutines_, K) \in Seq(Frame) /\ Range(Among(coroutines_, K)) = Range(coroutines_) \cap K
        /\ IsInjective(coroutines_) => IsInjective(Among(coroutines_, K))
    BY <1>1, AmongRange
  <2>2. K = Undone /\ Undone \subseteq Range(coroutines_) /\ coroutines_' = Among(coroutines_, K)
    BY <1>1, <1>2, <1>3 DEF K
  <2>. QED BY <1>1, <2>1, <2>2
<1>. DEFINE Old(r, i) == i \in DOMAIN answers[r] /\ answers'[r][i] = answers[r][i]
            New(r, i) == \E f \in due : /\ req[coro[f].object] = r /\ answers'[r][i].of = coro[f].client
                                        /\ answers'[r][i].ok => f \in wrong
<1>11. /\ answers' \in [1 .. MaxRequest -> Seq(Answer)]
       /\ \A r \in 1 .. MaxRequest : \A i \in DOMAIN answers'[r] : Old(r, i) \/ New(r, i)
  <2>1. ASSUME NEW r \in 1 .. MaxRequest
        PROVE  /\ answers'[r] \in Seq(Answer)
               /\ \A i \in DOMAIN answers'[r] : Old(r, i) \/ New(r, i)
    <3>. DEFINE a == answers[r]
                u == told(r)
    <3>1. a \in Seq(Answer) /\ u \in Seq(Answer) /\ answers'[r] = a \o u
      BY <1>1, <1>2, <1>7
    <3>2. \A i \in DOMAIN u : \E f \in due : /\ req[coro[f].object] = r /\ u[i].of = coro[f].client
                                             /\ u[i].ok => f \in wrong
      BY <1>7
    <3>. HIDE DEF a, u, due
    <3>3. /\ a \o u \in Seq(Answer)
          /\ \A i \in DOMAIN (a \o u) : \/ i \in DOMAIN a /\ (a \o u)[i] = a[i]
                                        \/ \E j \in DOMAIN u : (a \o u)[i] = u[j]
      <4>1. /\ DOMAIN a = 1 .. Len(a) /\ DOMAIN u = 1 .. Len(u) /\ Len(a) \in Nat /\ Len(u) \in Nat
            /\ DOMAIN (a \o u) = 1 .. Len(a) + Len(u)
            /\ \A i \in 1 .. Len(a) : (a \o u)[i] = a[i]
            /\ \A i \in Len(a) + 1 .. Len(a) + Len(u) :
                 i - Len(a) \in 1 .. Len(u) /\ (a \o u)[i] = u[i - Len(a)]
        BY <3>1
      <4>2. \A i \in 1 .. Len(a) + Len(u) : i \in 1 .. Len(a) \/ i \in Len(a) + 1 .. Len(a) + Len(u)
        BY <4>1
      <4>3. \A i \in DOMAIN (a \o u) : \/ i \in DOMAIN a /\ (a \o u)[i] = a[i]
                                       \/ \E j \in DOMAIN u : (a \o u)[i] = u[j]
        <5>1. SUFFICES ASSUME NEW i \in DOMAIN (a \o u)
              PROVE  \/ i \in DOMAIN a /\ (a \o u)[i] = a[i]
                     \/ \E j \in DOMAIN u : (a \o u)[i] = u[j]
          OBVIOUS
        <5>2. CASE i \in 1 .. Len(a)
          BY <4>1, <5>2
        <5>3. CASE i \in Len(a) + 1 .. Len(a) + Len(u)
          <6>1. i - Len(a) \in DOMAIN u /\ (a \o u)[i] = u[i - Len(a)]
            BY <4>1, <5>3
          <6>. QED BY <6>1
        <5>. QED BY <4>1, <4>2, <5>2, <5>3
      <4>4. a \o u \in Seq(Answer)
        BY <3>1
      <4>. QED BY <4>3, <4>4
    <3>4. answers'[r] = a \o u /\ a = answers[r]
      BY <3>1 DEF a
    <3>5. ASSUME NEW i \in DOMAIN answers'[r] PROVE Old(r, i) \/ New(r, i)
      <4>1. CASE i \in DOMAIN a /\ (a \o u)[i] = a[i]
        BY <4>1, <3>4
      <4>2. CASE \E j \in DOMAIN u : (a \o u)[i] = u[j]
        <5>1. PICK j \in DOMAIN u : (a \o u)[i] = u[j]
          BY <4>2
        <5>2. PICK f \in due : /\ req[coro[f].object] = r /\ u[j].of = coro[f].client
                               /\ u[j].ok => f \in wrong
          BY <3>2
        <5>3. answers'[r][i] = u[j]
          BY <3>4, <5>1
        <5>4. /\ req[coro[f].object] = r /\ answers'[r][i].of = coro[f].client
              /\ answers'[r][i].ok => f \in wrong
          BY <5>2, <5>3
        <5>. QED BY <5>4
      <4>. QED BY <4>1, <4>2, <3>3, <3>4
    <3>6. answers'[r] \in Seq(Answer)
      BY <3>3, <3>4
    <3>. QED BY <3>5, <3>6
  <2>2. answers' = [r \in 1 .. MaxRequest |-> answers'[r]]
    BY <1>2
  <2>. HIDE DEF Old, New
  <2>. QED BY <2>1, <2>2
<1>. HIDE DEF Old, New
<1>12. WebTypeOK'
  <2>1. (\A g \in Frame : coro[g] # None <=> \E i \in DOMAIN coroutines_ : coroutines_[i] = g)'
    <3>1. \A g \in Frame : coro'[g] # None <=> g \in Range(coroutines_')
      BY <1>9, <1>10 DEF Living
    <3>. QED BY <3>1 DEF Range
  <2>2. mxHttpRequestPool' \in Seq(1 .. mIndex')
    <3>1. mxHttpRequestPool \in Seq(1 .. mIndex)
      BY <1>1 DEF WebTypeOK
    <3>. QED BY <3>1, <1>2, <1>8
  <2>3. mute' \subseteq 1 .. MaxRequest
    <3>1. \A f \in all : coro[f].client \in 1 .. MaxRequest
      BY <1>3, <1>6
    <3>2. mute \subseteq 1 .. MaxRequest
      BY <1>1 DEF WebTypeOK
    <3>. HIDE DEF all, due
    <3>. QED BY <3>1, <3>2, <1>2
  <2>. QED BY <1>1, <1>2, <1>9, <1>10, <1>11, <2>1, <2>2, <2>3 DEF WebTypeOK
<1>13. Clients' = Clients
  BY <1>2 DEF Clients
<1>14. CoroutineInv'
  <2>. HIDE DEF due
  <2>1. \A g \in Undone : /\ g \in Living /\ coro'[g].object \in 1 .. mIndex /\ coro'[g].client \in Clients
    BY <1>3, <1>6, <1>9
  <2>2. \A g, h \in Undone : coro'[g].client = coro'[h].client => g = h
    BY <2>1, <1>1, <1>9 DEF CoroutineInv
  <2>3. IsInjective(coroutines_') /\ Living' = Undone /\ mIndex' = mIndex /\ Clients' = Clients
    BY <1>2, <1>9, <1>10, <1>13
  <2>. QED BY <2>1, <2>2, <2>3 DEF CoroutineInv
<1>15. \A f \in Living : /\ req[coro[f].object] \in 1 .. MaxRequest => req[coro[f].object] \in Clients
  <2>1. mIndex \in Nat /\ req \in [1 .. mIndex -> 0 .. MaxRequest] /\ asked \in Seq(Kind)
        /\ MaxRequest \in Nat
    BY <1>1, BoundAssumption DEF WebTypeOK
  <2>2. \A f \in Living : req[coro[f].object] \in 0 .. MaxRequest /\ req[coro[f].object] <= Len(asked)
    BY <2>1, <1>1, <1>6 DEF NumberInv
  <2>. QED BY <2>1, <2>2 DEF Clients
<1>16. NumberInv'
  <2>1. ASSUME NEW r \in 1 .. MaxRequest
        PROVE  /\ r \notin Clients => answers'[r] = <<>>
               /\ \A i \in DOMAIN answers'[r] : answers'[r][i].of \in Clients
    <3>1. \A i \in DOMAIN answers'[r] : answers'[r][i].of \in Clients
      <4>. TAKE i \in DOMAIN answers'[r]
      <4>1. CASE Old(r, i)
        BY <4>1, <1>1 DEF NumberInv, Old
      <4>2. CASE New(r, i)
        BY <4>2, <1>3, <1>6 DEF New
      <4>. QED BY <4>1, <4>2, <1>11
    <3>2. ASSUME r \notin Clients PROVE answers'[r] = <<>>
      <4>1. DOMAIN answers[r] = {}
        BY <1>1, <3>2 DEF NumberInv
      <4>2. DOMAIN answers'[r] = {}
        <5>. SUFFICES ASSUME NEW i \in DOMAIN answers'[r] PROVE FALSE
          OBVIOUS
        <5>0. New(r, i)
          BY <4>1, <1>11 DEF Old
        <5>1. PICK f \in due : req[coro[f].object] = r
          BY <5>0 DEF New
        <5>. QED BY <5>1, <3>2, <1>3, <1>15
      <4>3. answers'[r] \in Seq(Answer)
        BY <1>11
      <4>. QED BY <4>2, <4>3, NoElements
    <3>. QED BY <3>1, <3>2
  <2>. QED BY <2>1, <1>1, <1>2, <1>13 DEF NumberInv
<1>17. HeldInv' /\ ObjectsExclusive' /\ AnsweredOnce'
  <2>. SUFFICES ASSUME ~doubled PROVE HeldInv' /\ ObjectsExclusive' /\ AnsweredOnce'
    BY <1>2 DEF HeldInv, ObjectsExclusive, AnsweredOnce
  <2>0. \A f \in due : /\ f \in Undone /\ f \in Living /\ coro[f].client \in Clients
                       /\ coro[f].client \in 1 .. MaxRequest
    BY <1>3, <1>6
  <2>. HIDE DEF due
  <2>1. \A f \in Undone : /\ coro[f].object \notin Range(mxHttpRequestPool)
                          /\ req[coro[f].object] = coro[f].client /\ answers[coro[f].client] = <<>>
    BY <1>1 DEF HeldInv
  <2>2. /\ Range(mxHttpRequestPool') = Range(mxHttpRequestPool) \cup {coro[f].object : f \in due}
        /\ IsInjective(mxHttpRequestPool')
    <3>1. mxHttpRequestPool \in Seq(1 .. mIndex) /\ IsInjective(mxHttpRequestPool)
      BY <1>1 DEF WebTypeOK, ObjectsExclusive
    <3>2. Range(mxHttpRequestPool) \cap Range(given) = {}
      BY <2>0, <2>1, <1>8
    <3>3. IsInjective(given)
      BY <1>8
    <3>. QED BY <3>1, <3>2, <3>3, <1>2, <1>8, ConcatRange
  <2>3. ASSUME NEW r \in 1 .. MaxRequest, \A f \in due : coro[f].client # r
        PROVE  answers'[r] = answers[r]
    <3>1. Range(Of(r)) = {} /\ Of(r) \in Seq(Frame)
      BY <1>5, <2>0, <2>1, <2>3
    <3>2. Len(Of(r)) = 0
      BY <3>1, NoElements DEF Range
    <3>3. told(r) = <<>> /\ answers[r] \in Seq(Answer)
      BY <3>2, <1>1, <1>7
    <3>. QED BY <3>3, <1>2
  <2>4. ASSUME NEW g \in due
        PROVE  LET r == coro[g].client
               IN Len(answers'[r]) = 1 /\ \A i \in DOMAIN answers'[r] : answers'[r][i].of = r
    <3>. DEFINE r == coro[g].client
    <3>0. r \in 1 .. MaxRequest /\ answers[r] = <<>> /\ req[coro[g].object] = r
      BY <2>0, <2>1
    <3>. HIDE DEF r
    <3>1. Range(Of(r)) = {g}
      <4>1. \A f \in due : req[coro[f].object] = r => f = g
        BY <2>0, <2>1, <3>0, <1>1 DEF CoroutineInv, r
      <4>. QED BY <4>1, <3>0, <1>5
    <3>2. Len(Of(r)) = 1
      <4>1. Of(r) \in Seq(Frame) /\ IsInjective(Of(r))
        BY <1>5
      <4>2. Len(Of(r)) <= 1
        BY <4>1, <3>1, AtMostOne
      <4>3. Len(Of(r)) # 0
        BY <4>1, <3>1 DEF Range
      <4>. DEFINE l == Len(Of(r))
      <4>4. l \in Nat /\ l <= 1 /\ l # 0
        BY <4>1, <4>2, <4>3
      <4>. HIDE DEF l
      <4>5. l = 1
        BY <4>4
      <4>. QED BY <4>5 DEF l
    <3>3. told(r) \in Seq(Answer) /\ Len(told(r)) = 1
          /\ \A i \in DOMAIN told(r) : told(r)[i].of = r
      <4>1. told(r) \in Seq(Answer) /\ Len(told(r)) = 1
        BY <1>7, <3>2
      <4>2. ASSUME NEW i \in DOMAIN told(r) PROVE told(r)[i].of = r
        <5>1. PICK f \in due : req[coro[f].object] = r /\ told(r)[i].of = coro[f].client
          BY <1>7
        <5>. QED BY <5>1, <2>0, <2>1
      <4>. QED BY <4>1, <4>2
    <3>4. answers'[r] = told(r)
      <4>1. answers'[r] = <<>> \o told(r)
        BY <1>2, <3>0
      <4>. QED BY <4>1, <3>3
    <3>. QED BY <3>3, <3>4 DEF r
  <2>5. HeldInv'
    <3>1. ASSUME NEW g \in Undone'
          PROVE  /\ coro'[g].object \notin Range(mxHttpRequestPool')
                 /\ req'[coro'[g].object] = coro'[g].client
                 /\ answers'[coro'[g].client] = <<>>
      <4>1. /\ g \in Undone /\ g \notin due /\ g \in Living
            /\ coro'[g].object = coro[g].object /\ coro'[g].client = coro[g].client
            /\ coro[g].client \in 1 .. MaxRequest
        BY <1>3, <1>6, <1>9
      <4>2. \A f \in due : coro[f].client # coro[g].client /\ coro[f].object # coro[g].object
        BY <4>1, <2>0, <1>1 DEF CoroutineInv, HeldInv
      <4>3. answers'[coro[g].client] = answers[coro[g].client]
        BY <4>1, <4>2, <2>3
      <4>. QED BY <4>1, <4>2, <4>3, <2>1, <2>2, <1>2
    <3>2. ASSUME NEW g \in Undone', NEW h \in Undone', coro'[g].object = coro'[h].object
          PROVE  g = h
      BY <3>2, <1>9, <1>1 DEF HeldInv
    <3>. QED BY <3>1, <3>2 DEF HeldInv
  <2>6. ObjectsExclusive'
    <3>1. Unanswered' \subseteq Unanswered \ {coro[f].client : f \in due}
      <4>1. ASSUME NEW r \in Unanswered' PROVE r \in Unanswered /\ \A f \in due : coro[f].client # r
        <5>1. r \in Clients /\ answers'[r] = <<>> /\ r \in 1 .. MaxRequest
          <6>1. Clients \subseteq 1 .. MaxRequest
            BY <1>1, BoundAssumption DEF NumberInv, WebTypeOK, Clients
          <6>. QED BY <6>1, <1>13 DEF Unanswered
        <5>2. \A f \in due : coro[f].client # r
          <6>1. Len(answers'[r]) # 1
            BY <5>1
          <6>. QED BY <6>1, <2>4
        <5>3. answers'[r] = answers[r]
          BY <5>1, <5>2, <2>3
        <5>. QED BY <5>1, <5>2, <5>3 DEF Unanswered
      <4>. QED BY <4>1
    <3>2. \A f \in due : req[coro[f].object] = coro[f].client
      BY <2>0, <2>1
    <3>3. ASSUME NEW p \in 1 .. mIndex, req[p] \in Unanswered', p \in Range(mxHttpRequestPool')
          PROVE  FALSE
      <4>1. p \notin Range(mxHttpRequestPool)
        BY <3>1, <3>3, <1>1 DEF ObjectsExclusive
      <4>2. PICK f \in due : p = coro[f].object
        BY <4>1, <3>3, <2>2
      <4>. QED BY <4>2, <3>1, <3>2, <3>3
    <3>. QED BY <3>3, <2>2, <1>1, <1>2 DEF ObjectsExclusive
  <2>7. AnsweredOnce'
    <3>1. ASSUME NEW r \in Clients
          PROVE  Len(answers'[r]) <= 1 /\ \A i \in DOMAIN answers'[r] : answers'[r][i].of = r
      <4>1. CASE \E f \in due : coro[f].client = r
        <5>1. PICK f \in due : coro[f].client = r
          BY <4>1
        <5>2. Len(answers'[r]) = 1 /\ \A i \in DOMAIN answers'[r] : answers'[r][i].of = r
          BY <5>1, <2>4
        <5>. QED BY <5>2
      <4>2. CASE \A f \in due : coro[f].client # r
        <5>1. r \in 1 .. MaxRequest
          BY <1>1, BoundAssumption DEF NumberInv, WebTypeOK, Clients
        <5>. QED BY <4>2, <5>1, <2>3, <1>1 DEF AnsweredOnce
      <4>. QED BY <4>1, <4>2
    <3>. QED BY <3>1, <1>2, <1>13 DEF AnsweredOnce
  <2>. QED BY <2>5, <2>6, <2>7
<1>18. OwnAnswer'
  <2>. SUFFICES ASSUME ~dangling, NEW g \in Frame, NEW r \in Clients, NEW i \in DOMAIN answers'[r],
                       coro'[g] # None, coro'[g].via = "node",
                       answers'[r][i].of = coro'[g].client, answers'[r][i].ok
                PROVE  answers'[r][i].data = coro'[g].req_id
    <3>1. ~dangling' => ~dangling
      BY <1>2
    <3>. QED BY <1>13, <3>1 DEF OwnAnswer
  <2>1. /\ g \in Undone /\ g \in Living /\ coro'[g].client = coro[g].client /\ coro'[g].via = coro[g].via
        /\ coro'[g].req_id = coro[g].req_id
    BY <1>3, <1>9 DEF Living
  <2>2. r \in 1 .. MaxRequest
    BY <1>1, BoundAssumption DEF NumberInv, WebTypeOK, Clients
  <2>3. ASSUME NEW f \in due, answers'[r][i].of = coro[f].client, f \in wrong PROVE FALSE
    <3>1. f \in Living /\ coro[f].client = coro[g].client
      BY <2>1, <2>3, <1>3
    <3>2. f = g
      BY <3>1, <2>1, <1>1 DEF CoroutineInv
    <3>. QED BY <3>2, <2>1, <2>3, <1>3
  <2>4. i \in DOMAIN answers[r] /\ answers'[r][i] = answers[r][i]
    <3>1. Old(r, i) \/ New(r, i)
      BY <2>2, <1>11
    <3>. QED BY <3>1, <2>3 DEF Old, New
  <2>. QED BY <2>1, <2>4, <1>1 DEF OwnAnswer, Living
<1>. QED BY <1>1, <1>2, <1>12, <1>14, <1>16, <1>17, <1>18 DEF WebInv

(* No request has come.                                                    *)
LEMMA WebInvInit == WebInit => WebInv
<1>. SUFFICES ASSUME WebInit PROVE WebInv
  OBVIOUS
<1>1. Batch \in Nat \ {0} /\ MaxRequest \in Nat
  BY BoundAssumption
<1>2. Living = {} /\ Undone = {} /\ Clients = {} /\ Len(asked) = 0
  BY DEF WebInit, Living, Undone, Clients
<1>3. WebTypeOK
  <2>1. mxHttpRequestPool \in Seq(1 .. mIndex) /\ req \in [1 .. mIndex -> 0 .. MaxRequest]
        /\ mIndex \in Nat
    BY DEF WebInit
  <2>2. \A f \in Frame : coro[f] # None <=> \E i \in DOMAIN coroutines_ : coroutines_[i] = f
    BY DEF WebInit
  <2>3. answers \in [1 .. MaxRequest -> Seq(Answer)]
    BY DEF WebInit
  <2>4. asks \in Seq(1 .. MaxRequest) /\ mlHttpObject \in Seq((1 .. Len(asks)) \ flying)
        /\ flying \subseteq 1 .. Len(asks) /\ coroutines_ \in Seq(Frame) /\ asked \in Seq(Kind)
    BY DEF WebInit
  <2>5. {doubled, dangling} \subseteq BOOLEAN /\ mute \subseteq 1 .. MaxRequest
    BY DEF WebInit
  <2>6. /\ coro \in [Frame -> Coro \cup {None}] /\ co_awaitbles_ \in [1 .. MaxRequest -> Frame \cup {None}]
        /\ last_req_id_ \in 0 .. MaxRequest /\ acks \subseteq 1 .. MaxRequest
    BY <1>1 DEF WebInit
  <2>. QED BY <2>1, <2>2, <2>3, <2>4, <2>5, <2>6 DEF WebTypeOK
<1>4. IsInjective(mlHttpObject) /\ IsInjective(mxHttpRequestPool) /\ IsInjective(coroutines_)
  BY DEF WebInit, IsInjective
<1>5. CoroutineInv /\ NumberInv
  <2>1. CoroutineInv
    BY <1>2, <1>4 DEF CoroutineInv
  <2>. QED BY <2>1, <1>1, <1>2 DEF WebInit, NumberInv
<1>6. HeldInv /\ ObjectsExclusive /\ AnsweredOnce /\ OwnAnswer
  BY <1>2, <1>4 DEF WebInit, HeldInv, ObjectsExclusive, AnsweredOnce, OwnAnswer
<1>. QED BY <1>3, <1>4, <1>5, <1>6 DEF WebInv

(* One action after the other.                                             *)
LEMMA WebInvNext == WebInv /\ [WebNext]_webVars => WebInv'
<1>. SUFFICES ASSUME WebInv, [WebNext]_webVars PROVE WebInv'
  OBVIOUS
<1>1. ASSUME NEW kind \in Kind, Listener(kind) PROVE WebInv'
  BY <1>1, ListenerKeeps
<1>2. ASSUME NEW kind \in Kind, NEW f \in Frame, NEW sent \in BOOLEAN, Start(kind, f, sent)
      PROVE  WebInv'
  BY <1>2, StartKeeps
<1>3. ASSUME NEW k \in 1 .. MaxRequest, NEW parsed \in BOOLEAN, OnAckHandler(k, parsed)
      PROVE  WebInv'
  BY <1>3, OnAckHandlerKeeps
<1>4. ASSUME NEW h \in 1 .. Len(asks), NEW failed \in BOOLEAN, NEW parsed \in BOOLEAN,
             OnHttpReqDone(h, failed, parsed)
      PROVE  WebInv'
  BY <1>4, OnHttpReqDoneKeeps
<1>5. ASSUME NEW late \in SUBSET Living, NEW wrong \in SUBSET SeenOk(late),
             FixCoroutines(late, wrong)
      PROVE  WebInv'
  BY <1>5, FixCoroutinesKeeps
<1>6. CASE UNCHANGED webVars
  BY <1>6 DEF webVars, WebInv, WebTypeOK, CoroutineInv, NumberInv, HeldInv, ObjectsExclusive,
              AnsweredOnce, OwnAnswer, Living, Undone, Clients, Unanswered
<1>. QED BY <1>1, <1>2, <1>3, <1>4, <1>5, <1>6 DEF WebNext

(* The inductive invariant holds in every state of every behaviour.        *)
LEMMA WebInvariant == WebSpec => []WebInv
BY WebInvInit, WebInvNext, PTL DEF WebSpec

(* HttpServer: types; until a request's object goes back twice, an object  *)
(* is free or stands for one client that waits, and a client gets at most  *)
(* one answer, its own.                                                    *)
THEOREM WebAnsweredRight == WebSpec => []AnsweredRight
<1>1. WebInv => AnsweredRight
  BY DEF WebInv, AnsweredRight
<1>. QED BY <1>1, WebInvariant, PTL

(* A coroutine that asked a node takes for its answer only the answer to   *)
(* its own question, until an answer meets a coroutine that is gone.       *)
THEOREM WebOwnAnswer == WebSpec => []OwnAnswer
<1>1. WebInv => OwnAnswer
  BY DEF WebInv
<1>. QED BY <1>1, WebInvariant, PTL

-----------------------------------------------------------------------------
(***************************************************************************)
(* Callbacks.  The walks over the lists of functors, which share a cursor  *)
(* in each list, and the schedules, for any objects, events, names and     *)
(* functors and any nesting of calls: type correctness, HeardAll and       *)
(* SchedulesRight.                                                         *)
(***************************************************************************)

(* A List holds callbacks and its cursor is in it; all but the common one  *)
(* are made with a callback.                                               *)
ListRec == [items : Seq(Callback), cur : Nat]
HeapOK(h) ==
  /\ h \in Seq(ListRec) /\ CommonList \in DOMAIN h
  /\ \A l \in DOMAIN h : h[l].cur <= Len(h[l].items) /\ (l # CommonList => h[l].items # <<>>)

(* The maps lead to Lists that hold a callback.                            *)
LeadsTo(h, t) == \A k \in DOMAIN t : t[k] \in DOMAIN h \ {CommonList}

(* The walks: Update's is the first there is, Lua's never.                 *)
WalkKey == EventKey \cup ModuleKey \cup Key \cup (NameKey \X Nat)
Walking == [list : Nat, key : WalkKey, for : {"event", "common", "lua", "beat"},
            due : SUBSET Nat, shared : BOOLEAN, cb : Callback]
(* Of the walks over one list only the innermost has it to itself.         *)
SharedOK(s) == \A j, k \in DOMAIN s : j < k /\ s[j].list = s[k].list => s[j].shared
StackOK(h, s) ==
  /\ s \in Seq(Walking) /\ SharedOK(s)
  /\ \A k \in DOMAIN s : /\ s[k].list \in DOMAIN h
                         /\ s[k].for = "lua" => k # 1
                         /\ s[k].for = "beat" => k = 1 /\ s[k].key \in NameKey \X Nat

(* What is due to a walk that has its list to itself lies behind the       *)
(* cursor; at the end of the list nothing is.                              *)
DueOK(h, s) ==
  \A k \in DOMAIN s :
    /\ s[k].due \subseteq DOMAIN h[s[k].list].items
    /\ ~s[k].shared =>
         /\ h[s[k].list].cur = 0 => s[k].due = {}
         /\ \A i \in s[k].due : h[s[k].list].cur < i

HeapInv ==
  /\ HeapOK(heap) /\ StackOK(heap, stack) /\ DueOK(heap, stack)
  /\ LeadsTo(heap, table) /\ LeadsTo(heap, funcs)
  /\ doing \in {"run", "next"} <=> stack # <<>>

(* The schedules, and the ticks they are queued with.                      *)
ElementRec == [key : NameKey, list : Nat, interval : Interval, time : Nat, remain : Int, count : Int,
               fired : Nat, alone : BOOLEAN, early : BOOLEAN]
TickRec == [key : NameKey, time : Nat]
ElementInv ==
  /\ element \in Seq(ElementRec)
  /\ \A i \in DOMAIN element : element[i].list \in DOMAIN heap \ {CommonList}
  /\ \A k \in DOMAIN objects :
       k \in NameKey /\ objects[k] \in DOMAIN element /\ element[objects[k]].key = k
  /\ ticks \in Seq(TickRec) /\ elements \in Seq(TickRec)

(* A count that was asked for runs down with every call, and who is        *)
(* registered has calls left.                                              *)
CountInv ==
  /\ \A i \in DOMAIN element :
       /\ element[i].count > 0 => element[i].remain >= 0
                                  /\ element[i].fired = element[i].count - element[i].remain
       /\ element[i].count <= 0 => element[i].remain = element[i].count
       /\ element[i].alone => ~element[i].early
  /\ \A k \in DOMAIN objects : element[objects[k]].count > 0 => element[objects[k]].remain > 0

(* While a schedule is called, the tick that it is called for is still the *)
(* first; one that took its name meanwhile has a tick of its own.          *)
Beating == stack # <<>> /\ stack[1].for = "beat"
BeatOf == stack[1].key
Rest == IF Beating THEN Tail(ticks) ELSE ticks
Free(s, k) == \A i \in DOMAIN s : s[i].key # k
BeatInv ==
  Beating =>
    /\ ticks # <<>> /\ Head(ticks).key = BeatOf[1] /\ Head(ticks).time <= now
    /\ BeatOf[2] \in DOMAIN element
    /\ element[BeatOf[2]].key = BeatOf[1] /\ element[BeatOf[2]].fired > 0
    /\ BeatOf[1] \in DOMAIN objects /\ objects[BeatOf[1]] # BeatOf[2] =>
         /\ ~element[objects[BeatOf[1]]].alone
         /\ ~Free(Rest, BeatOf[1]) \/ ~Free(elements, BeatOf[1])

(* A schedule that was alone under its name when it was added is queued    *)
(* once at most, at its time.                                              *)
Single(s, k) == \A i, j \in DOMAIN s : s[i].key = k /\ s[j].key = k => i = j
NotBefore(s, k, t) == \A i \in DOMAIN s : s[i].key = k => s[i].time >= t
QueuedOnce(s, t, k) == Single(s, k) /\ Single(t, k) /\ (Free(s, k) \/ Free(t, k))
AloneInv ==
  \A k \in DOMAIN objects :
    element[objects[k]].alone =>
      /\ QueuedOnce(Rest, elements, k)
      /\ NotBefore(Rest, k, element[objects[k]].time)
      /\ NotBefore(elements, k, element[objects[k]].time)
      /\ Beating /\ BeatOf = <<k, objects[k]>> => Free(Rest, k) /\ Free(elements, k)

QueuedInv ==
  \A k \in DOMAIN objects :
    element[objects[k]].remain # 0 \/ element[objects[k]].fired = 0 =>
      \/ ~Free(ticks, k) \/ ~Free(elements, k)

PlainInv ==
  /\ DOMAIN table \subseteq EventKey \cup ModuleKey /\ DOMAIN funcs \subseteq Key
  /\ hooked \subseteq Source \X Message
  /\ \A sm \in hooked : TableOf(sm[1], sm[2]) \in DOMAIN funcs
  /\ doing \in {"idle", "run", "next", "tick"}
  /\ now \in 0..MaxTime /\ ops \in 0..MaxOp

CallbacksInv ==
  /\ HeapInv /\ PlainInv /\ ElementInv /\ CountInv /\ BeatInv /\ AloneInv /\ QueuedInv

-----------------------------------------------------------------------------

(* A queue of ticks with one more in it.                                   *)
Inserted(q, s, t) ==
  \E n \in 0 .. Len(s) :
    /\ q \in Seq(TickRec) /\ Len(q) = Len(s) + 1
    /\ \A i \in 1 .. Len(q) : q[i] = IF i <= n THEN s[i] ELSE IF i = n + 1 THEN t ELSE s[i - 1]

(* std::multiset::insert puts one in, and not before one that is earlier.  *)
LEMMA InsertRight ==
  ASSUME NEW s \in Seq(TickRec), NEW t \in TickRec
  PROVE  /\ Inserted(InsertTick(s, t), s, t)
         /\ s # <<>> /\ Head(s).time <= t.time =>
              /\ InsertTick(s, t) # <<>> /\ Head(InsertTick(s, t)) = Head(s)
              /\ Inserted(Tail(InsertTick(s, t)), Tail(s), t)
<1>. DEFINE E == {i \in DOMAIN s : s[i].time <= t.time}
            n == Cardinality(E)
            q == InsertTick(s, t)
            a == SubSeq(s, 1, n)
            b == SubSeq(s, n + 1, Len(s))
<1>1. n \in 0 .. Len(s) /\ IsFiniteSet(E)
  <2>. DEFINE m == Len(s)
  <2>1. IsFiniteSet(1 .. m) /\ Cardinality(1 .. m) = m
    <3>1. m \in Nat
      OBVIOUS
    <3>. HIDE DEF m
    <3>. QED BY <3>1, FS_Interval
  <2>2. E \subseteq 1 .. Len(s)
    OBVIOUS
  <2>. HIDE DEF E
  <2>3. IsFiniteSet(E) /\ n \in Nat /\ n <= Len(s)
    BY <2>1, <2>2, FS_Subset, FS_CardinalityType
  <2>. QED BY <2>3
<1>2. s # <<>> /\ Head(s).time <= t.time => n >= 1
  <2>1. s # <<>> /\ Head(s).time <= t.time => 1 \in E
    OBVIOUS
  <2>. HIDE DEF E
  <2>2. 1 \in E => n # 0
    BY <1>1, FS_EmptySet
  <2>. QED BY <2>1, <2>2, <1>1
<1>3. q = a \o <<t>> \o b
  BY DEF InsertTick
<1>. HIDE DEF E, n
<1>4. /\ a \in Seq(TickRec) /\ Len(a) = n /\ \A i \in 1 .. n : a[i] = s[i]
      /\ b \in Seq(TickRec) /\ Len(b) = Len(s) - n /\ \A i \in 1 .. Len(s) - n : b[i] = s[n + i]
  BY <1>1
<1>. HIDE DEF a, b
<1>5. /\ q \in Seq(TickRec) /\ Len(q) = Len(s) + 1
      /\ \A i \in 1 .. Len(q) : q[i] = IF i <= n THEN s[i] ELSE IF i = n + 1 THEN t ELSE s[i - 1]
  <2>1. q \in Seq(TickRec) /\ Len(q) = Len(s) + 1 /\ Len(s) \in Nat
    BY <1>1, <1>3, <1>4
  <2>2. ASSUME NEW i \in 1 .. n PROVE q[i] = s[i]
    BY <1>1, <1>3, <1>4
  <2>3. q[n + 1] = t
    BY <1>1, <1>3, <1>4
  <2>4. ASSUME NEW i \in n + 2 .. Len(s) + 1 PROVE q[i] = s[i - 1]
    <3>1. i - n - 1 \in 1 .. Len(s) - n /\ n + (i - n - 1) = i - 1
      BY <1>1, <2>1
    <3>2. q[i] = b[i - n - 1]
      BY <1>1, <1>3, <1>4, <3>1
    <3>. QED BY <3>1, <3>2, <1>4
  <2>. QED BY <1>1, <2>1, <2>2, <2>3, <2>4
<1>. HIDE DEF q
<1>6. Inserted(q, s, t)
  BY <1>1, <1>5 DEF Inserted
<1>7. ASSUME s # <<>>, Head(s).time <= t.time
      PROVE  q # <<>> /\ Head(q) = Head(s) /\ Inserted(Tail(q), Tail(s), t)
  <2>1. n >= 1 /\ Len(s) >= 1 /\ Len(s) \in Nat
    BY <1>2, <1>7
  <2>2. q # <<>> /\ Head(q) = Head(s)
    BY <1>1, <1>5, <2>1
  <2>3. /\ Tail(q) \in Seq(TickRec) /\ Len(Tail(q)) = Len(s) /\ \A i \in 1 .. Len(s) : Tail(q)[i] = q[i + 1]
        /\ Len(Tail(s)) = Len(s) - 1 /\ \A i \in 1 .. Len(s) - 1 : Tail(s)[i] = s[i + 1]
    BY <1>5, <2>2, <1>7
  <2>4. \A i \in 1 .. Len(Tail(q)) :
          Tail(q)[i] = IF i <= n - 1 THEN Tail(s)[i] ELSE IF i = n THEN t ELSE Tail(s)[i - 1]
    <3>1. TAKE i \in 1 .. Len(Tail(q))
    <3>2. i + 1 \in 1 .. Len(q) /\ Tail(q)[i] = q[i + 1] /\ i \in 1 .. Len(s)
      BY <2>1, <2>3, <1>5
    <3>3. ASSUME i <= n - 1 PROVE Tail(q)[i] = Tail(s)[i]
      BY <3>2, <3>3, <1>1, <1>5, <2>1, <2>3
    <3>4. ASSUME i = n PROVE Tail(q)[i] = t
      BY <3>2, <3>4, <1>1, <1>5, <2>1
    <3>5. ASSUME i > n PROVE Tail(q)[i] = Tail(s)[i - 1]
      <4>1. q[i + 1] = s[i]
        BY <3>2, <3>5, <1>1, <1>5, <2>1
      <4>2. i - 1 \in 1 .. Len(s) - 1
        BY <3>2, <3>5, <2>1, <1>1
      <4>. QED BY <3>2, <3>5, <4>1, <4>2, <2>1, <2>3, <1>1
    <3>6. i \in Nat /\ n \in Nat
      BY <1>1, <2>1, <3>2
    <3>7. i <= n - 1 \/ i = n \/ i > n
      BY <3>6
    <3>8. (i = n \/ i > n) => ~(i <= n - 1)
      BY <3>6
    <3>9. i > n => i # n
      BY <3>6
    <3>. HIDE DEF q
    <3>. QED BY <3>3, <3>4, <3>5, <3>7, <3>8, <3>9
  <2>5. n - 1 \in 0 .. Len(Tail(s)) /\ Len(Tail(q)) = Len(Tail(s)) + 1 /\ (n - 1) + 1 = n
    BY <1>1, <2>1, <2>3
  <2>. QED BY <2>2, <2>3, <2>4, <2>5 DEF Inserted
<1>. QED BY <1>6, <1>7 DEF q

(* What one more tick does to those of a name.                             *)
LEMMA InsertKeys ==
  ASSUME NEW s \in Seq(TickRec), NEW t \in TickRec, NEW q, Inserted(q, s, t), NEW k, NEW time
  PROVE  /\ q \in Seq(TickRec)
         /\ Free(q, k) <=> Free(s, k) /\ t.key # k
         /\ Single(s, k) /\ t.key # k => Single(q, k)
         /\ Free(s, k) => Single(q, k)
         /\ NotBefore(s, k, time) /\ (t.key = k => t.time >= time) => NotBefore(q, k, time)
<1>1. PICK n \in 0 .. Len(s) :
        /\ q \in Seq(TickRec) /\ Len(q) = Len(s) + 1
        /\ \A i \in 1 .. Len(q) : q[i] = IF i <= n THEN s[i] ELSE IF i = n + 1 THEN t ELSE s[i - 1]
  BY DEF Inserted
<1>2. Len(s) \in Nat /\ DOMAIN s = 1 .. Len(s) /\ DOMAIN q = 1 .. Len(s) + 1
  BY <1>1
<1>3. q[n + 1] = t
  BY <1>1, <1>2
<1>4. \A i \in 1 .. Len(s) : \E j \in 1 .. Len(s) + 1 : q[j] = s[i]
  <2>1. TAKE i \in 1 .. Len(s)
  <2>2. CASE i <= n
    BY <1>1, <1>2, <2>2
  <2>3. CASE i > n
    <3>1. i + 1 \in 1 .. Len(q) /\ q[i + 1] = s[i]
      BY <1>1, <1>2, <2>3
    <3>. QED BY <3>1, <1>1
  <2>. QED BY <2>2, <2>3, <1>1
<1>5. \A j \in 1 .. Len(s) + 1 : j # n + 1 =>
        (IF j <= n THEN j ELSE j - 1) \in 1 .. Len(s) /\ q[j] = s[IF j <= n THEN j ELSE j - 1]
  BY <1>1, <1>2
<1>. DEFINE Old(j) == IF j <= n THEN j ELSE j - 1
<1>6. \A i, j \in 1 .. Len(s) + 1 : i # n + 1 /\ j # n + 1 /\ Old(i) = Old(j) => i = j
  BY <1>1, <1>2
<1>7. \A j \in 1 .. Len(s) + 1 : j # n + 1 => Old(j) \in DOMAIN s /\ q[j] = s[Old(j)]
  BY <1>2, <1>5
<1>8. n + 1 \in DOMAIN q
  BY <1>1, <1>2
<1>. HIDE DEF Old
<1>9. Free(q, k) <=> Free(s, k) /\ t.key # k
  <2>1. Free(q, k) => Free(s, k) /\ t.key # k
    BY <1>2, <1>3, <1>4, <1>8 DEF Free
  <2>2. Free(s, k) /\ t.key # k => Free(q, k)
    BY <1>2, <1>3, <1>7 DEF Free
  <2>. QED BY <2>1, <2>2
<1>10. Single(s, k) /\ t.key # k => Single(q, k)
  BY <1>2, <1>3, <1>6, <1>7 DEF Single
<1>11. Free(s, k) => Single(q, k)
  BY <1>2, <1>3, <1>7 DEF Single, Free
<1>12. NotBefore(s, k, time) /\ (t.key = k => t.time >= time) => NotBefore(q, k, time)
  BY <1>2, <1>3, <1>7 DEF NotBefore
<1>. QED BY <1>1, <1>9, <1>10, <1>11, <1>12

(* Requeued: a recursive definition has a value at every place. *)
RequeuedFrom(g) ==
  g = [n \in 0 .. Len(elements) |-> IF n = 0 THEN ticks ELSE InsertTick(g[n - 1], elements[n])]

(* Requeued is the last value of such a function: there is one, since each *)
(* value is got from the one before.                                       *)
LEMMA RequeuedIs ==
  ASSUME Len(elements) \in Nat
  PROVE  \E g : RequeuedFrom(g) /\ Requeued = g[Len(elements)]
<1>. DEFINE Part(g, k) == g = [n \in 0 .. k |->
                                 IF n = 0 THEN ticks ELSE InsertTick(g[n - 1], elements[n])]
            P == {k \in 0 .. Len(elements) : \E g : Part(g, k)}
<1>1. 0 \in P
  <2>. DEFINE g == [n \in 0 .. 0 |-> ticks]
  <2>1. Part(g, 0)
    OBVIOUS
  <2>2. \E f : Part(f, 0)
    <3>. HIDE DEF g, Part
    <3>. QED BY <2>1
  <2>. HIDE DEF g, Part
  <2>. QED BY <2>2
<1>2. ASSUME NEW n \in 0 .. Len(elements), n # 0, n - 1 \in P PROVE n \in P
  <2>1. PICK g : Part(g, n - 1)
    BY <1>2
  <2>. DEFINE h == [i \in 0 .. n |-> IF i < n THEN g[i] ELSE InsertTick(g[n - 1], elements[n])]
  <2>2. \A i \in 0 .. n - 1 : g[i] = IF i = 0 THEN ticks ELSE InsertTick(g[i - 1], elements[i])
    BY <2>1
  <2>3. \A i \in 0 .. n : h[i] = IF i = 0 THEN ticks ELSE InsertTick(h[i - 1], elements[i])
    <3>. TAKE i \in 0 .. n
    <3>1. CASE i = n
      BY <3>1, <1>2
    <3>2. CASE i < n
      BY <3>2, <2>2, <1>2
    <3>. QED BY <3>1, <3>2
  <2>. HIDE DEF h
  <2>4. h = [i \in 0 .. n |-> h[i]]
    BY DEF h
  <2>5. Part(h, n)
    BY <2>3, <2>4
  <2>. QED BY <2>5
<1>. HIDE DEF P
<1>3. 0 .. Len(elements) \subseteq P
  BY <1>1, <1>2, UpTo
<1>4. \E g : RequeuedFrom(g)
  BY <1>3 DEF P, RequeuedFrom
<1>. DEFINE g == CHOOSE g : RequeuedFrom(g)
<1>5. RequeuedFrom(g)
  BY <1>4
<1>6. Requeued = g[Len(elements)]
  BY DEF Requeued, RequeuedFrom
<1>. QED BY <1>5, <1>6

(* What goes on is queued again, and nothing else is.                      *)
LEMMA RequeuedRight ==
  ASSUME ticks \in Seq(TickRec), elements \in Seq(TickRec), NEW k, NEW time
  PROVE  /\ Requeued \in Seq(TickRec)
         /\ Free(Requeued, k) <=> Free(ticks, k) /\ Free(elements, k)
         /\ QueuedOnce(ticks, elements, k) => Single(Requeued, k)
         /\ NotBefore(ticks, k, time) /\ NotBefore(elements, k, time) => NotBefore(Requeued, k, time)
<1>. DEFINE Good(q, n) ==
              /\ q \in Seq(TickRec)
              /\ Free(q, k) <=> Free(ticks, k) /\ \A j \in 1 .. n : elements[j].key # k
              /\ QueuedOnce(ticks, elements, k) => Single(q, k)
              /\ NotBefore(ticks, k, time) /\ NotBefore(elements, k, time) => NotBefore(q, k, time)
<1>0. /\ Len(elements) \in Nat /\ DOMAIN elements = 1 .. Len(elements)
      /\ \A j \in 1 .. Len(elements) : elements[j] \in TickRec
  OBVIOUS
<1>1. PICK g : RequeuedFrom(g) /\ Requeued = g[Len(elements)]
  BY <1>0, RequeuedIs
<1>2. \A n \in 0 .. Len(elements) :
        g[n] = IF n = 0 THEN ticks ELSE InsertTick(g[n - 1], elements[n])
  BY <1>1 DEF RequeuedFrom
<1>. DEFINE P == {n \in 0 .. Len(elements) : Good(g[n], n)}
<1>3. 0 \in P
  <2>1. g[0] = ticks
    BY <1>0, <1>2
  <2>2. Good(ticks, 0)
    BY DEF QueuedOnce
  <2>. HIDE DEF Good
  <2>. QED BY <1>0, <2>1, <2>2
<1>4. ASSUME NEW n \in 0 .. Len(elements), n # 0, n - 1 \in P PROVE n \in P
  <2>. DEFINE q == g[n - 1]
              t == elements[n]
  <2>1. Good(q, n - 1) /\ t \in TickRec /\ n \in 1 .. Len(elements)
    BY <1>4, <1>0
  <2>2. Inserted(g[n], q, t)
    <3>1. g[n] = InsertTick(q, t)
      BY <1>2, <1>4
    <3>2. q \in Seq(TickRec) /\ t \in TickRec
      BY <2>1
    <3>. HIDE DEF q, t
    <3>. QED BY <3>1, <3>2, InsertRight
  <2>3. /\ g[n] \in Seq(TickRec)
        /\ Free(g[n], k) <=> Free(q, k) /\ t.key # k
        /\ Single(q, k) /\ t.key # k => Single(g[n], k)
        /\ Free(q, k) => Single(g[n], k)
        /\ NotBefore(q, k, time) /\ (t.key = k => t.time >= time) => NotBefore(g[n], k, time)
    <3>1. q \in Seq(TickRec) /\ t \in TickRec
      BY <2>1
    <3>. HIDE DEF q, t
    <3>. QED BY <2>2, <3>1, InsertKeys
  <2>4. Free(g[n], k) <=> Free(ticks, k) /\ \A j \in 1 .. n : elements[j].key # k
    <3>1. 1 .. n = 1 .. n - 1 \cup {n}
      BY <2>1
    <3>. QED BY <2>1, <2>3, <3>1
  <2>5. QueuedOnce(ticks, elements, k) => Single(g[n], k)
    <3>. SUFFICES ASSUME QueuedOnce(ticks, elements, k), t.key = k PROVE Free(q, k)
      BY <2>1, <2>3
    <3>1. Free(ticks, k)
      BY <2>1, <1>0 DEF QueuedOnce, Free
    <3>2. \A j \in 1 .. n - 1 : elements[j].key # k
      BY <2>1, <1>0 DEF QueuedOnce, Single
    <3>. QED BY <2>1, <3>1, <3>2
  <2>6. NotBefore(ticks, k, time) /\ NotBefore(elements, k, time) => NotBefore(g[n], k, time)
    <3>1. NotBefore(elements, k, time) => (t.key = k => t.time >= time)
      BY <2>1, <1>0 DEF NotBefore
    <3>. QED BY <2>1, <2>3, <3>1
  <2>. HIDE DEF q, t
  <2>. QED BY <2>3, <2>4, <2>5, <2>6
<1>. HIDE DEF P
<1>5. Len(elements) \in P
  <2>1. 0 .. Len(elements) \subseteq P
    BY <1>0, <1>3, <1>4, UpTo
  <2>. QED BY <1>0, <2>1
<1>6. Good(Requeued, Len(elements))
  BY <1>1, <1>5 DEF P
<1>. QED BY <1>6, <1>0 DEF Free

(* Lists are made and grow while they are walked.                          *)
Grows(h, g) ==
  /\ HeapOK(g) /\ Len(h) <= Len(g)
  /\ \A l \in DOMAIN h : g[l].cur = h[l].cur /\ Len(h[l].items) <= Len(g[l].items)

(* A callback is added to a List.                                          *)
LEMMA AddGrows ==
  ASSUME NEW h, HeapOK(h), NEW l \in DOMAIN h, NEW cb \in Callback
  PROVE  Grows(h, Add(h, l, cb)) /\ Len(Add(h, l, cb)) = Len(h)
<1>. DEFINE g == Add(h, l, cb)
            new == Append(h[l].items, cb)
<1>1. /\ h \in Seq(ListRec) /\ Len(h) \in Nat /\ DOMAIN h = 1 .. Len(h)
      /\ \A m \in 1 .. Len(h) : h[m] \in ListRec
  BY DEF HeapOK
<1>2. h[l].items \in Seq(Callback) /\ h[l].cur \in Nat /\ h[l].cur <= Len(h[l].items)
  BY <1>1 DEF HeapOK, ListRec
<1>3. new \in Seq(Callback) /\ Len(new) = Len(h[l].items) + 1 /\ new # <<>> /\ Len(h[l].items) \in Nat
  <2>. DEFINE items == h[l].items
  <2>1. items \in Seq(Callback)
    BY <1>2
  <2>. HIDE DEF items
  <2>2. /\ Append(items, cb) \in Seq(Callback) /\ Len(Append(items, cb)) = Len(items) + 1
        /\ Append(items, cb) # <<>> /\ Len(items) \in Nat
    BY <2>1
  <2>. QED BY <2>2 DEF items
<1>4. /\ g \in Seq(ListRec) /\ Len(g) = Len(h) /\ DOMAIN g = DOMAIN h
      /\ g[l].items = new /\ g[l].cur = h[l].cur
      /\ \A m \in DOMAIN h : m # l => g[m] = h[m]
  <2>. HIDE DEF new
  <2>1. g = [h EXCEPT ![l] = [items |-> new, cur |-> h[l].cur]]
    <3>1. [h[l] EXCEPT !.items = new] = [items |-> new, cur |-> h[l].cur]
      BY <1>1 DEF ListRec
    <3>2. g = [h EXCEPT ![l] = [h[l] EXCEPT !.items = new]]
      BY DEF Add, new
    <3>. QED BY <3>1, <3>2
  <2>2. [items |-> new, cur |-> h[l].cur] \in ListRec
    BY <1>2, <1>3 DEF ListRec
  <2>. HIDE DEF g
  <2>. QED BY <1>1, <2>1, <2>2
<1>. HIDE DEF g, new
<1>5. HeapOK(g)
  BY <1>1, <1>2, <1>3, <1>4 DEF HeapOK
<1>6. \A m \in DOMAIN h : g[m].cur = h[m].cur /\ Len(h[m].items) <= Len(g[m].items)
  <2>1. TAKE m \in DOMAIN h
  <2>2. h[m].items \in Seq(Callback)
    BY <1>1 DEF ListRec
  <2>3. Len(h[m].items) \in Nat
    BY <2>2
  <2>4. CASE m = l
    <3>1. g[m].cur = h[m].cur /\ g[m].items = new /\ Len(new) = Len(h[m].items) + 1
      BY <1>3, <1>4, <2>4
    <3>. QED BY <2>3, <3>1
  <2>5. CASE m # l
    <3>1. g[m] = h[m]
      BY <1>4, <2>5
    <3>. QED BY <2>3, <3>1
  <2>. QED BY <2>4, <2>5
<1>7. Grows(h, g)
  BY <1>1, <1>4, <1>5, <1>6 DEF Grows
<1>. QED BY <1>4, <1>7 DEF g

(* A List is made with a callback.                                         *)
LEMMA NewListGrows ==
  ASSUME NEW h, HeapOK(h), NEW cb \in Callback
  PROVE  /\ Grows(h, NewList(h, cb)) /\ Len(NewList(h, cb)) = Len(h) + 1
         /\ Len(h) + 1 \in DOMAIN NewList(h, cb) \ {CommonList}
<1>. DEFINE g == NewList(h, cb)
            new == [items |-> <<cb>>, cur |-> 0]
<1>1. /\ h \in Seq(ListRec) /\ Len(h) \in Nat \ {0} /\ DOMAIN h = 1 .. Len(h)
      /\ \A m \in 1 .. Len(h) : h[m] \in ListRec
  BY DEF HeapOK
<1>2. new \in ListRec /\ new.items # <<>> /\ new.cur <= Len(new.items)
  BY DEF ListRec
<1>3. g = Append(h, new)
  BY DEF NewList
<1>. HIDE DEF g, new
<1>4. /\ g \in Seq(ListRec) /\ Len(g) = Len(h) + 1 /\ DOMAIN g = 1 .. Len(h) + 1
      /\ g[Len(h) + 1] = new /\ \A m \in DOMAIN h : g[m] = h[m]
  BY <1>1, <1>2, <1>3
<1>5. \A m \in DOMAIN g : m = Len(h) + 1 \/ m \in DOMAIN h
  BY <1>1, <1>4
<1>6. HeapOK(g)
  BY <1>1, <1>2, <1>4, <1>5 DEF HeapOK, CommonList
<1>7. \A m \in DOMAIN h : g[m].cur = h[m].cur /\ Len(h[m].items) <= Len(g[m].items)
  <2>1. TAKE m \in DOMAIN h
  <2>2. h[m].items \in Seq(Callback)
    BY <1>1 DEF ListRec
  <2>3. Len(h[m].items) \in Nat
    BY <2>2
  <2>. QED BY <1>4, <2>3
<1>8. Grows(h, g)
  BY <1>1, <1>4, <1>6, <1>7 DEF Grows
<1>9. Len(h) + 1 \in DOMAIN g \ {CommonList}
  BY <1>1, <1>4 DEF CommonList
<1>. QED BY <1>4, <1>8, <1>9 DEF g

(* What the items and the cursors of the Lists are.                        *)
LEMMA HeapFacts ==
  ASSUME NEW h, HeapOK(h)
  PROVE  /\ h \in Seq(ListRec) /\ Len(h) \in Nat \ {0} /\ DOMAIN h = 1 .. Len(h)
         /\ \A l \in DOMAIN h : /\ h[l].items \in Seq(Callback) /\ Len(h[l].items) \in Nat
                                /\ DOMAIN h[l].items = 1 .. Len(h[l].items)
                                /\ h[l].cur \in 0 .. Len(h[l].items)
                                /\ l # CommonList => h[l].items # <<>>
<1>1. h \in Seq(ListRec) /\ Len(h) \in Nat \ {0} /\ DOMAIN h = 1 .. Len(h)
  BY DEF HeapOK, CommonList
<1>2. ASSUME NEW l \in DOMAIN h
      PROVE  /\ h[l].items \in Seq(Callback) /\ Len(h[l].items) \in Nat
             /\ DOMAIN h[l].items = 1 .. Len(h[l].items)
             /\ h[l].cur \in 0 .. Len(h[l].items)
             /\ l # CommonList => h[l].items # <<>>
  <2>1. h[l] \in ListRec
    BY <1>1
  <2>2. h[l].items \in Seq(Callback) /\ h[l].cur \in Nat
    BY <2>1 DEF ListRec
  <2>3. h[l].cur <= Len(h[l].items) /\ (l # CommonList => h[l].items # <<>>)
    BY DEF HeapOK
  <2>. QED BY <2>2, <2>3
<1>. QED BY <1>1, <1>2

(* One growth after another.                                               *)
LEMMA GrowsTrans ==
  ASSUME NEW f, NEW g, NEW h, HeapOK(f), Grows(f, g), Grows(g, h)
  PROVE  Grows(f, h)
<1>1. HeapOK(g) /\ HeapOK(h)
  BY DEF Grows
<1>2. Len(f) <= Len(h) /\ DOMAIN f \subseteq DOMAIN g
  BY <1>1, HeapFacts DEF Grows
<1>3. ASSUME NEW l \in DOMAIN f
      PROVE  h[l].cur = f[l].cur /\ Len(f[l].items) <= Len(h[l].items)
  <2>1. l \in DOMAIN g /\ l \in DOMAIN h
    BY <1>1, <1>2, HeapFacts DEF Grows
  <2>2. Len(f[l].items) \in Nat /\ Len(g[l].items) \in Nat /\ Len(h[l].items) \in Nat
    BY <1>1, <2>1, HeapFacts
  <2>. QED BY <2>1, <2>2 DEF Grows
<1>. QED BY <1>1, <1>2, <1>3 DEF Grows

(* What leads to a List goes on to, and a walk has the same before it.     *)
LEMMA GrowsKeeps ==
  ASSUME NEW h, NEW g, HeapOK(h), Grows(h, g), NEW s, StackOK(h, s), DueOK(h, s)
  PROVE  /\ HeapOK(g) /\ StackOK(g, s) /\ DueOK(g, s) /\ DOMAIN h \subseteq DOMAIN g
         /\ LeadsTo(h, table) => LeadsTo(g, table)
         /\ LeadsTo(h, funcs) => LeadsTo(g, funcs)
<1>1. HeapOK(g)
  BY DEF Grows
<1>2. DOMAIN h \subseteq DOMAIN g
  BY <1>1, HeapFacts DEF Grows
<1>3. StackOK(g, s)
  BY <1>2 DEF StackOK
<1>4. DueOK(g, s)
  <2>1. SUFFICES ASSUME NEW k \in DOMAIN s
        PROVE  /\ s[k].due \subseteq DOMAIN g[s[k].list].items
               /\ ~s[k].shared =>
                    /\ g[s[k].list].cur = 0 => s[k].due = {}
                    /\ \A i \in s[k].due : g[s[k].list].cur < i
    BY DEF DueOK
  <2>2. s[k].list \in DOMAIN h /\ s[k].list \in DOMAIN g
    BY <1>2 DEF StackOK
  <2>3. /\ DOMAIN h[s[k].list].items = 1 .. Len(h[s[k].list].items)
        /\ DOMAIN g[s[k].list].items = 1 .. Len(g[s[k].list].items)
        /\ Len(h[s[k].list].items) \in Nat /\ Len(g[s[k].list].items) \in Nat
        /\ Len(h[s[k].list].items) <= Len(g[s[k].list].items)
        /\ h[s[k].list].cur = g[s[k].list].cur
    BY <1>1, <2>2, HeapFacts DEF Grows
  <2>4. /\ s[k].due \subseteq DOMAIN h[s[k].list].items
        /\ ~s[k].shared =>
             /\ h[s[k].list].cur = 0 => s[k].due = {}
             /\ \A i \in s[k].due : h[s[k].list].cur < i
    BY DEF DueOK
  <2>5. DOMAIN h[s[k].list].items \subseteq DOMAIN g[s[k].list].items
    BY <2>3
  <2>. QED BY <2>3, <2>4, <2>5
<1>. QED BY <1>1, <1>2, <1>3, <1>4 DEF LeadsTo

(* What a step of a walk leaves as it is.                                  *)
SameWalks(s, t) ==
  /\ Len(t) = Len(s) /\ DOMAIN t = DOMAIN s
  /\ \A k \in DOMAIN s : t[k].for = s[k].for /\ t[k].key = s[k].key

WalksRight(h, s) == HeapOK(h) /\ StackOK(h, s) /\ DueOK(h, s)

(* What the walks in progress are made of.                                 *)
LEMMA StackFacts ==
  ASSUME NEW h, NEW s, StackOK(h, s)
  PROVE  /\ s \in Seq(Walking) /\ Len(s) \in Nat /\ DOMAIN s = 1 .. Len(s)
         /\ \A k \in DOMAIN s :
              /\ s[k] \in Walking
              /\ s[k].list \in Nat /\ s[k].key \in WalkKey /\ s[k].due \in SUBSET Nat
              /\ s[k].shared \in BOOLEAN
              /\ s[k].for \in {"event", "common", "lua", "beat"} /\ s[k].cb \in Callback
              /\ s[k].list \in DOMAIN h
<1>1. s \in Seq(Walking) /\ Len(s) \in Nat /\ DOMAIN s = 1 .. Len(s)
  BY DEF StackOK
<1>2. \A k \in DOMAIN s : s[k] \in Walking /\ s[k].list \in DOMAIN h
  BY <1>1 DEF StackOK
<1>. QED BY <1>1, <1>2 DEF Walking

(* An item is called: it is not due to the walk on top any more, and the   *)
(* cursor stands at it.                                                    *)
LEMMA CallItemRight ==
  ASSUME NEW h, HeapOK(h), NEW s, StackOK(h, s), NEW l \in DOMAIN h, NEW i \in DOMAIN h[l].items,
         s # <<>>, s[Len(s)].list = l,
         \A k \in DOMAIN s :
           /\ s[k].due \subseteq DOMAIN h[s[k].list].items
           /\ s[k].list = l /\ ~s[k].shared => \A j \in s[k].due : j = i \/ i < j
           /\ s[k].list # l /\ ~s[k].shared =>
                /\ h[s[k].list].cur = 0 => s[k].due = {}
                /\ \A j \in s[k].due : h[s[k].list].cur < j,
         CallItem(h, s, l, i)
  PROVE  /\ WalksRight(heap', stack') /\ DOMAIN heap' = DOMAIN h /\ SameWalks(s, stack')
         /\ doing' = "run"
<1>1. /\ h \in Seq(ListRec) /\ Len(h) \in Nat \ {0} /\ DOMAIN h = 1 .. Len(h)
      /\ \A m \in DOMAIN h : /\ h[m].items \in Seq(Callback) /\ Len(h[m].items) \in Nat
                             /\ DOMAIN h[m].items = 1 .. Len(h[m].items)
                             /\ h[m].cur \in 0 .. Len(h[m].items)
                             /\ m # CommonList => h[m].items # <<>>
  BY HeapFacts
<1>2. i \in Nat \ {0} /\ i <= Len(h[l].items)
  BY <1>1
<1>3. /\ heap' \in Seq(ListRec) /\ Len(heap') = Len(h) /\ DOMAIN heap' = DOMAIN h
      /\ heap'[l].cur = i /\ \A m \in DOMAIN h : m # l => heap'[m].cur = h[m].cur
      /\ \A m \in DOMAIN h : heap'[m].items = h[m].items
  <2>. DEFINE new == [h[l] EXCEPT !.cur = i]
  <2>1. heap' = [h EXCEPT ![l] = new]
    BY DEF CallItem
  <2>2. new \in ListRec /\ new.cur = i /\ new.items = h[l].items
    <3>1. h[l] \in ListRec
      BY <1>1
    <3>. QED BY <3>1, <1>2 DEF ListRec
  <2>. HIDE DEF new
  <2>. QED BY <1>1, <2>1, <2>2
<1>4. HeapOK(heap')
  BY <1>1, <1>2, <1>3 DEF HeapOK
<1>5. /\ s \in Seq(Walking) /\ Len(s) \in Nat /\ DOMAIN s = 1 .. Len(s)
      /\ \A k \in DOMAIN s :
           /\ s[k] \in Walking
           /\ s[k].list \in Nat /\ s[k].key \in WalkKey /\ s[k].due \in SUBSET Nat
           /\ s[k].for \in {"event", "common", "lua", "beat"} /\ s[k].cb \in Callback
           /\ s[k].list \in DOMAIN h /\ s[k].shared \in BOOLEAN
      /\ Len(s) \in DOMAIN s
  BY StackFacts
<1>. DEFINE top == [s[Len(s)] EXCEPT !.due = @ \ {i}, !.cb = h[l].items[i]]
<1>6. /\ top \in Walking /\ top.due = s[Len(s)].due \ {i} /\ top.shared = s[Len(s)].shared
      /\ top.list = s[Len(s)].list /\ top.key = s[Len(s)].key /\ top.for = s[Len(s)].for
  <2>. DEFINE w == s[Len(s)]
  <2>1. w \in Walking /\ h[l].items[i] \in Callback /\ w.due \ {i} \in SUBSET Nat
    BY <1>1, <1>5
  <2>2. top = [w EXCEPT !.due = @ \ {i}, !.cb = h[l].items[i]]
    OBVIOUS
  <2>. HIDE DEF w, top
  <2>3. top \in Walking /\ top.due = w.due \ {i} /\ top.shared = w.shared
        /\ top.list = w.list /\ top.key = w.key /\ top.for = w.for
    BY <2>1, <2>2 DEF Walking
  <2>. QED BY <2>3 DEF w
<1>7. stack' = [s EXCEPT ![Len(s)] = top]
  BY DEF CallItem
<1>. HIDE DEF top
<1>70. /\ stack' \in Seq(Walking) /\ Len(stack') = Len(s) /\ DOMAIN stack' = DOMAIN s
       /\ stack'[Len(s)] = top /\ \A k \in DOMAIN s : k # Len(s) => stack'[k] = s[k]
  BY <1>5, <1>6, <1>7
<1>71. \A k \in DOMAIN s :
          /\ stack'[k].list = s[k].list /\ stack'[k].key = s[k].key
          /\ stack'[k].for = s[k].for /\ stack'[k].shared = s[k].shared
          /\ stack'[k].due = IF k = Len(s) THEN s[k].due \ {i} ELSE s[k].due
  BY <1>6, <1>70
<1>8. SameWalks(s, stack') /\ stack' \in Seq(Walking)
  BY <1>70, <1>71 DEF SameWalks
<1>9. StackOK(heap', stack')
  <2>1. ASSUME NEW k \in DOMAIN s
        PROVE  /\ stack'[k].list \in DOMAIN heap'
               /\ stack'[k].for = "lua" => k # 1
               /\ stack'[k].for = "beat" => k = 1 /\ stack'[k].key \in NameKey \X Nat
    <3>1. /\ s[k].list \in DOMAIN h
          /\ s[k].for = "lua" => k # 1
          /\ s[k].for = "beat" => k = 1 /\ s[k].key \in NameKey \X Nat
      BY DEF StackOK
    <3>2. stack'[k].list = s[k].list /\ stack'[k].key = s[k].key /\ stack'[k].for = s[k].for
      BY <1>71
    <3>. QED BY <1>3, <3>1, <3>2
  <2>2. SharedOK(stack')
    BY <1>70, <1>71 DEF StackOK, SharedOK
  <2>. QED BY <1>70, <1>8, <2>1, <2>2 DEF StackOK
<1>10. DueOK(heap', stack')
  <2>1. SUFFICES ASSUME NEW k \in DOMAIN s
        PROVE  /\ stack'[k].due \subseteq DOMAIN heap'[stack'[k].list].items
               /\ ~stack'[k].shared =>
                    /\ heap'[stack'[k].list].cur = 0 => stack'[k].due = {}
                    /\ \A j \in stack'[k].due : heap'[stack'[k].list].cur < j
    BY <1>70 DEF DueOK
  <2>2. CASE s[k].list = l /\ k = Len(s)
    <3>1. stack'[k].list = l /\ stack'[k].due = s[k].due \ {i} /\ stack'[k].shared = s[k].shared
      BY <1>71, <2>2
    <3>2. heap'[l].cur = i /\ heap'[l].items = h[l].items
      BY <1>3
    <3>3. /\ s[k].due \subseteq DOMAIN h[l].items /\ s[k].due \in SUBSET Nat
          /\ ~s[k].shared => \A j \in s[k].due : j = i \/ i < j
      BY <1>5, <2>2
    <3>. QED BY <1>2, <3>1, <3>2, <3>3
  <2>4. CASE s[k].list = l /\ k # Len(s)
    <3>1. k < Len(s)
      BY <1>5, <2>4
    <3>2. s[k].shared
      BY <1>5, <2>4, <3>1 DEF StackOK, SharedOK
    <3>3. /\ stack'[k].shared /\ stack'[k].due = s[k].due /\ stack'[k].list = l
          /\ heap'[l].items = h[l].items /\ s[k].due \subseteq DOMAIN h[l].items
      BY <1>3, <1>71, <2>4, <3>2
    <3>. QED BY <3>3
  <2>3. CASE s[k].list # l
    <3>1. /\ heap'[s[k].list].items = h[s[k].list].items /\ heap'[s[k].list].cur = h[s[k].list].cur
          /\ stack'[k].due = s[k].due /\ stack'[k].list = s[k].list /\ stack'[k].shared = s[k].shared
      BY <1>3, <1>5, <1>71, <2>3
    <3>. QED BY <2>3, <3>1
  <2>. QED BY <2>2, <2>3, <2>4
<1>11. doing' = "run"
  BY DEF CallItem
<1>. QED BY <1>3, <1>4, <1>8, <1>9, <1>10, <1>11 DEF WalksRight

(* A walk begins, on top of those there are.                               *)
Begun(s, t, key, for) ==
  /\ Len(t) = Len(s) + 1 /\ DOMAIN s \subseteq DOMAIN t
  /\ \A k \in DOMAIN s : t[k].for = s[k].for /\ t[k].key = s[k].key
  /\ t[Len(t)].for = for /\ t[Len(t)].key = key

(* The walks in progress when one more begins over l.                      *)
LEMMA SharedFacts ==
  ASSUME NEW s \in Seq(Walking), NEW l
  PROVE  /\ Shared(s, l) \in Seq(Walking) /\ Len(Shared(s, l)) = Len(s) /\ DOMAIN Shared(s, l) = DOMAIN s
         /\ \A k \in DOMAIN s :
              /\ Shared(s, l)[k].list = s[k].list /\ Shared(s, l)[k].key = s[k].key
              /\ Shared(s, l)[k].for = s[k].for /\ Shared(s, l)[k].due = s[k].due
              /\ Shared(s, l)[k].shared = (s[k].shared \/ s[k].list = l)
<1>. DEFINE n == Len(s)
            sh == Shared(s, l)
            W(w) == [w EXCEPT !.shared = @ \/ w.list = l]
<1>1. n \in Nat /\ DOMAIN s = 1 .. n /\ \A k \in 1 .. n : s[k] \in Walking
  OBVIOUS
<1>2. sh = [k \in 1 .. n |-> W(s[k])]
  BY <1>1 DEF Shared
<1>3. ASSUME NEW w \in Walking
      PROVE  /\ W(w) \in Walking /\ W(w).list = w.list /\ W(w).key = w.key /\ W(w).for = w.for
             /\ W(w).due = w.due /\ W(w).shared = (w.shared \/ w.list = l)
  <2>1. (w.shared \/ w.list = l) \in BOOLEAN
    OBVIOUS
  <2>. QED BY <2>1 DEF Walking
<1>. HIDE DEF W, n, sh
<1>4. sh \in [1 .. n -> Walking]
  BY <1>1, <1>2, <1>3
<1>5. sh \in Seq(Walking) /\ Len(sh) = n /\ DOMAIN sh = 1 .. n
  BY <1>1, <1>4, SeqDef
<1>. QED BY <1>1, <1>2, <1>3, <1>5 DEF n, sh

(* First: a walk that begins has everybody still due but the first, and    *)
(* takes the cursor of the others back.                                    *)
LEMMA WalkRight ==
  ASSUME NEW h, NEW s, WalksRight(h, s), NEW l \in DOMAIN h, h[l].items # <<>>,
         NEW key \in WalkKey, NEW for \in {"event", "common", "lua", "beat"},
         for = "lua" => s # <<>>, for = "beat" => s = <<>> /\ key \in NameKey \X Nat,
         Walk(h, s, l, key, for)
  PROVE  /\ WalksRight(heap', stack') /\ DOMAIN heap' = DOMAIN h /\ Begun(s, stack', key, for)
         /\ doing' = "run" /\ stack' # <<>>
<1>. DEFINE begun == [list |-> l, key |-> key, for |-> for, cb |-> Bridge,
                      due |-> DOMAIN h[l].items, shared |-> FALSE]
            sh == Shared(s, l)
            t == Append(sh, begun)
<1>1. HeapOK(h) /\ StackOK(h, s) /\ DueOK(h, s)
  BY DEF WalksRight
<1>2. /\ h[l].items \in Seq(Callback) /\ Len(h[l].items) \in Nat
      /\ DOMAIN h[l].items = 1 .. Len(h[l].items) /\ l \in Nat
  BY <1>1, HeapFacts
<1>3. 1 \in DOMAIN h[l].items
  BY <1>2
<1>4. /\ s \in Seq(Walking) /\ Len(s) \in Nat /\ DOMAIN s = 1 .. Len(s)
      /\ \A k \in DOMAIN s : /\ s[k] \in Walking /\ s[k].list \in DOMAIN h
                             /\ s[k].due \in SUBSET Nat /\ s[k].shared \in BOOLEAN
  BY <1>1, StackFacts
<1>40. /\ sh \in Seq(Walking) /\ Len(sh) = Len(s) /\ DOMAIN sh = DOMAIN s
       /\ \A k \in DOMAIN s :
            /\ sh[k].list = s[k].list /\ sh[k].key = s[k].key /\ sh[k].for = s[k].for
            /\ sh[k].due = s[k].due /\ sh[k].shared = (s[k].shared \/ s[k].list = l)
  BY <1>4, SharedFacts
<1>. HIDE DEF sh
<1>5. /\ begun \in Walking /\ begun.list = l /\ begun.key = key /\ begun.for = for
      /\ begun.due = DOMAIN h[l].items /\ begun.shared = FALSE
  BY <1>2 DEF Walking, Callback
<1>. HIDE DEF begun
<1>6. /\ t \in Seq(Walking) /\ Len(t) = Len(s) + 1 /\ DOMAIN t = 1 .. Len(s) + 1
      /\ t[Len(s) + 1] = begun /\ \A k \in DOMAIN s : t[k] = sh[k]
  BY <1>4, <1>40, <1>5
<1>7. CallItem(h, t, l, 1)
  BY DEF Walk, First, begun, sh
<1>. HIDE DEF t
<1>8. \A k \in DOMAIN t : k \in DOMAIN s \/ k = Len(s) + 1
  BY <1>4, <1>6
<1>9. StackOK(h, t)
  <2>1. s = <<>> <=> Len(s) = 0
    BY <1>4
  <2>2. ASSUME NEW k \in DOMAIN t
        PROVE  /\ t[k].list \in DOMAIN h
               /\ t[k].for = "lua" => k # 1
               /\ t[k].for = "beat" => k = 1 /\ t[k].key \in NameKey \X Nat
    <3>1. CASE k \in DOMAIN s
      BY <3>1, <1>1, <1>40, <1>6 DEF StackOK
    <3>2. CASE k = Len(s) + 1
      BY <3>2, <1>4, <1>5, <1>6, <2>1
    <3>. QED BY <3>1, <3>2, <1>8
  <2>3. SharedOK(t)
    <3>1. SUFFICES ASSUME NEW j \in DOMAIN t, NEW k \in DOMAIN t, j < k, t[j].list = t[k].list
                   PROVE  t[j].shared
      BY DEF SharedOK
    <3>2. j \in DOMAIN s
      BY <1>4, <1>6, <3>1
    <3>5. t[j] = sh[j] /\ sh[j].list = s[j].list /\ sh[j].shared = (s[j].shared \/ s[j].list = l)
      BY <1>40, <1>6, <3>2
    <3>3. CASE k \in DOMAIN s
      <4>1. t[k].list = s[k].list
        BY <1>40, <1>6, <3>3
      <4>2. s[j].shared
        BY <3>1, <3>2, <3>3, <3>5, <4>1, <1>1 DEF StackOK, SharedOK
      <4>. QED BY <3>5, <4>2
    <3>4. CASE k = Len(s) + 1
      <4>1. t[k].list = l
        BY <1>5, <1>6, <3>4
      <4>. QED BY <3>1, <3>5, <4>1
    <3>. QED BY <3>3, <3>4, <1>8
  <2>. QED BY <1>6, <2>2, <2>3 DEF StackOK
<1>10. \A k \in DOMAIN t :
         /\ t[k].due \subseteq DOMAIN h[t[k].list].items
         /\ t[k].list = l /\ ~t[k].shared => \A j \in t[k].due : j = 1 \/ 1 < j
         /\ t[k].list # l /\ ~t[k].shared =>
              /\ h[t[k].list].cur = 0 => t[k].due = {}
              /\ \A j \in t[k].due : h[t[k].list].cur < j
  <2>1. TAKE k \in DOMAIN t
  <2>2. CASE k \in DOMAIN s
    <3>1. /\ s[k].due \subseteq DOMAIN h[s[k].list].items
          /\ ~s[k].shared =>
               /\ h[s[k].list].cur = 0 => s[k].due = {}
               /\ \A j \in s[k].due : h[s[k].list].cur < j
      BY <1>1, <2>2 DEF DueOK
    <3>2. s[k].list = l => s[k].due \subseteq 1 .. Len(h[l].items)
      BY <3>1, <1>2
    <3>. QED BY <2>2, <3>1, <3>2, <1>2, <1>40, <1>6
  <2>3. CASE k = Len(s) + 1
    BY <2>3, <1>2, <1>5, <1>6
  <2>. QED BY <2>2, <2>3, <1>8
<1>11. WalksRight(heap', stack') /\ DOMAIN heap' = DOMAIN h /\ SameWalks(t, stack') /\ doing' = "run"
  <2>1. t # <<>> /\ t[Len(t)].list = l
    BY <1>4, <1>5, <1>6
  <2>. QED BY <2>1, <1>1, <1>3, <1>7, <1>9, <1>10, CallItemRight
<1>12. Begun(s, stack', key, for)
  BY <1>4, <1>40, <1>5, <1>6, <1>11 DEF SameWalks, Begun
<1>13. stack' # <<>>
  BY <1>4, <1>6, <1>11 DEF SameWalks
<1>. QED BY <1>11, <1>12, <1>13

(* A walk goes on to what follows the cursor, wherever that is.            *)
LEMMA NextItemRight ==
  ASSUME HeapInv, NextItem
  PROVE  WalksRight(heap', stack') /\ DOMAIN heap' = DOMAIN heap /\ SameWalks(stack, stack') /\ doing' = "run"
<1>. DEFINE l == Top.list
            i == NextOf(heap, l)
<1>1. /\ HeapOK(heap) /\ StackOK(heap, stack) /\ DueOK(heap, stack) /\ stack # <<>>
      /\ i # 0 /\ CallItem(heap, stack, l, i)
  BY DEF HeapInv, NextItem
<1>2. Len(stack) \in DOMAIN stack
  BY <1>1, StackFacts
<1>3. l \in DOMAIN heap
  BY <1>1, <1>2, StackFacts DEF Top
<1>4. /\ Len(heap[l].items) \in Nat /\ heap[l].cur \in Nat
      /\ DOMAIN heap[l].items = 1 .. Len(heap[l].items)
  BY <1>1, <1>3, HeapFacts
<1>5. i = heap[l].cur + 1 /\ heap[l].cur # 0 /\ i \in DOMAIN heap[l].items
  BY <1>1, <1>4 DEF NextOf
<1>50. stack[Len(stack)].list = l
  BY DEF Top
<1>. HIDE DEF l, i
<1>6. \A k \in DOMAIN stack :
         /\ stack[k].due \subseteq DOMAIN heap[stack[k].list].items
         /\ stack[k].list = l /\ ~stack[k].shared => \A j \in stack[k].due : j = i \/ i < j
         /\ stack[k].list # l /\ ~stack[k].shared =>
              /\ heap[stack[k].list].cur = 0 => stack[k].due = {}
              /\ \A j \in stack[k].due : heap[stack[k].list].cur < j
  <2>1. TAKE k \in DOMAIN stack
  <2>2. stack[k].due \in SUBSET Nat
    BY <1>1, StackFacts
  <2>3. stack[k].list = l /\ ~stack[k].shared => \A j \in stack[k].due : j = i \/ i < j
    BY <1>1, <1>4, <1>5, <2>2 DEF DueOK
  <2>. QED BY <1>1, <2>3 DEF DueOK
<1>. QED BY <1>1, <1>3, <1>5, <1>50, <1>6, CallItemRight

(* A walk that is over has called everything, if it had the List to itself.*)
LEMMA EndRight ==
  ASSUME HeapInv, Over
  PROVE  /\ Top.shared \/ Top.due = {}
         /\ WalksRight(AtEnd, Pop) /\ DOMAIN AtEnd = DOMAIN heap /\ stack # <<>>
         /\ Len(Pop) = Len(stack) - 1 /\ DOMAIN Pop \subseteq DOMAIN stack
         /\ \A k \in DOMAIN Pop : Pop[k] = stack[k]
         /\ Len(stack) \in DOMAIN stack
<1>. DEFINE l == Top.list
<1>1. /\ HeapOK(heap) /\ StackOK(heap, stack) /\ DueOK(heap, stack) /\ stack # <<>> /\ NextOf(heap, l) = 0
  BY DEF HeapInv, Over
<1>2. /\ stack \in Seq(Walking) /\ Len(stack) \in Nat /\ DOMAIN stack = 1 .. Len(stack)
      /\ \A k \in DOMAIN stack : stack[k].list \in DOMAIN heap /\ stack[k].due \in SUBSET Nat
  BY <1>1, StackFacts
<1>3. Len(stack) \in DOMAIN stack /\ l \in DOMAIN heap
  BY <1>1, <1>2 DEF Top
<1>4. /\ heap \in Seq(ListRec) /\ Len(heap) \in Nat \ {0} /\ DOMAIN heap = 1 .. Len(heap)
      /\ \A m \in DOMAIN heap : /\ heap[m].items \in Seq(Callback) /\ Len(heap[m].items) \in Nat
                                /\ DOMAIN heap[m].items = 1 .. Len(heap[m].items)
                                /\ heap[m].cur \in 0 .. Len(heap[m].items)
                                /\ m # CommonList => heap[m].items # <<>>
  BY <1>1, HeapFacts
<1>5. heap[l].cur = 0 \/ heap[l].cur = Len(heap[l].items)
  BY <1>1, <1>3, <1>4 DEF NextOf
<1>6. \A k \in DOMAIN stack : stack[k].list = l => stack[k].shared \/ stack[k].due = {}
  <2>1. TAKE k \in DOMAIN stack
  <2>2. HAVE stack[k].list = l
  <2>3. /\ stack[k].due \subseteq 1 .. Len(heap[l].items)
        /\ ~stack[k].shared =>
             /\ heap[l].cur = 0 => stack[k].due = {}
             /\ \A i \in stack[k].due : heap[l].cur < i
    BY <1>1, <1>3, <1>4, <2>2 DEF DueOK
  <2>. QED BY <1>3, <1>4, <1>5, <2>3
<1>7. Top.shared \/ Top.due = {}
  BY <1>3, <1>6 DEF Top
<1>8. /\ AtEnd \in Seq(ListRec) /\ Len(AtEnd) = Len(heap) /\ DOMAIN AtEnd = DOMAIN heap
      /\ AtEnd[l].cur = 0 /\ \A m \in DOMAIN heap : m # l => AtEnd[m].cur = heap[m].cur
      /\ \A m \in DOMAIN heap : AtEnd[m].items = heap[m].items
  <2>. DEFINE new == [heap[l] EXCEPT !.cur = 0]
  <2>1. AtEnd = [heap EXCEPT ![l] = new]
    BY DEF AtEnd
  <2>2. new \in ListRec /\ new.cur = 0 /\ new.items = heap[l].items
    <3>1. heap[l] \in ListRec
      BY <1>3, <1>4
    <3>. QED BY <3>1 DEF ListRec
  <2>. HIDE DEF new, l
  <2>. QED BY <1>3, <1>4, <2>1, <2>2
<1>9. HeapOK(AtEnd)
  BY <1>1, <1>4, <1>8 DEF HeapOK
<1>10. /\ Pop \in Seq(Walking) /\ Len(Pop) = Len(stack) - 1 /\ DOMAIN Pop = 1 .. Len(stack) - 1
       /\ DOMAIN Pop \subseteq DOMAIN stack /\ \A k \in DOMAIN Pop : Pop[k] = stack[k]
  <2>1. Len(stack) - 1 \in Nat
    BY <1>2, <1>3
  <2>. QED BY <1>2, <2>1 DEF Pop
<1>11. StackOK(AtEnd, Pop)
  <2>1. SharedOK(Pop)
    BY <1>1, <1>10 DEF StackOK, SharedOK
  <2>. QED BY <2>1, <1>1, <1>8, <1>10 DEF StackOK
<1>12. DueOK(AtEnd, Pop)
  <2>1. SUFFICES ASSUME NEW k \in DOMAIN Pop
        PROVE  /\ Pop[k].due \subseteq DOMAIN AtEnd[Pop[k].list].items
               /\ ~Pop[k].shared =>
                    /\ AtEnd[Pop[k].list].cur = 0 => Pop[k].due = {}
                    /\ \A i \in Pop[k].due : AtEnd[Pop[k].list].cur < i
    BY DEF DueOK
  <2>2. Pop[k] = stack[k] /\ k \in DOMAIN stack /\ stack[k].list \in DOMAIN heap
    BY <1>2, <1>10
  <2>. HIDE DEF l
  <2>3. CASE stack[k].list = l
    BY <2>2, <2>3, <1>1, <1>6, <1>8 DEF DueOK
  <2>4. CASE stack[k].list # l
    BY <2>2, <2>4, <1>1, <1>8 DEF DueOK
  <2>. QED BY <2>3, <2>4
<1>. QED BY <1>1, <1>3, <1>7, <1>8, <1>9, <1>10, <1>11, <1>12 DEF WalksRight

(* Update's walk is there after a step if it was before, the same one.     *)
BeatSame(s, t) ==
  /\ (t # <<>> /\ t[1].for = "beat") <=> (s # <<>> /\ s[1].for = "beat")
  /\ s # <<>> /\ s[1].for = "beat" => t[1].key = s[1].key

HeapKept ==
  HeapInv' /\ PlainInv' /\ DOMAIN heap \subseteq DOMAIN heap' /\ BeatSame(stack, stack')

(* Where another walk begins than Update's, Update's stays.                *)
LEMMA BegunBeat ==
  ASSUME NEW h, NEW s, StackOK(h, s), NEW g, NEW t, StackOK(g, t), NEW key, NEW for, Begun(s, t, key, for),
         for # "beat"
  PROVE  BeatSame(s, t)
<1>1. /\ Len(s) \in Nat /\ DOMAIN s = 1 .. Len(s) /\ Len(t) \in Nat /\ DOMAIN t = 1 .. Len(t)
      /\ s = <<>> <=> Len(s) = 0
      /\ t = <<>> <=> Len(t) = 0
  <2>1. s \in Seq(Walking) /\ t \in Seq(Walking)
    BY StackFacts
  <2>. QED BY <2>1
<1>2. CASE Len(s) = 0
  BY <1>1, <1>2 DEF Begun, BeatSame
<1>3. CASE Len(s) # 0
  <2>1. 1 \in DOMAIN s
    BY <1>1, <1>3
  <2>. QED BY <1>1, <1>3, <2>1 DEF Begun, BeatSame
<1>. QED BY <1>2, <1>3

(* The walks go on and stay what they are.                                 *)
LEMMA SameWalksBeat ==
  ASSUME NEW h, NEW s, StackOK(h, s), NEW g, NEW t, StackOK(g, t), SameWalks(s, t)
  PROVE  BeatSame(s, t) /\ (s = <<>> <=> t = <<>>)
<1>1. /\ Len(s) \in Nat /\ DOMAIN s = 1 .. Len(s) /\ Len(t) \in Nat
      /\ s = <<>> <=> Len(s) = 0
      /\ t = <<>> <=> Len(t) = 0
  <2>1. s \in Seq(Walking) /\ t \in Seq(Walking)
    BY StackFacts
  <2>. QED BY <2>1
<1>2. s # <<>> => 1 \in DOMAIN s
  BY <1>1
<1>. QED BY <1>1, <1>2 DEF SameWalks, BeatSame

(* The list of the object, or nothing.                                     *)
LEMMA DoOwnRight ==
  ASSUME NEW h, NEW s, WalksRight(h, s), LeadsTo(h, table), NEW key \in WalkKey, DoOwn(h, s, key)
  PROVE  /\ WalksRight(heap', stack') /\ DOMAIN heap' = DOMAIN h /\ BeatSame(s, stack')
         /\ doing' \in {"run", "idle"} /\ (doing' = "run" <=> stack' # <<>>)
<1>1. CASE key \in DOMAIN table
  <2>1. Walk(h, s, table[key], key, "event")
    BY <1>1 DEF DoOwn
  <2>2. table[key] \in DOMAIN h /\ table[key] # CommonList
    BY <1>1 DEF LeadsTo
  <2>3. h[table[key]].items # <<>>
    BY <2>2 DEF WalksRight, HeapOK
  <2>. DEFINE l == table[key]
  <2>. HIDE DEF l
  <2>4. /\ WalksRight(heap', stack') /\ DOMAIN heap' = DOMAIN h /\ Begun(s, stack', key, "event")
        /\ doing' = "run" /\ stack' # <<>>
    BY <2>1, <2>2, <2>3, WalkRight DEF l
  <2>5. BeatSame(s, stack')
    BY <2>4, BegunBeat DEF WalksRight
  <2>. QED BY <2>4, <2>5
<1>2. CASE key \notin DOMAIN table
  <2>1. doing' = (IF s = <<>> THEN "idle" ELSE "run") /\ heap' = h /\ stack' = s
    BY <1>2 DEF DoOwn
  <2>2. BeatSame(s, stack')
    BY <2>1 DEF BeatSame
  <2>. QED BY <2>1, <2>2 DEF WalksRight
<1>. QED BY <1>1, <1>2

(* A call of the interfaces by who runs.                                   *)
LEMMA CallsPlain ==
  ASSUME PlainInv, HeapInv, NEW n, Calls(n)
  PROVE  now' = now /\ now' \in 0 .. MaxTime /\ ops' \in 0 .. MaxOp /\ doing \in {"idle", "run"}
         /\ (doing = "run" <=> stack # <<>>)
BY CallbacksAssumption DEF PlainInv, Calls, Running, HeapInv

(* While nothing is walked differently, lists may grow.                    *)
LEMMA GrownKept ==
  ASSUME HeapInv, Grows(heap, heap'), UNCHANGED <<stack, doing>>,
         LeadsTo(heap', table'), LeadsTo(heap', funcs')
  PROVE  HeapInv' /\ DOMAIN heap \subseteq DOMAIN heap' /\ BeatSame(stack, stack')
<1>1. HeapOK(heap) /\ StackOK(heap, stack) /\ DueOK(heap, stack)
  BY DEF HeapInv
<1>2. HeapOK(heap') /\ StackOK(heap', stack) /\ DueOK(heap', stack) /\ DOMAIN heap \subseteq DOMAIN heap'
  BY <1>1, GrowsKeeps
<1>3. HeapInv'
  <2>1. stack' = stack /\ doing' = doing
    OBVIOUS
  <2>2. StackOK(heap', stack') /\ DueOK(heap', stack')
    BY <1>2, <2>1
  <2>. QED BY <1>2, <2>1, <2>2 DEF HeapInv
<1>. QED BY <1>2, <1>3 DEF BeatSame

(* The map of a kind of event leads to Lists that hold a callback, also    *)
(* when one is made.                                                       *)
LEMMA ListenRight ==
  ASSUME HeapInv, NEW h, Grows(heap, h), NEW k, NEW cb \in Callback,
         IF k \in DOMAIN table
         THEN heap' = Add(h, table[k], cb) /\ table' = table
         ELSE /\ heap' = NewList(h, cb)
              /\ table' = [x \in DOMAIN table \cup {k} |-> IF x = k THEN Len(heap') ELSE table[x]]
  PROVE  /\ Grows(heap, heap') /\ LeadsTo(heap', table') /\ DOMAIN table' = DOMAIN table \cup {k}
         /\ Grows(h, heap')
<1>1. HeapOK(heap) /\ StackOK(heap, stack) /\ DueOK(heap, stack) /\ HeapOK(h) /\ LeadsTo(heap, table)
  BY DEF HeapInv, Grows
<1>2. LeadsTo(h, table)
  BY <1>1, GrowsKeeps
<1>3. CASE k \in DOMAIN table
  <2>1. table[k] \in DOMAIN h /\ heap' = Add(h, table[k], cb) /\ table' = table
    BY <1>2, <1>3 DEF LeadsTo
  <2>. DEFINE l == table[k]
  <2>. HIDE DEF l
  <2>2. Grows(h, heap')
    BY <1>1, <2>1, AddGrows DEF l
  <2>3. LeadsTo(heap', table)
    <3>1. Len(heap') = Len(h) /\ HeapOK(heap')
      BY <1>1, <2>1, <2>2, AddGrows DEF l, Grows
    <3>2. DOMAIN heap' = DOMAIN h
      BY <1>1, <3>1, HeapFacts
    <3>. QED BY <1>2, <3>2 DEF LeadsTo
  <2>. QED BY <1>1, <1>3, <2>1, <2>2, <2>3, GrowsTrans
<1>4. CASE k \notin DOMAIN table
  <2>1. /\ heap' = NewList(h, cb)
        /\ table' = [x \in DOMAIN table \cup {k} |-> IF x = k THEN Len(heap') ELSE table[x]]
    BY <1>4
  <2>2. /\ Grows(h, heap') /\ Len(heap') = Len(h) + 1
        /\ Len(heap') \in DOMAIN heap' \ {CommonList} /\ HeapOK(heap')
    <3>1. /\ Grows(h, NewList(h, cb)) /\ Len(NewList(h, cb)) = Len(h) + 1
          /\ Len(h) + 1 \in DOMAIN NewList(h, cb) \ {CommonList}
      BY <1>1, NewListGrows
    <3>2. heap' = NewList(h, cb)
      BY <2>1
    <3>3. Grows(h, heap') => HeapOK(heap')
      BY DEF Grows
    <3>. QED BY <3>1, <3>2, <3>3
  <2>3. DOMAIN h \subseteq DOMAIN heap'
    BY <1>1, <2>2, HeapFacts
  <2>4. LeadsTo(heap', table')
    BY <1>2, <2>1, <2>2, <2>3 DEF LeadsTo
  <2>. QED BY <1>1, <2>1, <2>2, <2>4, GrowsTrans
<1>. QED BY <1>3, <1>4

(* AddLuaFuncToMap: so does the map of the Lua functions.                  *)
LEMMA LuaAddRight ==
  ASSUME HeapInv, NEW k, NEW f \in Func
  PROVE  LET a == LuaAdd(heap, k, f)
         IN  /\ Grows(heap, a.heap) /\ LeadsTo(a.heap, a.funcs)
             /\ DOMAIN a.funcs = DOMAIN funcs \cup {k}
<1>1. HeapOK(heap) /\ StackOK(heap, stack) /\ DueOK(heap, stack) /\ LeadsTo(heap, funcs) /\ f \in Callback
  BY DEF HeapInv, Callback
<1>2. CASE k \in DOMAIN funcs
  <2>. DEFINE l == funcs[k]
              g == Add(heap, l, f)
  <2>1. l \in DOMAIN heap /\ LuaAdd(heap, k, f) = [heap |-> g, funcs |-> funcs]
    BY <1>1, <1>2 DEF LeadsTo, LuaAdd
  <2>. HIDE DEF l
  <2>2. Grows(heap, g)
    BY <1>1, <2>1, AddGrows
  <2>3. LeadsTo(g, funcs)
    <3>. HIDE DEF g
    <3>. QED BY <1>1, <2>2, GrowsKeeps
  <2>. HIDE DEF g
  <2>. QED BY <1>2, <2>1, <2>2, <2>3
<1>3. CASE k \notin DOMAIN funcs
  <2>. DEFINE g == NewList(heap, f)
              t == [x \in DOMAIN funcs \cup {k} |-> IF x = k THEN Len(heap) + 1 ELSE funcs[x]]
  <2>1. LuaAdd(heap, k, f) = [heap |-> g, funcs |-> t]
    BY <1>3 DEF LuaAdd
  <2>2. Grows(heap, g) /\ Len(heap) + 1 \in DOMAIN g \ {CommonList} /\ HeapOK(g)
    BY <1>1, NewListGrows DEF Grows
  <2>. HIDE DEF g
  <2>3. DOMAIN heap \subseteq DOMAIN g
    BY <1>1, <2>2, GrowsKeeps
  <2>4. LeadsTo(g, t)
    BY <1>1, <2>2, <2>3 DEF LeadsTo
  <2>5. DOMAIN t = DOMAIN funcs \cup {k}
    OBVIOUS
  <2>. HIDE DEF t
  <2>. QED BY <2>1, <2>2, <2>4, <2>5
<1>. QED BY <1>2, <1>3

(* Lists that there were are there.                                        *)
LEMMA GrowsDomain ==
  ASSUME NEW h, NEW g, HeapOK(h), Grows(h, g)
  PROVE  HeapOK(g) /\ DOMAIN h \subseteq DOMAIN g /\ \A t : LeadsTo(h, t) => LeadsTo(g, t)
<1>1. HeapOK(g)
  BY DEF Grows
<1>2. DOMAIN h \subseteq DOMAIN g
  BY <1>1, HeapFacts DEF Grows
<1>. QED BY <1>1, <1>2 DEF LeadsTo

(* One action after the other, for the Lists and the walks.                *)
LEMMA AddEventCallBackHeap == ASSUME HeapInv, PlainInv, AddEventCallBack PROVE HeapKept
<1>. USE DEF AddEventCallBack
<1>1. PICK k \in EventKey \cup ModuleKey, c \in Native : Listen(k, c)
  OBVIOUS
<1>2. /\ now' = now /\ now' \in 0 .. MaxTime /\ ops' \in 0 .. MaxOp
      /\ UNCHANGED <<funcs, hooked, stack, doing>>
  BY CallsPlain
<1>3. HeapOK(heap) /\ Grows(heap, heap) /\ LeadsTo(heap, funcs) /\ c \in Callback
  <2>1. HeapOK(heap) /\ LeadsTo(heap, funcs) /\ c \in Callback
    BY DEF HeapInv, Callback
  <2>2. \A l \in DOMAIN heap : Len(heap[l].items) <= Len(heap[l].items)
    BY <2>1, HeapFacts
  <2>3. Len(heap) <= Len(heap)
    BY <2>1, HeapFacts
  <2>. QED BY <2>1, <2>2, <2>3 DEF Grows
<1>4. /\ Grows(heap, heap') /\ LeadsTo(heap', table') /\ DOMAIN table' = DOMAIN table \cup {k}
  <2>1. IF k \in DOMAIN table
        THEN heap' = Add(heap, table[k], c) /\ table' = table
        ELSE /\ heap' = NewList(heap, c)
             /\ table' = [x \in DOMAIN table \cup {k} |-> IF x = k THEN Len(heap') ELSE table[x]]
    BY <1>1 DEF Listen
  <2>. DEFINE h == heap
  <2>2. IF k \in DOMAIN table
        THEN heap' = Add(h, table[k], c) /\ table' = table
        ELSE /\ heap' = NewList(h, c)
             /\ table' = [x \in DOMAIN table \cup {k} |-> IF x = k THEN Len(heap') ELSE table[x]]
    BY <2>1
  <2>3. Grows(heap, h)
    BY <1>3
  <2>. HIDE DEF h
  <2>4. HeapInv /\ c \in Callback
    BY <1>3
  <2>5. /\ Grows(heap, heap') /\ LeadsTo(heap', table') /\ DOMAIN table' = DOMAIN table \cup {k}
        /\ Grows(h, heap')
    BY <2>2, <2>3, <2>4, ListenRight
  <2>. QED BY <2>5
<1>5. LeadsTo(heap', funcs')
  BY <1>2, <1>3, <1>4, GrowsDomain
<1>6. PlainInv'
  BY <1>2, <1>4 DEF PlainInv
<1>. QED BY <1>2, <1>4, <1>5, <1>6, GrownKept DEF HeapKept

(* The List for all events.                                                *)
LEMMA AddCommonEventCallBackHeap == ASSUME HeapInv, PlainInv, AddCommonEventCallBack PROVE HeapKept
<1>. USE DEF AddCommonEventCallBack
<1>1. PICK c \in Native : heap' = Add(heap, CommonList, c)
  OBVIOUS
<1>2. /\ now' = now /\ now' \in 0 .. MaxTime /\ ops' \in 0 .. MaxOp
      /\ UNCHANGED <<table, funcs, hooked, stack, doing>>
  BY CallsPlain
<1>3. HeapOK(heap) /\ LeadsTo(heap, funcs) /\ LeadsTo(heap, table) /\ c \in Callback /\ CommonList \in DOMAIN heap
  BY DEF HeapInv, Callback, HeapOK
<1>4. Grows(heap, heap')
  BY <1>1, <1>3, AddGrows
<1>5. LeadsTo(heap', funcs') /\ LeadsTo(heap', table')
  BY <1>2, <1>3, <1>4, GrowsDomain
<1>6. PlainInv'
  BY <1>2, <1>4 DEF PlainInv
<1>. QED BY <1>2, <1>4, <1>5, <1>6, GrownKept DEF HeapKept

(* A List that leaves the map is still walked to its end.                  *)
LEMMA RemoveEventCallBackHeap == ASSUME HeapInv, PlainInv, RemoveEventCallBack PROVE HeapKept
<1>. USE DEF RemoveEventCallBack
<1>1. /\ now' = now /\ now' \in 0 .. MaxTime /\ ops' \in 0 .. MaxOp
      /\ UNCHANGED <<heap, funcs, hooked, stack, doing>>
  BY CallsPlain
<1>2. DOMAIN table' \subseteq DOMAIN table /\ \A k \in DOMAIN table' : table'[k] = table[k]
  OBVIOUS
<1>3. HeapInv' /\ BeatSame(stack, stack')
  BY <1>1, <1>2 DEF HeapInv, LeadsTo, BeatSame
<1>4. PlainInv'
  BY <1>1, <1>2 DEF PlainInv
<1>. QED BY <1>1, <1>3, <1>4 DEF HeapKept

(* A Lua function: two Lists may grow.                                     *)
LEMMA LuaAddEventCallBackHeap == ASSUME HeapInv, PlainInv, LuaAddEventCallBack PROVE HeapKept
<1>. USE DEF LuaAddEventCallBack
<1>1. PICK k \in EventKey, f \in Func :
        /\ funcs' = LuaAdd(heap, k, f).funcs
        /\ IF k \in DOMAIN table
           THEN heap' = Add(LuaAdd(heap, k, f).heap, table[k], Bridge) /\ table' = table
           ELSE /\ heap' = NewList(LuaAdd(heap, k, f).heap, Bridge)
                /\ table' = [x \in DOMAIN table \cup {k} |-> IF x = k THEN Len(heap') ELSE table[x]]
  OBVIOUS
<1>. DEFINE a == LuaAdd(heap, k, f)
<1>2. /\ now' = now /\ now' \in 0 .. MaxTime /\ ops' \in 0 .. MaxOp
      /\ UNCHANGED <<hooked, stack, doing>>
  BY CallsPlain
<1>3. Grows(heap, a.heap) /\ LeadsTo(a.heap, a.funcs) /\ DOMAIN a.funcs = DOMAIN funcs \cup {k}
  BY LuaAddRight
<1>4. HeapOK(heap) /\ HeapOK(a.heap) /\ Bridge \in Callback
  BY <1>3 DEF HeapInv, Grows, Callback
<1>5. Grows(heap, heap') /\ LeadsTo(heap', table') /\ DOMAIN table' = DOMAIN table \cup {k}
      /\ Grows(a.heap, heap')
  <2>. DEFINE h == a.heap
  <2>1. IF k \in DOMAIN table
        THEN heap' = Add(h, table[k], Bridge) /\ table' = table
        ELSE /\ heap' = NewList(h, Bridge)
             /\ table' = [x \in DOMAIN table \cup {k} |-> IF x = k THEN Len(heap') ELSE table[x]]
    BY <1>1
  <2>2. Grows(heap, h)
    BY <1>3
  <2>. HIDE DEF h
  <2>3. Grows(heap, heap') /\ LeadsTo(heap', table') /\ DOMAIN table' = DOMAIN table \cup {k}
        /\ Grows(h, heap')
    BY <1>4, <2>1, <2>2, ListenRight
  <2>. QED BY <2>3 DEF h
<1>6. LeadsTo(heap', funcs')
  <2>1. funcs' = a.funcs
    BY <1>1
  <2>. HIDE DEF a
  <2>. QED BY <2>1, <1>3, <1>4, <1>5, GrowsDomain
<1>7. PlainInv'
  <2>1. funcs' = a.funcs
    BY <1>1
  <2>. HIDE DEF a
  <2>. QED BY <1>1, <1>2, <1>3, <1>5, <2>1 DEF PlainInv, Key
<1>. QED BY <1>2, <1>5, <1>6, <1>7, GrownKept DEF HeapKept

(* The Lua functions of a message.                                         *)
LEMMA AddMsgCallBackHeap == ASSUME HeapInv, PlainInv, AddMsgCallBack PROVE HeapKept
<1>. USE DEF AddMsgCallBack
<1>1. PICK s \in Source, m \in Message, f \in Func :
        /\ heap' = LuaAdd(heap, TableOf(s, m), f).heap
        /\ funcs' = LuaAdd(heap, TableOf(s, m), f).funcs
        /\ hooked' = IF TableOf(s, m) \in DOMAIN funcs THEN hooked ELSE hooked \cup {<<s, m>>}
  OBVIOUS
<1>. DEFINE k == TableOf(s, m)
            a == LuaAdd(heap, k, f)
<1>2. /\ now' = now /\ now' \in 0 .. MaxTime /\ ops' \in 0 .. MaxOp
      /\ UNCHANGED <<table, stack, doing>>
  BY CallsPlain
<1>3. Grows(heap, a.heap) /\ LeadsTo(a.heap, a.funcs) /\ DOMAIN a.funcs = DOMAIN funcs \cup {k}
  BY LuaAddRight
<1>4. Grows(heap, heap') /\ LeadsTo(heap', funcs') /\ DOMAIN funcs' = DOMAIN funcs \cup {k}
      /\ HeapOK(heap) /\ LeadsTo(heap, table)
  BY <1>1, <1>3 DEF HeapInv
<1>5. LeadsTo(heap', table')
  BY <1>2, <1>4, GrowsDomain
<1>6. PlainInv'
  <2>1. k \in Key
    BY DEF TableOf, Key, MessageKey
  <2>2. hooked' \subseteq hooked \cup {<<s, m>>} /\ <<s, m>>[1] = s /\ <<s, m>>[2] = m
    BY <1>1
  <2>3. \A sm \in hooked' : TableOf(sm[1], sm[2]) \in DOMAIN funcs'
    BY <1>4, <2>2 DEF PlainInv
  <2>4. hooked' \subseteq Source \X Message
    BY <2>2 DEF PlainInv
  <2>. HIDE DEF k
  <2>. QED BY <1>2, <1>4, <2>1, <2>3, <2>4 DEF PlainInv
<1>. QED BY <1>2, <1>4, <1>5, <1>6, GrownKept DEF HeapKept

(* Where no List and no walk changes.                                      *)
LEMMA StillHeap ==
  ASSUME HeapInv, UNCHANGED <<heap, table, funcs, stack>>,
         doing' \in {"run", "next"} <=> doing \in {"run", "next"}
  PROVE  HeapInv' /\ DOMAIN heap \subseteq DOMAIN heap' /\ BeatSame(stack, stack')
BY DEF HeapInv, BeatSame

(* A callback returns, a message loses its functions, Update begins.       *)
LEMMA StillKept ==
  ASSUME HeapInv, PlainInv, RemoveMsgCallBack \/ BeginUpdate \/ Return
  PROVE  HeapKept
<1>1. CASE RemoveMsgCallBack
  <2>1. /\ now' = now /\ now' \in 0 .. MaxTime /\ ops' \in 0 .. MaxOp
        /\ UNCHANGED <<heap, table, funcs, stack, doing>> /\ hooked' \subseteq hooked
    BY <1>1, CallsPlain DEF RemoveMsgCallBack
  <2>2. PlainInv'
    BY <2>1 DEF PlainInv
  <2>. QED BY <2>1, <2>2, StillHeap DEF HeapKept
<1>2. CASE BeginUpdate
  <2>1. /\ now' \in 0 .. MaxTime /\ doing = "idle" /\ doing' = "tick"
        /\ UNCHANGED <<heap, table, funcs, hooked, stack, ops>>
    BY <1>2 DEF BeginUpdate, PlainInv
  <2>2. PlainInv'
    BY <2>1 DEF PlainInv
  <2>. QED BY <2>1, <2>2, StillHeap DEF HeapKept
<1>3. CASE Return
  <2>1. /\ doing = "run" /\ doing' = "next"
        /\ UNCHANGED <<heap, table, funcs, hooked, stack, ops, now>>
    BY <1>3 DEF Return
  <2>2. PlainInv'
    BY <2>1 DEF PlainInv
  <2>. QED BY <2>1, <2>2, StillHeap DEF HeapKept
<1>. QED BY <1>1, <1>2, <1>3

(* What the actions that only walk have in common.                         *)
LEMMA WalkedKept ==
  ASSUME HeapInv, PlainInv, WalksRight(heap', stack'), DOMAIN heap' = DOMAIN heap,
         BeatSame(stack, stack'), UNCHANGED <<table, funcs, hooked, now>>, ops' \in 0 .. MaxOp,
         doing' \in {"idle", "run", "next", "tick"},
         doing' \in {"run", "next"} <=> stack' # <<>>
  PROVE  HeapKept
<1>1. LeadsTo(heap', table') /\ LeadsTo(heap', funcs')
  BY DEF HeapInv, LeadsTo
<1>2. HeapInv'
  BY <1>1 DEF HeapInv, WalksRight
<1>3. PlainInv'
  BY DEF PlainInv
<1>. QED BY <1>2, <1>3 DEF HeapKept

(* An event is raised.                                                     *)
LEMMA DoEventHeap == ASSUME HeapInv, PlainInv, DoEvent \/ DoModuleEvent PROVE HeapKept
<1>0. /\ WalksRight(heap, stack) /\ LeadsTo(heap, table) /\ CommonList \in DOMAIN heap
  BY DEF HeapInv, WalksRight, HeapOK
<1>1. CASE DoEvent
  <2>1. PICK k \in EventKey :
          IF heap[CommonList].items # <<>> THEN Walk(heap, stack, CommonList, k, "common")
          ELSE DoOwn(heap, stack, k)
    BY <1>1 DEF DoEvent
  <2>2. ops' \in 0 .. MaxOp /\ UNCHANGED <<table, funcs, hooked, now>>
    BY <1>1, CallsPlain DEF DoEvent
  <2>3. k \in WalkKey
    BY DEF WalkKey
  <2>4. CASE heap[CommonList].items # <<>>
    <3>1. /\ WalksRight(heap', stack') /\ DOMAIN heap' = DOMAIN heap /\ Begun(stack, stack', k, "common")
          /\ doing' = "run" /\ stack' # <<>>
      BY <1>0, <2>1, <2>3, <2>4, WalkRight
    <3>2. BeatSame(stack, stack')
      BY <1>0, <3>1, BegunBeat DEF WalksRight
    <3>. QED BY <2>2, <3>1, <3>2, WalkedKept
  <2>5. CASE heap[CommonList].items = <<>>
    <3>1. DoOwn(heap, stack, k)
      BY <2>1, <2>5
    <3>. QED BY <1>0, <2>2, <2>3, <3>1, DoOwnRight, WalkedKept
  <2>. QED BY <2>4, <2>5
<1>2. CASE DoModuleEvent
  <2>1. PICK k \in ModuleKey : DoOwn(heap, stack, k)
    BY <1>2 DEF DoModuleEvent
  <2>2. ops' \in 0 .. MaxOp /\ UNCHANGED <<table, funcs, hooked, now>>
    BY <1>2, CallsPlain DEF DoModuleEvent
  <2>3. k \in WalkKey
    BY DEF WalkKey
  <2>. QED BY <1>0, <2>1, <2>2, <2>3, DoOwnRight, WalkedKept
<1>. QED BY <1>1, <1>2

(* A message comes.                                                        *)
LEMMA OnNetMsgCallBackHeap == ASSUME HeapInv, PlainInv, OnNetMsgCallBack PROVE HeapKept
<1>1. PICK sm \in hooked :
        Walk(heap, <<>>, funcs[TableOf(sm[1], sm[2])], TableOf(sm[1], sm[2]), "event")
  BY DEF OnNetMsgCallBack
<1>. DEFINE k == TableOf(sm[1], sm[2])
            l == funcs[k]
<1>2. /\ k \in DOMAIN funcs /\ k \in WalkKey /\ stack = <<>> /\ WalksRight(heap, stack)
      /\ LeadsTo(heap, funcs)
  BY DEF PlainInv, HeapInv, WalksRight, OnNetMsgCallBack, WalkKey
<1>3. ops' \in 0 .. MaxOp /\ UNCHANGED <<table, funcs, hooked, now>>
  BY CallbacksAssumption DEF OnNetMsgCallBack, PlainInv
<1>4. l \in DOMAIN heap /\ heap[l].items # <<>>
  BY <1>2 DEF LeadsTo, WalksRight, HeapOK
<1>5. Walk(heap, stack, l, k, "event")
  BY <1>1, <1>2
<1>. HIDE DEF k, l
<1>6. /\ WalksRight(heap', stack') /\ DOMAIN heap' = DOMAIN heap /\ Begun(stack, stack', k, "event")
      /\ doing' = "run" /\ stack' # <<>>
  BY <1>2, <1>4, <1>5, WalkRight
<1>7. BeatSame(stack, stack')
  BY <1>2, <1>6, BegunBeat DEF WalksRight
<1>. QED BY <1>3, <1>6, <1>7, WalkedKept

(* The bridge walks the Lua functions of its key.                          *)
LEMMA CallLuaHeap == ASSUME HeapInv, PlainInv, CallLua PROVE HeapKept
<1>1. /\ doing = "run" /\ UNCHANGED <<table, funcs, hooked, now, ops>>
      /\ WalksRight(heap, stack) /\ LeadsTo(heap, funcs) /\ stack # <<>> /\ ops \in 0 .. MaxOp
  BY DEF CallLua, HeapInv, WalksRight, PlainInv
<1>. DEFINE k == KeyOf(Top)
            l == funcs[k]
<1>2. CASE k \in DOMAIN funcs
  <2>1. Walk(heap, stack, l, k, "lua")
    BY <1>2 DEF CallLua
  <2>2. k \in WalkKey
    BY <1>2 DEF PlainInv, WalkKey
  <2>3. l \in DOMAIN heap /\ heap[l].items # <<>>
    BY <1>1, <1>2 DEF LeadsTo, WalksRight, HeapOK
  <2>. HIDE DEF k, l
  <2>4. /\ WalksRight(heap', stack') /\ DOMAIN heap' = DOMAIN heap /\ Begun(stack, stack', k, "lua")
        /\ doing' = "run" /\ stack' # <<>>
    BY <1>1, <2>1, <2>2, <2>3, WalkRight
  <2>5. BeatSame(stack, stack')
    BY <1>1, <2>4, BegunBeat DEF WalksRight
  <2>. QED BY <1>1, <2>4, <2>5, WalkedKept
<1>3. CASE k \notin DOMAIN funcs
  <2>1. doing' = "next" /\ UNCHANGED <<heap, stack>>
    BY <1>3 DEF CallLua
  <2>2. HeapInv' /\ DOMAIN heap \subseteq DOMAIN heap' /\ BeatSame(stack, stack')
    BY <1>1, <2>1, StillHeap
  <2>3. PlainInv'
    BY <1>1, <2>1 DEF PlainInv
  <2>. QED BY <2>2, <2>3 DEF HeapKept
<1>. QED BY <1>2, <1>3

(* Next finds a callback.                                                  *)
LEMMA NextItemHeap == ASSUME HeapInv, PlainInv, NextItem PROVE HeapKept
<1>1. /\ UNCHANGED <<table, funcs, hooked, now, ops>> /\ ops \in 0 .. MaxOp /\ stack # <<>>
      /\ WalksRight(heap, stack)
  BY DEF NextItem, HeapInv, WalksRight, PlainInv
<1>2. WalksRight(heap', stack') /\ DOMAIN heap' = DOMAIN heap /\ SameWalks(stack, stack') /\ doing' = "run"
  BY NextItemRight
<1>3. BeatSame(stack, stack') /\ stack' # <<>>
  BY <1>1, <1>2, SameWalksBeat DEF WalksRight
<1>. QED BY <1>1, <1>2, <1>3, WalkedKept

(* The walk that ends is not Update's.                                     *)
LEMMA PopBeat ==
  ASSUME HeapInv, Over, Top.for # "beat"
  PROVE  BeatSame(stack, Pop) /\ WalksRight(AtEnd, Pop) /\ DOMAIN AtEnd = DOMAIN heap
<1>1. /\ WalksRight(AtEnd, Pop) /\ DOMAIN AtEnd = DOMAIN heap /\ stack # <<>>
      /\ Len(Pop) = Len(stack) - 1 /\ \A k \in DOMAIN Pop : Pop[k] = stack[k]
  BY EndRight
<1>2. /\ Len(stack) \in Nat \ {0} /\ Len(Pop) \in Nat /\ DOMAIN Pop = 1 .. Len(Pop)
      /\ Pop = <<>> <=> Len(Pop) = 0
  <2>1. stack \in Seq(Walking) /\ Pop \in Seq(Walking)
    BY <1>1, StackFacts DEF HeapInv, WalksRight
  <2>. QED BY <1>1, <2>1
<1>3. CASE Pop = <<>>
  <2>1. Len(stack) = 1
    BY <1>1, <1>2, <1>3
  <2>. QED BY <1>1, <1>3, <2>1 DEF BeatSame, Top
<1>4. CASE Pop # <<>>
  <2>1. Pop[1] = stack[1]
    BY <1>1, <1>2, <1>4
  <2>. QED BY <1>1, <1>4, <2>1 DEF BeatSame
<1>. QED BY <1>1, <1>3, <1>4

(* Two steps that both keep Update's walk.                                 *)
LEMMA BeatTrans ==
  ASSUME NEW s, NEW t, NEW u, BeatSame(s, t), BeatSame(t, u)
  PROVE  BeatSame(s, u)
BY DEF BeatSame

(* Next finds the end.                                                     *)
LEMMA EndHeap == ASSUME HeapInv, PlainInv, EndCommon \/ EndEvent \/ EndLua PROVE HeapKept
<1>1. /\ UNCHANGED <<table, funcs, hooked, now, ops>> /\ ops \in 0 .. MaxOp /\ Over /\ Top.for # "beat"
  BY DEF EndCommon, EndEvent, EndLua, PlainInv
<1>2. /\ BeatSame(stack, Pop) /\ WalksRight(AtEnd, Pop) /\ DOMAIN AtEnd = DOMAIN heap
  BY <1>1, PopBeat
<1>3. CASE EndCommon
  <2>1. LeadsTo(AtEnd, table) /\ Top.key \in WalkKey /\ DoOwn(AtEnd, Pop, Top.key)
    <3>1. Len(stack) \in DOMAIN stack /\ StackOK(heap, stack) /\ LeadsTo(heap, table)
      BY <1>1, EndRight DEF HeapInv
    <3>. QED BY <1>2, <1>3, <3>1, StackFacts DEF LeadsTo, Top, EndCommon
  <2>. DEFINE h == AtEnd
              s == Pop
              k == Top.key
  <2>. HIDE DEF h, s, k
  <2>2. /\ WalksRight(heap', stack') /\ DOMAIN heap' = DOMAIN h /\ BeatSame(s, stack')
        /\ doing' \in {"run", "idle"} /\ (doing' = "run" <=> stack' # <<>>)
    BY <1>2, <2>1, DoOwnRight DEF h, s, k
  <2>3. BeatSame(stack, stack')
    BY <1>2, <2>2, BeatTrans DEF s
  <2>4. DOMAIN heap' = DOMAIN heap
    BY <1>2, <2>2 DEF h
  <2>. QED BY <1>1, <2>2, <2>3, <2>4, WalkedKept
<1>4. CASE EndEvent
  <2>1. heap' = AtEnd /\ stack' = Pop /\ doing' = (IF Pop = <<>> THEN "idle" ELSE "run")
    BY <1>4 DEF EndEvent
  <2>. HIDE DEF AtEnd, Pop
  <2>2. WalksRight(heap', stack') /\ DOMAIN heap' = DOMAIN heap /\ BeatSame(stack, stack')
    BY <1>2, <2>1
  <2>. QED BY <1>1, <2>1, <2>2, WalkedKept
<1>5. CASE EndLua
  <2>1. heap' = AtEnd /\ stack' = Pop /\ doing' = "next" /\ Top.for = "lua"
    BY <1>5 DEF EndLua
  <2>2. WalksRight(heap', stack') /\ DOMAIN heap' = DOMAIN heap /\ BeatSame(stack, stack')
    BY <1>2, <2>1
  <2>3. Pop # <<>>
    <3>1. /\ Len(stack) \in DOMAIN stack /\ StackOK(heap, stack) /\ Len(Pop) = Len(stack) - 1
      BY <1>1, EndRight DEF HeapInv
    <3>2. Len(stack) # 1
      BY <2>1, <3>1 DEF StackOK, Top
    <3>3. Len(stack) \in Nat
      BY <3>1, StackFacts
    <3>. QED BY <3>1, <3>2, <3>3
  <2>. QED BY <1>1, <2>1, <2>2, <2>3, WalkedKept
<1>. QED BY <1>3, <1>4, <1>5

ScheduleInv == ElementInv /\ CountInv /\ BeatInv /\ AloneInv /\ QueuedInv

(* Ticks without the first one, and with one more at the end.              *)
LEMMA TailKeys ==
  ASSUME NEW s \in Seq(TickRec), s # <<>>, NEW k, NEW time
  PROVE  /\ Tail(s) \in Seq(TickRec) /\ Head(s) \in TickRec
         /\ Single(s, k) => Single(Tail(s), k)
         /\ Single(s, k) /\ Head(s).key = k => Free(Tail(s), k)
         /\ NotBefore(s, k, time) => NotBefore(Tail(s), k, time)
         /\ Free(s, k) <=> Free(Tail(s), k) /\ Head(s).key # k
<1>. DEFINE t == Tail(s)
            n == Len(s)
<1>1. /\ n \in Nat \ {0} /\ DOMAIN s = 1 .. n /\ DOMAIN t = 1 .. n - 1 /\ Head(s) = s[1]
      /\ \A i \in 1 .. n - 1 : t[i] = s[i + 1]
      /\ t \in Seq(TickRec) /\ Head(s) \in TickRec
  OBVIOUS
<1>. HIDE DEF t, n
<1>2. \A i \in 1 .. n - 1 : i + 1 \in 1 .. n /\ i + 1 # 1
  BY <1>1
<1>3. \A i \in 1 .. n : i = 1 \/ (i - 1 \in 1 .. n - 1 /\ t[i - 1] = s[i])
  BY <1>1
<1>4. \A i, j \in 1 .. n - 1 : i + 1 = j + 1 => i = j
  BY <1>1
<1>5. Single(s, k) => Single(t, k)
  <2>1. SUFFICES ASSUME Single(s, k), NEW i \in 1 .. n - 1, NEW j \in 1 .. n - 1, t[i].key = k, t[j].key = k
        PROVE  i = j
    BY <1>1 DEF Single
  <2>2. s[i + 1].key = k /\ s[j + 1].key = k /\ i + 1 \in DOMAIN s /\ j + 1 \in DOMAIN s
    BY <1>1, <1>2, <2>1
  <2>3. i + 1 = j + 1
    BY <2>1, <2>2 DEF Single
  <2>. QED BY <1>4, <2>3
<1>6. Single(s, k) /\ Head(s).key = k => Free(t, k)
  <2>1. 1 \in 1 .. n
    BY <1>1
  <2>. QED BY <1>1, <1>2, <2>1 DEF Single, Free
<1>7. NotBefore(s, k, time) => NotBefore(t, k, time)
  BY <1>1, <1>2 DEF NotBefore
<1>8. Free(s, k) <=> Free(t, k) /\ Head(s).key # k
  <2>1. 1 \in 1 .. n
    BY <1>1
  <2>2. Free(s, k) => Free(t, k) /\ Head(s).key # k
    BY <1>1, <1>2, <2>1 DEF Free
  <2>3. Free(t, k) /\ Head(s).key # k => Free(s, k)
    BY <1>1, <1>3 DEF Free
  <2>. QED BY <2>2, <2>3
<1>. QED BY <1>1, <1>5, <1>6, <1>7, <1>8 DEF t

(* A tick put at the end is put in.                                        *)
LEMMA AppendInserts ==
  ASSUME NEW s \in Seq(TickRec), NEW t \in TickRec
  PROVE  Inserted(Append(s, t), s, t)
<1>. DEFINE q == Append(s, t)
            n == Len(s)
<1>1. /\ q \in Seq(TickRec) /\ Len(q) = n + 1 /\ n \in Nat
      /\ q[n + 1] = t /\ \A i \in 1 .. n : q[i] = s[i]
  OBVIOUS
<1>2. n \in 0 .. Len(s)
  BY <1>1
<1>3. \A i \in 1 .. Len(q) : q[i] = IF i <= n THEN s[i] ELSE IF i = n + 1 THEN t ELSE s[i - 1]
  <2>. HIDE DEF q, n
  <2>. QED BY <1>1
<1>4. Len(q) = Len(s) + 1
  BY <1>1
<1>. HIDE DEF q, n
<1>5. Inserted(q, s, t)
  BY <1>1, <1>2, <1>3, <1>4 DEF Inserted
<1>. QED BY <1>5 DEF q

(* Where no schedule is touched.                                           *)
LEMMA ScheduleStill ==
  ASSUME ScheduleInv, UNCHANGED schedules, DOMAIN heap \subseteq DOMAIN heap', BeatSame(stack, stack'),
         now \in Nat, now' \in Nat, now <= now'
  PROVE  ScheduleInv'
<1>1. UNCHANGED <<element, objects, ticks, elements>>
  BY DEF schedules
<1>2. Beating' <=> Beating
  BY DEF BeatSame, Beating
<1>3. Beating => BeatOf' = BeatOf
  BY DEF BeatSame, Beating, BeatOf
<1>4. Rest' = Rest
  BY <1>1, <1>2 DEF Rest
<1>5. ElementInv'
  BY <1>1 DEF ScheduleInv, ElementInv
<1>6. CountInv' /\ QueuedInv'
  BY <1>1 DEF ScheduleInv, CountInv, QueuedInv, Free
<1>7. BeatInv'
  <2>1. SUFFICES ASSUME Beating, Beating' PROVE BeatInv'
    BY <1>2 DEF BeatInv
  <2>2. BeatInv /\ BeatOf' = BeatOf
    BY <1>3, <2>1 DEF ScheduleInv
  <2>3. Head(ticks).time <= now'
    <3>1. ticks \in Seq(TickRec) /\ ticks # <<>>
      BY <2>1, <2>2 DEF ScheduleInv, ElementInv, BeatInv
    <3>2. Head(ticks) \in TickRec
      BY <3>1
    <3>3. Head(ticks).time \in Nat /\ Head(ticks).time <= now
      BY <2>1, <2>2, <3>2 DEF TickRec, BeatInv
    <3>. QED BY <3>3
  <2>. QED BY <1>1, <1>4, <2>1, <2>2, <2>3 DEF BeatInv, Free
<1>8. AloneInv'
  <2>1. SUFFICES ASSUME NEW k \in DOMAIN objects, element[objects[k]].alone
        PROVE  /\ QueuedOnce(Rest, elements, k)
               /\ NotBefore(Rest, k, element[objects[k]].time)
               /\ NotBefore(elements, k, element[objects[k]].time)
               /\ Beating' /\ BeatOf' = <<k, objects[k]>> => Free(Rest, k) /\ Free(elements, k)
    BY <1>1, <1>4 DEF AloneInv, QueuedOnce, NotBefore, Free, Single
  <2>. QED BY <1>2, <1>3, <2>1 DEF ScheduleInv, AloneInv
<1>. QED BY <1>5, <1>6, <1>7, <1>8 DEF ScheduleInv

(* What the schedules and the queues are made of.                          *)
LEMMA ElementFacts ==
  ASSUME ElementInv
  PROVE  /\ element \in Seq(ElementRec) /\ Len(element) \in Nat /\ DOMAIN element = 1 .. Len(element)
         /\ \A i \in DOMAIN element :
              /\ element[i] \in ElementRec
              /\ element[i].key \in NameKey /\ element[i].interval \in Interval /\ element[i].time \in Nat
              /\ element[i].remain \in Int /\ element[i].count \in Int /\ element[i].fired \in Nat
              /\ element[i].alone \in BOOLEAN /\ element[i].early \in BOOLEAN
              /\ element[i].list \in DOMAIN heap \ {CommonList}
         /\ ticks \in Seq(TickRec) /\ elements \in Seq(TickRec)
<1>1. /\ element \in Seq(ElementRec) /\ Len(element) \in Nat /\ DOMAIN element = 1 .. Len(element)
      /\ ticks \in Seq(TickRec) /\ elements \in Seq(TickRec)
  BY DEF ElementInv
<1>2. \A i \in DOMAIN element : element[i] \in ElementRec /\ element[i].list \in DOMAIN heap \ {CommonList}
  BY <1>1 DEF ElementInv
<1>3. \A i \in DOMAIN element :
        /\ element[i].key \in NameKey /\ element[i].interval \in Interval /\ element[i].time \in Nat
        /\ element[i].remain \in Int /\ element[i].count \in Int /\ element[i].fired \in Nat
        /\ element[i].alone \in BOOLEAN /\ element[i].early \in BOOLEAN
  BY <1>2 DEF ElementRec
<1>. QED BY <1>1, <1>2, <1>3

(* A name has a tick unless both queues are free of it.                    *)
LEMMA TickOfFree ==
  ASSUME ticks \in Seq(TickRec), elements \in Seq(TickRec), NEW k
  PROVE  TickOf(k) <=> ~Free(ticks, k) \/ ~Free(elements, k)
BY DEF TickOf, Free, Range

(* A schedule is added, if there is none of its name.                      *)
LEMMA ScheduleRight ==
  ASSUME HeapInv, ScheduleInv, now \in Nat, NEW h, Grows(heap, h), NEW k \in NameKey,
         NEW cb \in Callback, NEW iv \in Interval, NEW n \in Count,
         Schedule(h, k, cb, iv, n), UNCHANGED <<elements, stack, now>>
  PROVE  ScheduleInv' /\ Grows(heap, heap') /\ DOMAIN h \subseteq DOMAIN heap'
<1>0. HeapOK(heap) /\ HeapOK(h) /\ StackOK(heap, stack) /\ DueOK(heap, stack)
  BY DEF HeapInv, Grows
<1>1. CASE k \in DOMAIN objects
  <2>1. heap' = h /\ UNCHANGED <<element, objects, ticks>>
    BY <1>1 DEF Schedule, QueueNew
  <2>2. DOMAIN heap \subseteq DOMAIN heap' /\ Grows(heap, heap')
    BY <1>0, <2>1, GrowsDomain
  <2>3. UNCHANGED schedules /\ BeatSame(stack, stack') /\ now' = now /\ now <= now'
    BY <2>1 DEF schedules, BeatSame
  <2>. QED BY <2>1, <2>2, <2>3, ScheduleStill
<1>2. CASE k \notin DOMAIN objects
  <2>. DEFINE t == TickElement(k, now + iv)
              new == Len(element) + 1
              alone == ~TickOf(k)
              rec == [key |-> k, list |-> Len(h) + 1, interval |-> iv,
                      time |-> now + iv, remain |-> n, count |-> n,
                      fired |-> 0, alone |-> alone, early |-> FALSE]
  <2>1. /\ ticks' = InsertTick(ticks, t) /\ heap' = NewList(h, cb) /\ element' = Append(element, rec)
        /\ objects' = [x \in DOMAIN objects \cup {k} |-> IF x = k THEN Len(element') ELSE objects[x]]
        /\ UNCHANGED <<elements, stack, now>>
    BY <1>2 DEF Schedule, QueueNew
  <2>2. /\ element \in Seq(ElementRec) /\ Len(element) \in Nat /\ DOMAIN element = 1 .. Len(element)
        /\ ticks \in Seq(TickRec) /\ elements \in Seq(TickRec)
        /\ ElementInv /\ CountInv /\ BeatInv /\ AloneInv /\ QueuedInv
    BY ElementFacts DEF ScheduleInv
  <2>3. /\ Grows(h, heap') /\ Len(h) + 1 \in DOMAIN heap' \ {CommonList} /\ Grows(heap, heap')
        /\ DOMAIN heap \subseteq DOMAIN heap' /\ DOMAIN h \subseteq DOMAIN heap' /\ Len(h) + 1 \in Nat
    <3>1. Grows(h, heap') /\ Len(h) + 1 \in DOMAIN heap' \ {CommonList}
      BY <1>0, <2>1, NewListGrows
    <3>2. Grows(heap, heap')
      BY <1>0, <3>1, GrowsTrans
    <3>. QED BY <1>0, <3>1, <3>2, GrowsDomain, HeapFacts
  <2>4. t \in TickRec /\ t.key = k /\ t.time = now + iv /\ now + iv \in Nat /\ now < now + iv
    BY CallbacksAssumption DEF TickElement, TickRec
  <2>5. alone \in BOOLEAN
    OBVIOUS
  <2>6. /\ rec \in ElementRec /\ rec.key = k /\ rec.list = Len(h) + 1 /\ rec.time = now + iv
        /\ rec.remain = n /\ rec.count = n /\ rec.fired = 0 /\ rec.alone = alone /\ rec.early = FALSE
    <3>. HIDE DEF alone
    <3>. QED BY <2>3, <2>4, <2>5, CallbacksAssumption DEF ElementRec
  <2>7. alone <=> Free(ticks, k) /\ Free(elements, k)
    BY <2>2, TickOfFree
  <2>. HIDE DEF alone, rec, t
  <2>8. /\ element' \in Seq(ElementRec) /\ DOMAIN element' = DOMAIN element \cup {new}
        /\ element'[new] = rec /\ \A i \in DOMAIN element : element'[i] = element[i]
        /\ new \notin DOMAIN element /\ Len(element') = new
    BY <2>1, <2>2, <2>6
  <2>. HIDE DEF new
  <2>9. /\ DOMAIN objects' = DOMAIN objects \cup {k} /\ objects'[k] = new
        /\ \A x \in DOMAIN objects : x # k /\ objects'[x] = objects[x] /\ objects[x] \in DOMAIN element
                                     /\ element'[objects[x]] = element[objects[x]]
    BY <1>2, <2>1, <2>2, <2>8 DEF ElementInv
  <2>10. /\ Inserted(ticks', ticks, t)
         /\ ticks # <<>> /\ Head(ticks).time <= now =>
              ticks' # <<>> /\ Head(ticks') = Head(ticks) /\ Inserted(Tail(ticks'), Tail(ticks), t)
    <3>1. ticks # <<>> => Head(ticks).time \in Nat
      <4>1. ticks # <<>> => Head(ticks) \in TickRec
        BY <2>2
      <4>. QED BY <4>1 DEF TickRec
    <3>. QED BY <2>1, <2>2, <2>4, <3>1, InsertRight
  <2>11. (Beating' <=> Beating) /\ BeatOf' = BeatOf
    BY <2>1 DEF Beating, BeatOf
  <2>12. Inserted(Rest', Rest, t) /\ Rest \in Seq(TickRec) /\ (Beating => ticks # <<>>)
    BY <2>2, <2>10, <2>11 DEF Rest, BeatInv
  <2>13. ElementInv'
    <3>1. ticks' \in Seq(TickRec)
      BY <2>10 DEF Inserted
    <3>2. \A i \in DOMAIN element' : element'[i].list \in DOMAIN heap' \ {CommonList}
      BY <2>2, <2>3, <2>6, <2>8 DEF ElementInv
    <3>3. \A x \in DOMAIN objects' :
            x \in NameKey /\ objects'[x] \in DOMAIN element' /\ element'[objects'[x]].key = x
      BY <2>2, <2>6, <2>8, <2>9 DEF ElementInv
    <3>. QED BY <2>1, <2>2, <2>8, <3>1, <3>2, <3>3 DEF ElementInv
  <2>14. CountInv'
    <3>1. n \in Int
      BY CallbacksAssumption
    <3>2. /\ rec.count > 0 => rec.remain >= 0 /\ rec.fired = rec.count - rec.remain
          /\ rec.count <= 0 => rec.remain = rec.count
          /\ rec.alone => ~rec.early
          /\ rec.count > 0 => rec.remain > 0
      BY <2>6, <3>1
    <3>3. \A x \in DOMAIN objects' : element'[objects'[x]].count > 0 => element'[objects'[x]].remain > 0
      BY <2>2, <2>8, <2>9, <3>2 DEF CountInv
    <3>4. \A i \in DOMAIN element' : i \in DOMAIN element \/ i = new
      BY <2>8
    <3>. QED BY <2>2, <2>8, <3>2, <3>3, <3>4 DEF CountInv
  <2>15. BeatInv'
    <3>1. SUFFICES ASSUME Beating PROVE BeatInv'
      BY <2>11 DEF BeatInv
    <3>. DEFINE b == BeatOf[1]
                i == BeatOf[2]
    <3>2. /\ ticks # <<>> /\ Head(ticks).key = b /\ Head(ticks).time <= now
          /\ i \in DOMAIN element /\ element[i].key = b /\ element[i].fired > 0
          /\ b \in DOMAIN objects /\ objects[b] # i =>
               /\ ~element[objects[b]].alone
               /\ ~Free(Rest, b) \/ ~Free(elements, b)
      BY <2>2, <3>1 DEF BeatInv
    <3>3. ticks' # <<>> /\ Head(ticks') = Head(ticks)
      BY <2>10, <3>2
    <3>4. i \in DOMAIN element' /\ element'[i] = element[i]
      BY <2>8, <3>2
    <3>5. (Free(Rest', b) <=> Free(Rest, b) /\ t.key # b)
      BY <2>4, <2>12, InsertKeys
    <3>6. ASSUME b \in DOMAIN objects', objects'[b] # i
          PROVE  /\ ~element'[objects'[b]].alone
                 /\ ~Free(Rest', b) \/ ~Free(elements', b)
      <4>1. CASE b = k
        <5>1. ~Free(ticks, b)
          BY <2>2, <3>2, TailKeys
        <5>2. ~rec.alone
          BY <2>6, <2>7, <4>1, <5>1
        <5>. QED BY <2>4, <2>8, <2>9, <3>5, <4>1, <5>2
      <4>2. CASE b # k
        <5>1. b \in DOMAIN objects /\ objects'[b] = objects[b] /\ element'[objects[b]] = element[objects[b]]
          BY <2>9, <3>6, <4>2
        <5>. QED BY <2>1, <3>2, <3>5, <3>6, <5>1
      <4>. QED BY <4>1, <4>2
    <3>7. Head(ticks').time <= now'
      BY <2>1, <3>2, <3>3
    <3>. QED BY <2>11, <3>2, <3>3, <3>4, <3>6, <3>7 DEF BeatInv
  <2>16. AloneInv'
    <3>1. SUFFICES ASSUME NEW x \in DOMAIN objects', element'[objects'[x]].alone
          PROVE  /\ QueuedOnce(Rest', elements, x)
                 /\ NotBefore(Rest', x, element'[objects'[x]].time)
                 /\ NotBefore(elements, x, element'[objects'[x]].time)
                 /\ Beating /\ BeatOf = <<x, objects'[x]>> => Free(Rest', x) /\ Free(elements, x)
      <4>1. SUFFICES ASSUME NEW x \in DOMAIN objects', element'[objects'[x]].alone
            PROVE  /\ QueuedOnce(Rest', elements', x)
                   /\ NotBefore(Rest', x, element'[objects'[x]].time)
                   /\ NotBefore(elements', x, element'[objects'[x]].time)
                   /\ Beating' /\ BeatOf' = <<x, objects'[x]>> => Free(Rest', x) /\ Free(elements', x)
        BY DEF AloneInv, QueuedOnce, NotBefore, Free, Single
      <4>2. elements' = elements
        BY <2>1
      <4>. QED BY <2>11, <4>1, <4>2
    <3>. DEFINE time == element'[objects'[x]].time
    <3>2. /\ Free(Rest', x) <=> Free(Rest, x) /\ t.key # x
          /\ Single(Rest, x) /\ t.key # x => Single(Rest', x)
          /\ Free(Rest, x) => Single(Rest', x)
          /\ NotBefore(Rest, x, time) /\ (t.key = x => t.time >= time) => NotBefore(Rest', x, time)
      <4>. HIDE DEF time
      <4>. QED BY <2>4, <2>12, InsertKeys
    <3>3. CASE x = k
      <4>1. Free(ticks, k) /\ Free(elements, k) /\ time = now + iv
        BY <2>6, <2>7, <2>8, <2>9, <3>1, <3>3
      <4>2. Free(Rest, k)
        BY <2>2, <2>12, <4>1, TailKeys DEF Rest
      <4>3. Beating => BeatOf[1] # k
        BY <2>2, <2>12, <4>1, TailKeys DEF BeatInv
      <4>4. NotBefore(Rest, k, time) /\ NotBefore(elements, k, time) /\ Single(elements, k)
        BY <4>1, <4>2 DEF NotBefore, Free, Single
      <4>5. t.time >= time
        BY <2>4, <4>1
      <4>. HIDE DEF time
      <4>6. ~(Beating /\ BeatOf = <<x, objects'[x]>>)
        BY <3>3, <4>3
      <4>. QED BY <3>2, <3>3, <4>1, <4>2, <4>4, <4>5, <4>6 DEF QueuedOnce, time
    <3>4. CASE x # k
      <4>1. /\ x \in DOMAIN objects /\ objects'[x] = objects[x] /\ element'[objects[x]] = element[objects[x]]
            /\ time = element[objects[x]].time /\ element[objects[x]].alone
        BY <2>9, <3>1, <3>4
      <4>2. /\ QueuedOnce(Rest, elements, x)
            /\ NotBefore(Rest, x, time) /\ NotBefore(elements, x, time)
            /\ Beating /\ BeatOf = <<x, objects[x]>> => Free(Rest, x) /\ Free(elements, x)
        BY <2>2, <4>1 DEF AloneInv
      <4>. HIDE DEF time
      <4>. QED BY <2>4, <3>2, <3>4, <4>1, <4>2 DEF QueuedOnce, time
    <3>. QED BY <3>3, <3>4
  <2>17. QueuedInv'
    <3>1. SUFFICES ASSUME NEW x \in DOMAIN objects',
                          element'[objects'[x]].remain # 0 \/ element'[objects'[x]].fired = 0
          PROVE  ~Free(ticks', x) \/ ~Free(elements, x)
      BY <2>1 DEF QueuedInv, Free
    <3>2. Free(ticks', x) <=> Free(ticks, x) /\ t.key # x
      BY <2>2, <2>4, <2>10, InsertKeys
    <3>3. CASE x = k
      BY <2>4, <3>2, <3>3
    <3>4. CASE x # k
      BY <2>2, <2>9, <3>1, <3>2, <3>4 DEF QueuedInv
    <3>. QED BY <3>3, <3>4
  <2>. QED BY <2>3, <2>13, <2>14, <2>15, <2>16, <2>17 DEF ScheduleInv
<1>. QED BY <1>1, <1>2

(* A schedule of C++.                                                      *)
LEMMA AddScheduleKeeps == ASSUME CallbacksInv, AddSchedule PROVE CallbacksInv'
<1>1. PICK k \in NameKey, c \in Native, iv \in Interval, n \in Count : Schedule(heap, k, c, iv, n)
  BY DEF AddSchedule
<1>2. HeapInv /\ PlainInv /\ ScheduleInv
  BY DEF CallbacksInv, ScheduleInv
<1>3. /\ now' = now /\ now' \in 0 .. MaxTime /\ ops' \in 0 .. MaxOp
      /\ UNCHANGED <<table, funcs, hooked, elements, stack, doing>>
  BY <1>2, CallsPlain DEF AddSchedule
<1>4. Grows(heap, heap) /\ c \in Callback /\ now \in Nat /\ HeapOK(heap)
      /\ LeadsTo(heap, table) /\ LeadsTo(heap, funcs)
  <2>1. HeapOK(heap) /\ c \in Callback /\ now \in Nat /\ LeadsTo(heap, table) /\ LeadsTo(heap, funcs)
    BY <1>2 DEF HeapInv, Callback, PlainInv
  <2>2. Len(heap) \in Nat /\ \A l \in DOMAIN heap : Len(heap[l].items) \in Nat
    BY <2>1, HeapFacts
  <2>. QED BY <2>1, <2>2 DEF Grows
<1>5. ScheduleInv' /\ Grows(heap, heap')
  BY <1>1, <1>2, <1>3, <1>4, ScheduleRight
<1>6. LeadsTo(heap', table') /\ LeadsTo(heap', funcs')
  BY <1>3, <1>4, <1>5, GrowsDomain
<1>7. HeapInv'
  BY <1>2, <1>3, <1>5, <1>6, GrownKept
<1>8. PlainInv'
  BY <1>2, <1>3 DEF PlainInv
<1>. QED BY <1>5, <1>7, <1>8 DEF CallbacksInv, ScheduleInv

(* A schedule of Lua, whose function is added whether or not there is one  *)
(* of its name.                                                            *)
LEMMA LuaAddScheduleKeeps == ASSUME CallbacksInv, LuaAddSchedule PROVE CallbacksInv'
<1>1. PICK k \in NameKey, f \in Func, iv \in Interval, n \in Count :
        /\ funcs' = LuaAdd(heap, k, f).funcs
        /\ Schedule(LuaAdd(heap, k, f).heap, k, Bridge, iv, n)
  BY DEF LuaAddSchedule
<1>. DEFINE a == LuaAdd(heap, k, f)
            h == a.heap
<1>2. HeapInv /\ PlainInv /\ ScheduleInv
  BY DEF CallbacksInv, ScheduleInv
<1>3. /\ now' = now /\ now' \in 0 .. MaxTime /\ ops' \in 0 .. MaxOp
      /\ UNCHANGED <<table, hooked, elements, stack, doing>>
  BY <1>2, CallsPlain DEF LuaAddSchedule
<1>4. Grows(heap, h) /\ LeadsTo(h, funcs') /\ DOMAIN funcs' = DOMAIN funcs \cup {k}
      /\ Schedule(h, k, Bridge, iv, n)
  <2>1. Grows(heap, a.heap) /\ LeadsTo(a.heap, a.funcs) /\ DOMAIN a.funcs = DOMAIN funcs \cup {k}
    BY <1>2, LuaAddRight
  <2>2. funcs' = a.funcs /\ Schedule(a.heap, k, Bridge, iv, n)
    BY <1>1
  <2>. HIDE DEF a
  <2>. QED BY <2>1, <2>2
<1>. HIDE DEF h, a
<1>5. Bridge \in Callback /\ now \in Nat /\ HeapOK(heap) /\ LeadsTo(heap, table) /\ HeapOK(h)
  BY <1>2, <1>4 DEF HeapInv, Callback, PlainInv, Grows
<1>6. ScheduleInv' /\ Grows(heap, heap')
  BY <1>2, <1>3, <1>4, <1>5, ScheduleRight
<1>7. heap' = h \/ heap' = NewList(h, Bridge)
  BY <1>4 DEF Schedule
<1>8. LeadsTo(heap', funcs')
  BY <1>4, <1>5, <1>7, NewListGrows, GrowsDomain
<1>9. LeadsTo(heap', table')
  BY <1>3, <1>5, <1>6, GrowsDomain
<1>10. HeapInv'
  BY <1>2, <1>3, <1>6, <1>8, <1>9, GrownKept
<1>11. PlainInv'
  BY <1>2, <1>3, <1>4 DEF PlainInv, Key
<1>. QED BY <1>6, <1>10, <1>11 DEF CallbacksInv, ScheduleInv

(* Schedules are removed; their ticks stay.                                *)
LEMMA RemoveScheduleKeeps == ASSUME CallbacksInv, RemoveSchedule PROVE CallbacksInv'
<1>1. HeapInv /\ PlainInv /\ ScheduleInv
  BY DEF CallbacksInv, ScheduleInv
<1>2. /\ now' = now /\ now' \in 0 .. MaxTime /\ ops' \in 0 .. MaxOp
      /\ UNCHANGED <<heap, table, funcs, hooked, element, ticks, elements, stack, doing>>
  BY <1>1, CallsPlain DEF RemoveSchedule
<1>3. DOMAIN objects' \subseteq DOMAIN objects /\ \A k \in DOMAIN objects' : objects'[k] = objects[k]
  BY DEF RemoveSchedule
<1>4. HeapInv' /\ PlainInv'
  <2>1. PlainInv'
    BY <1>1, <1>2 DEF PlainInv
  <2>. QED BY <1>1, <1>2, <2>1, StillHeap
<1>5. (Beating' <=> Beating) /\ BeatOf' = BeatOf /\ Rest' = Rest
  BY <1>2 DEF Beating, BeatOf, Rest
<1>6. ElementInv'
  BY <1>1, <1>2, <1>3 DEF ScheduleInv, ElementInv
<1>7. CountInv' /\ QueuedInv'
  BY <1>1, <1>2, <1>3 DEF ScheduleInv, CountInv, QueuedInv, Free
<1>8. BeatInv'
  BY <1>1, <1>2, <1>3, <1>5 DEF ScheduleInv, BeatInv, Free
<1>9. AloneInv'
  <2>1. SUFFICES ASSUME NEW x \in DOMAIN objects', element'[objects'[x]].alone
        PROVE  /\ QueuedOnce(Rest', elements', x)
               /\ NotBefore(Rest', x, element'[objects'[x]].time)
               /\ NotBefore(elements', x, element'[objects'[x]].time)
               /\ Beating' /\ BeatOf' = <<x, objects'[x]>> => Free(Rest', x) /\ Free(elements', x)
    BY DEF AloneInv, QueuedOnce, NotBefore, Free, Single
  <2>2. x \in DOMAIN objects /\ objects'[x] = objects[x] /\ element' = element /\ elements' = elements
    BY <1>2, <1>3
  <2>. QED BY <1>1, <1>5, <2>1, <2>2 DEF ScheduleInv, AloneInv
<1>. QED BY <1>4, <1>6, <1>7, <1>8, <1>9 DEF CallbacksInv, ScheduleInv

(* Between its callbacks Update's walk is not there.                       *)
LEMMA NotBeating ==
  ASSUME HeapInv, doing \notin {"run", "next"}
  PROVE  stack = <<>> /\ ~Beating /\ Rest = ticks
BY DEF HeapInv, Beating, Rest

(* A tick whose schedule has been removed.                                 *)
LEMMA DropKeeps ==
  ASSUME CallbacksInv, DoHeartBeatEvent, Head(ticks).key \notin DOMAIN objects
  PROVE  CallbacksInv'
<1>1. HeapInv /\ PlainInv /\ ScheduleInv
  BY DEF CallbacksInv, ScheduleInv
<1>2. /\ doing = "tick" /\ ticks # <<>> /\ ticks' = Tail(ticks)
      /\ UNCHANGED <<heap, element, objects, stack, doing, table, funcs, hooked, elements, now, ops>>
  BY DEF DoHeartBeatEvent
<1>3. HeapInv' /\ PlainInv'
  <2>1. PlainInv'
    BY <1>1, <1>2 DEF PlainInv
  <2>. QED BY <1>1, <1>2, <2>1, StillHeap
<1>4. ~Beating /\ ~Beating' /\ Rest = ticks /\ Rest' = ticks'
  BY <1>1, <1>2, <1>3, NotBeating DEF Beating, Rest
<1>5. /\ ticks \in Seq(TickRec) /\ ElementInv /\ CountInv /\ AloneInv /\ QueuedInv
  BY <1>1, ElementFacts DEF ScheduleInv
<1>6. ElementInv'
  <2>1. ticks' \in Seq(TickRec)
    BY <1>2, <1>5
  <2>. QED BY <1>2, <1>5, <2>1 DEF ElementInv
<1>7. CountInv' /\ BeatInv'
  BY <1>2, <1>4, <1>5 DEF CountInv, BeatInv
<1>8. AloneInv'
  <2>1. SUFFICES ASSUME NEW x \in DOMAIN objects', element'[objects'[x]].alone
        PROVE  /\ QueuedOnce(Rest', elements', x)
               /\ NotBefore(Rest', x, element'[objects'[x]].time)
               /\ NotBefore(elements', x, element'[objects'[x]].time)
               /\ Beating' /\ BeatOf' = <<x, objects'[x]>> => Free(Rest', x) /\ Free(elements', x)
    BY DEF AloneInv, QueuedOnce, NotBefore, Free, Single
  <2>. DEFINE time == element[objects[x]].time
  <2>2. /\ QueuedOnce(ticks, elements, x) /\ NotBefore(ticks, x, time) /\ NotBefore(elements, x, time)
        /\ element'[objects'[x]].time = time /\ elements' = elements
    BY <1>2, <1>4, <1>5, <2>1 DEF AloneInv
  <2>. HIDE DEF time
  <2>3. /\ Single(ticks, x) => Single(Tail(ticks), x)
        /\ NotBefore(ticks, x, time) => NotBefore(Tail(ticks), x, time)
        /\ Free(ticks, x) <=> Free(Tail(ticks), x) /\ Head(ticks).key # x
    BY <1>2, <1>5, TailKeys
  <2>. QED BY <1>2, <1>4, <2>2, <2>3 DEF QueuedOnce
<1>9. QueuedInv'
  <2>1. SUFFICES ASSUME NEW x \in DOMAIN objects,
                        element[objects[x]].remain # 0 \/ element[objects[x]].fired = 0
        PROVE  ~Free(Tail(ticks), x) \/ ~Free(elements, x)
    BY <1>2 DEF QueuedInv, Free
  <2>2. ~Free(ticks, x) \/ ~Free(elements, x)
    BY <1>5, <2>1 DEF QueuedInv
  <2>3. Free(ticks, x) <=> Free(Tail(ticks), x) /\ Head(ticks).key # x
    BY <1>2, <1>5, TailKeys
  <2>. QED BY <2>2, <2>3
<1>. QED BY <1>3, <1>6, <1>7, <1>8, <1>9 DEF CallbacksInv

(* One whose schedule is called.                                           *)
LEMMA CalledKeeps ==
  ASSUME CallbacksInv, DoHeartBeatEvent, Head(ticks).key \in DOMAIN objects
  PROVE  CallbacksInv'
<1>. DEFINE b == Head(ticks).key
            i == objects[b]
            e == element[i]
<1>1. HeapInv /\ PlainInv /\ ScheduleInv
  BY DEF CallbacksInv, ScheduleInv
<1>2. /\ doing = "tick" /\ ticks # <<>> /\ ticks' = ticks /\ now >= Head(ticks).time
      /\ objects' = IF e.remain # 1 THEN objects ELSE [x \in DOMAIN objects \ {b} |-> objects[x]]
      /\ element' = [element EXCEPT ![i].remain = Remaining(e), ![i].time = now + e.interval,
                                    ![i].fired = @ + 1, ![i].early = @ \/ now < e.time]
      /\ Walk(heap, stack, e.list, <<b, i>>, "beat")
      /\ UNCHANGED <<table, funcs, hooked, elements, now, ops>>
  BY DEF DoHeartBeatEvent
<1>3. ~Beating /\ Rest = ticks /\ stack = <<>>
  BY <1>1, <1>2, NotBeating
<1>4. /\ ticks \in Seq(TickRec) /\ elements \in Seq(TickRec)
      /\ ElementInv /\ CountInv /\ AloneInv /\ QueuedInv
      /\ element \in Seq(ElementRec) /\ Len(element) \in Nat /\ DOMAIN element = 1 .. Len(element)
  BY <1>1, ElementFacts DEF ScheduleInv
<1>5. /\ i \in DOMAIN element /\ e.key = b /\ b \in NameKey
      /\ e \in ElementRec /\ e.interval \in Nat \ {0} /\ e.time \in Nat
      /\ e.remain \in Int /\ e.count \in Int /\ e.fired \in Nat
      /\ e.alone \in BOOLEAN /\ e.early \in BOOLEAN /\ e.list \in DOMAIN heap \ {CommonList}
  <2>1. i \in DOMAIN element /\ e.key = b /\ b \in NameKey
    BY <1>4 DEF ElementInv
  <2>2. /\ e \in ElementRec /\ e.interval \in Interval /\ e.time \in Nat
        /\ e.remain \in Int /\ e.count \in Int /\ e.fired \in Nat
        /\ e.alone \in BOOLEAN /\ e.early \in BOOLEAN /\ e.list \in DOMAIN heap \ {CommonList}
    <3>. HIDE DEF i
    <3>. QED BY <1>4, <2>1, ElementFacts
  <2>3. e.interval \in Nat \ {0}
    BY <2>2, CallbacksAssumption
  <2>. QED BY <2>1, <2>2, <2>3
<1>6. Head(ticks) \in TickRec /\ Head(ticks).time \in Nat /\ now \in Nat
  <2>1. ticks \in Seq(TickRec) /\ ticks # <<>>
    BY <1>2, <1>4
  <2>2. Head(ticks) \in TickRec
    BY <2>1
  <2>. QED BY <1>1, <2>2 DEF TickRec, PlainInv
<1>. DEFINE w == element'[i]
<1>7. /\ w.key = e.key /\ w.list = e.list /\ w.interval = e.interval /\ w.count = e.count /\ w.alone = e.alone
      /\ w.remain = Remaining(e) /\ w.time = now + e.interval /\ w.fired = e.fired + 1
      /\ w.early = (e.early \/ now < e.time)
      /\ w \in ElementRec
  <2>1. w = [e EXCEPT !.remain = Remaining(e), !.time = now + e.interval,
                      !.fired = @ + 1, !.early = @ \/ now < e.time]
    <3>. HIDE DEF i
    <3>. QED BY <1>2, <1>5
  <2>2. DOMAIN e = {"key", "list", "interval", "time", "remain", "count", "fired", "alone", "early"}
    BY <1>5 DEF ElementRec
  <2>. HIDE DEF w, e
  <2>3. /\ w.key = e.key /\ w.list = e.list /\ w.interval = e.interval /\ w.count = e.count /\ w.alone = e.alone
        /\ w.remain = Remaining(e) /\ w.time = now + e.interval /\ w.fired = e.fired + 1
        /\ w.early = (e.early \/ now < e.time)
    BY <2>1, <2>2
  <2>4. Remaining(e) \in Int /\ now + e.interval \in Nat /\ e.fired + 1 \in Nat /\ (e.early \/ now < e.time) \in BOOLEAN
    BY <1>5, <1>6 DEF Remaining
  <2>5. w \in ElementRec
    <3>. DEFINE r == Remaining(e)
                t == now + e.interval
                d == e.fired + 1
                y == (e.early \/ now < e.time)
    <3>1. r \in Int /\ t \in Nat /\ d \in Nat /\ y \in BOOLEAN
      BY <2>4
    <3>2. w = [e EXCEPT !.remain = r, !.time = t, !.fired = d, !.early = y]
      BY <2>1
    <3>. HIDE DEF r, t, d, y
    <3>. QED BY <1>5, <3>1, <3>2 DEF ElementRec
  <2>. QED BY <2>3, <2>5
<1>8. /\ element' \in Seq(ElementRec) /\ DOMAIN element' = DOMAIN element
      /\ \A j \in DOMAIN element : j # i => element'[j] = element[j]
  <2>1. DOMAIN element' = DOMAIN element /\ \A j \in DOMAIN element : j # i => element'[j] = element[j]
    <3>. HIDE DEF i, e
    <3>. QED BY <1>2
  <2>2. \A j \in 1 .. Len(element) : element'[j] \in ElementRec
    <3>. HIDE DEF i
    <3>. QED BY <1>4, <1>7, <2>1
  <2>3. element' = [j \in 1 .. Len(element) |-> element'[j]]
    <3>. HIDE DEF i, e
    <3>. QED BY <1>2, <1>4
  <2>4. element' \in Seq(ElementRec)
    <3>1. element' \in [1 .. Len(element) -> ElementRec]
      <4>. HIDE DEF w, e, i
      <4>. QED BY <2>2, <2>3
    <3>. HIDE DEF w, e, i
    <3>. QED BY <1>4, <3>1, SeqDef
  <2>. QED BY <2>1, <2>4
<1>9. /\ DOMAIN objects' \subseteq DOMAIN objects /\ \A x \in DOMAIN objects' : objects'[x] = objects[x]
      /\ b \in DOMAIN objects' => e.remain # 1
      /\ \A x \in DOMAIN objects : x # b => objects[x] # i /\ objects[x] \in DOMAIN element
  <2>1. /\ DOMAIN objects' \subseteq DOMAIN objects /\ \A x \in DOMAIN objects' : objects'[x] = objects[x]
        /\ b \in DOMAIN objects' => e.remain # 1
    <3>. HIDE DEF b, e
    <3>. QED BY <1>2
  <2>2. \A x \in DOMAIN objects : x # b => objects[x] # i /\ objects[x] \in DOMAIN element
    <3>. HIDE DEF b
    <3>. QED BY <1>4, <1>5 DEF ElementInv
  <2>. QED BY <2>1, <2>2
<1>10. /\ WalksRight(heap', stack') /\ DOMAIN heap' = DOMAIN heap /\ Begun(stack, stack', <<b, i>>, "beat")
       /\ doing' = "run" /\ stack' # <<>>
  <2>1. WalksRight(heap, stack) /\ e.list \in DOMAIN heap /\ heap[e.list].items # <<>>
    BY <1>1, <1>5 DEF HeapInv, WalksRight, HeapOK
  <2>2. <<b, i>> \in NameKey \X Nat /\ <<b, i>> \in WalkKey
    <3>. HIDE DEF b, i
    <3>. QED BY <1>4, <1>5 DEF WalkKey
  <2>. DEFINE l == e.list
              key == <<b, i>>
  <2>3. Walk(heap, stack, l, key, "beat")
    BY <1>2
  <2>. HIDE DEF l, key
  <2>. QED BY <1>3, <2>1, <2>2, <2>3, WalkRight DEF l, key
<1>11. Beating' /\ BeatOf' = <<b, i>> /\ BeatOf'[1] = b /\ BeatOf'[2] = i
  <2>1. Len(stack') = 1
    BY <1>3, <1>10 DEF Begun
  <2>. HIDE DEF b, i
  <2>2. BeatOf' = <<b, i>> /\ Beating'
    BY <1>10, <2>1 DEF Begun, Beating, BeatOf
  <2>. QED BY <2>2
<1>12. Rest' = Tail(ticks)
  BY <1>2, <1>11 DEF Rest
<1>. HIDE DEF w, e, i, b
<1>13. HeapInv' /\ PlainInv'
  <2>1. LeadsTo(heap', table') /\ LeadsTo(heap', funcs')
    BY <1>1, <1>2, <1>10 DEF HeapInv, LeadsTo
  <2>. QED BY <1>1, <1>2, <1>10, <2>1 DEF HeapInv, WalksRight, PlainInv
<1>14. ElementInv'
  <2>1. \A j \in DOMAIN element' : element'[j].list \in DOMAIN heap' \ {CommonList}
    BY <1>4, <1>5, <1>7, <1>8, <1>10 DEF ElementInv, w
  <2>2. \A x \in DOMAIN objects' :
          x \in NameKey /\ objects'[x] \in DOMAIN element' /\ element'[objects'[x]].key = x
    <3>1. SUFFICES ASSUME NEW x \in DOMAIN objects'
          PROVE  x \in NameKey /\ objects'[x] \in DOMAIN element' /\ element'[objects'[x]].key = x
      OBVIOUS
    <3>2. CASE x = b
      BY <1>5, <1>7, <1>8, <1>9, <3>2 DEF w, i
    <3>3. CASE x # b
      BY <1>4, <1>8, <1>9, <3>3 DEF ElementInv
    <3>. QED BY <3>2, <3>3
  <2>. QED BY <1>2, <1>4, <1>8, <2>1, <2>2 DEF ElementInv
<1>15. e.alone => ~w.early
  <2>1. SUFFICES ASSUME e.alone PROVE ~w.early
    OBVIOUS
  <2>2. NotBefore(ticks, b, e.time) /\ ~e.early
    BY <1>3, <1>4, <1>5, <2>1 DEF AloneInv, CountInv, e, i, b
  <2>3. 1 \in DOMAIN ticks /\ ticks[1] = Head(ticks)
    BY <1>2, <1>4
  <2>4. Head(ticks).time >= e.time
    BY <2>2, <2>3 DEF NotBefore, b
  <2>5. ~(now < e.time)
    BY <1>2, <1>5, <1>6, <2>4
  <2>. QED BY <1>7, <2>2, <2>5
<1>16. CountInv'
  <2>1. /\ e.count > 0 => e.remain > 0 /\ e.fired = e.count - e.remain
        /\ e.count <= 0 => e.remain = e.count
    BY <1>4, <1>5 DEF CountInv, e, i, b
  <2>2. /\ w.count > 0 => w.remain >= 0 /\ w.fired = w.count - w.remain
        /\ w.count <= 0 => w.remain = w.count
        /\ w.alone => ~w.early
        /\ w.count > 0 /\ e.remain # 1 => w.remain > 0
    BY <1>5, <1>7, <1>15, <2>1 DEF Remaining
  <2>3. \A j \in DOMAIN element' :
          /\ element'[j].count > 0 => element'[j].remain >= 0
                                      /\ element'[j].fired = element'[j].count - element'[j].remain
          /\ element'[j].count <= 0 => element'[j].remain = element'[j].count
          /\ element'[j].alone => ~element'[j].early
    <3>1. SUFFICES ASSUME NEW j \in DOMAIN element
          PROVE  /\ element'[j].count > 0 => element'[j].remain >= 0
                                             /\ element'[j].fired = element'[j].count - element'[j].remain
                 /\ element'[j].count <= 0 => element'[j].remain = element'[j].count
                 /\ element'[j].alone => ~element'[j].early
      BY <1>8
    <3>2. CASE j = i
      BY <2>2, <3>2 DEF w
    <3>3. CASE j # i
      BY <1>4, <1>8, <3>3 DEF CountInv
    <3>. QED BY <3>2, <3>3
  <2>4. \A x \in DOMAIN objects' : element'[objects'[x]].count > 0 => element'[objects'[x]].remain > 0
    <3>1. SUFFICES ASSUME NEW x \in DOMAIN objects', element'[objects'[x]].count > 0
          PROVE  element'[objects'[x]].remain > 0
      OBVIOUS
    <3>2. CASE x = b
      <4>1. objects'[x] = i /\ e.remain # 1
        BY <1>9, <3>2 DEF i
      <4>. QED BY <2>2, <3>1, <4>1 DEF w
    <3>3. CASE x # b
      BY <1>4, <1>8, <1>9, <3>1, <3>3 DEF CountInv
    <3>. QED BY <3>2, <3>3
  <2>. QED BY <2>3, <2>4 DEF CountInv
<1>17. BeatInv'
  <2>1. w.fired > 0
    BY <1>5, <1>7
  <2>2. b \in DOMAIN objects' => objects'[b] = i
    BY <1>9 DEF i
  <2>3. Head(ticks') = Head(ticks) /\ Head(ticks).key = b /\ Head(ticks').time <= now'
    BY <1>2, <1>6 DEF b
  <2>4. i \in DOMAIN element' /\ element'[i].key = b /\ element'[i].fired > 0
    BY <1>5, <1>7, <1>8, <2>1 DEF w
  <2>. QED BY <1>2, <1>11, <2>2, <2>3, <2>4 DEF BeatInv
<1>18. AloneInv'
  <2>1. SUFFICES ASSUME NEW x \in DOMAIN objects', element'[objects'[x]].alone
        PROVE  /\ QueuedOnce(Rest', elements', x)
               /\ NotBefore(Rest', x, element'[objects'[x]].time)
               /\ NotBefore(elements', x, element'[objects'[x]].time)
               /\ Beating' /\ BeatOf' = <<x, objects'[x]>> => Free(Rest', x) /\ Free(elements', x)
    BY DEF AloneInv, QueuedOnce, NotBefore, Free, Single
  <2>. DEFINE time == element[objects[x]].time
  <2>2. /\ x \in DOMAIN objects /\ objects'[x] = objects[x] /\ elements' = elements
    BY <1>2, <1>9
  <2>3. element[objects[x]].alone
    <3>1. CASE x = b
      BY <1>7, <2>1, <2>2, <3>1 DEF w, e, i
    <3>2. CASE x # b
      BY <1>8, <1>9, <2>1, <2>2, <3>2
    <3>. QED BY <3>1, <3>2
  <2>4. QueuedOnce(ticks, elements, x) /\ NotBefore(ticks, x, time) /\ NotBefore(elements, x, time)
    BY <1>3, <1>4, <2>2, <2>3 DEF AloneInv
  <2>. HIDE DEF time
  <2>5. /\ Single(ticks, x) => Single(Tail(ticks), x)
        /\ Single(ticks, x) /\ Head(ticks).key = x => Free(Tail(ticks), x)
        /\ NotBefore(ticks, x, time) => NotBefore(Tail(ticks), x, time)
        /\ Free(ticks, x) <=> Free(Tail(ticks), x) /\ Head(ticks).key # x
    BY <1>2, <1>4, TailKeys
  <2>6. CASE x = b
    <3>1. Free(Tail(ticks), x) /\ Free(elements, x)
      BY <2>4, <2>5, <2>6 DEF QueuedOnce, b
    <3>. QED BY <1>12, <2>2, <3>1 DEF QueuedOnce, Free, Single, NotBefore
  <2>7. CASE x # b
    <3>1. element'[objects'[x]].time = time
      BY <1>8, <1>9, <2>2, <2>7 DEF time
    <3>2. ~(BeatOf' = <<x, objects'[x]>>)
      BY <1>11, <2>7
    <3>. QED BY <1>12, <2>2, <2>4, <2>5, <3>1, <3>2 DEF QueuedOnce
  <2>. QED BY <2>6, <2>7
<1>19. QueuedInv'
  <2>1. SUFFICES ASSUME NEW x \in DOMAIN objects',
                        element'[objects'[x]].remain # 0 \/ element'[objects'[x]].fired = 0
        PROVE  ~Free(ticks, x) \/ ~Free(elements, x)
    BY <1>2 DEF QueuedInv, Free
  <2>2. CASE x = b
    BY <1>2, <1>4, <2>2, TailKeys DEF b
  <2>3. CASE x # b
    BY <1>4, <1>8, <1>9, <2>1, <2>3 DEF QueuedInv
  <2>. QED BY <2>2, <2>3
<1>. QED BY <1>13, <1>14, <1>16, <1>17, <1>18, <1>19 DEF CallbacksInv

(* No tick is due any more, and those that go on are queued again.         *)
LEMMA EndUpdateKeeps == ASSUME CallbacksInv, EndUpdate PROVE CallbacksInv'
<1>1. HeapInv /\ PlainInv /\ ScheduleInv
  BY DEF CallbacksInv, ScheduleInv
<1>2. /\ doing = "tick" /\ doing' = "idle" /\ ticks' = Requeued /\ elements' = <<>>
      /\ UNCHANGED <<heap, table, funcs, hooked, element, objects, now, stack, ops>>
  BY DEF EndUpdate
<1>3. HeapInv' /\ PlainInv'
  <2>1. PlainInv'
    BY <1>1, <1>2 DEF PlainInv
  <2>. QED BY <1>1, <1>2, <2>1, StillHeap
<1>4. ~Beating /\ ~Beating' /\ Rest = ticks /\ Rest' = ticks'
  BY <1>1, <1>2, <1>3, NotBeating DEF Beating, Rest
<1>5. /\ ticks \in Seq(TickRec) /\ elements \in Seq(TickRec) /\ ElementInv /\ CountInv /\ AloneInv /\ QueuedInv
  BY <1>1, ElementFacts DEF ScheduleInv
<1>6. ElementInv'
  <2>1. ticks' \in Seq(TickRec)
    <3>. DEFINE k == 0
    <3>. HIDE DEF k
    <3>1. Requeued \in Seq(TickRec)
      BY <1>5, RequeuedRight
    <3>. QED BY <1>2, <3>1
  <2>. QED BY <1>2, <1>5, <2>1 DEF ElementInv
<1>7. CountInv' /\ BeatInv'
  BY <1>2, <1>4, <1>5 DEF CountInv, BeatInv
<1>8. AloneInv'
  <2>1. SUFFICES ASSUME NEW x \in DOMAIN objects', element'[objects'[x]].alone
        PROVE  /\ QueuedOnce(Rest', elements', x)
               /\ NotBefore(Rest', x, element'[objects'[x]].time)
               /\ NotBefore(elements', x, element'[objects'[x]].time)
               /\ Beating' /\ BeatOf' = <<x, objects'[x]>> => Free(Rest', x) /\ Free(elements', x)
    BY DEF AloneInv, QueuedOnce, NotBefore, Free, Single
  <2>. DEFINE time == element[objects[x]].time
  <2>2. /\ QueuedOnce(ticks, elements, x) /\ NotBefore(ticks, x, time) /\ NotBefore(elements, x, time)
        /\ element'[objects'[x]].time = time
    BY <1>2, <1>4, <1>5, <2>1 DEF AloneInv
  <2>. HIDE DEF time
  <2>3. /\ QueuedOnce(ticks, elements, x) => Single(Requeued, x)
        /\ NotBefore(ticks, x, time) /\ NotBefore(elements, x, time) => NotBefore(Requeued, x, time)
    BY <1>5, RequeuedRight
  <2>4. Free(<<>>, x) /\ Single(<<>>, x) /\ NotBefore(<<>>, x, time)
    BY DEF Free, Single, NotBefore
  <2>. QED BY <1>2, <1>4, <2>2, <2>3, <2>4 DEF QueuedOnce
<1>9. QueuedInv'
  <2>1. SUFFICES ASSUME NEW x \in DOMAIN objects,
                        element[objects[x]].remain # 0 \/ element[objects[x]].fired = 0
        PROVE  ~Free(Requeued, x)
    BY <1>2 DEF QueuedInv, Free
  <2>2. ~Free(ticks, x) \/ ~Free(elements, x)
    BY <1>5, <2>1 DEF QueuedInv
  <2>3. Free(Requeued, x) <=> Free(ticks, x) /\ Free(elements, x)
    BY <1>5, RequeuedRight
  <2>. QED BY <2>2, <2>3
<1>. QED BY <1>3, <1>6, <1>7, <1>8, <1>9 DEF CallbacksInv

(* The callback of a schedule has returned: its tick leaves the queue, and *)
(* goes on in the vector if it has calls left.                             *)
LEMMA EndBeatKeeps == ASSUME CallbacksInv, EndBeat PROVE CallbacksInv'
<1>. DEFINE b == BeatOf[1]
            i == BeatOf[2]
            e == element[i]
            t == TickElement(e.key, e.time)
<1>1. HeapInv /\ PlainInv /\ ScheduleInv
  BY DEF CallbacksInv, ScheduleInv
<1>2. /\ Over /\ Top.for = "beat" /\ heap' = AtEnd /\ stack' = Pop /\ ticks' = Tail(ticks) /\ doing' = "tick"
      /\ elements' = IF GoesOn(element[Top.key[2]])
                     THEN Append(elements, TickElement(element[Top.key[2]].key, element[Top.key[2]].time))
                     ELSE elements
      /\ UNCHANGED <<table, funcs, hooked, element, objects, now, ops>>
  BY DEF EndBeat
<1>3. /\ WalksRight(AtEnd, Pop) /\ DOMAIN AtEnd = DOMAIN heap /\ stack # <<>>
      /\ Len(Pop) = Len(stack) - 1 /\ Len(stack) \in DOMAIN stack
      /\ StackOK(heap, stack)
  BY <1>1, <1>2, EndRight DEF HeapInv
<1>4. Len(stack) = 1
  BY <1>2, <1>3 DEF StackOK, Top
<1>5. Top = stack[1] /\ Beating /\ Rest = Tail(ticks) /\ BeatOf = Top.key /\ BeatOf \in NameKey \X Nat
  BY <1>2, <1>3, <1>4 DEF Top, Beating, Rest, BeatOf, StackOK
<1>6. stack' = <<>> /\ ~Beating' /\ Rest' = Rest /\ Rest' = Tail(ticks)
  <2>1. Pop \in Seq(Walking) /\ Len(Pop) = 0
    BY <1>3, <1>4, StackFacts DEF WalksRight
  <2>2. Pop = <<>>
    BY <2>1
  <2>. QED BY <1>2, <1>5, <2>2 DEF Beating, Rest
<1>7. HeapInv' /\ PlainInv'
  <2>1. LeadsTo(heap', table') /\ LeadsTo(heap', funcs')
    BY <1>1, <1>2, <1>3 DEF HeapInv, LeadsTo
  <2>2. WalksRight(heap', stack')
    BY <1>2, <1>3
  <2>. QED BY <1>1, <1>2, <1>6, <2>1, <2>2 DEF HeapInv, WalksRight, PlainInv
<1>8. /\ ticks \in Seq(TickRec) /\ elements \in Seq(TickRec) /\ ElementInv /\ CountInv /\ BeatInv
      /\ AloneInv /\ QueuedInv
  BY <1>1, ElementFacts DEF ScheduleInv
<1>9. /\ ticks # <<>> /\ Head(ticks).key = b /\ i \in DOMAIN element /\ e.key = b /\ e.fired > 0
      /\ b \in DOMAIN objects /\ objects[b] # i =>
           /\ ~element[objects[b]].alone
           /\ ~Free(Rest, b) \/ ~Free(elements, b)
      /\ BeatOf = <<b, i>>
  BY <1>5, <1>8 DEF BeatInv
<1>10. t \in TickRec /\ t.key = b /\ t.time = e.time
  <2>1. e.time \in Nat /\ e.key \in NameKey
    BY <1>8, <1>9, ElementFacts
  <2>. HIDE DEF e
  <2>. QED BY <1>9, <2>1 DEF TickElement, TickRec
<1>11. IF e.remain # 0 THEN elements' = Append(elements, t) ELSE elements' = elements
  BY <1>2, <1>5 DEF GoesOn
<1>12. Rest \in Seq(TickRec)
  BY <1>5, <1>8, <1>9
<1>. HIDE DEF b, i, e, t
<1>13. Inserted(elements', elements, t) \/ elements' = elements
  BY <1>8, <1>10, <1>11, AppendInserts
<1>14. ElementInv'
  <2>1. elements' \in Seq(TickRec)
    BY <1>8, <1>13 DEF Inserted
  <2>. QED BY <1>2, <1>3, <1>5, <1>6, <1>8, <1>12, <2>1 DEF ElementInv
<1>15. CountInv' /\ BeatInv'
  BY <1>2, <1>6, <1>8 DEF CountInv, BeatInv
<1>16. AloneInv'
  <2>1. SUFFICES ASSUME NEW x \in DOMAIN objects', element'[objects'[x]].alone
        PROVE  /\ QueuedOnce(Rest', elements', x)
               /\ NotBefore(Rest', x, element'[objects'[x]].time)
               /\ NotBefore(elements', x, element'[objects'[x]].time)
               /\ Beating' /\ BeatOf' = <<x, objects'[x]>> => Free(Rest', x) /\ Free(elements', x)
    BY DEF AloneInv, QueuedOnce, NotBefore, Free, Single
  <2>. DEFINE time == element[objects[x]].time
  <2>2. /\ x \in DOMAIN objects /\ element[objects[x]].alone
        /\ QueuedOnce(Rest, elements, x) /\ NotBefore(Rest, x, time) /\ NotBefore(elements, x, time)
        /\ BeatOf = <<x, objects[x]>> => Free(Rest, x) /\ Free(elements, x)
        /\ element'[objects'[x]].time = time
    BY <1>2, <1>5, <1>8, <2>1 DEF AloneInv
  <2>3. x = b => objects[x] = i /\ time = e.time
    BY <1>9, <2>2 DEF e
  <2>. HIDE DEF time
  <2>4. CASE elements' = elements
    BY <1>6, <2>2, <2>4
  <2>5. CASE Inserted(elements', elements, t)
    <3>1. /\ Free(elements', x) <=> Free(elements, x) /\ t.key # x
          /\ Single(elements, x) /\ t.key # x => Single(elements', x)
          /\ Free(elements, x) => Single(elements', x)
          /\ NotBefore(elements, x, time) /\ (t.key = x => t.time >= time) => NotBefore(elements', x, time)
      BY <1>8, <1>10, <2>5, InsertKeys
    <3>2. CASE x = b
      <4>1. Free(Rest, x) /\ Free(elements, x)
        BY <1>9, <2>2, <2>3, <3>2
      <4>2. t.time >= time
        <5>1. e.time \in Nat
          BY <1>8, <1>9, ElementFacts DEF e
        <5>. QED BY <1>10, <2>3, <3>2, <5>1
      <4>. QED BY <1>6, <2>2, <3>1, <4>1, <4>2 DEF QueuedOnce
    <3>3. CASE x # b
      BY <1>6, <1>10, <2>2, <3>1, <3>3 DEF QueuedOnce
    <3>. QED BY <3>2, <3>3
  <2>. QED BY <1>13, <2>4, <2>5
<1>17. QueuedInv'
  <2>1. SUFFICES ASSUME NEW x \in DOMAIN objects,
                        element[objects[x]].remain # 0 \/ element[objects[x]].fired = 0
        PROVE  ~Free(Tail(ticks), x) \/ ~Free(elements', x)
    BY <1>2 DEF QueuedInv, Free
  <2>2. ~Free(ticks, x) \/ ~Free(elements, x)
    BY <1>8, <2>1 DEF QueuedInv
  <2>3. Free(ticks, x) <=> Free(Tail(ticks), x) /\ Head(ticks).key # x
    BY <1>8, <1>9, TailKeys
  <2>4. Inserted(elements', elements, t) => (Free(elements', x) <=> Free(elements, x) /\ t.key # x)
    <3>. DEFINE time == 0
    <3>. HIDE DEF time
    <3>. QED BY <1>8, <1>10, InsertKeys
  <2>5. CASE x # b
    BY <1>9, <1>13, <2>2, <2>3, <2>4, <2>5
  <2>6. CASE x = b /\ objects[b] # i
    BY <1>5, <1>9, <1>13, <2>1, <2>4, <2>6
  <2>7. CASE x = b /\ objects[b] = i
    <3>1. e.remain # 0
      BY <1>9, <2>1, <2>7 DEF e
    <3>2. Inserted(elements', elements, t)
      BY <1>8, <1>10, <1>11, <3>1, AppendInserts
    <3>. QED BY <1>10, <2>4, <2>7, <3>2
  <2>. QED BY <2>5, <2>6, <2>7
<1>. QED BY <1>7, <1>14, <1>15, <1>16, <1>17 DEF CallbacksInv

(* Nothing is registered.                                                  *)
LEMMA CallbacksStart == CallbacksInit => CallbacksInv
<1>1. SUFFICES ASSUME CallbacksInit PROVE CallbacksInv
  OBVIOUS
<1>. USE DEF CallbacksInit
<1>. DEFINE first == [items |-> <<>>, cur |-> 0]
<1>2. /\ heap = <<first>> /\ table = <<>> /\ funcs = <<>> /\ hooked = {}
      /\ element = <<>> /\ objects = <<>> /\ ticks = <<>> /\ elements = <<>>
      /\ now = 0 /\ stack = <<>> /\ doing = "idle" /\ ops = 0
  BY <1>1
<1>3. first \in ListRec /\ first.items = <<>> /\ first.cur = 0
  BY DEF ListRec
<1>. HIDE DEF first
<1>4. HeapOK(heap)
  <2>1. heap \in Seq(ListRec) /\ DOMAIN heap = {1} /\ heap[1] = first
    BY <1>2, <1>3
  <2>. QED BY <1>3, <2>1 DEF HeapOK, CommonList
<1>5. StackOK(heap, stack) /\ DueOK(heap, stack) /\ LeadsTo(heap, table) /\ LeadsTo(heap, funcs)
  BY <1>2 DEF StackOK, SharedOK, DueOK, LeadsTo
<1>6. HeapInv
  BY <1>2, <1>4, <1>5 DEF HeapInv
<1>7. PlainInv
  BY <1>2, CallbacksAssumption DEF PlainInv
<1>8. ElementInv /\ CountInv /\ AloneInv /\ QueuedInv
  BY <1>2 DEF ElementInv, CountInv, AloneInv, QueuedInv
<1>9. BeatInv
  BY <1>2 DEF BeatInv, Beating
<1>. QED BY <1>6, <1>7, <1>8, <1>9 DEF CallbacksInv

(* What no schedule has to do with.                                        *)
LEMMA KeptKeeps ==
  ASSUME CallbacksInv, HeapKept, UNCHANGED schedules, now <= now'
  PROVE  CallbacksInv'
<1>1. now \in Nat /\ now' \in Nat /\ ScheduleInv
  BY DEF CallbacksInv, PlainInv, HeapKept, ScheduleInv
<1>2. ScheduleInv'
  BY <1>1, ScheduleStill DEF HeapKept
<1>. QED BY <1>2 DEF HeapKept, CallbacksInv, ScheduleInv

(* One action after the other.                                             *)
LEMMA CallbacksStep == CallbacksInv /\ [CallbacksNext]_callbacksVars => CallbacksInv'
<1>. SUFFICES ASSUME CallbacksInv, [CallbacksNext]_callbacksVars PROVE CallbacksInv'
  OBVIOUS
<1>1. HeapInv /\ PlainInv /\ now \in Nat /\ now <= now
  BY DEF CallbacksInv, PlainInv
<1>2. CASE \/ AddEventCallBack \/ AddCommonEventCallBack \/ RemoveEventCallBack
           \/ LuaAddEventCallBack \/ AddMsgCallBack
  <2>1. HeapKept
    BY <1>1, <1>2, AddEventCallBackHeap, AddCommonEventCallBackHeap, RemoveEventCallBackHeap,
       LuaAddEventCallBackHeap, AddMsgCallBackHeap
  <2>2. UNCHANGED schedules /\ now' = now
    BY <1>2 DEF AddEventCallBack, AddCommonEventCallBack, RemoveEventCallBack,
       LuaAddEventCallBack, AddMsgCallBack, Calls
  <2>. QED BY <1>1, <2>1, <2>2, KeptKeeps
<1>3. CASE RemoveMsgCallBack \/ BeginUpdate \/ Return
  <2>1. HeapKept
    BY <1>1, <1>3, StillKept
  <2>2. UNCHANGED schedules /\ now <= now'
    <3>1. CASE BeginUpdate
      <4>1. PICK t \in now .. MaxTime : now' = t
        BY <3>1 DEF BeginUpdate
      <4>. QED BY <1>1, <3>1, <4>1, CallbacksAssumption DEF BeginUpdate
    <3>. QED BY <1>1, <1>3, <3>1 DEF RemoveMsgCallBack, Return, Calls
  <2>. QED BY <2>1, <2>2, KeptKeeps
<1>4. CASE DoEvent \/ DoModuleEvent \/ OnNetMsgCallBack \/ CallLua \/ NextItem
  <2>1. HeapKept
    BY <1>1, <1>4, DoEventHeap, OnNetMsgCallBackHeap, CallLuaHeap, NextItemHeap
  <2>2. UNCHANGED schedules /\ now' = now
    BY <1>4 DEF DoEvent, DoModuleEvent, OnNetMsgCallBack, CallLua, NextItem, Calls
  <2>. QED BY <1>1, <2>1, <2>2, KeptKeeps
<1>5. CASE EndCommon \/ EndEvent \/ EndLua
  <2>1. HeapKept
    BY <1>1, <1>5, EndHeap
  <2>2. UNCHANGED schedules /\ now' = now
    BY <1>5 DEF EndCommon, EndEvent, EndLua
  <2>. QED BY <1>1, <2>1, <2>2, KeptKeeps
<1>6. CASE AddSchedule
  BY <1>6, AddScheduleKeeps
<1>7. CASE LuaAddSchedule
  BY <1>7, LuaAddScheduleKeeps
<1>8. CASE RemoveSchedule
  BY <1>8, RemoveScheduleKeeps
<1>9. CASE DoHeartBeatEvent
  BY <1>9, DropKeeps, CalledKeeps
<1>10. CASE EndUpdate
  BY <1>10, EndUpdateKeeps
<1>11. CASE EndBeat
  BY <1>11, EndBeatKeeps
<1>12. CASE UNCHANGED callbacksVars
  <2>1. /\ UNCHANGED <<heap, table, funcs, hooked, stack, doing, ops, now>> /\ UNCHANGED schedules
    BY <1>12 DEF callbacksVars, schedules
  <2>2. HeapInv' /\ DOMAIN heap \subseteq DOMAIN heap' /\ BeatSame(stack, stack')
    BY <1>1, <2>1, StillHeap
  <2>3. PlainInv'
    BY <1>1, <2>1 DEF PlainInv
  <2>. QED BY <1>1, <2>1, <2>2, <2>3, KeptKeeps DEF HeapKept
<1>. QED BY <1>2, <1>3, <1>4, <1>5, <1>6, <1>7, <1>8, <1>9, <1>10, <1>11, <1>12 DEF CallbacksNext

(* What the maps lead to is there, and has their names.                    *)
LEMMA CallbacksTyped == CallbacksInv => CallbacksTypeOK
<1>1. SUFFICES ASSUME CallbacksInv PROVE CallbacksTypeOK
  OBVIOUS
<1>2. HeapOK(heap) /\ LeadsTo(heap, table) /\ LeadsTo(heap, funcs) /\ PlainInv /\ ElementInv
  BY <1>1 DEF CallbacksInv, HeapInv
<1>3. \A l \in DOMAIN heap : Range(heap[l].items) \subseteq Callback /\ heap[l].cur \in 0 .. Len(heap[l].items)
  <2>1. SUFFICES ASSUME NEW l \in DOMAIN heap
        PROVE  Range(heap[l].items) \subseteq Callback /\ heap[l].cur \in 0 .. Len(heap[l].items)
    OBVIOUS
  <2>2. heap[l].items \in Seq(Callback) /\ heap[l].cur \in 0 .. Len(heap[l].items)
    BY <1>2, HeapFacts
  <2>. DEFINE items == heap[l].items
  <2>3. \A i \in DOMAIN items : items[i] \in Callback
    BY <2>2
  <2>. QED BY <2>2, <2>3 DEF Range
<1>4. Range(table) \subseteq DOMAIN heap /\ Range(funcs) \subseteq DOMAIN heap
  BY <1>2 DEF Range, LeadsTo
<1>5. DOMAIN objects \subseteq NameKey /\ \A k \in DOMAIN objects : element[objects[k]].key = k
  BY <1>2 DEF ElementInv
<1>. QED BY <1>2, <1>3, <1>4, <1>5 DEF CallbacksTypeOK, PlainInv

(* At the end of a List that a walk had to itself the cursor has passed    *)
(* all that was due.                                                       *)
LEMMA CallbacksHeard == CallbacksInv => HeardAll
BY EndRight DEF HeardAll, CallbacksInv

(* A schedule that has calls left has a tick, and its count says how often *)
(* it was called.                                                          *)
LEMMA CallbacksScheduled == CallbacksInv => SchedulesRight
<1>1. SUFFICES ASSUME CallbacksInv PROVE SchedulesRight
  OBVIOUS
<1>2. ScheduleAlive
  <2>1. SUFFICES ASSUME NEW k \in NameKey, ExistSchedule(k),
                        GetSchedule(k).remain # 0 \/ GetSchedule(k).fired = 0
        PROVE  TickOf(k)
    BY <1>1, CallbacksTyped DEF ScheduleAlive
  <2>2. ~Free(ticks, k) \/ ~Free(elements, k)
    BY <1>1, <2>1 DEF CallbacksInv, QueuedInv, ExistSchedule, GetSchedule
  <2>. QED BY <1>1, <2>2, TickOfFree, ElementFacts DEF CallbacksInv
<1>3. OnTime
  <2>1. SUFFICES ASSUME NEW i \in DOMAIN element
        PROVE  /\ element[i].count > 0 => element[i].fired <= element[i].count
               /\ element[i].alone => ~element[i].early
    BY DEF OnTime
  <2>2. /\ element[i].count > 0 => element[i].remain >= 0
                                   /\ element[i].fired = element[i].count - element[i].remain
        /\ element[i].alone => ~element[i].early
    BY <1>1 DEF CallbacksInv, CountInv
  <2>3. element[i].remain \in Int /\ element[i].count \in Int
    BY <1>1, ElementFacts DEF CallbacksInv
  <2>. QED BY <2>2, <2>3
<1>. QED BY <1>2, <1>3 DEF SchedulesRight

(* The inductive invariant holds in every state of every behaviour.        *)
THEOREM CallbacksInvariant == CallbacksSpec => []CallbacksInv
BY CallbacksStart, CallbacksStep, PTL DEF CallbacksSpec

(* A walk misses nobody, however its callbacks nest walks, add callbacks   *)
(* and remove them (EventModule::DoEvent, List::First, List::Next).        *)
THEOREM CallbacksHeardAll == CallbacksSpec => []HeardAll
BY CallbacksInvariant, CallbacksHeard, PTL

(* A schedule is never lost, called too often or too early                 *)
(* (ScheduleModule::Update, AddSchedule, RemoveSchedule).                  *)
THEOREM CallbacksSchedulesRight == CallbacksSpec => []SchedulesRight
BY CallbacksInvariant, CallbacksScheduled, PTL

=============================================================================
