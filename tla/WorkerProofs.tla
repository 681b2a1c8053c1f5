---------------------------- MODULE WorkerProofs ----------------------------
(***************************************************************************)
(* Proofs about Worker, for any number of threads, actors, messages and    *)
(* tasks: one thread at a time is in an actor, and the answers of an actor *)
(* come in the order of its messages.                                      *)
(***************************************************************************)
EXTENDS Worker, SequenceTheorems, FiniteSetTheorems, TLAPS

(* No thread but the first is ever given an actor, so that no other        *)
(* produces answers.                                                       *)
CellInv ==
  \A c \in Cell \ {0} :
    /\ \A i \in 1 .. Len(mTaskList[c]) : mTaskList[c][i].kind = "plain"
    /\ task[c].kind # "actor"
    /\ mxResultQueue[c] = <<>>

(* A message is in the inbox of its actor, behind the earlier ones.        *)
InboxInv ==
  \A a \in Actor : \A i \in 1 .. Len(inbox[a]) :
    /\ inbox[a][i] \in 1 .. Len(sent)
    /\ To(inbox[a][i]) = a
    /\ \A j \in 1 .. Len(inbox[a]) : i < j => inbox[a][i] < inbox[a][j]

(* What is answered or on its way back was sent, is in order, and is       *)
(* before what its actor has not read.                                     *)
Behind(s) ==
  \A i \in 1 .. Len(s) :
    /\ s[i] \in 1 .. Len(sent)
    /\ \A j \in 1 .. Len(s) : i < j /\ To(s[i]) = To(s[j]) => s[i] < s[j]
    /\ \A j \in 1 .. Len(inbox[To(s[i])]) : s[i] < inbox[To(s[i])][j]

OrderInv ==
  /\ Behind(answered)
  /\ Behind(mxResultQueue[0])
  /\ \A i \in 1 .. Len(answered), j \in 1 .. Len(mxResultQueue[0]) :
       To(answered[i]) = To(mxResultQueue[0][j]) => answered[i] < mxResultQueue[0][j]

IInv == TypeOK /\ CellInv /\ InboxInv /\ OrderInv

-----------------------------------------------------------------------------

LEMMA BoundFacts ==
  /\ NCell \in Nat \ {0} /\ MaxActor \in Nat /\ MaxMsg \in Nat
  /\ MaxTask \in Nat /\ MaxTime \in Nat /\ 0 \in Cell /\ CellOf(0) = 0
BY WorkerAssumption DEF Cell, CellOf

LEMMA AppendFacts ==
  ASSUME NEW S, NEW s \in Seq(S), NEW e \in S
  PROVE  /\ Append(s, e) \in Seq(S)
         /\ Len(s) \in Nat /\ Len(Append(s, e)) = Len(s) + 1
         /\ \A i \in 1 .. Len(s) : Append(s, e)[i] = s[i]
         /\ Append(s, e)[Len(s) + 1] = e
OBVIOUS

LEMMA PushFacts ==
  ASSUME NEW S, NEW q \in [Cell -> Seq(S)], NEW c \in Cell, NEW t \in S
  PROVE  /\ Push(q, c, t) \in [Cell -> Seq(S)]
         /\ Push(q, c, t)[c] = Append(q[c], t)
         /\ \A d \in Cell \ {c} : Push(q, c, t)[d] = q[d]
BY AppendFacts DEF Push

LEMMA RecordFacts ==
  ASSUME NEW B
  PROVE  /\ \A r \in [run : Nat, ended : Nat, ends : B] :
              /\ [r EXCEPT !.run = r.run + 1] \in [run : Nat, ended : Nat, ends : B]
              /\ [r EXCEPT !.ended = r.ended + 1] \in [run : Nat, ended : Nat, ends : B]
         /\ \A n \in 1 .. MaxTask, b \in B :
              /\ [kind |-> "plain", n |-> n, ends |-> b]
                   \in [kind : {"plain"}, n : 1 .. MaxTask, ends : B]
              /\ [kind |-> "plain", n |-> n, ends |-> b].kind = "plain"
OBVIOUS

(* A count of a task changes, or there is no such task.                    *)
LEMMA CountFacts ==
  ASSUME NEW d \in Seq([run : Nat, ended : Nat, ends : BOOLEAN]), NEW n
  PROVE  /\ [d EXCEPT ![n].run = @ + 1] \in Seq([run : Nat, ended : Nat, ends : BOOLEAN])
         /\ Len([d EXCEPT ![n].run = @ + 1]) = Len(d)
         /\ [d EXCEPT ![n].ended = @ + 1] \in Seq([run : Nat, ended : Nat, ends : BOOLEAN])
         /\ Len([d EXCEPT ![n].ended = @ + 1]) = Len(d)
<1>1. CASE n \in 1 .. Len(d)
  <2>1. d[n] \in [run : Nat, ended : Nat, ends : BOOLEAN]
    BY <1>1, ElementOfSeq
  <2>2. /\ [d[n] EXCEPT !.run = d[n].run + 1] \in [run : Nat, ended : Nat, ends : BOOLEAN]
        /\ [d[n] EXCEPT !.ended = d[n].ended + 1] \in [run : Nat, ended : Nat, ends : BOOLEAN]
    BY <2>1, RecordFacts, Zenon
  <2>. QED BY <1>1, <2>2, ExceptSeq
<1>2. CASE n \notin 1 .. Len(d)
  <2>1. d \in [1 .. Len(d) -> [run : Nat, ended : Nat, ends : BOOLEAN]]
    BY LenProperties
  <2>2. [d EXCEPT ![n].run = @ + 1] = d /\ [d EXCEPT ![n].ended = @ + 1] = d
    BY <1>2, <2>1
  <2>. QED BY <2>2
<1>. QED BY <1>1, <1>2

(* What a step does not touch stays as it was.                             *)
LEMMA MapKept == MapOK /\ UNCHANGED <<actors, mxActorMap>> => MapOK'
BY DEF MapOK
LEMMA MessagesKept ==
  /\ MessagesOK /\ InboxInv /\ OrderInv
  /\ UNCHANGED <<sent, answered, mxResultQueue, inbox>>
  => MessagesOK' /\ InboxInv' /\ OrderInv'
BY DEF MessagesOK, InboxInv, OrderInv, Behind, To
LEMMA TasksKept == TasksOK /\ UNCHANGED <<mTaskList, mTaskResult, done>> => TasksOK'
BY DEF TasksOK
LEMMA ThreadsKept == ThreadsOK /\ UNCHANGED <<pc, task, isQuit>> => ThreadsOK'
BY DEF ThreadsOK
LEMMA CellKept ==
  CellInv /\ UNCHANGED <<mTaskList, task, mxResultQueue>> => CellInv'
BY DEF CellInv

LEMMA InitIInv == Init => IInv
<1>. SUFFICES ASSUME Init PROVE IInv
  OBVIOUS
<1>. USE DEF Init
<1>1. clock \in 0 .. MaxTime /\ stage \in {"up", "stopping", "joined"}
  BY BoundFacts
<1>2. MapOK
  BY BoundFacts, EmptySeq DEF MapOK
<1>3. MessagesOK
  BY BoundFacts, EmptySeq DEF MessagesOK
<1>4. TasksOK
  BY BoundFacts, EmptySeq DEF TasksOK
<1>5. ThreadsOK
  BY DEF ThreadsOK
<1>6. CellInv
  BY DEF CellInv, NoTask
<1>7. InboxInv
  BY DEF InboxInv
<1>8. OrderInv
  BY BoundFacts DEF OrderInv, Behind
<1>. QED BY <1>1, <1>2, <1>3, <1>4, <1>5, <1>6, <1>7, <1>8 DEF IInv, TypeOK

-----------------------------------------------------------------------------
(* The main thread. *)

LEMMA TickIInv == IInv /\ Tick => IInv'
<1>. SUFFICES ASSUME IInv, Tick PROVE IInv'
  OBVIOUS
<1>1. /\ UNCHANGED <<actors, mxActorMap>> /\ UNCHANGED <<sent, answered, mxResultQueue, inbox>>
      /\ UNCHANGED <<mTaskList, mTaskResult, done>> /\ UNCHANGED <<pc, task, isQuit>>
  BY DEF Tick, threads, queues
<1>2. clock' \in 0 .. MaxTime /\ stage' = stage
  BY BoundFacts DEF Tick, IInv, TypeOK
<1>. QED BY <1>1, <1>2, MapKept, MessagesKept, TasksKept, ThreadsKept, CellKept DEF IInv, TypeOK

LEMMA EndIInv == IInv /\ (BeforeDestroy \/ Stopping) => IInv'
<1>. SUFFICES ASSUME IInv, BeforeDestroy \/ Stopping PROVE IInv'
  OBVIOUS
<1>1. /\ UNCHANGED <<sent, answered, mxResultQueue, inbox>>
      /\ UNCHANGED <<mTaskList, mTaskResult, done>> /\ UNCHANGED <<task, pc, actors>>
      /\ clock' = clock
  BY DEF BeforeDestroy, Stopping, Joined, Quit, threads, queues
<1>2. stage' \in {"up", "stopping", "joined"}
  BY DEF BeforeDestroy, Stopping, Joined, Quit, IInv, TypeOK
<1>3. MapOK'
  <2>1. CASE BeforeDestroy
    <3>1. actors' = actors /\ mxActorMap' = <<>> /\ MapOK
      BY <2>1 DEF BeforeDestroy, IInv, TypeOK
    <3>2. DOMAIN mxActorMap' = {} /\ mxActorMap' \in [DOMAIN mxActorMap' -> 1 .. Len(actors)]
      BY <3>1
    <3>. QED BY <3>1, <3>2 DEF MapOK
  <2>2. CASE Stopping
    BY <2>2, <1>1, MapKept DEF Stopping, Joined, Quit, IInv, TypeOK
  <2>. QED BY <2>1, <2>2
<1>4. ThreadsOK'
  BY <1>1 DEF BeforeDestroy, Stopping, Joined, Quit, threads, IInv, TypeOK, ThreadsOK
<1>. QED BY <1>1, <1>2, <1>3, <1>4, MessagesKept, TasksKept, CellKept DEF IInv, TypeOK

LEMMA CreateActorIInv == IInv /\ CreateActor => IInv'
<1>. SUFFICES ASSUME IInv, CreateActor PROVE IInv'
  OBVIOUS
<1>1. /\ UNCHANGED <<sent, answered, mxResultQueue, inbox>> /\ UNCHANGED <<clock, stage>>
      /\ UNCHANGED <<mTaskList, mTaskResult, done>> /\ UNCHANGED <<pc, task, isQuit>>
  BY DEF CreateActor, threads, queues
<1>2. MapOK'
  <2>1. /\ actors \in Seq([id : 0 .. MaxTime]) /\ [id |-> clock] \in [id : 0 .. MaxTime]
        /\ clock \in 0 .. MaxTime
    BY DEF IInv, TypeOK, MapOK
  <2>2. /\ actors' \in Seq([id : 0 .. MaxTime]) /\ Len(actors') = Len(actors) + 1
        /\ Len(actors) \in Nat /\ Len(actors') <= MaxActor
        /\ \A i \in 1 .. Len(actors) : actors'[i] = actors[i]
        /\ actors'[Len(actors')] = [id |-> clock]
    BY <2>1, AppendFacts, BoundFacts DEF CreateActor
  <2>3. mxActorMap' \in [DOMAIN mxActorMap' -> 1 .. Len(actors')]
    BY <2>2 DEF CreateActor, IInv, TypeOK, MapOK
  <2>4. DOMAIN mxActorMap' \subseteq 0 .. MaxTime
    BY <2>1 DEF CreateActor, IInv, TypeOK, MapOK
  <2>5. \A x \in DOMAIN mxActorMap : mxActorMap[x] \in 1 .. Len(actors)
    BY DEF IInv, TypeOK, MapOK
  <2>6. \A x \in DOMAIN mxActorMap' : actors'[mxActorMap'[x]].id = x
    BY <2>2, <2>5 DEF CreateActor, IInv, TypeOK, MapOK
  <2>. QED BY <2>2, <2>3, <2>4, <2>6 DEF MapOK
<1>. QED BY <1>1, <1>2, MessagesKept, TasksKept, ThreadsKept, CellKept DEF IInv, TypeOK

(* A departing actor changes nobody's message but in whether it counts.    *)
LEMMA ReleaseActorIInv == IInv /\ ReleaseActor => IInv'
<1>. SUFFICES ASSUME IInv, ReleaseActor PROVE IInv'
  OBVIOUS
<1>1. /\ UNCHANGED <<answered, mxResultQueue, inbox>> /\ UNCHANGED <<clock, stage>>
      /\ UNCHANGED <<mTaskList, mTaskResult, done>> /\ UNCHANGED <<pc, task, isQuit>>
  BY DEF ReleaseActor, threads, queues
<1>2. PICK x \in DOMAIN mxActorMap :
        /\ mxActorMap' = [y \in DOMAIN mxActorMap \ {x} |-> mxActorMap[y]]
        /\ sent' = [m \in DOMAIN sent |->
              IF sent[m].a = mxActorMap[x] THEN [sent[m] EXCEPT !.kept = FALSE] ELSE sent[m]]
        /\ actors' = actors
  BY DEF ReleaseActor
<1>3. MapOK'
  BY <1>2 DEF IInv, TypeOK, MapOK
<1>4. /\ sent \in Seq([a : Actor, kept : BOOLEAN]) /\ DOMAIN sent = 1 .. Len(sent)
      /\ Len(sent) \in Nat /\ \A m \in 1 .. Len(sent) : sent[m] \in [a : Actor, kept : BOOLEAN]
  <2>1. sent \in Seq([a : Actor, kept : BOOLEAN])
    BY DEF IInv, TypeOK, MessagesOK
  <2>. QED BY <2>1, LenProperties, ElementOfSeq
<1>6. /\ sent' \in [1 .. Len(sent) -> [a : Actor, kept : BOOLEAN]]
      /\ \A m \in 1 .. Len(sent) : sent'[m].a = sent[m].a
  BY <1>2, <1>4
<1>7. sent' \in Seq([a : Actor, kept : BOOLEAN]) /\ Len(sent') = Len(sent)
  BY <1>4, <1>6
<1>8. MessagesOK'
  BY <1>1, <1>7 DEF IInv, TypeOK, MessagesOK
<1>9. InboxInv' /\ OrderInv'
  <2>1. \A m \in 1 .. Len(sent) : To(m)' = To(m)
    BY <1>6 DEF To
  <2>2. InboxInv'
    BY <1>1, <1>7, <2>1 DEF IInv, InboxInv
  <2>3. Behind(answered) => Behind(answered)'
    BY <1>1, <1>7, <2>1 DEF Behind
  <2>4. Behind(mxResultQueue[0]) => Behind(mxResultQueue[0])'
    BY <1>1, <1>7, <2>1 DEF Behind
  <2>5. OrderInv'
    BY <1>1, <2>1, <2>3, <2>4 DEF IInv, OrderInv, Behind
  <2>. QED BY <2>2, <2>5
<1>. QED BY <1>1, <1>3, <1>8, <1>9, TasksKept, ThreadsKept, CellKept DEF IInv, TypeOK

LEMMA SendMsgToActorIInv == IInv /\ SendMsgToActor => IInv'
<1>. SUFFICES ASSUME IInv, SendMsgToActor PROVE IInv'
  OBVIOUS
<1>1. /\ UNCHANGED <<answered, mxResultQueue>> /\ UNCHANGED <<clock, stage>>
      /\ UNCHANGED <<mTaskList, mTaskResult, done>> /\ UNCHANGED <<pc, task, isQuit>>
      /\ UNCHANGED <<actors, mxActorMap>>
  BY DEF SendMsgToActor, threads, queues
<1>m. PICK m \in Int : m = Len(sent) + 1
  <2>1. Len(sent) \in Nat
    BY LenProperties DEF IInv, TypeOK, MessagesOK
  <2>. QED BY <2>1
<1>2. PICK a \in Actor :
        /\ inbox' = [inbox EXCEPT ![a] = Append(@, m)]
        /\ sent' = Append(sent, [a |-> a, kept |-> TRUE])
  <2>1. PICK x \in DOMAIN mxActorMap :
          /\ inbox' = [inbox EXCEPT ![mxActorMap[x]] = Append(@, m)]
          /\ sent' = Append(sent, [a |-> mxActorMap[x], kept |-> TRUE])
    BY <1>m DEF SendMsgToActor
  <2>2. mxActorMap[x] \in 1 .. Len(actors) /\ Len(actors) \in Nat /\ Len(actors) <= MaxActor
    BY LenProperties DEF IInv, TypeOK, MapOK
  <2>3. mxActorMap[x] \in Actor
    BY <2>2, BoundFacts DEF Actor
  <2>. QED BY <2>1, <2>3, Zenon
<1>3. /\ sent \in Seq([a : Actor, kept : BOOLEAN]) /\ Len(sent) \in Nat
      /\ m \in 1 .. MaxMsg /\ inbox \in [Actor -> Seq(Msg)]
  BY <1>m, LenProperties, BoundFacts DEF SendMsgToActor, IInv, TypeOK, MessagesOK
<1>4. /\ sent' \in Seq([a : Actor, kept : BOOLEAN]) /\ Len(sent') = m
      /\ \A k \in 1 .. Len(sent) : sent'[k] = sent[k]
      /\ sent'[m].a = a
  BY <1>m, <1>2, <1>3, AppendFacts
<1>5. /\ inbox' \in [Actor -> Seq(Msg)] /\ \A b \in Actor \ {a} : inbox'[b] = inbox[b]
      /\ inbox'[a] = Append(inbox[a], m) /\ inbox[a] \in Seq(Msg) /\ m \in Msg
  BY <1>2, <1>3 DEF Msg
<1>6. MessagesOK'
  BY <1>1, <1>3, <1>4, <1>5, BoundFacts DEF IInv, TypeOK, MessagesOK
<1>7. PICK n \in Nat : /\ n = Len(inbox[a]) /\ Len(inbox'[a]) = n + 1
                       /\ \A i \in 1 .. n : inbox'[a][i] = inbox[a][i]
                       /\ inbox'[a][n + 1] = m
  BY <1>5, AppendFacts
<1>8. /\ \A k \in 1 .. Len(sent) : k < m /\ k \in 1 .. Len(sent') /\ sent'[k].a = To(k)
      /\ m \in 1 .. Len(sent') /\ sent'[m].a = a
  <2>1. Len(sent') = m /\ Len(sent) = m - 1 /\ m \in Int /\ m > 0
    BY <1>m, <1>3, <1>4
  <2>2. \A k \in 1 .. Len(sent) : k < m /\ k \in 1 .. Len(sent')
    BY <2>1
  <2>. QED BY <2>1, <2>2, <1>4 DEF To
<1>9. InboxInv'
  <2>. SUFFICES ASSUME NEW b \in Actor, NEW i \in 1 .. Len(inbox'[b])
                PROVE  /\ inbox'[b][i] \in 1 .. Len(sent')
                       /\ sent'[inbox'[b][i]].a = b
                       /\ \A j \in 1 .. Len(inbox'[b]) : i < j => inbox'[b][i] < inbox'[b][j]
    BY DEF InboxInv, To
  <2>1. \A k \in 1 .. Len(inbox[b]) :
          /\ inbox[b][k] \in 1 .. Len(sent) /\ To(inbox[b][k]) = b
          /\ \A j \in 1 .. Len(inbox[b]) : k < j => inbox[b][k] < inbox[b][j]
    BY DEF IInv, InboxInv
  <2>2. CASE b # a
    BY <2>1, <2>2, <1>5, <1>8, Zenon
  <2>3. CASE b = a
    <3>1. CASE i \in 1 .. n
      <4>1. inbox'[b][i] = inbox[b][i] /\ i \in 1 .. Len(inbox[b])
        BY <2>3, <3>1, <1>7
      <4>2. ASSUME NEW j \in 1 .. Len(inbox'[b]), i < j PROVE inbox'[b][i] < inbox'[b][j]
        <5>1. CASE j \in 1 .. n
          BY <2>1, <2>3, <4>1, <4>2, <5>1, <1>7
        <5>2. CASE j = n + 1
          BY <2>1, <2>3, <4>1, <5>2, <1>7, <1>8
        <5>. QED BY <5>1, <5>2, <2>3, <1>7
      <4>. QED BY <4>1, <4>2, <2>1, <1>8, Zenon
    <3>2. CASE i = n + 1
      BY <2>3, <3>2, <1>7, <1>8
    <3>. QED BY <3>1, <3>2, <2>3, <1>7
  <2>. QED BY <2>2, <2>3
<1>10. ASSUME NEW s, Behind(s), NEW i \in 1 .. Len(s)
       PROVE  /\ s[i] \in 1 .. Len(sent') /\ sent'[s[i]].a = To(s[i])
              /\ \A j \in 1 .. Len(inbox'[To(s[i])]) : s[i] < inbox'[To(s[i])][j]
  <2>1. /\ s[i] \in 1 .. Len(sent)
        /\ \A j \in 1 .. Len(inbox[To(s[i])]) : s[i] < inbox[To(s[i])][j]
    BY <1>10 DEF Behind
  <2>2. s[i] < m /\ s[i] \in 1 .. Len(sent') /\ sent'[s[i]].a = To(s[i])
    BY <2>1, <1>8
  <2>3. To(s[i]) \in Actor
    <3>1. sent[s[i]] \in [a : Actor, kept : BOOLEAN]
      BY <2>1, <1>3, ElementOfSeq
    <3>. QED BY <3>1 DEF To
  <2>4. ASSUME To(s[i]) = a, NEW j \in 1 .. Len(inbox'[a]) PROVE s[i] < inbox'[a][j]
    <3>1. CASE j \in 1 .. n
      BY <2>1, <2>4, <3>1, <1>7
    <3>2. CASE j = n + 1
      BY <2>2, <3>2, <1>7
    <3>. QED BY <3>1, <3>2, <1>7
  <2>5. CASE To(s[i]) # a
    BY <2>1, <2>2, <2>3, <2>5, <1>5, Zenon
  <2>. QED BY <2>2, <2>4, <2>5
<1>11. OrderInv'
  <2>1. ASSUME NEW s, Behind(s)
        PROVE  \A i \in 1 .. Len(s) :
          /\ s[i] \in 1 .. Len(sent')
          /\ \A j \in 1 .. Len(s) : i < j /\ sent'[s[i]].a = sent'[s[j]].a => s[i] < s[j]
          /\ \A j \in 1 .. Len(inbox'[sent'[s[i]].a]) : s[i] < inbox'[sent'[s[i]].a][j]
    <3>1. \A i, j \in 1 .. Len(s) : i < j /\ To(s[i]) = To(s[j]) => s[i] < s[j]
      BY <2>1 DEF Behind
    <3>2. \A i \in 1 .. Len(s) :
            /\ s[i] \in 1 .. Len(sent') /\ sent'[s[i]].a = To(s[i])
            /\ \A j \in 1 .. Len(inbox'[To(s[i])]) : s[i] < inbox'[To(s[i])][j]
      BY <2>1, <1>10, Zenon
    <3>. QED BY <3>1, <3>2
  <2>2. Behind(answered)' /\ Behind(mxResultQueue[0])'
    BY <1>1, <2>1, Zenon DEF IInv, OrderInv, Behind, To
  <2>3. /\ \A i \in 1 .. Len(answered) : sent'[answered[i]].a = To(answered[i])
        /\ \A i \in 1 .. Len(mxResultQueue[0]) :
             sent'[mxResultQueue[0][i]].a = To(mxResultQueue[0][i])
    BY <1>10, Zenon DEF IInv, OrderInv
  <2>4. \A i \in 1 .. Len(answered), j \in 1 .. Len(mxResultQueue[0]) :
          sent'[answered[i]].a = sent'[mxResultQueue[0][j]].a => answered[i] < mxResultQueue[0][j]
    BY <2>3, Zenon DEF IInv, OrderInv
  <2>. QED BY <1>1, <2>2, <2>4 DEF OrderInv, To
<1>. QED BY <1>1, <1>6, <1>9, <1>11, MapKept, TasksKept, ThreadsKept, CellKept DEF IInv, TypeOK

LEMMA UpdateEventIInv == IInv /\ UpdateEvent => IInv'
<1>. SUFFICES ASSUME IInv, UpdateEvent PROVE IInv'
  OBVIOUS
<1>1. /\ UNCHANGED <<sent, answered, mxResultQueue, inbox>> /\ UNCHANGED <<clock, stage>>
      /\ UNCHANGED <<mTaskResult, done>> /\ UNCHANGED <<pc, task, isQuit>>
      /\ UNCHANGED <<actors, mxActorMap>>
  BY DEF UpdateEvent, queues
<1>n. PICK n \in 1 .. MaxActor : \E ids \in [1 .. n -> DOMAIN mxActorMap] :
        mTaskList' = [mTaskList EXCEPT ![CellOf(0)] =
                       @ \o [i \in 1 .. n |-> UpdateTask(mxActorMap[ids[i]])]]
  BY Zenon DEF UpdateEvent
<1>2. PICK ids \in [1 .. n -> DOMAIN mxActorMap] :
        mTaskList' = [mTaskList EXCEPT ![0] =
                       @ \o [i \in 1 .. n |-> UpdateTask(mxActorMap[ids[i]])]]
  BY <1>n, BoundFacts, Zenon
<1>. DEFINE round == [i \in 1 .. n |-> UpdateTask(mxActorMap[ids[i]])]
<1>3. round \in Seq(Task)
  <2>1. ASSUME NEW i \in 1 .. n PROVE UpdateTask(mxActorMap[ids[i]]) \in Task
    <3>1. mxActorMap[ids[i]] \in 1 .. Len(actors)
      BY DEF IInv, TypeOK, MapOK
    <3>2. mxActorMap[ids[i]] \in Actor
      BY <3>1, BoundFacts, LenProperties DEF IInv, TypeOK, MapOK, Actor
    <3>. QED BY <3>2 DEF Task, UpdateTask
  <2>2. n \in Nat
    BY BoundFacts
  <2>. QED BY <2>1, <2>2
<1>. HIDE DEF round
<1>4. mTaskList \in [Cell -> Seq(Task)]
  BY DEF IInv, TypeOK, TasksOK
<1>5. mTaskList' \in [Cell -> Seq(Task)] /\ \A c \in Cell \ {0} : mTaskList'[c] = mTaskList[c]
  <2>1. mTaskList' = [mTaskList EXCEPT ![0] = mTaskList[0] \o round]
    BY <1>2 DEF round
  <2>2. mTaskList[0] \o round \in Seq(Task)
    BY <1>3, <1>4, BoundFacts, ConcatProperties
  <2>. QED BY <2>1, <2>2, <1>4
<1>6. TasksOK'
  BY <1>1, <1>5 DEF IInv, TypeOK, TasksOK
<1>7. CellInv'
  BY <1>1, <1>5 DEF IInv, CellInv
<1>. QED BY <1>1, <1>6, <1>7, MapKept, MessagesKept, ThreadsKept DEF IInv, TypeOK

LEMMA DoAsyncTaskIInv == IInv /\ DoAsyncTask => IInv'
<1>. SUFFICES ASSUME IInv, DoAsyncTask PROVE IInv'
  OBVIOUS
<1>1. /\ UNCHANGED <<sent, answered, mxResultQueue, inbox>> /\ UNCHANGED <<clock, stage>>
      /\ mTaskResult' = mTaskResult /\ UNCHANGED <<pc, task, isQuit>>
      /\ UNCHANGED <<actors, mxActorMap>>
  BY DEF DoAsyncTask, queues
<1>2. PICK data \in Cell, ends \in BOOLEAN :
        /\ done' = Append(done, [run |-> 0, ended |-> 0, ends |-> ends])
        /\ mTaskList' = Push(mTaskList, CellOf(data), PlainTask(Len(done'), ends))
  BY DEF DoAsyncTask
<1>3. /\ done \in Seq([run : Nat, ended : Nat, ends : BOOLEAN]) /\ Len(done) < MaxTask
      /\ mTaskList \in [Cell -> Seq(Task)]
      /\ [run |-> 0, ended |-> 0, ends |-> ends] \in [run : Nat, ended : Nat, ends : BOOLEAN]
  BY DEF DoAsyncTask, IInv, TypeOK, TasksOK
<1>4. /\ done' \in Seq([run : Nat, ended : Nat, ends : BOOLEAN]) /\ Len(done') <= MaxTask
      /\ Len(done') \in 1 .. MaxTask
  BY <1>2, <1>3, AppendFacts, BoundFacts
<1>5. PICK t \in Task : t = PlainTask(Len(done'), ends) /\ t.kind = "plain"
  <2>. DEFINE r == [kind |-> "plain", n |-> Len(done'), ends |-> ends]
  <2>1. r \in [kind : {"plain"}, n : 1 .. MaxTask, ends : BOOLEAN] /\ r.kind = "plain"
    BY <1>4, RecordFacts, Zenon
  <2>. HIDE DEF r
  <2>2. r \in Task
    BY <2>1, Zenon DEF Task
  <2>3. r = PlainTask(Len(done'), ends)
    BY Zenon DEF r, PlainTask
  <2>. QED BY <2>1, <2>2, <2>3, Zenon
<1>6. PICK e \in Cell : e = CellOf(data)
  BY BoundFacts DEF CellOf, Cell
<1>7. /\ mTaskList' \in [Cell -> Seq(Task)]
      /\ mTaskList'[e] = Append(mTaskList[e], t)
      /\ \A d \in Cell \ {e} : mTaskList'[d] = mTaskList[d]
  <2>1. mTaskList' = Push(mTaskList, e, t)
    BY <1>2, <1>5, <1>6
  <2>. QED BY <2>1, <1>3, PushFacts
<1>8. TasksOK'
  BY <1>1, <1>4, <1>7 DEF IInv, TypeOK, TasksOK
<1>9. CellInv'
  <2>. SUFFICES ASSUME NEW c \in Cell \ {0}, NEW i \in 1 .. Len(mTaskList'[c])
                PROVE  mTaskList'[c][i].kind = "plain"
    BY <1>1 DEF IInv, CellInv
  <2>1. \A j \in 1 .. Len(mTaskList[c]) : mTaskList[c][j].kind = "plain"
    BY DEF IInv, CellInv
  <2>2. CASE c # e
    <3>1. mTaskList'[c] = mTaskList[c]
      BY <1>7, <2>2
    <3>. QED BY <3>1, <2>1
  <2>3. CASE c = e
    <3>1. mTaskList'[c] = Append(mTaskList[c], t)
      BY <1>7, <2>3
    <3>2. /\ Len(mTaskList[c]) \in Nat /\ Len(mTaskList'[c]) = Len(mTaskList[c]) + 1
          /\ \A j \in 1 .. Len(mTaskList[c]) : mTaskList'[c][j] = mTaskList[c][j]
          /\ mTaskList'[c][Len(mTaskList[c]) + 1] = t
      BY <3>1, <1>3, AppendFacts
    <3>3. CASE i \in 1 .. Len(mTaskList[c])
      BY <3>2, <3>3, <2>1, Zenon
    <3>4. CASE i = Len(mTaskList[c]) + 1
      BY <3>2, <3>4, <1>5, Zenon
    <3>. QED BY <3>2, <3>3, <3>4
  <2>. QED BY <2>2, <2>3
<1>. QED BY <1>1, <1>8, <1>9, MapKept, MessagesKept, ThreadsKept DEF IInv, TypeOK

LEMMA UpdateTaskResultIInv == ASSUME IInv, NEW c \in Cell, UpdateTaskResult(c) PROVE IInv'
<1>1. /\ UNCHANGED <<sent, answered, mxResultQueue, inbox>> /\ UNCHANGED <<clock, stage>>
      /\ mTaskList' = mTaskList /\ UNCHANGED <<pc, task, isQuit>>
      /\ UNCHANGED <<actors, mxActorMap>>
  BY DEF UpdateTaskResult, threads
<1>2. /\ done' = [done EXCEPT ![Head(mTaskResult[c])].ended = @ + 1]
      /\ mTaskResult' = [mTaskResult EXCEPT ![c] = Tail(@)] /\ mTaskResult[c] # <<>>
  BY DEF UpdateTaskResult
<1>3. mTaskResult' \in [Cell -> Seq(1 .. MaxTask)]
  <2>1. mTaskResult \in [Cell -> Seq(1 .. MaxTask)]
    BY DEF IInv, TypeOK, TasksOK
  <2>2. Tail(mTaskResult[c]) \in Seq(1 .. MaxTask)
    BY <2>1, <1>2, HeadTailProperties
  <2>. QED BY <2>1, <2>2, <1>2
<1>4. /\ done' \in Seq([run : Nat, ended : Nat, ends : BOOLEAN]) /\ Len(done') <= MaxTask
  BY <1>2, CountFacts DEF IInv, TypeOK, TasksOK
<1>5. TasksOK'
  BY <1>1, <1>3, <1>4 DEF IInv, TypeOK, TasksOK
<1>. QED BY <1>1, <1>5, MapKept, MessagesKept, ThreadsKept, CellKept DEF IInv, TypeOK

(* An answer passes from the head of the queue to the end of what is       *)
(* answered: it is before all that is behind it.                           *)
LEMMA UpdateResultEventIInv == ASSUME IInv, NEW c \in Cell, UpdateResultEvent(c) PROVE IInv'
<1>1. /\ UNCHANGED <<sent, inbox>> /\ UNCHANGED <<clock, stage>>
      /\ UNCHANGED <<mTaskList, mTaskResult, done>> /\ UNCHANGED <<pc, task, isQuit>>
      /\ UNCHANGED <<actors, mxActorMap>> /\ mxResultQueue[c] # <<>>
  BY DEF UpdateResultEvent, threads
<1>2. c = 0
  BY <1>1 DEF IInv, CellInv
<1>. DEFINE q == mxResultQueue[0]
<1>3. mxResultQueue \in [Cell -> Seq(Msg)] /\ answered \in Seq(Msg) /\ q \in Seq(Msg) /\ 0 \in Cell
  BY BoundFacts DEF IInv, TypeOK, MessagesOK
<1>4. /\ Head(q) \in Msg /\ Tail(q) \in Seq(Msg)
      /\ answered' = Append(answered, Head(q))
      /\ mxResultQueue' = [mxResultQueue EXCEPT ![0] = Tail(q)]
  BY <1>1, <1>2, <1>3, HeadTailProperties DEF UpdateResultEvent
<1>5. MessagesOK'
  <2>1. answered' \in Seq(Msg) /\ mxResultQueue' \in [Cell -> Seq(Msg)]
    BY <1>3, <1>4, AppendFacts
  <2>. QED BY <1>1, <2>1 DEF IInv, TypeOK, MessagesOK
<1>6. CellInv'
  <2>1. \A d \in Cell \ {0} : mxResultQueue'[d] = mxResultQueue[d]
    BY <1>3, <1>4
  <2>. QED BY <1>1, <2>1 DEF IInv, CellInv
<1>7. InboxInv'
  BY <1>1 DEF IInv, InboxInv, To
<1>8. PICK n \in Nat, k \in Nat \ {0} :
        /\ n = Len(answered) /\ k = Len(q)
        /\ Len(answered') = n + 1 /\ answered'[n + 1] = q[1]
        /\ \A i \in 1 .. n : answered'[i] = answered[i]
        /\ Len(mxResultQueue'[0]) = k - 1
        /\ \A i \in 1 .. k - 1 : mxResultQueue'[0][i] = q[i + 1]
  <2>1. Len(q) \in Nat \ {0} /\ Len(answered) \in Nat
    BY <1>1, <1>2, <1>3, EmptySeq, LenProperties
  <2>2. mxResultQueue'[0] = Tail(q) /\ Head(q) = q[1]
    BY <1>3, <1>4
  <2>3. /\ Len(Tail(q)) = Len(q) - 1 /\ \A i \in 1 .. Len(Tail(q)) : Tail(q)[i] = q[i + 1]
    BY <1>1, <1>2, <1>3, HeadTailProperties
  <2>4. /\ Len(answered') = Len(answered) + 1
        /\ \A i \in 1 .. Len(answered) : answered'[i] = answered[i]
        /\ answered'[Len(answered) + 1] = Head(q)
    BY <1>3, <1>4, AppendFacts
  <2>. QED BY <2>1, <2>2, <2>3, <2>4
<1>. HIDE DEF q
<1>9. /\ \A i \in 1 .. n :
           /\ answered[i] \in 1 .. Len(sent)
           /\ \A j \in 1 .. n : i < j /\ To(answered[i]) = To(answered[j]) => answered[i] < answered[j]
           /\ \A j \in 1 .. Len(inbox[To(answered[i])]) : answered[i] < inbox[To(answered[i])][j]
      /\ \A i \in 1 .. k :
           /\ q[i] \in 1 .. Len(sent)
           /\ \A j \in 1 .. k : i < j /\ To(q[i]) = To(q[j]) => q[i] < q[j]
           /\ \A j \in 1 .. Len(inbox[To(q[i])]) : q[i] < inbox[To(q[i])][j]
      /\ \A i \in 1 .. n, j \in 1 .. k : To(answered[i]) = To(q[j]) => answered[i] < q[j]
  BY <1>8 DEF IInv, OrderInv, Behind, q
<1>10. Behind(answered)'
  <2>. SUFFICES ASSUME NEW i \in 1 .. n + 1
                PROVE  /\ answered'[i] \in 1 .. Len(sent)
                       /\ \A j \in 1 .. n + 1 :
                            i < j /\ To(answered'[i]) = To(answered'[j]) => answered'[i] < answered'[j]
                       /\ \A j \in 1 .. Len(inbox[To(answered'[i])]) :
                            answered'[i] < inbox[To(answered'[i])][j]
    BY <1>1, <1>8 DEF Behind, To
  <2>1. CASE i = n + 1
    BY <2>1, <1>8, <1>9
  <2>2. CASE i \in 1 .. n
    <3>1. answered'[i] = answered[i]
      BY <2>2, <1>8
    <3>2. ASSUME NEW j \in 1 .. n + 1, i < j, To(answered'[i]) = To(answered'[j])
          PROVE  answered'[i] < answered'[j]
      <4>1. CASE j \in 1 .. n
        <5>1. answered'[j] = answered[j]
          BY <4>1, <1>8
        <5>. QED BY <2>2, <3>1, <3>2, <4>1, <5>1, <1>9, Zenon
      <4>2. CASE j = n + 1
        <5>1. answered'[j] = q[1] /\ 1 \in 1 .. k
          BY <4>2, <1>8
        <5>. QED BY <2>2, <3>1, <3>2, <5>1, <1>9, Zenon
      <4>. QED BY <4>1, <4>2
    <3>. QED BY <2>2, <3>1, <3>2, <1>9, Zenon
  <2>. QED BY <2>1, <2>2
<1>11. \A i \in 1 .. k - 1 : i + 1 \in 1 .. k /\ mxResultQueue'[0][i] = q[i + 1]
  BY <1>8
<1>12. Behind(mxResultQueue[0])'
  <2>. SUFFICES ASSUME NEW i \in 1 .. k - 1
                PROVE  /\ mxResultQueue'[0][i] \in 1 .. Len(sent)
                       /\ \A j \in 1 .. k - 1 : i < j /\ To(mxResultQueue'[0][i]) = To(mxResultQueue'[0][j])
                            => mxResultQueue'[0][i] < mxResultQueue'[0][j]
                       /\ \A j \in 1 .. Len(inbox[To(mxResultQueue'[0][i])]) :
                            mxResultQueue'[0][i] < inbox[To(mxResultQueue'[0][i])][j]
    BY <1>1, <1>8 DEF Behind, To
  <2>1. i + 1 \in 1 .. k /\ mxResultQueue'[0][i] = q[i + 1]
    BY <1>11
  <2>2. ASSUME NEW j \in 1 .. k - 1, i < j, To(mxResultQueue'[0][i]) = To(mxResultQueue'[0][j])
        PROVE  mxResultQueue'[0][i] < mxResultQueue'[0][j]
    <3>1. j + 1 \in 1 .. k /\ mxResultQueue'[0][j] = q[j + 1] /\ i + 1 < j + 1
      BY <1>11, <2>2
    <3>. QED BY <2>1, <2>2, <3>1, <1>9, Zenon
  <2>. QED BY <2>1, <2>2, <1>9, Zenon
<1>13. OrderInv'
  <2>. SUFFICES ASSUME NEW i \in 1 .. n + 1, NEW j \in 1 .. k - 1,
                       To(answered'[i]) = To(mxResultQueue'[0][j])
                PROVE  answered'[i] < mxResultQueue'[0][j]
    BY <1>1, <1>8, <1>10, <1>12 DEF OrderInv, To
  <2>1. j + 1 \in 1 .. k /\ mxResultQueue'[0][j] = q[j + 1] /\ 1 \in 1 .. k /\ 1 < j + 1
    BY <1>11
  <2>2. CASE i = n + 1
    BY <2>1, <2>2, <1>8, <1>9
  <2>3. CASE i \in 1 .. n
    <3>1. answered'[i] = answered[i]
      BY <2>3, <1>8
    <3>. QED BY <3>1, <2>1, <2>3, <1>9, Zenon
  <2>. QED BY <2>2, <2>3
<1>. QED BY <1>1, <1>5, <1>6, <1>7, <1>13, MapKept, TasksKept, ThreadsKept DEF IInv, TypeOK

-----------------------------------------------------------------------------
(* The threads. *)

LEMMA CheckIInv == ASSUME IInv, NEW c \in Cell, Check(c) PROVE IInv'
<1>1. /\ UNCHANGED <<sent, answered, mxResultQueue, inbox>> /\ UNCHANGED <<clock, stage>>
      /\ UNCHANGED <<mTaskList, mTaskResult, done>> /\ UNCHANGED <<task, isQuit>>
      /\ UNCHANGED <<actors, mxActorMap>>
  BY DEF Check, Main, queues
<1>2. ThreadsOK'
  BY <1>1 DEF Check, IInv, TypeOK, ThreadsOK
<1>. QED BY <1>1, <1>2, MapKept, MessagesKept, TasksKept, CellKept DEF IInv, TypeOK

LEMMA TakeIInv == ASSUME IInv, NEW c \in Cell, Take(c) PROVE IInv'
<1>1. /\ UNCHANGED <<sent, answered, mxResultQueue, inbox>> /\ UNCHANGED <<clock, stage>>
      /\ UNCHANGED <<mTaskResult, done>> /\ isQuit' = isQuit
      /\ UNCHANGED <<actors, mxActorMap>>
  BY DEF Take, Main, queues
<1>2. mTaskList \in [Cell -> Seq(Task)] /\ task \in [Cell -> Task \cup {NoTask}]
  BY DEF IInv, TypeOK, TasksOK, ThreadsOK
<1>3. CASE mTaskList[c] = <<>>
  <2>1. UNCHANGED <<mTaskList, task>> /\ pc' = [pc EXCEPT ![c] = "check"] /\ pc[c] = "drain"
    BY <1>3 DEF Take
  <2>2. ThreadsOK'
    BY <1>1, <2>1 DEF IInv, TypeOK, ThreadsOK
  <2>. QED BY <1>1, <2>1, <2>2, MapKept, MessagesKept, TasksKept, CellKept DEF IInv, TypeOK
<1>4. CASE mTaskList[c] # <<>>
  <2>. DEFINE t == Head(mTaskList[c])
  <2>1. /\ task' = [task EXCEPT ![c] = t] /\ mTaskList' = [mTaskList EXCEPT ![c] = Tail(@)]
        /\ pc' = [pc EXCEPT ![c] = "run"]
    BY <1>4 DEF Take
  <2>2. /\ t \in Task /\ Tail(mTaskList[c]) \in Seq(Task)
        /\ Len(mTaskList[c]) \in Nat \ {0} /\ t = mTaskList[c][1]
        /\ Len(Tail(mTaskList[c])) = Len(mTaskList[c]) - 1
        /\ \A i \in 1 .. Len(mTaskList[c]) - 1 : Tail(mTaskList[c])[i] = mTaskList[c][i + 1]
    BY <1>2, <1>4, HeadTailProperties, EmptySeq
  <2>. HIDE DEF t
  <2>3. t # NoTask
    BY <2>2 DEF Task, NoTask
  <2>4. ThreadsOK'
    BY <1>1, <2>1, <2>2, <2>3 DEF IInv, TypeOK, ThreadsOK
  <2>5. mTaskList' \in [Cell -> Seq(Task)] /\ mTaskList'[c] = Tail(mTaskList[c])
        /\ task'[c] = t
        /\ \A d \in Cell \ {c} : mTaskList'[d] = mTaskList[d] /\ task'[d] = task[d]
    BY <1>2, <2>1, <2>2
  <2>6. TasksOK'
    BY <1>1, <2>5 DEF IInv, TypeOK, TasksOK
  <2>7. CellInv'
    <3>. SUFFICES ASSUME NEW d \in Cell \ {0}
                  PROVE  /\ \A i \in 1 .. Len(mTaskList'[d]) : mTaskList'[d][i].kind = "plain"
                         /\ task'[d].kind # "actor"
      BY <1>1 DEF IInv, CellInv
    <3>1. /\ \A i \in 1 .. Len(mTaskList[d]) : mTaskList[d][i].kind = "plain"
          /\ task[d].kind # "actor"
      BY DEF IInv, CellInv
    <3>2. CASE d = c
      <4>1. t.kind = "plain"
        BY <3>1, <3>2, <2>2
      <4>2. ASSUME NEW i \in 1 .. Len(mTaskList'[d]) PROVE mTaskList'[d][i].kind = "plain"
        <5>1. i \in 1 .. Len(mTaskList[c]) - 1 /\ i + 1 \in 1 .. Len(mTaskList[c])
          BY <3>2, <2>2, <2>5
        <5>2. mTaskList'[d][i] = mTaskList[d][i + 1]
          BY <3>2, <5>1, <2>2, <2>5
        <5>. QED BY <5>1, <5>2, <3>1, <3>2, Zenon
      <4>. QED BY <4>1, <4>2, <3>2, <2>5
    <3>3. CASE d # c
      BY <3>1, <3>3, <2>5
    <3>. QED BY <3>2, <3>3
  <2>. QED BY <1>1, <2>4, <2>6, <2>7, MapKept, MessagesKept DEF IInv, TypeOK
<1>. QED BY <1>3, <1>4

LEMMA EndTaskFacts ==
  ASSUME ThreadsOK, CellInv, NEW c \in Cell, EndTask(c), isQuit' = isQuit
  PROVE  /\ ThreadsOK'
         /\ \A d \in Cell \ {0} : task'[d].kind # "actor"
<1>1. /\ pc' = [pc EXCEPT ![c] = "drain"] /\ task' = [task EXCEPT ![c] = NoTask]
      /\ task \in [Cell -> Task \cup {NoTask}]
  BY DEF EndTask, ThreadsOK
<1>2. ThreadsOK'
  BY <1>1 DEF ThreadsOK
<1>3. \A d \in Cell \ {0} : task'[d].kind # "actor"
  BY <1>1 DEF CellInv, NoTask
<1>. QED BY <1>2, <1>3

(* A message passes from the head of the inbox to the end of the queue: it *)
(* is before all that is left in the inbox and behind all that was read.   *)
LEMMA UpdateActorIInv == ASSUME IInv, NEW c \in Cell, UpdateActor(c) PROVE IInv'
<1>1. /\ UNCHANGED <<sent, answered>> /\ UNCHANGED <<clock, stage>>
      /\ UNCHANGED <<mTaskList, mTaskResult, done>> /\ isQuit' = isQuit
      /\ UNCHANGED <<actors, mxActorMap>> /\ pc[c] = "run" /\ task[c].kind = "actor"
  BY DEF UpdateActor, Main
<1>2. c = 0
  BY <1>1 DEF IInv, CellInv
<1>3. PICK a \in Actor : a = task[c].a
  <2>1. task[c] \in Task
    BY <1>1 DEF IInv, TypeOK, ThreadsOK
  <2>. QED BY <2>1, <1>1 DEF Task
<1>4. CASE inbox[a] = <<>>
  <2>1. EndTask(c) /\ UNCHANGED <<inbox, mxResultQueue>>
    BY <1>3, <1>4 DEF UpdateActor
  <2>2. ThreadsOK' /\ \A d \in Cell \ {0} : task'[d].kind # "actor"
    BY <1>1, <2>1, EndTaskFacts DEF IInv, TypeOK
  <2>3. CellInv'
    BY <1>1, <2>1, <2>2 DEF IInv, CellInv
  <2>. QED BY <1>1, <2>1, <2>2, <2>3, MapKept, MessagesKept, TasksKept DEF IInv, TypeOK
<1>5. CASE inbox[a] # <<>>
  <2>. DEFINE q == mxResultQueue[0]
              b == inbox[a]
  <2>1. /\ inbox' = [inbox EXCEPT ![a] = Tail(@)]
        /\ mxResultQueue' = IF Head(inbox[a]) \in Handled
                            THEN Push(mxResultQueue, c, Head(inbox[a])) ELSE mxResultQueue
        /\ UNCHANGED <<pc, task>>
    BY <1>3, <1>5 DEF UpdateActor
  <2>2. /\ inbox \in [Actor -> Seq(Msg)] /\ mxResultQueue \in [Cell -> Seq(Msg)]
        /\ b \in Seq(Msg) /\ q \in Seq(Msg) /\ 0 \in Cell
    BY BoundFacts DEF IInv, TypeOK, MessagesOK
  <2>3. PICK l \in Nat \ {0}, m \in Msg :
          /\ l = Len(b) /\ m = Head(b) /\ m = b[1]
          /\ inbox' \in [Actor -> Seq(Msg)] /\ Len(inbox'[a]) = l - 1
          /\ \A i \in 1 .. l - 1 : inbox'[a][i] = b[i + 1]
          /\ \A d \in Actor \ {a} : inbox'[d] = inbox[d]
    <3>1. /\ Head(b) \in Msg /\ Tail(b) \in Seq(Msg) /\ Len(b) \in Nat \ {0} /\ Head(b) = b[1]
          /\ Len(Tail(b)) = Len(b) - 1 /\ \A i \in 1 .. Len(b) - 1 : Tail(b)[i] = b[i + 1]
      BY <2>2, <1>5, HeadTailProperties, EmptySeq
    <3>2. /\ inbox' \in [Actor -> Seq(Msg)] /\ inbox'[a] = Tail(b)
          /\ \A d \in Actor \ {a} : inbox'[d] = inbox[d]
      BY <2>1, <2>2, <3>1
    <3>. QED BY <3>1, <3>2
  <2>4. PICK k \in Nat : /\ k = Len(q) /\ mxResultQueue' \in [Cell -> Seq(Msg)]
                         /\ Len(mxResultQueue'[0]) \in {k, k + 1}
                         /\ \A i \in 1 .. k : mxResultQueue'[0][i] = q[i]
                         /\ Len(mxResultQueue'[0]) = k + 1 => mxResultQueue'[0][k + 1] = m
                         /\ \A d \in Cell \ {0} : mxResultQueue'[d] = mxResultQueue[d]
    <3>1. Len(q) \in Nat
      BY <2>2, LenProperties
    <3>2. CASE m \in Handled
      <4>1. mxResultQueue' = Push(mxResultQueue, 0, m)
        BY <1>2, <2>1, <2>3, <3>2
      <4>2. /\ mxResultQueue' \in [Cell -> Seq(Msg)] /\ mxResultQueue'[0] = Append(q, m)
            /\ \A d \in Cell \ {0} : mxResultQueue'[d] = mxResultQueue[d]
        <5>1. /\ Push(mxResultQueue, c, m) \in [Cell -> Seq(Msg)]
              /\ Push(mxResultQueue, c, m)[c] = Append(mxResultQueue[c], m)
              /\ \A d \in Cell \ {c} : Push(mxResultQueue, c, m)[d] = mxResultQueue[d]
          <6>1. mxResultQueue \in [Cell -> Seq(Msg)] /\ m \in Msg
            BY <2>2
          <6>. QED BY <6>1, AppendFacts DEF Push
        <5>. QED BY <1>2, <4>1, <5>1, Zenon DEF q
      <4>3. /\ Len(Append(q, m)) = Len(q) + 1 /\ \A i \in 1 .. Len(q) : Append(q, m)[i] = q[i]
            /\ Append(q, m)[Len(q) + 1] = m
        BY <2>2, AppendFacts
      <4>. QED BY <3>1, <4>2, <4>3
    <3>3. CASE m \notin Handled
      BY <2>1, <2>2, <2>3, <3>1, <3>3
    <3>. QED BY <3>2, <3>3
  <2>. HIDE DEF q, b
  <2>5. MessagesOK'
    BY <1>1, <2>3, <2>4 DEF IInv, TypeOK, MessagesOK
  <2>6. CellInv'
    BY <1>1, <2>1, <2>4 DEF IInv, CellInv
  <2>7. ThreadsOK'
    BY <1>1, <2>1, ThreadsKept DEF IInv, TypeOK
  <2>8. \A i \in 1 .. l :
          /\ b[i] \in 1 .. Len(sent) /\ To(b[i]) = a
          /\ \A j \in 1 .. l : i < j => b[i] < b[j]
    BY <2>3 DEF IInv, InboxInv, b
  <2>9. /\ m \in 1 .. Len(sent) /\ To(m) = a
        /\ \A i \in 1 .. l - 1 : i + 1 \in 1 .. l /\ inbox'[a][i] = b[i + 1] /\ m < inbox'[a][i]
    <3>1. 1 \in 1 .. l /\ \A i \in 1 .. l - 1 : i + 1 \in 1 .. l /\ 1 < i + 1
      BY <2>3
    <3>. QED BY <2>3, <2>8, <3>1
  <2>10. InboxInv'
    <3>. SUFFICES ASSUME NEW d \in Actor, NEW i \in 1 .. Len(inbox'[d])
                  PROVE  /\ inbox'[d][i] \in 1 .. Len(sent) /\ To(inbox'[d][i]) = d
                         /\ \A j \in 1 .. Len(inbox'[d]) : i < j => inbox'[d][i] < inbox'[d][j]
      BY <1>1 DEF InboxInv, To
    <3>1. CASE d = a
      <4>1. i \in 1 .. l - 1 /\ i + 1 \in 1 .. l /\ inbox'[d][i] = b[i + 1]
        BY <3>1, <2>3, <2>9
      <4>2. ASSUME NEW j \in 1 .. Len(inbox'[d]), i < j PROVE inbox'[d][i] < inbox'[d][j]
        <5>1. j + 1 \in 1 .. l /\ inbox'[d][j] = b[j + 1] /\ i + 1 < j + 1
          BY <3>1, <4>2, <2>3, <2>9
        <5>. QED BY <4>1, <5>1, <2>8, Zenon
      <4>. QED BY <3>1, <4>1, <4>2, <2>8, Zenon
    <3>2. CASE d # a
      <4>1. inbox'[d] = inbox[d]
        BY <3>2, <2>3
      <4>. QED BY <4>1, Zenon DEF IInv, InboxInv
    <3>. QED BY <3>1, <3>2
  <2>11. ASSUME NEW s, Behind(s), NEW i \in 1 .. Len(s)
         PROVE  /\ s[i] \in 1 .. Len(sent)
                /\ To(s[i]) = a => s[i] < m
                /\ \A j \in 1 .. Len(inbox'[To(s[i])]) : s[i] < inbox'[To(s[i])][j]
    <3>1. /\ s[i] \in 1 .. Len(sent)
          /\ \A j \in 1 .. Len(inbox[To(s[i])]) : s[i] < inbox[To(s[i])][j]
      BY <2>11 DEF Behind
    <3>2. sent \in Seq([a : Actor, kept : BOOLEAN])
      BY DEF IInv, TypeOK, MessagesOK
    <3>3. To(s[i]) \in Actor
      <4>1. sent[s[i]] \in [a : Actor, kept : BOOLEAN]
        BY <3>1, <3>2, ElementOfSeq
      <4>. QED BY <4>1 DEF To
    <3>4. CASE To(s[i]) = a
      <4>1. \A j \in 1 .. l : s[i] < b[j]
        BY <3>1, <3>4, <2>3 DEF b
      <4>2. 1 \in 1 .. l
        BY <2>3
      <4>. QED BY <3>1, <3>4, <4>1, <4>2, <2>3, <2>9
    <3>5. CASE To(s[i]) # a
      BY <3>1, <3>3, <3>5, <2>3, Zenon
    <3>. QED BY <3>4, <3>5
  <2>12. Behind(answered) /\ Behind(q)
    BY DEF IInv, OrderInv, q
  <2>13. Behind(answered)'
    <3>1. \A i, j \in 1 .. Len(answered) :
            i < j /\ To(answered[i]) = To(answered[j]) => answered[i] < answered[j]
      BY <2>12 DEF Behind
    <3>. QED BY <1>1, <2>11, <2>12, <3>1 DEF Behind, To
  <2>14. PICK k2 \in {k, k + 1} : k2 = Len(mxResultQueue'[0])
    BY <2>4
  <2>15. \A i \in 1 .. k2 : \/ i \in 1 .. k /\ mxResultQueue'[0][i] = q[i]
                            \/ i = k + 1 /\ mxResultQueue'[0][i] = m
    <3>1. \A i \in 1 .. k2 : i \in 1 .. k \/ (i = k + 1 /\ k2 = k + 1)
      OBVIOUS
    <3>. QED BY <3>1, <2>4, <2>14, Zenon
  <2>16. Behind(mxResultQueue[0])'
    <3>. SUFFICES ASSUME NEW i \in 1 .. k2
                  PROVE  /\ mxResultQueue'[0][i] \in 1 .. Len(sent)
                         /\ \A j \in 1 .. k2 : i < j /\ To(mxResultQueue'[0][i]) = To(mxResultQueue'[0][j])
                              => mxResultQueue'[0][i] < mxResultQueue'[0][j]
                         /\ \A j \in 1 .. Len(inbox'[To(mxResultQueue'[0][i])]) :
                              mxResultQueue'[0][i] < inbox'[To(mxResultQueue'[0][i])][j]
      BY <1>1, <2>14 DEF Behind, To
    <3>1. CASE i = k + 1 /\ mxResultQueue'[0][i] = m
      <4>1. \A j \in 1 .. k2 : ~(i < j)
        BY <3>1, <2>4, <2>14
      <4>2. \A j \in 1 .. Len(inbox'[a]) : m < inbox'[a][j]
        BY <2>3, <2>9
      <4>. QED BY <3>1, <4>1, <4>2, <2>9
    <3>2. CASE i \in 1 .. k /\ mxResultQueue'[0][i] = q[i]
      <4>1. /\ q[i] \in 1 .. Len(sent)
            /\ To(q[i]) = a => q[i] < m
            /\ \A j \in 1 .. Len(inbox'[To(q[i])]) : q[i] < inbox'[To(q[i])][j]
        BY <3>2, <2>4, <2>11, <2>12
      <4>2. \A j \in 1 .. k : i < j /\ To(q[i]) = To(q[j]) => q[i] < q[j]
        BY <3>2, <2>4, <2>12 DEF Behind
      <4>3. ASSUME NEW j \in 1 .. k2, i < j, To(mxResultQueue'[0][i]) = To(mxResultQueue'[0][j])
            PROVE  mxResultQueue'[0][i] < mxResultQueue'[0][j]
        <5>1. CASE j \in 1 .. k /\ mxResultQueue'[0][j] = q[j]
          BY <3>2, <4>2, <4>3, <5>1, Zenon
        <5>2. CASE j = k + 1 /\ mxResultQueue'[0][j] = m
          <6>1. To(q[i]) = a
            BY <3>2, <4>3, <5>2, <2>9, Zenon
          <6>. QED BY <3>2, <4>1, <5>2, <6>1, Zenon
        <5>. QED BY <5>1, <5>2, <2>15
      <4>4. To(mxResultQueue'[0][i]) = To(q[i])
        BY <3>2, Zenon
      <4>. QED BY <3>2, <4>1, <4>3, <4>4
    <3>. QED BY <3>1, <3>2, <2>15
  <2>17. OrderInv'
    <3>. SUFFICES ASSUME NEW i \in 1 .. Len(answered), NEW j \in 1 .. k2,
                         To(answered[i]) = To(mxResultQueue'[0][j])
                  PROVE  answered[i] < mxResultQueue'[0][j]
      BY <1>1, <2>13, <2>14, <2>16 DEF OrderInv, To
    <3>1. CASE j \in 1 .. k /\ mxResultQueue'[0][j] = q[j]
      BY <3>1, <2>4 DEF IInv, OrderInv, q
    <3>2. CASE j = k + 1 /\ mxResultQueue'[0][j] = m
      BY <3>2, <2>9, <2>11, <2>12
    <3>. QED BY <3>1, <3>2, <2>15
  <2>. QED BY <1>1, <2>5, <2>6, <2>7, <2>10, <2>17, MapKept, TasksKept DEF IInv, TypeOK
<1>. QED BY <1>4, <1>5

LEMMA RunTaskIInv == ASSUME IInv, NEW c \in Cell, RunTask(c) PROVE IInv'
<1>1. /\ UNCHANGED <<sent, answered, mxResultQueue, inbox>> /\ UNCHANGED <<clock, stage>>
      /\ mTaskList' = mTaskList /\ isQuit' = isQuit /\ UNCHANGED <<actors, mxActorMap>>
      /\ EndTask(c) /\ pc[c] = "run" /\ task[c].kind = "plain"
  BY DEF RunTask, Main
<1>2. /\ done' = [done EXCEPT ![task[c].n].run = @ + 1]
      /\ mTaskResult' = IF task[c].ends THEN Push(mTaskResult, c, task[c].n) ELSE mTaskResult
  BY DEF RunTask
<1>3. ThreadsOK' /\ \A d \in Cell \ {0} : task'[d].kind # "actor"
  BY <1>1, EndTaskFacts DEF IInv, TypeOK
<1>4. task[c].n \in 1 .. MaxTask
  <2>1. task[c] \in Task
    BY <1>1 DEF IInv, TypeOK, ThreadsOK
  <2>. QED BY <2>1, <1>1 DEF Task
<1>5. mTaskResult' \in [Cell -> Seq(1 .. MaxTask)]
  <2>1. mTaskResult \in [Cell -> Seq(1 .. MaxTask)]
    BY DEF IInv, TypeOK, TasksOK
  <2>2. Push(mTaskResult, c, task[c].n) \in [Cell -> Seq(1 .. MaxTask)]
    BY <2>1, <1>4, PushFacts
  <2>. QED BY <1>2, <2>1, <2>2
<1>6. TasksOK'
  <2>1. done \in Seq([run : Nat, ended : Nat, ends : BOOLEAN]) /\ Len(done) <= MaxTask
    BY DEF IInv, TypeOK, TasksOK
  <2>2. done' \in Seq([run : Nat, ended : Nat, ends : BOOLEAN]) /\ Len(done') <= MaxTask
    BY <1>2, <2>1, CountFacts
  <2>. QED BY <1>1, <1>5, <2>2 DEF IInv, TypeOK, TasksOK
<1>7. CellInv'
  BY <1>1, <1>3 DEF IInv, CellInv
<1>. QED BY <1>1, <1>3, <1>6, <1>7, MapKept, MessagesKept DEF IInv, TypeOK

-----------------------------------------------------------------------------

LEMMA StepIInv == IInv /\ [Next]_vars => IInv'
<1>. SUFFICES ASSUME IInv, [Next]_vars PROVE IInv'
  OBVIOUS
<1>1. CASE UNCHANGED vars
  <2>1. /\ UNCHANGED <<actors, mxActorMap>> /\ UNCHANGED <<sent, answered, mxResultQueue, inbox>>
        /\ UNCHANGED <<mTaskList, mTaskResult, done>> /\ UNCHANGED <<pc, task, isQuit>>
        /\ UNCHANGED <<clock, stage>>
    BY <1>1 DEF vars, threads, queues
  <2>. QED BY <2>1, MapKept, MessagesKept, TasksKept, ThreadsKept, CellKept DEF IInv, TypeOK
<1>2. CASE Next
  <2>1. \/ Tick \/ CreateActor \/ ReleaseActor \/ SendMsgToActor \/ UpdateEvent
        \/ DoAsyncTask \/ BeforeDestroy \/ Stopping
        \/ \E c \in Cell : \/ UpdateResultEvent(c) \/ UpdateTaskResult(c)
                          \/ Check(c) \/ Take(c) \/ UpdateActor(c) \/ RunTask(c)
    BY <1>2, Zenon DEF Next, MainLoop, Thread
  <2>. QED BY <2>1, TickIInv, CreateActorIInv, ReleaseActorIInv, SendMsgToActorIInv, UpdateEventIInv,
              DoAsyncTaskIInv, EndIInv, UpdateResultEventIInv, UpdateTaskResultIInv, CheckIInv,
              TakeIInv, UpdateActorIInv, RunTaskIInv, Zenon
<1>. QED BY <1>1, <1>2

(* Only the first thread can be in an actor, and what is answered is       *)
(* Behind what is not.                                                     *)
LEMMA OneThread == IInv => OneAtATime
<1>. SUFFICES ASSUME IInv PROVE OneAtATime
  OBVIOUS
<1>1. ASSUME NEW a \in Actor PROVE Cardinality(Running(a)) <= 1
  <2>1. Running(a) \in SUBSET {0}
    <3>. SUFFICES ASSUME NEW c \in Cell, task[c] = UpdateTask(a) PROVE c = 0
      BY DEF Running
    <3>1. task[c].kind = "actor"
      BY DEF UpdateTask
    <3>. QED BY <3>1 DEF IInv, CellInv
  <2>2. IsFiniteSet({0}) /\ Cardinality({0}) = 1
    BY FS_Singleton
  <2>. QED BY <2>1, <2>2, FS_Subset
<1>2. AnswersInOrder
  <2>1. DOMAIN answered = 1 .. Len(answered)
    BY LenProperties DEF IInv, TypeOK, MessagesOK
  <2>. QED BY <2>1 DEF IInv, OrderInv, Behind, AnswersInOrder
<1>. QED BY <1>1, <1>2 DEF IInv, OneAtATime

(* However many threads there are, one at a time runs an actor, whose      *)
(* answers come back in the order of its messages, each at most once.      *)
THEOREM ActorsAlone == Spec => []OneAtATime
<1>1. IInv /\ [Next]_vars => IInv'
  BY StepIInv
<1>2. Init => IInv
  BY InitIInv
<1>. QED BY <1>1, <1>2, OneThread, PTL DEF Spec

=============================================================================
