------------------------------- MODULE Worker -------------------------------
(***************************************************************************)
(* The actors and the threads that run them: ActorModule, Actor,           *)
(* ThreadPoolModule and ThreadCell.  The main thread makes actors, sends   *)
(* them messages and, every ten milliseconds, gives the pool a task per    *)
(* actor that empties the actor's inbox; the threads bring the answers     *)
(* back through queues (core/queue.h) that keep the order of one producer  *)
(* only.  The threads, the main loop and the end of the process interleave *)
(* at every queue operation.                                               *)
(***************************************************************************)
EXTENDS Integers, Sequences, FiniteSets

CONSTANTS
    NCell,       \* GetAppCPUCount: the number of threads
    Handled,     \* the messages the actors have a handler for
    MaxActor, MaxMsg, MaxTask, MaxTime,   \* bounds
    MaxQueue     \* bound on the tasks that wait for a thread

ASSUME WorkerAssumption ==
    /\ NCell \in Nat \ {0}
    /\ {MaxActor, MaxMsg, MaxTask, MaxTime, MaxQueue} \subseteq Nat
    /\ Handled \subseteq 1..MaxMsg

Cell  == 0..(NCell - 1)
Actor == 1..MaxActor
Msg   == 1..MaxMsg

VARIABLES
    clock,       \* SquickGetTimeMS
    actors,      \* the Actors made: [id |-> their time]
    mxActorMap,  \* [id :> actor]
    inbox,       \* mMessageQueue of each actor
    mTaskList,   \* the queue of each thread
    pc,          \* each thread: "check", "drain", "run", "gone"
    task,        \* the task it runs
    isQuit,      \* is_quit_ of each thread
    mxResultQueue,  \* per producing thread
    mTaskResult,    \* per producing thread
    stage,       \* of the main thread: "up", "stopping", "joined"
    sent,        \* the messages sent: [actor, kept |-> still in the map]
    answered,    \* messages whose end functor has run, in order
    done         \* plain tasks made, run and ended: [task -> times]

threads == <<mTaskList, pc, task, isQuit>>
queues  == <<mxResultQueue, mTaskResult>>
vars == <<clock, actors, mxActorMap, inbox, threads, queues, stage,
          sent, answered, done>>

NoTask == [kind |-> "none"]
UpdateTask(a) == [kind |-> "actor", a |-> a]
PlainTask(n, ends) == [kind |-> "plain", n |-> n, ends |-> ends]
Task == [kind : {"actor"}, a : Actor]
          \cup [kind : {"plain"}, n : 1..MaxTask, ends : BOOLEAN]

\* ThreadPoolModule::Start.
Init ==
    /\ clock = 0 /\ actors = <<>> /\ mxActorMap = <<>>
    /\ inbox = [a \in Actor |-> <<>>]
    /\ mTaskList = [c \in Cell |-> <<>>]
    /\ pc = [c \in Cell |-> "check"] /\ task = [c \in Cell |-> NoTask]
    /\ isQuit = [c \in Cell |-> FALSE]
    /\ mxResultQueue = [c \in Cell |-> <<>>] /\ mTaskResult = [c \in Cell |-> <<>>]
    /\ stage = "up" /\ sent = <<>> /\ answered = <<>> /\ done = <<>>

-----------------------------------------------------------------------------
(***************************************************************************)
(* The main thread.                                                        *)
(***************************************************************************)
Tick == /\ clock < MaxTime /\ clock' = clock + 1
        /\ UNCHANGED <<actors, mxActorMap, inbox, threads, queues,
                       stage, sent, answered, done>>

\* The id is Guid(time, 0): the second actor of a millisecond is not put
\* into the map, and its id names the first.
CreateActor ==
    /\ stage = "up" /\ Len(actors) < MaxActor
    /\ actors' = Append(actors, [id |-> clock])
    /\ mxActorMap' = IF clock \in DOMAIN mxActorMap THEN mxActorMap
                     ELSE [x \in DOMAIN mxActorMap \cup {clock} |->
                             IF x = clock THEN Len(actors') ELSE mxActorMap[x]]
    /\ UNCHANGED <<clock, inbox, threads, queues, stage, sent,
                   answered, done>>

ReleaseActor ==
    /\ stage = "up"
    /\ \E x \in DOMAIN mxActorMap :
        /\ mxActorMap' = [y \in DOMAIN mxActorMap \ {x} |-> mxActorMap[y]]
        /\ sent' = [m \in DOMAIN sent |->
              IF sent[m].a = mxActorMap[x] THEN [sent[m] EXCEPT !.kept = FALSE]
              ELSE sent[m]]
    /\ UNCHANGED <<clock, actors, inbox, threads, queues, stage,
                   answered, done>>

\* To the actor that the id of a names.
SendMsgToActor ==
    /\ stage = "up" /\ Len(sent) < MaxMsg
    /\ \E x \in {actors[i].id : i \in DOMAIN actors} \cap DOMAIN mxActorMap :
        LET a == mxActorMap[x]
        IN  /\ inbox' = [inbox EXCEPT ![a] = Append(@, Len(sent) + 1)]
            /\ sent' = Append(sent, [a |-> a, kept |-> TRUE])
    /\ UNCHANGED <<clock, actors, mxActorMap, threads, queues, stage,
                   answered, done>>

\* (A pool that gives a task to the thread with the fewest tasks.)
LeastBusy(data) == CHOOSE c \in Cell :
    \A d \in Cell : Len(mTaskList[c]) <= Len(mTaskList[d])
\* ThreadPoolModule::DoAsyncTask: the thread of a task id's nData64, which
\* is 0 in the id of every actor.
CellOf(data) == data % NCell
Push(q, c, t) == [q EXCEPT ![c] = Append(@, t)]

\* ActorModule::UpdateEvent: a task per actor of the map, by their ids.
UpdateEvent ==
    /\ stage = "up" /\ DOMAIN mxActorMap # {}
    /\ \A c \in Cell : Len(mTaskList[c]) < MaxQueue
    /\ \E n \in 1..MaxActor : \E ids \in [1..n -> DOMAIN mxActorMap] :
        /\ \A x \in DOMAIN mxActorMap : \E i \in 1..n : ids[i] = x
        /\ \A i, j \in 1..n : i < j => ids[i] < ids[j]
        /\ mTaskList' = [mTaskList EXCEPT ![CellOf(0)] =
                           @ \o [i \in 1..n |-> UpdateTask(mxActorMap[ids[i]])]]
    /\ UNCHANGED <<clock, actors, mxActorMap, inbox, pc, task, isQuit, queues,
                   stage, sent, answered, done>>

DoAsyncTask ==
    /\ stage = "up" /\ Len(done) < MaxTask
    /\ \E data \in Cell, ends \in BOOLEAN :
        /\ done' = Append(done, [run |-> 0, ended |-> 0, ends |-> ends])
        /\ mTaskList' = Push(mTaskList, CellOf(data),
                             PlainTask(Len(done'), ends))
    /\ UNCHANGED <<clock, actors, mxActorMap, inbox, pc, task, isQuit,
                   queues, stage, sent, answered>>

\* ActorModule::UpdateResultEvent, one message of one thread.
UpdateResultEvent(c) ==
    /\ stage = "up" /\ mxResultQueue[c] # <<>>
    /\ answered' = Append(answered, Head(mxResultQueue[c]))
    /\ mxResultQueue' = [mxResultQueue EXCEPT ![c] = Tail(@)]
    /\ UNCHANGED <<clock, actors, mxActorMap, inbox, threads,
                   mTaskResult, stage, sent, done>>

\* ThreadPoolModule::UpdateTaskResult
UpdateTaskResult(c) ==
    /\ stage = "up" /\ mTaskResult[c] # <<>>
    /\ done' = [done EXCEPT ![Head(mTaskResult[c])].ended = @ + 1]
    /\ mTaskResult' = [mTaskResult EXCEPT ![c] = Tail(@)]
    /\ UNCHANGED <<clock, actors, mxActorMap, inbox, threads,
                   mxResultQueue, stage, sent, answered>>

\* BeforeDestroy clears the map; the destructor of the pool quits and joins
\* the threads one after the other.
BeforeDestroy ==
    /\ stage = "up" /\ stage' = "stopping" /\ mxActorMap' = <<>>
    /\ UNCHANGED <<clock, actors, inbox, threads, queues, sent,
                   answered, done>>
Quit(c) ==
    /\ stage = "stopping" /\ ~isQuit[c]
    /\ \A d \in 0..(c - 1) : pc[d] = "gone"
    /\ isQuit' = [isQuit EXCEPT ![c] = TRUE]
    /\ UNCHANGED <<clock, actors, mxActorMap, inbox, mTaskList, pc,
                   task, queues, stage, sent, answered, done>>
Joined ==
    /\ stage = "stopping" /\ \A c \in Cell : pc[c] = "gone"
    /\ stage' = "joined"
    /\ UNCHANGED <<clock, actors, mxActorMap, inbox, threads, queues,
                   sent, answered, done>>
-----------------------------------------------------------------------------
(***************************************************************************)
(* The threads: ThreadCell::Update.                                        *)
(***************************************************************************)
Main == <<clock, actors, mxActorMap, stage, sent, answered, isQuit>>

Check(c) ==
    /\ pc[c] = "check"
    /\ pc' = [pc EXCEPT ![c] = IF isQuit[c] THEN "gone" ELSE "drain"]
    /\ UNCHANGED <<Main, inbox, mTaskList, task, queues, done>>

\* (A thread that ends when its list is empty.)
TakeUntilEmpty(c) ==
    /\ pc[c] = "drain"
    /\ IF mTaskList[c] = <<>>
       THEN pc' = [pc EXCEPT ![c] = "gone"] /\ UNCHANGED <<mTaskList, task>>
       ELSE /\ task' = [task EXCEPT ![c] = Head(mTaskList[c])]
            /\ mTaskList' = [mTaskList EXCEPT ![c] = Tail(@)]
            /\ pc' = [pc EXCEPT ![c] = "run"]
    /\ UNCHANGED <<Main, inbox, queues, done>>

Take(c) ==
    /\ pc[c] = "drain"
    /\ IF mTaskList[c] = <<>>
       THEN pc' = [pc EXCEPT ![c] = "check"] /\ UNCHANGED <<mTaskList, task>>
       ELSE /\ task' = [task EXCEPT ![c] = Head(mTaskList[c])]
            /\ mTaskList' = [mTaskList EXCEPT ![c] = Tail(@)]
            /\ pc' = [pc EXCEPT ![c] = "run"]
    /\ UNCHANGED <<Main, inbox, queues, done>>

EndTask(c) == /\ pc' = [pc EXCEPT ![c] = "drain"]
              /\ task' = [task EXCEPT ![c] = NoTask]

\* Actor::Update: a message at a time until the inbox is empty.
UpdateActor(c) ==
    /\ pc[c] = "run" /\ task[c].kind = "actor"
    /\ LET a == task[c].a
       IN  IF inbox[a] = <<>>
           THEN EndTask(c) /\ UNCHANGED <<inbox, mxResultQueue>>
           ELSE /\ inbox' = [inbox EXCEPT ![a] = Tail(@)]
                /\ mxResultQueue' = IF Head(inbox[a]) \in Handled
                                    THEN Push(mxResultQueue, c, Head(inbox[a]))
                                    ELSE mxResultQueue
                /\ UNCHANGED <<pc, task>>
    /\ UNCHANGED <<Main, mTaskList, mTaskResult, done>>

\* A task of its own; the result goes back if it has an end.
RunTask(c) ==
    /\ pc[c] = "run" /\ task[c].kind = "plain"
    /\ done' = [done EXCEPT ![task[c].n].run = @ + 1]
    /\ mTaskResult' = IF task[c].ends THEN Push(mTaskResult, c, task[c].n)
                      ELSE mTaskResult
    /\ EndTask(c)
    /\ UNCHANGED <<Main, inbox, mTaskList, mxResultQueue>>

Thread(c) == Check(c) \/ Take(c) \/ UpdateActor(c) \/ RunTask(c)
MainLoop  == \E c \in Cell : UpdateResultEvent(c) \/ UpdateTaskResult(c)
Stopping  == Joined \/ \E c \in Cell : Quit(c)
Next ==
    \/ Tick \/ CreateActor \/ ReleaseActor \/ SendMsgToActor \/ UpdateEvent
    \/ DoAsyncTask \/ MainLoop \/ BeforeDestroy \/ Stopping
    \/ \E c \in Cell : Thread(c)

\* The operating system runs every thread, and the main thread turns its
\* loop: it collects results, starts rounds of updates, and joins.
Spec == /\ Init /\ [][Next]_vars
        /\ \A c \in Cell : WF_vars(Thread(c)) /\ WF_vars(UpdateResultEvent(c))
                           /\ WF_vars(UpdateTaskResult(c))
        /\ WF_vars(UpdateEvent) /\ WF_vars(Stopping)

-----------------------------------------------------------------------------
MapOK ==
    /\ actors \in Seq([id : 0..MaxTime]) /\ Len(actors) <= MaxActor
    /\ DOMAIN mxActorMap \subseteq 0..MaxTime
    /\ mxActorMap \in [DOMAIN mxActorMap -> 1..Len(actors)]
    /\ \A x \in DOMAIN mxActorMap : actors[mxActorMap[x]].id = x
MessagesOK ==
    /\ inbox \in [Actor -> Seq(Msg)]
    /\ mxResultQueue \in [Cell -> Seq(Msg)]
    /\ sent \in Seq([a : Actor, kept : BOOLEAN]) /\ Len(sent) <= MaxMsg
    /\ answered \in Seq(Msg)
TasksOK ==
    /\ mTaskList \in [Cell -> Seq(Task)]
    /\ mTaskResult \in [Cell -> Seq(1..MaxTask)]
    /\ done \in Seq([run : Nat, ended : Nat, ends : BOOLEAN]) /\ Len(done) <= MaxTask
ThreadsOK ==
    /\ pc \in [Cell -> {"check", "drain", "run", "gone"}]
    /\ task \in [Cell -> Task \cup {NoTask}]
    /\ \A c \in Cell : pc[c] = "run" <=> task[c] # NoTask
    /\ isQuit \in [Cell -> BOOLEAN]
TypeOK ==
    /\ clock \in 0..MaxTime /\ stage \in {"up", "stopping", "joined"}
    /\ MapOK /\ MessagesOK /\ TasksOK /\ ThreadsOK

Running(a) == {c \in Cell : pc[c] = "run" /\ task[c] = UpdateTask(a)}
To(m) == sent[m].a

AnswersInOrder ==
    \A i, j \in DOMAIN answered :
        i < j /\ To(answered[i]) = To(answered[j]) => answered[i] < answered[j]

\* Only one thread is in an actor at a time, which the handlers of an actor
\* rely on ("must make sure that only one thread running this function at
\* the same time", actor.cc), and so the answers of an actor come back in
\* the order its messages were sent, each once, however the rounds of
\* updates, the threads and the main loop interleave.
OneAtATime ==
    /\ TypeOK
    /\ \A a \in Actor : Cardinality(Running(a)) <= 1
    /\ AnswersInOrder

Answered(m) == m \in DOMAIN sent /\ sent[m].kept => \E i \in DOMAIN answered : answered[i] = m
RanOnce(n) == n \in DOMAIN done =>
    done[n].run = 1 /\ done[n].ended = IF done[n].ends THEN 1 ELSE 0

\* Every message sent to an actor that stays is answered, and every task
\* run once and ended once if it has an end, unless the process stops; and
\* a process that stops is not held up by its threads.
Served ==
    /\ \A m \in Handled : []<>(stage # "up" \/ Answered(m))
    /\ \A n \in 1..MaxTask : []<>(stage # "up" \/ RanOnce(n))
    /\ (stage = "stopping") ~> (stage = "joined")
=============================================================================
