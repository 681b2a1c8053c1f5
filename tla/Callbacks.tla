----------------------------- MODULE Callbacks -----------------------------
(***************************************************************************)
(* Events, schedules and the Lua functions behind them: EventModule,       *)
(* ScheduleModule and the callback part of LuaScriptModule, one thread.    *)
(*                                                                         *)
(* Every set of callbacks is a List (core/list.h), which keeps the cursor  *)
(* of a walk in itself: two walks over one list share the cursor.  A       *)
(* callback may do anything the interfaces offer, so that it nests walks   *)
(* and changes what is being walked.  `stack' holds the walks in progress, *)
(* the innermost last; each knows the callback it is in.                   *)
(* The names that every specification has say Callbacks here, so that its  *)
(* proofs can stand beside others.                                         *)
(***************************************************************************)
EXTENDS Integers, Sequences, FiniteSets, Functions

CONSTANTS
    Obj,         \* objects, Guid() among them
    Event,       \* event ids
    Name,        \* names of schedules
    Native,      \* callbacks written in C++
    Func,        \* functions written in Lua
    Source,      \* types of the nodes messages come from, or Server
    Server,      \* stands for NetModule: messages this node gets as a server
    Message,     \* message ids
    Interval,    \* what a schedule may ask for
    Count,       \* how often: 0 and below included
    MaxOp,       \* bound: calls of the interfaces
    MaxTime      \* bound: time

Bridge == "lua"       \* OnLuaEventCB, OnLuaHeartBeatCB
EventKey == {"event"} \X Obj \X Event
ModuleKey == {"module"} \X Event
NameKey  == {"beat"} \X Obj \X Name
MessageKey == {"server", "client"} \X Message
Key      == EventKey \cup NameKey \cup MessageKey
Common   == <<"common">>

ASSUME CallbacksAssumption ==
    /\ Interval \subseteq Nat \ {0} /\ Count \subseteq Int
    /\ MaxOp \in Nat /\ MaxTime \in Nat

VARIABLES
    heap,        \* the Lists ever made: [items, cur], cur = 0 at end()
    table,       \* mObjectEventInfoMapEx, mModuleEventInfoMapEx: key :> List
    funcs,       \* mxLua...CallBackFuncMap: key :> List of functions
    hooked,      \* messages the net modules have the bridge registered for
    element,     \* the ScheduleElements ever made
    objects,     \* mObjectScheduleMap: name key :> element
    ticks,       \* mScheduleMap, in the order of their times
    elements,    \* the local vector of ScheduleModule::Update
    now,
    stack,       \* the walks in progress
    doing,          \* where the thread is: "idle", "run", "next" or "tick"
    ops          \* interface calls so far

schedules == <<element, objects, ticks, elements>>
callbacksVars == <<heap, table, funcs, hooked, schedules, now, stack, doing, ops>>

CommonList == 1   \* mCommonEventInfoMapEx
Top == stack[Len(stack)]
Pop == SubSeq(stack, 1, Len(stack) - 1)

CallbacksInit ==
    /\ heap = <<[items |-> <<>>, cur |-> 0]>>
    /\ table = <<>> /\ funcs = <<>> /\ hooked = {}
    /\ element = <<>> /\ objects = <<>> /\ ticks = <<>> /\ elements = <<>>
    /\ now = 0 /\ stack = <<>> /\ doing = "idle" /\ ops = 0

(***************************************************************************)
(* The List.                                                               *)
(***************************************************************************)
Add(h, l, cb) == [h EXCEPT ![l].items = Append(@, cb)]
NewList(h, cb) == Append(h, [items |-> <<cb>>, cur |-> 0])
\* (A walk that takes up the cursor where it is.)
FirstFromHere(h, l) == IF h[l].cur # 0 THEN h[l].cur ELSE 1
First(h, l) == 1
NextOf(h, l) == IF h[l].cur \in 1..(Len(h[l].items) - 1) THEN h[l].cur + 1 ELSE 0

\* The walk on top of s comes to the item at i and calls it.
CallItem(h, s, l, i) ==
    /\ heap' = [h EXCEPT ![l].cur = i]
    /\ stack' = [s EXCEPT ![Len(s)].due = @ \ {i}, ![Len(s)].cb = h[l].items[i]]
    /\ doing' = "run"

\* First on a list that is not empty, on behalf of `for'.  A walk in progress
\* over the same list shares its cursor with this one from here on.
Shared(s, l) == [k \in DOMAIN s |-> [s[k] EXCEPT !.shared = @ \/ s[k].list = l]]
Walk(h, s, l, key, for) ==
    CallItem(h, Append(Shared(s, l),
                       [list |-> l, key |-> key, for |-> for, cb |-> Bridge,
                        due |-> DOMAIN h[l].items, shared |-> FALSE]),
             l, First(h, l))

-----------------------------------------------------------------------------
(***************************************************************************)
(* What code outside the modules may call: the main program when idle, a   *)
(* callback while it runs.                                                 *)
(***************************************************************************)
Running  == doing = "idle" \/ (doing = "run" /\ Top.cb # Bridge)
InLua    == doing = "run" /\ Top.cb \in Func
Calls(n) == Running /\ ops < MaxOp /\ ops' = ops + 1 /\ now' = now

\* EventModule::AddEventCallBack
Listen(k, cb) ==
    IF k \in DOMAIN table
    THEN heap' = Add(heap, table[k], cb) /\ table' = table
    ELSE /\ heap' = NewList(heap, cb)
         /\ table' = [x \in DOMAIN table \cup {k} |->
                        IF x = k THEN Len(heap') ELSE table[x]]

AddEventCallBack ==
    /\ Calls(1) /\ \E k \in EventKey \cup ModuleKey, c \in Native : Listen(k, c)
    /\ UNCHANGED <<funcs, hooked, schedules, stack, doing>>

AddCommonEventCallBack ==
    /\ Calls(1) /\ \E c \in Native : heap' = Add(heap, CommonList, c)
    /\ UNCHANGED <<table, funcs, hooked, schedules, stack, doing>>

RemoveEventCallBack ==
    /\ Calls(1)
    /\ \/ \E k \in DOMAIN table : table' = [x \in DOMAIN table \ {k} |-> table[x]]
       \/ \E o \in Obj :
             table' = [x \in DOMAIN table \ ({"event"} \X {o} \X Event) |-> table[x]]
    /\ UNCHANGED <<heap, funcs, hooked, schedules, stack, doing>>

\* LuaScriptModule::AddLuaFuncToMap: it returns true in every branch, so
\* that each function registers the bridge once more.
LuaAdd(h, k, f) ==
    IF k \in DOMAIN funcs THEN [heap |-> Add(h, funcs[k], f), funcs |-> funcs]
    ELSE [heap |-> NewList(h, f),
          funcs |-> [x \in DOMAIN funcs \cup {k} |->
                        IF x = k THEN Len(h) + 1 ELSE funcs[x]]]

LuaAddEventCallBack ==
    /\ Calls(1)
    /\ \E k \in EventKey, f \in Func :
        LET a == LuaAdd(heap, k, f)
        IN  /\ funcs' = a.funcs
            /\ IF k \in DOMAIN table
               THEN heap' = Add(a.heap, table[k], Bridge) /\ table' = table
               ELSE /\ heap' = NewList(a.heap, Bridge)
                    /\ table' = [x \in DOMAIN table \cup {k} |->
                                   IF x = k THEN Len(heap') ELSE table[x]]
    /\ UNCHANGED <<hooked, schedules, stack, doing>>

\* Messages: the net modules get the bridge once, with the first function.
\* One table serves all node types, so that a message which comes from two
\* of them is hooked for the first only; and removing the bridge leaves the
\* functions, so that adding one more does not hook the message again.
TableOf(s, m) == <<IF s = Server THEN "server" ELSE "client", m>>

AddMsgCallBack ==
    /\ Calls(1)
    /\ \E s \in Source, m \in Message, f \in Func :
        LET k == TableOf(s, m)
            a == LuaAdd(heap, k, f)
        IN  /\ heap' = a.heap /\ funcs' = a.funcs
            /\ hooked' = IF k \in DOMAIN funcs THEN hooked ELSE hooked \cup {<<s, m>>}
    /\ UNCHANGED <<table, schedules, stack, doing>>

\* (Not while its own functions are called: that frees what Net walks.)
RemoveMsgCallBack ==
    /\ Calls(1)
    /\ \E sm \in hooked : /\ \A i \in DOMAIN stack : stack[i].key # TableOf(sm[1], sm[2])
                          /\ hooked' = hooked \ {sm}
    /\ UNCHANGED <<heap, table, funcs, schedules, stack, doing>>

\* A frame's messages are read when nothing else runs.
OnNetMsgCallBack ==
    /\ doing = "idle" /\ ops < MaxOp /\ ops' = ops + 1
    /\ \E sm \in hooked :
        LET k == TableOf(sm[1], sm[2]) IN Walk(heap, <<>>, funcs[k], k, "event")
    /\ UNCHANGED <<table, funcs, hooked, schedules, now>>

\* EventModule::DoEvent: the common list, then the list of the object and
\* the event as it then is.
DoOwn(h, s, k) ==
    IF k \in DOMAIN table THEN Walk(h, s, table[k], k, "event")
    ELSE /\ doing' = (IF s = <<>> THEN "idle" ELSE "run")
         /\ heap' = h /\ stack' = s

DoEvent ==
    /\ Calls(1)
    /\ \E k \in EventKey :
        IF heap[CommonList].items # <<>> THEN Walk(heap, stack, CommonList, k, "common")
        ELSE DoOwn(heap, stack, k)
    /\ UNCHANGED <<table, funcs, hooked, schedules>>

\* EventModule::DoEvent of the modules: no common list.
DoModuleEvent ==
    /\ Calls(1) /\ \E k \in ModuleKey : DoOwn(heap, stack, k)
    /\ UNCHANGED <<table, funcs, hooked, schedules>>
-----------------------------------------------------------------------------
(***************************************************************************)
(* ScheduleModule.                                                         *)
(***************************************************************************)
TickElement(k, t) == [key |-> k, time |-> t]
\* std::multiset::insert: behind those of the same time.
InsertTick(s, t) ==
    LET n == Cardinality({i \in DOMAIN s : s[i].time <= t.time})
    IN  SubSeq(s, 1, n) \o <<t>> \o SubSeq(s, n + 1, Len(s))
TickOf(k) == \E t \in Range(ticks) \cup Range(elements) : t.key = k

QueueNew(k, iv) ==
    IF k \in DOMAIN objects THEN ticks ELSE InsertTick(ticks, TickElement(k, now + iv))

\* h is the heap once the functor's own list, if it is Lua's, has grown.
Schedule(h, k, cb, iv, n) ==
    /\ ticks' = QueueNew(k, iv)
    /\ IF k \in DOMAIN objects
       THEN heap' = h /\ UNCHANGED <<element, objects>>
       ELSE /\ heap' = NewList(h, cb)
            /\ element' = Append(element,
                    [key |-> k, list |-> Len(h) + 1, interval |-> iv,
                     time |-> now + iv, remain |-> n, count |-> n,
                     fired |-> 0, alone |-> ~TickOf(k), early |-> FALSE])
            /\ objects' = [x \in DOMAIN objects \cup {k} |->
                             IF x = k THEN Len(element') ELSE objects[x]]

AddSchedule ==
    /\ Calls(1)
    /\ \E k \in NameKey, c \in Native, iv \in Interval, n \in Count :
           Schedule(heap, k, c, iv, n)
    /\ UNCHANGED <<table, funcs, hooked, elements, stack, doing>>

LuaAddSchedule ==
    /\ Calls(1)
    /\ \E k \in NameKey, f \in Func, iv \in Interval, n \in Count :
        LET a == LuaAdd(heap, k, f)
        IN  funcs' = a.funcs /\ Schedule(a.heap, k, Bridge, iv, n)
    /\ UNCHANGED <<hooked, table, elements, stack, doing>>

ExistSchedule(k) == k \in DOMAIN objects
GetSchedule(k) == element[objects[k]]

RemoveSchedule ==
    /\ Calls(1)
    /\ \/ \E k \in DOMAIN objects :
             objects' = [x \in DOMAIN objects \ {k} |-> objects[x]]
       \/ \E o \in Obj :
             objects' = [x \in {y \in DOMAIN objects : y[2] # o} |-> objects[x]]
    /\ UNCHANGED <<heap, table, funcs, hooked, element, ticks, elements, stack, doing>>

BeginUpdate ==
    /\ doing = "idle" /\ doing' = "tick"
    /\ \E t \in now..MaxTime : now' = t
    /\ UNCHANGED <<heap, table, funcs, hooked, schedules, stack, ops>>

Remaining(e) == IF e.remain > 0 THEN e.remain - 1 ELSE e.remain
\* (An element that is dropped one round early.)
GoesOnButLast(e) == e.remain # 0 /\ e.remain # 1
GoesOn(e) == e.remain # 0

\* ScheduleModule::Update, one tick: DoHeartBeatEvent up to its callback.
DoHeartBeatEvent ==
    /\ doing = "tick" /\ ticks # <<>>
    /\ LET t == Head(ticks)
           i == objects[t.key]
           e == element[i]
       IN  /\ now >= t.time
           /\ IF t.key \notin DOMAIN objects
              THEN ticks' = Tail(ticks) /\ UNCHANGED <<heap, element, objects, stack, doing>>
              ELSE /\ objects' = IF e.remain # 1 THEN objects
                                 ELSE [x \in DOMAIN objects \ {t.key} |-> objects[x]]
                   /\ element' = [element EXCEPT ![i].remain = Remaining(e),
                                                 ![i].time = now + e.interval,
                                                 ![i].fired = @ + 1,
                                                 ![i].early = @ \/ now < e.time]
                   /\ Walk(heap, stack, e.list, <<t.key, i>>, "beat")
                   /\ ticks' = ticks
    /\ UNCHANGED <<table, funcs, hooked, elements, now, ops>>

\* The elements that go on are queued again, one after the other.
Requeued ==
    LET queue[n \in 0..Len(elements)] ==
          IF n = 0 THEN ticks ELSE InsertTick(queue[n - 1], elements[n])
    IN  queue[Len(elements)]

EndUpdate ==
    /\ doing = "tick" /\ (ticks # <<>> => now < Head(ticks).time)
    /\ ticks' = Requeued
    /\ elements' = <<>> /\ doing' = "idle"
    /\ UNCHANGED <<heap, table, funcs, hooked, element, objects, now, stack, ops>>

-----------------------------------------------------------------------------
(***************************************************************************)
(* The walks go on.                                                        *)
(***************************************************************************)
KeyOf(f) == IF f.for = "beat" THEN f.key[1] ELSE f.key

\* OnLuaEventCB, OnLuaHeartBeatCB
CallLua ==
    /\ doing = "run" /\ Top.cb = Bridge
    /\ IF KeyOf(Top) \in DOMAIN funcs
       THEN Walk(heap, stack, funcs[KeyOf(Top)], KeyOf(Top), "lua")
       ELSE doing' = "next" /\ UNCHANGED <<heap, stack>>
    /\ UNCHANGED <<table, funcs, hooked, schedules, now, ops>>

Return ==
    /\ doing = "run" /\ Top.cb # Bridge
    /\ doing' = "next"
    /\ UNCHANGED <<heap, table, funcs, hooked, schedules, now, stack, ops>>

NextItem ==
    /\ doing = "next" /\ NextOf(heap, Top.list) # 0
    /\ CallItem(heap, stack, Top.list, NextOf(heap, Top.list))
    /\ UNCHANGED <<table, funcs, hooked, schedules, now, ops>>

\* The walk is over; what called it goes on.
Over  == doing = "next" /\ NextOf(heap, Top.list) = 0
AtEnd == [heap EXCEPT ![Top.list].cur = 0]

EndCommon ==
    /\ Over /\ Top.for = "common"
    /\ DoOwn(AtEnd, Pop, Top.key)
    /\ UNCHANGED <<table, funcs, hooked, schedules, now, ops>>

EndEvent ==
    /\ Over /\ Top.for = "event"
    /\ heap' = AtEnd /\ stack' = Pop
    /\ doing' = (IF Pop = <<>> THEN "idle" ELSE "run")
    /\ UNCHANGED <<table, funcs, hooked, schedules, now, ops>>

EndLua ==
    /\ Over /\ Top.for = "lua"
    /\ heap' = AtEnd /\ stack' = Pop /\ doing' = "next"
    /\ UNCHANGED <<table, funcs, hooked, schedules, now, ops>>

\* ScheduleModule::Update after the call: the tick is kept for later.
EndBeat ==
    /\ Over /\ Top.for = "beat"
    /\ LET e == element[Top.key[2]]
       IN  elements' = IF GoesOn(e) THEN Append(elements, TickElement(e.key, e.time))
                       ELSE elements
    /\ heap' = AtEnd /\ stack' = Pop /\ ticks' = Tail(ticks) /\ doing' = "tick"
    /\ UNCHANGED <<table, funcs, hooked, element, objects, now, ops>>

CallbacksNext ==
    \/ AddEventCallBack \/ AddCommonEventCallBack \/ RemoveEventCallBack
    \/ LuaAddEventCallBack \/ DoEvent \/ DoModuleEvent
    \/ AddMsgCallBack \/ RemoveMsgCallBack \/ OnNetMsgCallBack
    \/ AddSchedule \/ LuaAddSchedule \/ RemoveSchedule
    \/ BeginUpdate \/ DoHeartBeatEvent \/ EndUpdate
    \/ CallLua \/ Return \/ NextItem
    \/ EndCommon \/ EndEvent \/ EndLua \/ EndBeat
CallbacksSpec == CallbacksInit /\ [][CallbacksNext]_callbacksVars

-----------------------------------------------------------------------------
Callback == Native \cup Func \cup {Bridge}

CallbacksTypeOK ==
    /\ \A l \in DOMAIN heap : /\ Range(heap[l].items) \subseteq Callback
                             /\ heap[l].cur \in 0..Len(heap[l].items)
    /\ DOMAIN table \subseteq EventKey \cup ModuleKey
    /\ Range(table) \subseteq DOMAIN heap
    /\ DOMAIN funcs \subseteq Key /\ Range(funcs) \subseteq DOMAIN heap
    /\ hooked \subseteq Source \X Message
    /\ \A sm \in hooked : TableOf(sm[1], sm[2]) \in DOMAIN funcs
    /\ DOMAIN objects \subseteq NameKey
    /\ \A k \in DOMAIN objects : element[objects[k]].key = k
    /\ doing \in {"idle", "run", "next", "tick"}
    /\ now \in 0..MaxTime /\ ops \in 0..MaxOp

\* A walk misses nobody, but for a walk inside it over the same list: when
\* DoEvent, a tick, or the call of the Lua functions of a key or a message
\* comes to the end of its list, this very walk has called every callback
\* that the list had at its start, though callbacks add to the list, remove
\* it from the map and have other lists walked, to any depth
\* (EventModule::DoEvent, List::First, List::Next).  Once a callback has had
\* the list that is being walked walked again nothing is promised: the inner
\* walk leaves the cursor at the end, and those behind the one that raised
\* the inner event never hear the outer one.
HeardAll == Over => Top.shared \/ Top.due = {}

\* A schedule that is registered and has calls left is queued: adding,
\* removing and adding again under one name, from its own callback too,
\* never leaves one that nothing will call
\* (ScheduleModule::Update, AddSchedule, RemoveSchedule).
ScheduleAlive ==
    /\ CallbacksTypeOK
    /\ \A k \in NameKey : ExistSchedule(k) =>
          LET e == GetSchedule(k)
          IN  e.remain # 0 \/ e.fired = 0 => TickOf(k)

\* A schedule with a count is called so often and no more; and one whose
\* name had no tick left when it was added is never called before its
\* interval has passed since the last time.  One that was added over a tick
\* of its predecessor has two ticks of its name, since the queue knows names
\* and not elements: it is called early, and one without an end goes on with
\* both, at twice the rate.  Of those nothing is said but the count.
OnTime ==
    \A i \in DOMAIN element :
        /\ element[i].count > 0 => element[i].fired <= element[i].count
        /\ element[i].alone => ~element[i].early

\* A schedule is never lost, is not called more often than its count, and not
\* too early if it did not take its name over with a tick still in the queue.
SchedulesRight == ScheduleAlive /\ OnTime
===========================================================================
