----------------------------- MODULE PlayerMgr -----------------------------
(***************************************************************************)
(* The player node's Lua: PlayerMgr, which handles the enter and leave of  *)
(* a player in coroutines, the query libraries on QueryAsync (Mongo,       *)
(* Mysql, Clickhouse, Redis) through which a coroutine asks a database     *)
(* proxy and waits, and the proxies that run the queries.  A proxy answers *)
(* in the order it is asked; two proxies do not wait for each other, and   *)
(* each may fail, die or never have connected to its database.  Every turn *)
(* of Update resumes, without an answer, every coroutine of PlayerMgr that *)
(* has lived longer than five seconds and still waits, one after the other *)
(* and nothing else of the node in between; the proxies do not wait for it.*)
(***************************************************************************)
EXTENDS Integers, Sequences, SequencesExt, FiniteSets

CONSTANTS
    AccountId,   \* account ids
    Db,          \* the database proxies the node is linked to
    Timeout,     \* the five seconds of CheckCoroutne
    NRow,        \* rows of an insert of a script
    MaxCo,       \* bound: coroutines, of players and of other scripts
    MaxFault     \* bound: failed queries and lost or unconnected proxies

ASSUME PlayerMgrAssumption ==
    /\ IsFiniteSet(Db)
    /\ NRow \in Nat \ {0}
    /\ {Timeout, MaxCo, MaxFault} \subseteq Nat

Lib == {"mongo", "mysql", "clickhouse", "redis"}

VARIABLES
    lua,      \* the Lua state, a record (see PlayerMgrInit)
    toDb,     \* [proxy -> the queries it has not taken]
    fromDb,   \* [proxy -> the answers the node has not taken]
    up,       \* [proxy -> "up", "noSession", "down"]
    store,    \* what is in the databases, a record (see PlayerMgrInit)
    faults    \* so far, bounded by MaxFault

playerMgrVars == <<lua, toDb, fromDb, up, store, faults>>

Nil == [kind |-> "nil"]

PlayerMgrInit ==
    /\ lua = [co |-> <<>>,                     \* every coroutine made
              query_id |-> [l \in Lib |-> 0],  \* of each library
              table |-> <<>>,                  \* QueryAsync.co, of them all
              coroutines |-> <<>>,             \* PlayerMgr's: [index :> age]
              timeout |-> {},                  \* those CheckCoroutne has yet to look at
              players |-> {},                  \* the cache: uids
              uid_sec |-> 0,
              \* for the properties: the numbers at which a coroutine got
              \* what was not its answer or lost its entry, and the accounts
              \* of which something went wrong or overlapped
              crossed |-> {}, doubt |-> {}]
    /\ toDb = [d \in Db |-> <<>>] /\ fromDb = [d \in Db |-> <<>>]
    /\ up \in [Db -> {"up", "noSession"}]
    /\ \E there \in BOOLEAN :
          store = [base |-> <<>>,    \* [acc, uid], in the order of insertion
                   detail |-> <<>>,  \* [uid :> online]
                   index |-> [i \in {"base", "detail"} |-> there],
                   rows |-> <<>>]    \* [script :> its rows]
    /\ faults = Cardinality({d \in Db : up[d] = "noSession"})
    /\ faults <= MaxFault

-----------------------------------------------------------------------------
(***************************************************************************)
(* The coroutines.  A stage is named for the query the coroutine waits     *)
(* for.  After a find there is an account, or a record, or none.           *)
(***************************************************************************)
\* The queries of Mongo, Mysql and Clickhouse.
Reads   == {"findBase", "findIndexBase", "findIndexDetail", "findDetail"}
Inserts == {"insertBase", "insertDetail", "insertIndexBase", "insertIndexDetail"}
Updates == {"update", "leave"}
Indexes == {"createIndexBase", "createIndexDetail"}
MysqlQueries == <<"insertRows", "selectRows", "updateRows", "execute">>
ClickhouseQueries == <<"insertRows", "selectRows", "execute">>

IfFound(stage) ==
    CASE stage = "findBase"        -> "findDetail"
      [] stage = "findIndexBase"   -> "findIndexDetail"
      [] stage = "findIndexDetail" -> "insertBase"
      [] stage = "findDetail"      -> "update"
IfNone(stage) ==
    CASE stage = "findBase"        -> "findIndexBase"
      [] stage = "findIndexBase"   -> "createIndexBase"
      [] stage = "findIndexDetail" -> "createIndexDetail"
      [] stage = "findDetail"      -> "failed"
Onward(stage) ==
    CASE stage = "createIndexBase"   -> "insertIndexBase"
      [] stage = "insertIndexBase"   -> "findIndexDetail"
      [] stage = "createIndexDetail" -> "insertIndexDetail"
      [] stage = "insertIndexDetail" -> "insertBase"
      [] stage = "insertBase"        -> "insertDetail"
      [] stage = "insertDetail"      -> "update"
      [] stage \in {"update", "leave"} -> "done"

Ended == {"done", "failed"}

\* The next query of a script: it ends with a statement.
Following(queries, stage) ==
    IF stage = "execute" THEN "done"
    ELSE queries[1 + CHOOSE i \in DOMAIN queries : queries[i] = stage]

\* (An account that is made whether or not it was found.)
NoneFoundAnyway(a) == a.stage = "findBase" \/ a.matched = 0
\* The default of a field that the answer does not set is 0: a find that
\* failed has found nothing.
NoneFound(a) == a.matched = 0

\* GetPlayerDataFromDB and the handlers: where a coroutine gets to with the
\* answer a.  Without an answer to read, or with another library's, it ends
\* with an error; what an insert or an update is answered is not read.
After(k, a) ==
    LET stage == k.stage
        queries == IF k.lib = "mysql" THEN MysqlQueries ELSE ClickhouseQueries
    IN
    IF k.kind = "script" THEN Following(queries, stage)
    ELSE IF stage \notin Reads THEN Onward(stage)
    ELSE IF a.kind # "mongo" THEN "failed"
    ELSE IF NoneFound(a) THEN IfNone(stage) ELSE IfFound(stage)

With(f, x, y) == [z \in DOMAIN f \cup {x} |-> IF z = x THEN y ELSE f[z]]
Without(f, x) == [z \in DOMAIN f \ {x} |-> f[z]]

\* (A library that leaves the coroutine in the table.)
KeepEntry(L, id) == L
\* QueryClean
QueryClean(L, id) == [L EXCEPT !.table = Without(@, id)]

\* QueryInit and QueryAwait: the libraries count for themselves and share
\* the table.
QueryAwait(L, c) ==
    LET id == L.query_id[L.co[c].lib] + 1
    IN  [L EXCEPT !.query_id[L.co[c].lib] = id, !.co[c].id = id,
                  !.table = With(@, id, c),
                  !.crossed = IF id \in DOMAIN L.table THEN @ \cup {id} ELSE @,
                  !.doubt = IF id \in DOMAIN L.table
                            THEN @ \cup {L.co[c].acc, L.co[L.table[id]].acc}
                            ELSE @]

\* GenUID, where the coroutine makes a new player.
GetNewPlayerData(L, c) ==
    [L EXCEPT !.uid_sec = @ + 1, !.co[c].uid = L.uid_sec + 1]

\* What is done between two queries.
Passing(L, c, stage, a) ==
    CASE stage = "insertBase" -> GetNewPlayerData(L, c)
      [] stage = "findDetail" -> [L EXCEPT !.co[c].uid = a.uid]
      [] stage = "done" /\ L.co[c].kind = "enter" ->
            [L EXCEPT !.players = @ \cup {L.co[c].uid}]
      [] stage = "done" /\ L.co[c].kind = "leave" ->
            [L EXCEPT !.players = @ \ {L.co[c].uid}]
      [] OTHER -> L

Enter(L, c, stage) ==
    LET M == [L EXCEPT !.co[c].stage = stage]
    IN  IF stage \in Ended THEN M ELSE QueryAwait(M, c)

\* coroutine.resume of a coroutine in a query.
Resume(L, c, a) ==
    LET stage == After(L.co[c], a)
        M == QueryClean(L, L.co[c].id)
        told == IF L.co[c].stage = "insertRows"
                THEN [M EXCEPT !.co[c].told = a.kind # "nil" /\ a.ok] ELSE M
    IN  Enter(Passing(told, c, stage, a), c, stage)

Waiting(L, c) == L.co[c].stage \notin Ended
Query(L, c) == LET k == L.co[c]
               IN  [lib |-> k.lib, id |-> k.id, stage |-> k.stage,
                    acc |-> k.acc, uid |-> k.uid, c |-> c]

\* Squick:SendToServerByServerID to a random proxy, which may be gone: what
\* the coroutine c asks in this step.
Send(L, c) ==
    \E d \in Db :
        toDb' = IF up[d] = "down" \/ ~Waiting(L, c) THEN toDb
                ELSE [toDb EXCEPT ![d] = Append(@, Query(L, c))]

-----------------------------------------------------------------------------
(***************************************************************************)
(* The messages that start coroutines.                                     *)
(***************************************************************************)
Players(L) == {c \in DOMAIN L.co : L.co[c].kind # "script"}
New(kind, lib, acc, uid) ==
    [kind |-> kind, lib |-> lib, acc |-> acc, uid |-> uid, stage |-> "new",
     id |-> 0, told |-> FALSE]

\* Is a query of the account on its way, or a coroutine of it waiting?
Busy(acc) ==
    \/ \E c \in Players(lua) : lua.co[c].acc = acc /\ Waiting(lua, c)
    \/ \E d \in Db : \E i \in DOMAIN toDb[d] : toDb[d][i].acc = acc

Started(k, stage, listed) ==
    LET c == Len(lua.co) + 1
        L == [lua EXCEPT !.co = Append(@, k),
                         !.doubt = IF Busy(k.acc) THEN @ \cup {k.acc} ELSE @]
    IN  [Enter(L, c, stage) EXCEPT
            !.coroutines = IF listed THEN With(@, c, 0) ELSE @]

Start(k, stage, listed) ==
    /\ Len(lua.co) < MaxCo /\ lua.timeout = {}
    /\ lua' = Started(k, stage, listed)
    /\ Send(lua', Len(lua'.co))
    /\ UNCHANGED <<fromDb, up, store, faults>>

\* AsyncHnalder
ReqPlayerEnter(acc) ==
    Start(New("enter", "mongo", acc, 0), "findBase", TRUE)

\* The proxy names the player that an earlier enter brought in.
ReqPlayerLeave(c) ==
    /\ lua.co[c].kind = "enter" /\ lua.co[c].stage = "done"
    /\ Start(New("leave", "mongo", lua.co[c].acc, lua.co[c].uid), "leave", TRUE)

\* A coroutine of another script: the queries of the tests, then a statement.
\* It is not in PlayerMgr's list.
Script(lib) ==
    Start(New("script", lib, "none", 0), "insertRows", FALSE)

\* Redis: Net:SendToServer does not exist, so the coroutine ends with an
\* error after it has taken its number.
RedisScript ==
    /\ Len(lua.co) < MaxCo /\ lua.timeout = {}
    /\ lua' = [lua EXCEPT !.co = Append(@, [New("script", "redis", "none", 0)
                                               EXCEPT !.stage = "failed"]),
                          !.query_id["redis"] = @ + 1]
    /\ UNCHANGED <<toDb, fromDb, up, store, faults>>

-----------------------------------------------------------------------------
(***************************************************************************)
(* The answers and the clock.                                              *)
(***************************************************************************)
\* Mongo's AckCreateIndex is not defined (AckDelete is, twice).
Bound(a) == a.stage \notin Indexes

\* QueryResume: an answer whose number is not in the table is an error that
\* the caller catches.
Awaited(L, a) ==
    Bound(a) /\ a.id \in DOMAIN L.table /\ Waiting(L, L.table[a.id])
Foreign(L, a) == LET k == L.co[L.table[a.id]]
                 IN  a.c # L.table[a.id] \/ a.id # k.id
Noted(L, a) ==
    IF Foreign(L, a)
    THEN [L EXCEPT !.crossed = @ \cup {a.id},
                   !.doubt = @ \cup {L.co[L.table[a.id]].acc}] ELSE L
QueryResume(d) ==
    /\ fromDb[d] # <<>> /\ lua.timeout = {}
    /\ fromDb' = [fromDb EXCEPT ![d] = Tail(@)]
    /\ LET a == Head(fromDb[d])
       IN  IF Awaited(lua, a)
           THEN LET c == lua.table[a.id]
                IN  lua' = Resume(Noted(lua, a), c, a) /\ Send(lua', c)
           ELSE UNCHANGED <<lua, toDb>>
    /\ UNCHANGED <<up, store, faults>>

\* CheckCoroutne, one coroutine that is overdue.
Check(L, c) ==
    IF Waiting(L, c)
    THEN LET M == Resume(L, c, Nil)
         IN  [M EXCEPT !.doubt = @ \cup {M.co[c].acc}]
    ELSE [L EXCEPT !.coroutines = Without(@, c)]

\* (The difference of the times the other way round.)
OverdueSwapped == {c \in DOMAIN lua.coroutines : -lua.coroutines[c] > Timeout}
Overdue == {c \in DOMAIN lua.coroutines : lua.coroutines[c] > Timeout}

CheckCoroutne ==
    /\ lua.timeout = {} /\ Overdue # {}
    /\ lua' = [lua EXCEPT !.timeout = Overdue]
    /\ UNCHANGED <<toDb, fromDb, up, store, faults>>

CheckNext(c) ==
    /\ lua' = [Check(lua, c) EXCEPT !.timeout = @ \ {c}]
    /\ Send(lua', c)
    /\ UNCHANGED <<fromDb, up, store, faults>>

Update == CheckCoroutne \/ \E c \in lua.timeout : CheckNext(c)

\* A second.
Tick ==
    /\ \E c \in DOMAIN lua.coroutines : lua.coroutines[c] <= Timeout
    /\ lua' = [lua EXCEPT !.coroutines =
          [c \in DOMAIN @ |-> IF @[c] <= Timeout THEN @[c] + 1 ELSE @[c]]]
    /\ UNCHANGED <<toDb, fromDb, up, store, faults>>

-----------------------------------------------------------------------------
(***************************************************************************)
(* The database proxies.                                                   *)
(***************************************************************************)
\* How many a find matches: whoever asks tells only none from some.
Found(q) == {i \in DOMAIN store.base : store.base[i].acc = q.acc}
Matched(q) ==
    IF \/ q.stage = "findBase" /\ Found(q) # {}
       \/ q.stage = "findIndexBase" /\ store.index["base"]
       \/ q.stage = "findIndexDetail" /\ store.index["detail"]
       \/ q.stage = "findDetail" /\ q.uid \in DOMAIN store.detail
    THEN 1 ELSE 0
FirstUid(q) ==
    IF q.stage = "findBase" /\ Found(q) # {}
    THEN store.base[CHOOSE i \in Found(q) : \A j \in Found(q) : i <= j].uid
    ELSE q.uid

Answer(q, ok, matched, uid) ==
    [kind |-> q.lib, id |-> q.id, stage |-> q.stage, c |-> q.c, ok |-> ok,
     matched |-> matched, uid |-> uid]

Handled(s, matched, uid, q) == [store |-> s, ack |-> Answer(q, TRUE, matched, uid)]

\* MongoModule.  The indexes are not unique; an update of a player that is
\* not there updates none.
OnReqFind(q)   == Handled(store, Matched(q), FirstUid(q), q)
OnReqInsert(q) ==
    Handled(IF q.stage = "insertBase" THEN
               [store EXCEPT !.base = Append(@, [acc |-> q.acc, uid |-> q.uid])]
            ELSE IF q.stage = "insertDetail" THEN
               [store EXCEPT !.detail = With(@, q.uid, FALSE)]
            ELSE IF q.stage = "insertIndexBase" THEN
               [store EXCEPT !.index["base"] = TRUE]
            ELSE [store EXCEPT !.index["detail"] = TRUE],
            0, 0, q)
OnReqUpdate(q) ==
    Handled(IF q.uid \in DOMAIN store.detail
            THEN [store EXCEPT !.detail[q.uid] = q.stage = "update"] ELSE store,
            0, 0, q)
OnReqCreateIndex(q) == Handled(store, 0, 0, q)

\* MysqlModule: the rows one after the other, n of them.
Rows(q, n) == Handled([store EXCEPT !.rows = With(@, q.c, n)], 0, 0, q)
MysqlInsert(q)  == Rows(q, NRow)
MysqlExecute(q) == Handled(store, 0, 0, q)
MysqlSelect(q)  == Handled(store, 0, 0, q)
MysqlUpdate(q)  == Handled(store, 0, 0, q)

\* ClickhouseModule: the block of all rows.
ClickhouseInsert(q)  == Rows(q, NRow)
ClickhouseExecute(q) == Handled(store, 0, 0, q)
ClickhouseSelect(q)  == Handled(store, 0, 0, q)

RunMysql(q) ==
    IF q.stage = "insertRows" THEN MysqlInsert(q)
    ELSE IF q.stage = "selectRows" THEN MysqlSelect(q)
    ELSE IF q.stage = "updateRows" THEN MysqlUpdate(q) ELSE MysqlExecute(q)
RunClickhouse(q) ==
    IF q.stage = "insertRows" THEN ClickhouseInsert(q)
    ELSE IF q.stage = "selectRows" THEN ClickhouseSelect(q) ELSE ClickhouseExecute(q)
Run(q) ==
    IF q.stage \in Reads THEN OnReqFind(q)
    ELSE IF q.stage \in Inserts THEN OnReqInsert(q)
    ELSE IF q.stage \in Updates THEN OnReqUpdate(q)
    ELSE IF q.stage \in Indexes THEN OnReqCreateIndex(q)
    ELSE IF q.lib = "mysql" THEN RunMysql(q) ELSE RunClickhouse(q)

Taken(d) == /\ toDb[d] # <<>>
            /\ toDb' = [toDb EXCEPT ![d] = Tail(@)]
Reply(d, a) == fromDb' = [fromDb EXCEPT ![d] = Append(@, a)]

\* A query is run and answered.
OnReq(d) ==
    /\ up[d] = "up" /\ Taken(d)
    /\ LET q == Head(toDb[d])
       IN  store' = Run(q).store /\ Reply(d, Run(q).ack)
    /\ UNCHANGED <<lua, up, faults>>

\* The database throws: it may have done what was asked, and an insert of
\* Mysql::OnReqInsert, a row at a time, any part of it.
Doubted(q) == [lua EXCEPT !.doubt = @ \cup {q.acc}]
OnReqFails(d) ==
    /\ up[d] = "up" /\ faults < MaxFault /\ Taken(d)
    /\ faults' = faults + 1
    /\ LET q == Head(toDb[d])
       IN  /\ \/ store' = store
              \/ store' = Run(q).store
              \/ /\ q.lib = "mysql" /\ q.stage = "insertRows"
                 /\ \E n \in 1..(NRow - 1) : store' = Rows(q, n).store
           /\ Reply(d, Answer(q, FALSE, 0, 0))
           /\ lua' = Doubted(q)
    /\ UNCHANGED up

\* A proxy that could not connect.  A find of Mongo and a statement of Mysql
\* throw what only the dispatcher catches, and are not answered; an insert
\* of Mysql is answered before it is parsed, for the number 0; the others
\* use a client that is not there.
Unanswered(q) == \/ q.lib = "mongo" /\ q.stage \in Reads
                 \/ q.lib = "mysql" /\ q.stage # "insertRows"
Refused(q) == q.lib = "mysql" /\ q.stage = "insertRows"
OnReqNoSession(d) ==
    /\ up[d] = "noSession" /\ Taken(d)
    /\ LET q == Head(toDb[d])
       IN  \/ Unanswered(q) /\ UNCHANGED fromDb
           \/ Refused(q) /\ Reply(d, [Answer(q, FALSE, 0, 0) EXCEPT !.id = 0])
    /\ lua' = Doubted(Head(toDb[d]))
    /\ UNCHANGED <<up, store, faults>>

\* What it had taken and not answered is lost, and the end of what it sent.
Dies(d) ==
    /\ up' = [up EXCEPT ![d] = "down"]
    /\ toDb' = [toDb EXCEPT ![d] = <<>>]
    /\ \E n \in 0..Len(fromDb[d]) :
          fromDb' = [fromDb EXCEPT ![d] = SubSeq(@, 1, n)]
NoClient(d) ==
    /\ up[d] = "noSession" /\ toDb[d] # <<>>
    /\ ~Unanswered(Head(toDb[d])) /\ ~Refused(Head(toDb[d]))
    /\ Dies(d) /\ UNCHANGED <<lua, store, faults>>
Crash(d) ==
    /\ up[d] = "up" /\ faults < MaxFault /\ faults' = faults + 1
    /\ Dies(d) /\ UNCHANGED <<lua, store>>
Restart(d) ==
    /\ up[d] = "down" /\ fromDb[d] = <<>>
    /\ \/ up' = [up EXCEPT ![d] = "up"] /\ UNCHANGED faults
       \/ /\ faults < MaxFault /\ faults' = faults + 1
          /\ up' = [up EXCEPT ![d] = "noSession"]
    /\ UNCHANGED <<lua, toDb, fromDb, store>>

Proxy(d) == OnReq(d) \/ OnReqFails(d) \/ OnReqNoSession(d) \/ NoClient(d)
PlayerMgrNext ==
    \/ \E acc \in AccountId : ReqPlayerEnter(acc)
    \/ \E c \in DOMAIN lua.co : ReqPlayerLeave(c)
    \/ \E lib \in {"mysql", "clickhouse"} : Script(lib)
    \/ RedisScript \/ Update \/ Tick
    \/ \E d \in Db : QueryResume(d) \/ Proxy(d) \/ Crash(d) \/ Restart(d)

\* Time passes and the node turns its loop; nothing is asked of the proxies
\* and of the network.  (TurnsGoOn is weak fairness of Update, which always
\* changes `timeout'.)
TurnsGoOn ==
    []<>(Overdue = {} /\ lua.timeout = {}) \/ []<><<Update>>_playerMgrVars
PlayerMgrSpec ==
    PlayerMgrInit /\ [][PlayerMgrNext]_playerMgrVars /\ WF_playerMgrVars(Tick) /\ TurnsGoOn

-----------------------------------------------------------------------------
PlayerMgrTypeOK ==
    /\ Len(lua.co) <= MaxCo
    /\ \A l \in Lib : lua.query_id[l] \in Nat
    /\ DOMAIN lua.coroutines \subseteq Players(lua)
    /\ lua.timeout \subseteq DOMAIN lua.coroutines
    /\ \A id \in DOMAIN lua.table : lua.table[id] \in DOMAIN lua.co
    /\ up \in [Db -> {"up", "noSession", "down"}] /\ faults \in 0..MaxFault

\* A coroutine is only ever given the answer to the query it waits for, or
\* none: an answer that comes after Update has resumed it does not meet it
\* in a later query, nor one of a proxy that died and started again, unless
\* two libraries gave out the same number (QueryAsync, "co", is one table).
Shared(n) ==
    \E l, m \in Lib : l # m /\ {lua.query_id[l], lua.query_id[m]} \cap 0..(n - 1) = {}
OwnAnswer ==
    /\ PlayerMgrTypeOK
    /\ \A n \in lua.crossed : Shared(n)
    /\ \A id \in DOMAIN lua.table :
          Waiting(lua, lua.table[id]) /\ lua.co[lua.table[id]].id = id

\* An account whose enters and leaves did not overlap, and whose queries
\* were all answered and did not fail.
Sure(acc) == acc \notin lua.doubt
Records(acc) == {i \in DOMAIN store.base : store.base[i].acc = acc}

\* Such an account has one player, however often it enters and through
\* whichever proxies its queries go; who has been told to be in the game is
\* that player and is stored; and what a script was told is stored is.
OnePlayer ==
    /\ \A acc \in AccountId : Sure(acc) => \A i, j \in Records(acc) : i = j
    /\ \A c \in DOMAIN lua.co :
        LET k == lua.co[c]
        IN  /\ k.kind = "enter" /\ k.stage = "done" /\ Sure(k.acc) =>
                  /\ [acc |-> k.acc, uid |-> k.uid] \in Range(store.base)
                  /\ k.uid \in DOMAIN store.detail
            /\ k.kind = "script" /\ k.told /\ Sure(k.acc) =>
                  c \in DOMAIN store.rows /\ store.rows[c] = NRow

\* And when it is not busy, the cache of the node and the database agree on
\* whether it is in the game.
CacheAgrees ==
    \A i \in DOMAIN store.base :
        LET b == store.base[i]
        IN  Sure(b.acc) /\ ~Busy(b.acc) =>
               (b.uid \in lua.players <=>
                    b.uid \in DOMAIN store.detail /\ store.detail[b.uid])

\* Together: accounts, players and what is told of them stay one to one.
PlayersRight == OnePlayer /\ CacheAgrees

\* Every enter and leave ends, whatever happens to the proxies and to the
\* answers.
EveryoneEnds ==
    \A c \in 1..MaxCo :
        []<>(c \in DOMAIN lua.coroutines => ~Waiting(lua, c))
=============================================================================
