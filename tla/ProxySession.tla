---------------------------- MODULE ProxySession ----------------------------
(***************************************************************************)
(* A player's way into the game through a proxy (node/proxy/logic): the    *)
(* client names its account, the web node verifies it                      *)
(* (web/logic: OnConnectProxyVerify), the client asks to enter, a player   *)
(* node answers with its uid, and from then on the proxy forwards by uid.  *)
(*                                                                         *)
(* Everything the proxy remembers of a client is keyed by its socket, and  *)
(* the questions to the other nodes carry the socket's number and come     *)
(* back with it: an answer may find the socket closed, or taken by the     *)
(* next client.  TCP and WebSocket clients take the same path.             *)
(*                                                                         *)
(* The web node answers in order; a player node answers from a coroutine   *)
(* per request, in any order.  The heartbeat check may find a client       *)
(* silent for HEATBEAT_TIMEOUT at any time: ages are left out.             *)
(***************************************************************************)
EXTENDS Naturals, Sequences
LOCAL INSTANCE FiniteSetsExt

CONSTANTS
  Fd,          \* socket numbers of the clients
  Account,     \* account ids
  Known,       \* those the web node has in login_info_
  Uid,         \* player ids
  UidOf,       \* the player each account has
  NoAccount,   \* no account
  Lossy,       \* sockets whose questions and answers may be lost between nodes
  MaxInFlight  \* bound: questions to the other nodes under way, with answers

ASSUME FdAssumption == 0 \notin Fd
ASSUME AccountAssumption == Known \subseteq Account /\ NoAccount \notin Account
ASSUME UidAssumption ==
  /\ 0 \notin Uid
  /\ UidOf \in [Account -> Uid]
  /\ \A a, b \in Account : UidOf[a] = UidOf[b] => a = b
ASSUME BoundAssumption == MaxInFlight \in Nat
ASSUME LossyAssumption == Lossy \subseteq Fd

VARIABLES
  open,       \* sockets in the proxy's Net
  sessions,   \* sessions_[fd].account_id, NoAccount when there is none
  account,    \* players_[fd].account_id, NoAccount when there is none
  uid,        \* players_[fd].uid
  asked,      \* players_[fd].player_node > 0
  socks,      \* players_socks_, 0 when there is none
  schedules,  \* uids with a HeatbeatCheck schedule
  verifying,  \* questions to the web node and its answers, in order
  entering,   \* questions to the player nodes: how many for a socket and account
  entered,    \* their answers: how many for a socket and account
  names,      \* history: accounts the socket's client has named
  fresh       \* history: sockets whose number nothing held when it was given
              \*   out: no question, no answer, no route

players == <<account, uid, asked>>
nodes == <<verifying, entering, entered>>
history == <<names, fresh>>
vars == <<open, sessions, players, socks, schedules, nodes, history>>

IsPlayer(fd) == account[fd] # NoAccount

TypeOK ==
  /\ open \subseteq Fd
  /\ sessions \in [Fd -> Account \cup {NoAccount}]
  /\ account \in [Fd -> Account \cup {NoAccount}]
  /\ uid \in [Fd -> Uid \cup {0}]
  /\ asked \in [Fd -> BOOLEAN]
  /\ socks \in [Uid -> Fd \cup {0}]
  /\ schedules \subseteq Uid
  /\ verifying \in Seq([fd : Fd, account : Account])
  /\ entering \in [Fd -> [Account -> Nat]]
  /\ entered \in [Fd -> [Account -> Nat]]
  /\ names \in [Fd -> SUBSET Account]
  /\ fresh \subseteq Fd

Init ==
  /\ open = {}
  /\ sessions = [fd \in Fd |-> NoAccount]
  /\ account = [fd \in Fd |-> NoAccount]
  /\ uid = [fd \in Fd |-> 0]
  /\ asked = [fd \in Fd |-> FALSE]
  /\ socks = [u \in Uid |-> 0]
  /\ schedules = {}
  /\ verifying = <<>>
  /\ entering = [fd \in Fd |-> [a \in Account |-> 0]]
  /\ entered = [fd \in Fd |-> [a \in Account |-> 0]]
  /\ names = [fd \in Fd |-> {}]
  /\ fresh = {}

-----------------------------------------------------------------------------
(* The clients. *)

(* Does a question, or its answer, name the socket? *)
Verifying(fd) == \E i \in DOMAIN verifying : verifying[i].fd = fd
Entering(fd) == \E a \in Account : entering[fd][a] + entered[fd][a] > 0

(* How many questions and answers are under way between the nodes. *)
UnderWay ==
  Len(verifying) + MapThenSumSet(LAMBDA q : entering[q[1]][q[2]] + entered[q[1]][q[2]], Fd \X Account)

(* Does an entry of players_socks_ lead to it? *)
Routed(fd) == \E u \in Uid : socks[u] = fd

(* accept() returns any number that is closed, whatever still names it.    *)
ClientConnects(fd) ==
  /\ fd \notin open
  /\ open' = open \cup {fd}
  /\ fresh' = IF Verifying(fd) \/ Entering(fd) \/ Routed(fd) THEN fresh \ {fd} ELSE fresh \cup {fd}
  /\ UNCHANGED <<sessions, players, socks, schedules, nodes, names>>

(* OnReqConnect: the session is stored under the socket, over the one that *)
(* may be there, and the question goes to the web node the client logged   *)
(* in at.  A client may name an account at any time and any number of      *)
(* times, in the game as well.                                             *)
OnReqConnect(fd, a) ==
  /\ fd \in open
  /\ UnderWay < MaxInFlight
  /\ sessions' = [sessions EXCEPT ![fd] = a]
  /\ verifying' = Append(verifying, [fd |-> fd, account |-> a])
  /\ names' = [names EXCEPT ![fd] = @ \cup {a}]
  /\ UNCHANGED <<open, players, socks, schedules, entering, entered, fresh>>

(* OnReqPlayerEnter; without a player node it only logs. *)
OnReqPlayerEnter(fd) ==
  /\ fd \in open
  /\ IsPlayer(fd)
  /\ ~asked[fd]
  /\ UnderWay < MaxInFlight
  /\ entering' = [entering EXCEPT ![fd][account[fd]] = @ + 1]
  /\ asked' = [asked EXCEPT ![fd] = TRUE]
  /\ UNCHANGED <<open, sessions, account, uid, socks, schedules, verifying, entered, history>>

RemoveSocksForgotten(fd) == UNCHANGED socks                      \* mutant

(* RemovePlayerConnInfo: the uid's entry goes with the player. *)
RemoveSocks(fd) ==
  socks' = IF uid[fd] \in Uid THEN [socks EXCEPT ![uid[fd]] = 0] ELSE socks

RemoveSchedule(fd) == schedules' = schedules \ {uid[fd]}

KeepSession(fd) == UNCHANGED sessions                            \* mutant
RemoveSession(fd) == sessions' = [sessions EXCEPT ![fd] = NoAccount]

(* The notice to the player node carries no uid and no module there        *)
(* handles it: it is left out.                                             *)
OnClientDisconnected(fd) ==
  /\ open' = open \ {fd}
  /\ RemoveSession(fd)
  /\ IF IsPlayer(fd)
     THEN /\ RemoveSchedule(fd)
          /\ RemoveSocks(fd)
          /\ account' = [account EXCEPT ![fd] = NoAccount]
          /\ uid' = [uid EXCEPT ![fd] = 0]
          /\ asked' = [asked EXCEPT ![fd] = FALSE]
     ELSE UNCHANGED <<schedules, socks, players>>
  /\ names' = [names EXCEPT ![fd] = {}]
  /\ UNCHANGED <<verifying, entering, entered, fresh>>

(* OnSocketEvent: EOF, ERROR or TIMEOUT. *)
ClientCloses(fd) ==
  /\ fd \in open
  /\ OnClientDisconnected(fd)

(* OnHeatbeatCheck of a schedule, for a uid silent for too long; one that  *)
(* is not there or not silent changes nothing.                             *)
OnHeatbeatCheck(u) ==
  /\ u \in schedules
  /\ socks[u] # 0
  /\ IsPlayer(socks[u])
  /\ OnClientDisconnected(socks[u])

-----------------------------------------------------------------------------
(* The answers. *)

(* What OnConnectProxyVerify answers about an account: the socket it was   *)
(* asked for only comes back with a success.                               *)
AckCode(a) == IF a \in Known THEN 0 ELSE 1
AckSession(q) == IF AckCode(q.account) = 0 THEN q.fd ELSE 0

HasSession(fd) == sessions[fd] # NoAccount

OnNAckConnectVerify ==
  /\ verifying # <<>>
  /\ verifying' = Tail(verifying)
  /\ LET q  == Head(verifying)
         fd == AckSession(q) IN
     /\ IF fd \in Fd /\ HasSession(fd)
        THEN /\ RemoveSession(fd)
             /\ account' = IF AckCode(q.account) = 0
                           THEN [account EXCEPT ![fd] = sessions[fd]] ELSE account
        ELSE UNCHANGED <<sessions, account>>
  /\ UNCHANGED <<open, uid, asked, socks, schedules, entering, entered, history>>

(* The player node finds the account's player, caches it and answers: how  *)
(* it does is PlayerMgr's matter.                                          *)
PlayerNodeEnters(fd, a) ==
  /\ entering[fd][a] > 0
  /\ entering' = [entering EXCEPT ![fd][a] = @ - 1]
  /\ entered' = [entered EXCEPT ![fd][a] = @ + 1]
  /\ UNCHANGED <<open, sessions, players, socks, schedules, verifying, history>>


(* GetPlayerConnInfoByUID finds a player behind the uid. *)
HasEntered(u) == socks[u] # 0 /\ IsPlayer(socks[u])

(* The sockets that SendToPlayer writes to what a player node sends to a   *)
(* uid (OnRecivedPlayerNodeMsg).                                           *)
SendToPlayer(u) == IF HasEntered(u) THEN {socks[u]} ELSE {}

(* The uids under which what a client sends is forwarded to the player     *)
(* nodes: it needs to have asked one, not to have its answer.              *)
OnOtherMessage(fd) == IF IsPlayer(fd) /\ asked[fd] THEN {uid[fd]} ELSE {}

TakesOnlyUnasked(fd) == IsPlayer(fd) /\ ~asked[fd]               \* mutant
TakesAnySocket(fd) == TRUE                                       \* mutant
Takes(fd) == IsPlayer(fd)

OnAckPlayerEnter(fd, a) ==
  LET u == UidOf[a] IN
  /\ entered[fd][a] > 0
  /\ entered' = [entered EXCEPT ![fd][a] = @ - 1]
  /\ IF ~HasEntered(u) /\ Takes(fd)
     THEN /\ socks' = [socks EXCEPT ![u] = fd]
          /\ uid' = [uid EXCEPT ![fd] = u]
          /\ schedules' = schedules \cup {u}
     ELSE UNCHANGED <<socks, uid, schedules>>
  /\ UNCHANGED <<open, sessions, account, asked, verifying, entering, history>>

(* A connection between two nodes is lost with what it carried: here a     *)
(* question or an answer at a time, for the web node the oldest one.       *)
VerifyLost ==
  /\ verifying # <<>>
  /\ Head(verifying).fd \in Lossy
  /\ verifying' = Tail(verifying)
  /\ UNCHANGED <<open, sessions, players, socks, schedules, entering, entered, history>>

EnterLost(fd, a) ==
  /\ fd \in Lossy
  /\ \/ /\ entering[fd][a] > 0
        /\ entering' = [entering EXCEPT ![fd][a] = @ - 1]
        /\ UNCHANGED entered
     \/ /\ entered[fd][a] > 0
        /\ entered' = [entered EXCEPT ![fd][a] = @ - 1]
        /\ UNCHANGED entering
  /\ UNCHANGED <<open, sessions, players, socks, schedules, verifying, history>>

Next ==
  \/ \E fd \in Fd : ClientConnects(fd)
  \/ \E fd \in Fd, a \in Account : OnReqConnect(fd, a)
  \/ \E fd \in Fd : OnReqPlayerEnter(fd)
  \/ \E fd \in Fd : ClientCloses(fd)
  \/ \E u \in Uid : OnHeatbeatCheck(u)
  \/ OnNAckConnectVerify
  \/ \E fd \in Fd, a \in Account : PlayerNodeEnters(fd, a)
  \/ \E fd \in Fd, a \in Account : OnAckPlayerEnter(fd, a)
  \/ VerifyLost
  \/ \E fd \in Fd, a \in Account : EnterLost(fd, a)

Spec == Init /\ [][Next]_vars

(* The nodes read what reaches them and the player nodes finish what they  *)
(* started; clients do as they like.                                       *)
Fairness ==
  /\ WF_vars(OnNAckConnectVerify)
  /\ \A fd \in Fd, a \in Account :
       WF_vars(PlayerNodeEnters(fd, a)) /\ WF_vars(OnAckPlayerEnter(fd, a))

FairSpec == Spec /\ Fairness

-----------------------------------------------------------------------------
(* Properties *)

(* What the player nodes send to a uid reaches the client that entered     *)
(* with it, and nobody else is behind it: players_socks_ and players_ name *)
(* each other, across disconnections, timeouts, repeated logins and other  *)
(* accounts named meanwhile.  The one exception: a socket whose number was *)
(* given out while a question, an answer or a route still named it.        *)
RoutesMatch ==
  \A u \in Uid : socks[u] \in fresh => IsPlayer(socks[u]) /\ uid[socks[u]] = u

(* A client in the game stays reachable under its uid until it leaves,     *)
(* whoever else enters, and on whatever socket.                            *)
Reachable == \A fd \in Fd : uid[fd] # 0 => socks[uid[fd]] = fd

(* Is it the player of an account that the socket's client has named? *)
OwnUid(fd, u) == \E acc \in names[fd] : u = UidOf[acc]

(* A client has an account it named itself, on any socket; and its player  *)
(* is one of an account it named, whatever answers were under way for      *)
(* others, unless it came to a socket that something still named.          *)
OwnPlayer ==
  /\ \A fd \in Fd : IsPlayer(fd) => account[fd] \in names[fd]
  /\ \A fd \in fresh : uid[fd] # 0 => IsPlayer(fd) /\ OwnUid(fd, uid[fd])

(* Who is a player has named an account the web node knows: a client that  *)
(* names one account only was verified under it.                           *)
OnlyVerified == \A fd \in fresh : IsPlayer(fd) => names[fd] \cap Known # {}

(* The heartbeat of a uid is checked exactly while a client is behind it.  *)
CheckedWhileOnline == \A u \in Uid : u \in schedules <=> socks[u] # 0

(* Nothing is kept for a closed socket. *)
NothingBehindClosed == \A fd \in Fd \ open : sessions[fd] = NoAccount /\ ~IsPlayer(fd)

(* The tables of the proxy agree with each other: routes, players and the  *)
(* schedules of the heartbeat.                                             *)
RoutesAgree == TypeOK /\ RoutesMatch /\ CheckedWhileOnline

(* What a client sends reaches the player nodes as a player of its own, or *)
(* as nobody while the enter is under way, and what they send to a player  *)
(* is written only to a client of that player's account.                   *)
SentAsOwn ==
  /\ \A fd \in fresh : \A u \in OnOtherMessage(fd) : u = 0 \/ OwnUid(fd, u)
  /\ \A u \in Uid : \A fd \in SendToPlayer(u) \cap fresh : IsPlayer(fd) /\ OwnUid(fd, u)

(* Each client in the game acts as the verified player of its own account. *)
OwnVerifiedPlayer == OwnPlayer /\ OnlyVerified /\ SentAsOwn

(* Who is in the game is reachable, and who has gone leaves nothing behind.*)
NothingLost == Reachable /\ NothingBehindClosed

(* Who is behind a player of an account that a client names is the client  *)
(* itself, which entered with it.                                          *)
NobodyInTheWay ==
  \A fd \in open : \A acc \in names[fd] :
    HasEntered(UidOf[acc]) => socks[UidOf[acc]] = fd /\ uid[fd] = UidOf[acc]

(* No client whose messages arrive waits for ever on a known account,      *)
(* whatever is lost of the others: its verification comes to an end, and   *)
(* so does its entering, as long as nothing leads elsewhere from a player  *)
(* it names.  One that finds another client there, or the route that an    *)
(* earlier client of its socket left, does wait for ever: its answer is    *)
(* dropped, and having asked it may not ask again.                         *)
AnswersTakeEffect ==
  []NobodyInTheWay =>
    \A fd \in Fd \ Lossy :
      /\ sessions[fd] \in Known ~> (IsPlayer(fd) \/ fd \notin open)
      /\ asked[fd] ~> (uid[fd] # 0 \/ ~asked[fd])

=============================================================================
