---------------------------- MODULE PlayerProofs ----------------------------
(***************************************************************************)
(* Proofs about the two ends of a player's way into the game.              *)
(*                                                                         *)
(* First ProxySession, for any sockets, accounts and players, in two       *)
(* layers: what holds of every client (UInv), and what holds of a client   *)
(* whose socket's number nothing held when it came (FInv).                 *)
(*                                                                         *)
(* Then PlayerMgr, for any accounts, proxies and bounds, in two layers:    *)
(* what holds of the coroutines, their numbers and the messages whatever   *)
(* fails (CoreInv), and, on top of it, what holds of an account of which   *)
(* nothing failed or overlapped (PlayersInv).                              *)
(***************************************************************************)
EXTENDS ProxySession, PlayerMgr, SequenceTheorems, WellFoundedInduction,
        FiniteSetTheorems, TLAPS

(* Only a player has a uid or a player node. *)
PlayerInv == \A fd \in Fd : ~IsPlayer(fd) => uid[fd] = 0 /\ ~asked[fd]

(* The session and the account of a socket are what its client named. *)
NamesInv ==
  \A fd \in Fd : /\ HasSession(fd) => sessions[fd] \in names[fd]
                 /\ IsPlayer(fd) => account[fd] \in names[fd]

UInv == TypeOK /\ NothingBehindClosed /\ PlayerInv /\ NamesInv /\ Reachable /\ CheckedWhileOnline

(* A fresh socket has at most one question to the player nodes under way,  *)
(* about an account its client named; and while it has one, its client has *)
(* no uid yet and may not ask again.                                       *)
Count(fd, a) == entering[fd][a] + entered[fd][a]
OnceInv ==
  /\ \A fd \in fresh : uid[fd] # 0 => asked[fd]
  /\ \A fd \in fresh, a \in Account :
       /\ Count(fd, a) > 0 => uid[fd] = 0 /\ (fd \in open => asked[fd] /\ a \in names[fd])
       /\ Count(fd, a) <= 1
       /\ \A b \in Account : Count(fd, a) > 0 /\ Count(fd, b) > 0 => a = b

(* So are the questions to the web node. *)
VerifyInv ==
  \A i \in DOMAIN verifying :
    verifying[i].fd \in fresh \cap open => verifying[i].account \in names[verifying[i].fd]

FInv == OnceInv /\ VerifyInv /\ RoutesMatch /\ OwnPlayer /\ OnlyVerified
IInv == UInv /\ FInv

-----------------------------------------------------------------------------
(* The unconditional layer. *)

LEMMA InitUInv == Init => UInv
BY DEF Init, UInv, TypeOK, NothingBehindClosed, PlayerInv, NamesInv, Reachable, CheckedWhileOnline,
   IsPlayer, HasSession

(* What the end of a connection does to the tables. *)
LEMMA DisconnectEffect ==
  ASSUME UInv, NEW fd \in Fd, OnClientDisconnected(fd)
  PROVE  /\ open' = open \ {fd}
         /\ sessions' = [sessions EXCEPT ![fd] = NoAccount]
         /\ names' = [names EXCEPT ![fd] = {}]
         /\ UNCHANGED <<verifying, entering, entered, fresh>>
         /\ account' = [account EXCEPT ![fd] = NoAccount]
         /\ uid' = [uid EXCEPT ![fd] = 0]
         /\ asked' = [asked EXCEPT ![fd] = FALSE]
         /\ schedules' = schedules \ {uid[fd]}
         /\ socks' = IF uid[fd] \in Uid THEN [socks EXCEPT ![uid[fd]] = 0] ELSE socks
<1>1. /\ open' = open \ {fd}
      /\ sessions' = [sessions EXCEPT ![fd] = NoAccount]
      /\ names' = [names EXCEPT ![fd] = {}]
      /\ UNCHANGED <<verifying, entering, entered, fresh>>
  BY DEF OnClientDisconnected, RemoveSession
<1>2. CASE IsPlayer(fd)
  BY <1>1, <1>2 DEF OnClientDisconnected, RemoveSchedule, RemoveSocks
<1>3. CASE ~IsPlayer(fd)
  <2>1. UNCHANGED <<schedules, socks, account, uid, asked>>
    BY <1>3 DEF OnClientDisconnected, players
  <2>2. uid[fd] = 0 /\ asked[fd] = FALSE /\ account[fd] = NoAccount
    BY <1>3 DEF UInv, TypeOK, PlayerInv, IsPlayer
  <2>3. schedules \ {0} = schedules
    BY UidAssumption DEF UInv, TypeOK
  <2>. QED BY <1>1, <2>1, <2>2, <2>3, UidAssumption DEF UInv, TypeOK
<1>. QED BY <1>2, <1>3

LEMMA DisconnectUInv ==
  ASSUME UInv, NEW fd \in Fd, OnClientDisconnected(fd)
  PROVE  UInv'
<1>1. /\ open' = open \ {fd}
      /\ sessions' = [sessions EXCEPT ![fd] = NoAccount]
      /\ names' = [names EXCEPT ![fd] = {}]
      /\ UNCHANGED <<verifying, entering, entered, fresh>>
      /\ account' = [account EXCEPT ![fd] = NoAccount]
      /\ uid' = [uid EXCEPT ![fd] = 0]
      /\ asked' = [asked EXCEPT ![fd] = FALSE]
      /\ schedules' = schedules \ {uid[fd]}
      /\ socks' = IF uid[fd] \in Uid THEN [socks EXCEPT ![uid[fd]] = 0] ELSE socks
  BY DisconnectEffect
<1>2. TypeOK'
  BY <1>1 DEF UInv, TypeOK
<1>3. NothingBehindClosed'
  BY <1>1 DEF UInv, TypeOK, NothingBehindClosed, IsPlayer
<1>4. PlayerInv' /\ NamesInv'
  BY <1>1 DEF UInv, TypeOK, PlayerInv, NamesInv, IsPlayer, HasSession
<1>5. Reachable'
  BY <1>1, UidAssumption DEF UInv, TypeOK, Reachable
<1>6. CheckedWhileOnline'
  BY <1>1, UidAssumption DEF UInv, TypeOK, CheckedWhileOnline
<1>. QED BY <1>2, <1>3, <1>4, <1>5, <1>6 DEF UInv

(* A message less under way keeps the counts natural numbers. *)
LEMMA FewerInType ==
  ASSUME NEW f \in [Fd -> [Account -> Nat]], NEW fd \in Fd, NEW a \in Account, f[fd][a] > 0
  PROVE  [f EXCEPT ![fd][a] = @ - 1] \in [Fd -> [Account -> Nat]]
<1>1. f[fd] \in [Account -> Nat] /\ f[fd][a] - 1 \in Nat
  OBVIOUS
<1>2. [f[fd] EXCEPT ![a] = @ - 1] \in [Account -> Nat]
  BY <1>1
<1>. QED BY <1>2

(* What an answer of the web node does, whatever it says. *)
LEMMA VerifyEffect ==
  ASSUME UInv, OnNAckConnectVerify
  PROVE  /\ verifying # <<>>
         /\ verifying' = Tail(verifying)
         /\ Head(verifying) \in [fd : Fd, account : Account]
         /\ \/ UNCHANGED <<sessions, account>>
            \/ \E fd \in Fd :
                 /\ fd = Head(verifying).fd
                 /\ Head(verifying).account \in Known
                 /\ HasSession(fd)
                 /\ sessions' = [sessions EXCEPT ![fd] = NoAccount]
                 /\ account' = [account EXCEPT ![fd] = sessions[fd]]
<1>. DEFINE q == Head(verifying)
<1>1. verifying # <<>> /\ verifying' = Tail(verifying)
  BY DEF OnNAckConnectVerify
<1>2. q \in [fd : Fd, account : Account]
  <2>1. verifying \in Seq([fd : Fd, account : Account])
    BY DEF UInv, TypeOK
  <2>. QED BY <1>1, <2>1, HeadTailProperties
<1>3. CASE AckSession(q) \in Fd /\ HasSession(AckSession(q))
  <2>1. AckCode(q.account) = 0 /\ AckSession(q) = q.fd /\ q.account \in Known
    BY <1>3, FdAssumption DEF AckSession, AckCode
  <2>2. /\ sessions' = [sessions EXCEPT ![q.fd] = NoAccount]
        /\ account' = [account EXCEPT ![q.fd] = sessions[q.fd]]
    BY <1>3, <2>1 DEF OnNAckConnectVerify, RemoveSession
  <2>. QED BY <1>1, <1>2, <1>3, <2>1, <2>2
<1>4. CASE ~(AckSession(q) \in Fd /\ HasSession(AckSession(q)))
  <2>1. UNCHANGED <<sessions, account>>
    BY <1>4 DEF OnNAckConnectVerify
  <2>. QED BY <1>1, <1>2, <2>1
<1>. QED BY <1>3, <1>4

(* What an answer of a player node does: its client enters, or nothing.    *)
LEMMA EnterEffect ==
  ASSUME UInv, NEW fd \in Fd, NEW a \in Account, OnAckPlayerEnter(fd, a), NEW u, u = UidOf[a]
  PROVE  /\ u \in Uid
         /\ entered[fd][a] > 0
         /\ entered' = [entered EXCEPT ![fd][a] = @ - 1]
         /\ \/ UNCHANGED <<socks, uid, schedules>>
            \/ /\ ~HasEntered(u)
               /\ IsPlayer(fd)
               /\ socks' = [socks EXCEPT ![u] = fd]
               /\ uid' = [uid EXCEPT ![fd] = u]
               /\ schedules' = schedules \cup {u}
BY UidAssumption DEF OnAckPlayerEnter, Takes

LEMMA NextUInv == UInv /\ [Next]_vars => UInv'
<1>. SUFFICES ASSUME UInv, [Next]_vars PROVE UInv'
  OBVIOUS
<1>0. \/ \E fd \in Fd : ClientConnects(fd)
      \/ \E fd \in Fd, a \in Account : OnReqConnect(fd, a)
      \/ \E fd \in Fd : OnReqPlayerEnter(fd)
      \/ \E fd \in Fd : ClientCloses(fd)
      \/ \E u \in Uid : OnHeatbeatCheck(u)
      \/ OnNAckConnectVerify
      \/ \E fd \in Fd, a \in Account : PlayerNodeEnters(fd, a)
      \/ \E fd \in Fd, a \in Account : OnAckPlayerEnter(fd, a)
      \/ VerifyLost
      \/ \E fd \in Fd, a \in Account : EnterLost(fd, a)
      \/ UNCHANGED vars
  BY Zenon DEF Next
<1>. USE DEF UInv
<1>. DEFINE Rest == NothingBehindClosed' /\ PlayerInv' /\ NamesInv' /\ Reachable' /\ CheckedWhileOnline'
<1>s. ASSUME UNCHANGED <<open, sessions, players, socks, schedules, names>> PROVE Rest
  BY <1>s DEF players, NothingBehindClosed, PlayerInv, NamesInv, Reachable, CheckedWhileOnline, IsPlayer, HasSession
<1>1. ASSUME NEW fd \in Fd, ClientConnects(fd) PROVE UInv'
  <2>1. TypeOK'
    BY <1>1 DEF ClientConnects, TypeOK, players, nodes
  <2>2. Rest
    BY <1>1 DEF ClientConnects, players, NothingBehindClosed, PlayerInv, NamesInv, Reachable, CheckedWhileOnline, IsPlayer, HasSession
  <2>. QED BY <2>1, <2>2
<1>2. ASSUME NEW fd \in Fd, NEW a \in Account, OnReqConnect(fd, a) PROVE UInv'
  <2>1. TypeOK'
    BY <1>2 DEF OnReqConnect, TypeOK, players
  <2>2. Rest
    BY <1>2 DEF OnReqConnect, players, TypeOK, NothingBehindClosed, PlayerInv, NamesInv, Reachable, CheckedWhileOnline, IsPlayer, HasSession
  <2>. QED BY <2>1, <2>2
<1>3. ASSUME NEW fd \in Fd, OnReqPlayerEnter(fd) PROVE UInv'
  <2>1. account[fd] \in Account
    BY <1>3 DEF OnReqPlayerEnter, IsPlayer, TypeOK
  <2>2. TypeOK'
    BY <1>3, <2>1 DEF OnReqPlayerEnter, TypeOK, history
  <2>3. Rest
    BY <1>3 DEF OnReqPlayerEnter, TypeOK, history, NothingBehindClosed, PlayerInv, NamesInv, Reachable, CheckedWhileOnline, IsPlayer, HasSession
  <2>. QED BY <2>2, <2>3
<1>4. ASSUME NEW fd \in Fd, ClientCloses(fd) PROVE UInv'
  BY <1>4, DisconnectUInv DEF ClientCloses
<1>5. ASSUME NEW u \in Uid, OnHeatbeatCheck(u) PROVE UInv'
  <2>1. socks[u] \in Fd /\ OnClientDisconnected(socks[u])
    BY <1>5 DEF OnHeatbeatCheck, TypeOK
  <2>. QED BY <2>1, DisconnectUInv
<1>6. ASSUME OnNAckConnectVerify PROVE UInv'
  <2>0. UNCHANGED <<open, uid, asked, socks, schedules, entering, entered, names, fresh>>
    BY <1>6 DEF OnNAckConnectVerify, history
  <2>1. verifying' \in Seq([fd : Fd, account : Account])
    <3>1. verifying \in Seq([fd : Fd, account : Account])
      BY DEF TypeOK
    <3>. QED BY <1>6, <3>1, VerifyEffect, HeadTailProperties
  <2>2. CASE UNCHANGED <<sessions, account>>
    BY <2>0, <2>1, <2>2, <1>s DEF TypeOK, players
  <2>3. ASSUME NEW fd \in Fd, HasSession(fd),
               sessions' = [sessions EXCEPT ![fd] = NoAccount],
               account' = [account EXCEPT ![fd] = sessions[fd]]
        PROVE  UInv'
    <3>1. TypeOK'
      BY <2>0, <2>1, <2>3 DEF TypeOK
    <3>2. Rest
      BY <2>0, <2>3 DEF TypeOK, NothingBehindClosed, PlayerInv, NamesInv, Reachable, CheckedWhileOnline, IsPlayer, HasSession
    <3>. QED BY <3>1, <3>2
  <2>. QED BY <1>6, <2>2, <2>3, VerifyEffect
<1>7. ASSUME NEW fd \in Fd, NEW a \in Account, PlayerNodeEnters(fd, a) PROVE UInv'
  <2>1. TypeOK'
    BY <1>7 DEF PlayerNodeEnters, TypeOK, players, history
  <2>. QED BY <1>7, <2>1, <1>s DEF PlayerNodeEnters, history
<1>8. ASSUME NEW fd \in Fd, NEW a \in Account, OnAckPlayerEnter(fd, a) PROVE UInv'
  <2>. DEFINE u == UidOf[a]
  <2>0. UNCHANGED <<open, sessions, account, asked, verifying, entering, names, fresh>>
    BY <1>8 DEF OnAckPlayerEnter, history
  <2>1. /\ u \in Uid
        /\ entered' = [entered EXCEPT ![fd][a] = @ - 1]
        /\ entered[fd][a] > 0
    BY <1>8, EnterEffect
  <2>2. CASE UNCHANGED <<socks, uid, schedules>>
    <3>1. TypeOK'
      BY <2>0, <2>1, <2>2, FewerInType DEF TypeOK
    <3>. QED BY <2>0, <2>2, <3>1, <1>s DEF players
  <2>3. CASE /\ ~HasEntered(u)
             /\ IsPlayer(fd)
             /\ socks' = [socks EXCEPT ![u] = fd]
             /\ uid' = [uid EXCEPT ![fd] = u]
             /\ schedules' = schedules \cup {u}
    <3>1. TypeOK'
      BY <2>0, <2>1, <2>3, FewerInType DEF TypeOK
    <3>2. NothingBehindClosed' /\ PlayerInv' /\ NamesInv'
      BY <2>0, <2>3 DEF TypeOK, NothingBehindClosed, PlayerInv, NamesInv, IsPlayer, HasSession
    <3>3. ASSUME NEW g \in Fd, uid[g] = u PROVE FALSE
      BY <2>1, <2>3, <3>3, UidAssumption, FdAssumption
         DEF Reachable, HasEntered, PlayerInv
    <3>4. Reachable'
      BY <2>1, <2>3, <3>3 DEF TypeOK, Reachable
    <3>5. CheckedWhileOnline'
      BY <2>1, <2>3, FdAssumption DEF TypeOK, CheckedWhileOnline
    <3>. QED BY <3>1, <3>2, <3>4, <3>5
  <2>. QED BY <1>8, <2>2, <2>3, EnterEffect
<1>9. CASE VerifyLost
  <2>0. verifying' \in Seq([fd : Fd, account : Account])
    <3>1. verifying \in Seq([fd : Fd, account : Account])
      BY DEF TypeOK
    <3>. QED BY <1>9, <3>1, HeadTailProperties DEF VerifyLost
  <2>1. TypeOK'
    BY <1>9, <2>0 DEF VerifyLost, TypeOK, players, history
  <2>. QED BY <1>9, <2>1, <1>s DEF VerifyLost, history
<1>10. ASSUME NEW fd \in Fd, NEW a \in Account, EnterLost(fd, a) PROVE UInv'
  <2>1. UNCHANGED <<open, sessions, players, socks, schedules, verifying, names, fresh>>
    BY <1>10 DEF EnterLost, history
  <2>2. /\ entering \in [Fd -> [Account -> Nat]]
        /\ entered \in [Fd -> [Account -> Nat]]
    BY DEF TypeOK
  <2>3. CASE /\ entering[fd][a] > 0
             /\ entering' = [entering EXCEPT ![fd][a] = @ - 1]
             /\ UNCHANGED entered
    <3>1. TypeOK'
      BY <2>1, <2>2, <2>3, FewerInType DEF TypeOK, players
    <3>. QED BY <2>1, <3>1, <1>s
  <2>4. CASE /\ entered[fd][a] > 0
             /\ entered' = [entered EXCEPT ![fd][a] = @ - 1]
             /\ UNCHANGED entering
    <3>1. TypeOK'
      BY <2>1, <2>2, <2>4, FewerInType DEF TypeOK, players
    <3>. QED BY <2>1, <3>1, <1>s
  <2>. QED BY <1>10, <2>3, <2>4 DEF EnterLost
<1>11. CASE UNCHANGED vars
  <2>1. TypeOK'
    BY <1>11 DEF vars, players, nodes, history, TypeOK
  <2>. QED BY <1>11, <2>1, <1>s DEF vars, history
<1>. HIDE DEF UInv
<1>. QED BY <1>0, <1>1, <1>2, <1>3, <1>4, <1>5, <1>6, <1>7, <1>8, <1>9, <1>10, <1>11

(* UInv is an invariant of ProxySession. *)
THEOREM Invariance == Spec => []UInv
BY InitUInv, NextUInv, PTL DEF Spec

(* The variables keep their types. *)
THEOREM TypeCorrect == Spec => []TypeOK
<1>1. UInv => TypeOK
  BY DEF UInv
<1>. QED BY <1>1, Invariance, PTL

(* OnClientDisconnected leaves nothing of a closed socket, and no answer   *)
(* that comes after it makes a player of it.                               *)
THEOREM ClosedForgotten == Spec => []NothingBehindClosed
<1>1. UInv => NothingBehindClosed
  BY DEF UInv
<1>. QED BY <1>1, Invariance, PTL

(* Who is in the game stays reachable under its uid. *)
THEOREM StaysReachable == Spec => []Reachable
<1>1. UInv => Reachable
  BY DEF UInv
<1>. QED BY <1>1, Invariance, PTL

(* Who is in the game is reachable and who has gone leaves nothing behind. *)
THEOREM NothingEverLost == Spec => []NothingLost
<1>1. UInv => NothingLost
  BY DEF UInv, NothingLost
<1>. QED BY <1>1, Invariance, PTL


(* A uid's heartbeat is checked exactly while players_socks_ has it. *)
THEOREM HeartbeatsChecked == Spec => []CheckedWhileOnline
<1>1. UInv => CheckedWhileOnline
  BY DEF UInv
<1>. QED BY <1>1, Invariance, PTL

-----------------------------------------------------------------------------
(* The layer of the sockets whose number nothing held when it was given    *)
(* out.                                                                    *)

LEMMA InitFInv == Init => FInv
<1>. SUFFICES ASSUME Init PROVE FInv
  OBVIOUS
<1>. QED BY DEF Init, FInv, OnceInv, VerifyInv, RoutesMatch, OwnPlayer, OnlyVerified, IsPlayer

(* The elements of the rest of a queue, by their places in the queue. *)
LEMMA TailElements ==
  ASSUME NEW S, NEW s \in Seq(S), s # <<>>
  PROVE  /\ 1 \in DOMAIN s
         /\ Head(s) = s[1]
         /\ \A i \in DOMAIN Tail(s) : /\ i \in Nat
                                     /\ i + 1 \in DOMAIN s
                                     /\ i + 1 # 1
                                     /\ Tail(s)[i] = s[i + 1]
<1>1. Len(s) \in Nat \ {0} /\ DOMAIN s = 1 .. Len(s) /\ Head(s) = s[1]
  OBVIOUS
<1>2. DOMAIN Tail(s) = 1 .. Len(s) - 1
  BY HeadTailProperties
<1>. QED BY <1>1, <1>2, HeadTailProperties

\* Every verification under way names an fd and an account.
LEMMA WaitingTyped ==
  ASSUME TypeOK
  PROVE  /\ verifying \in Seq([fd : Fd, account : Account])
         /\ \A i \in DOMAIN verifying :
              verifying[i].fd \in Fd /\ verifying[i].account \in Account
<1>1. verifying \in Seq([fd : Fd, account : Account])
  BY DEF TypeOK
<1>2. ASSUME NEW i \in DOMAIN verifying
      PROVE  verifying[i] \in [fd : Fd, account : Account]
  <2>1. i \in 1 .. Len(verifying)
    BY <1>1
  <2>. QED BY <1>1, <2>1, ElementOfSeq
<1>. QED BY <1>1, <1>2

(* A client without a question to the player nodes has not asked, and one  *)
(* that has not asked has none.                                            *)
LEMMA MayAsk ==
  ASSUME IInv, NEW fd \in fresh, IsPlayer(fd), ~asked[fd], NEW a \in Account
  PROVE  entering[fd][a] = 0 /\ entered[fd][a] = 0
<1>1. fd \in Fd /\ fd \in open
  BY DEF IInv, UInv, TypeOK, NothingBehindClosed
<1>2. entering[fd][a] \in Nat /\ entered[fd][a] \in Nat
  BY <1>1 DEF IInv, UInv, TypeOK
<1>. QED BY <1>1, <1>2 DEF IInv, FInv, OnceInv, Count

(* Nothing of it is disturbed by what leaves the clients alone and has no  *)
(* more questions under way.                                               *)
LEMMA FInvOfFewer ==
  ASSUME IInv, TypeOK',
         UNCHANGED <<open, account, uid, asked, socks, names, fresh>>,
         verifying' = verifying \/ (verifying # <<>> /\ verifying' = Tail(verifying)),
         \A g \in Fd, b \in Account :
           entering'[g][b] + entered'[g][b] <= entering[g][b] + entered[g][b]
  PROVE  FInv'
<1>1. OnceInv'
  <2>. SUFFICES ASSUME NEW fd \in fresh, NEW a \in Account, NEW b \in Account
                PROVE /\ Count(fd, a)' > 0 => uid[fd] = 0 /\ (fd \in open => asked[fd] /\ a \in names[fd])
                      /\ Count(fd, a)' <= 1
                      /\ Count(fd, a)' > 0 /\ Count(fd, b)' > 0 => a = b
    BY DEF OnceInv, IInv, FInv
  <2>1. fd \in Fd
    BY DEF IInv, UInv, TypeOK
  <2>2. \A c \in Account :
          /\ entering[fd][c] \in Nat /\ entered[fd][c] \in Nat
          /\ entering'[fd][c] \in Nat /\ entered'[fd][c] \in Nat
    BY <2>1 DEF IInv, UInv, TypeOK
  <2>3. \A c \in Account :
          Count(fd, c) \in Nat /\ Count(fd, c)' \in Nat /\ Count(fd, c)' <= Count(fd, c)
    BY <2>1, <2>2 DEF Count
  <2>4. /\ Count(fd, a) > 0 => uid[fd] = 0 /\ (fd \in open => asked[fd] /\ a \in names[fd])
        /\ Count(fd, a) <= 1
        /\ Count(fd, a) > 0 /\ Count(fd, b) > 0 => a = b
    BY DEF IInv, FInv, OnceInv
  <2>. QED BY <2>3, <2>4
<1>2. VerifyInv'
  <2>1. CASE verifying' = verifying
    BY <2>1 DEF IInv, FInv, VerifyInv
  <2>2. CASE verifying # <<>> /\ verifying' = Tail(verifying)
    <3>1. verifying \in Seq([fd : Fd, account : Account])
      BY DEF IInv, UInv, TypeOK
    <3>2. \A i \in DOMAIN verifying' :
            i \in Nat /\ verifying'[i] = verifying[i + 1] /\ i + 1 \in DOMAIN verifying
      BY <2>2, <3>1, TailElements
    <3>. QED BY <3>2 DEF IInv, FInv, VerifyInv
  <2>. QED BY <2>1, <2>2
<1>3. RoutesMatch' /\ OwnPlayer' /\ OnlyVerified'
  BY DEF IInv, FInv, RoutesMatch, OwnPlayer, OnlyVerified, OwnUid, IsPlayer
<1>. QED BY <1>1, <1>2, <1>3 DEF FInv

(* The end of a connection takes its player's route along, and the only    *)
(* one that led to a fresh socket.                                         *)
LEMMA DisconnectFInv ==
  ASSUME IInv, NEW fd \in Fd, OnClientDisconnected(fd)
  PROVE  FInv'
<1>t. TypeOK /\ UInv
  BY DEF IInv, UInv
<1>1. /\ open' = open \ {fd}
      /\ names' = [names EXCEPT ![fd] = {}]
      /\ UNCHANGED <<verifying, entering, entered, fresh>>
      /\ account' = [account EXCEPT ![fd] = NoAccount]
      /\ uid' = [uid EXCEPT ![fd] = 0]
      /\ asked' = [asked EXCEPT ![fd] = FALSE]
      /\ socks' = IF uid[fd] \in Uid THEN [socks EXCEPT ![uid[fd]] = 0] ELSE socks
  BY <1>t, DisconnectEffect
<1>2. OnceInv'
  BY <1>t, <1>1 DEF IInv, FInv, OnceInv, Count, TypeOK
<1>3. VerifyInv'
  BY <1>t, <1>1, WaitingTyped DEF IInv, FInv, VerifyInv, TypeOK
<1>4. RoutesMatch'
  <2>1. ASSUME NEW u \in Uid, socks[u] = fd, fd \in fresh PROVE uid[fd] = u
    BY <2>1 DEF IInv, FInv, RoutesMatch
  <2>. QED BY <1>t, <1>1, <2>1, FdAssumption DEF IInv, FInv, RoutesMatch, IsPlayer, TypeOK
<1>5. OwnPlayer' /\ OnlyVerified'
  BY <1>t, <1>1 DEF IInv, FInv, OwnPlayer, OnlyVerified, OwnUid, IsPlayer, TypeOK
<1>. QED BY <1>2, <1>3, <1>4, <1>5 DEF FInv

LEMMA NextFInv == IInv /\ [Next]_vars => FInv'
<1>. SUFFICES ASSUME IInv, [Next]_vars PROVE FInv'
  OBVIOUS
<1>0. \/ \E fd \in Fd : ClientConnects(fd)
      \/ \E fd \in Fd, a \in Account : OnReqConnect(fd, a)
      \/ \E fd \in Fd : OnReqPlayerEnter(fd)
      \/ \E fd \in Fd : ClientCloses(fd)
      \/ \E u \in Uid : OnHeatbeatCheck(u)
      \/ OnNAckConnectVerify
      \/ \E fd \in Fd, a \in Account : PlayerNodeEnters(fd, a)
      \/ \E fd \in Fd, a \in Account : OnAckPlayerEnter(fd, a)
      \/ VerifyLost
      \/ \E fd \in Fd, a \in Account : EnterLost(fd, a)
      \/ UNCHANGED vars
  BY Zenon DEF Next
<1>t. /\ TypeOK /\ TypeOK' /\ UInv /\ FInv
      /\ \A fd \in fresh : fd \in Fd
  <2>1. UInv /\ FInv /\ TypeOK
    BY DEF IInv, UInv
  <2>2. TypeOK'
    BY <2>1, NextUInv DEF UInv
  <2>. QED BY <2>1, <2>2 DEF TypeOK
<1>v. /\ verifying \in Seq([fd : Fd, account : Account])
      /\ \A i \in DOMAIN verifying : verifying[i].fd \in Fd /\ verifying[i].account \in Account
  BY <1>t, WaitingTyped
<1>n. \A g \in Fd, b \in Account :
        /\ entering[g][b] \in Nat /\ entered[g][b] \in Nat
        /\ entering'[g][b] \in Nat /\ entered'[g][b] \in Nat
  BY <1>t DEF TypeOK
<1>1. ASSUME NEW fd \in Fd, ClientConnects(fd) PROVE FInv'
  <2>1. /\ fd \notin open
        /\ open' = open \cup {fd}
        /\ fresh' = IF Verifying(fd) \/ Entering(fd) \/ Routed(fd) THEN fresh \ {fd} ELSE fresh \cup {fd}
        /\ UNCHANGED <<account, uid, asked, socks, verifying, entering, entered, names>>
    BY <1>1 DEF ClientConnects, players, nodes
  <2>2. ~IsPlayer(fd) /\ uid[fd] = 0
    BY <1>t, <2>1 DEF UInv, NothingBehindClosed, PlayerInv
  <2>3. CASE fresh' = fresh \ {fd}
    <3>1. OnceInv'
      BY <2>1, <2>3 DEF FInv, OnceInv, Count, IInv
    <3>2. VerifyInv'
      BY <2>1, <2>3 DEF FInv, VerifyInv, IInv
    <3>3. RoutesMatch' /\ OwnPlayer' /\ OnlyVerified'
      BY <2>1, <2>3 DEF IInv, FInv, RoutesMatch, OwnPlayer, OnlyVerified, OwnUid, IsPlayer
    <3>. QED BY <3>1, <3>2, <3>3 DEF FInv
  <2>4. CASE fresh' = fresh \cup {fd} /\ ~Verifying(fd) /\ ~Entering(fd) /\ ~Routed(fd)
    <3>1. OnceInv'
      <4>1. \A b \in Account : Count(fd, b) = 0
        BY <1>n, <2>4 DEF Entering, Count
      <4>. QED BY <2>1, <2>2, <2>4, <4>1 DEF FInv, OnceInv, Count, IInv
    <3>2. VerifyInv'
      BY <2>1, <2>4 DEF FInv, VerifyInv, IInv, Verifying
    <3>3. RoutesMatch'
      BY <2>1, <2>4 DEF IInv, FInv, RoutesMatch, Routed, IsPlayer
    <3>4. OwnPlayer' /\ OnlyVerified'
      BY <2>1, <2>2, <2>4 DEF IInv, FInv, OwnPlayer, OnlyVerified, OwnUid, IsPlayer
    <3>. QED BY <3>1, <3>2, <3>3, <3>4 DEF FInv
  <2>. QED BY <2>1, <2>3, <2>4
<1>2. ASSUME NEW fd \in Fd, NEW a \in Account, OnReqConnect(fd, a) PROVE FInv'
  <2>. DEFINE q == [fd |-> fd, account |-> a]
  <2>1. /\ verifying' = Append(verifying, q)
        /\ names' = [names EXCEPT ![fd] = @ \cup {a}]
        /\ UNCHANGED <<open, account, uid, asked, socks, entering, entered, fresh>>
    BY <1>2 DEF OnReqConnect, players
  <2>2. \A g \in Fd : names[g] \subseteq names'[g]
    BY <1>t, <2>1 DEF TypeOK
  <2>3. a \in names'[fd]
    BY <1>t, <2>1 DEF TypeOK
  <2>4. /\ DOMAIN verifying' = 1 .. Len(verifying) + 1
        /\ \A i \in DOMAIN verifying : verifying'[i] = verifying[i]
        /\ verifying'[Len(verifying) + 1] = q
        /\ DOMAIN verifying = 1 .. Len(verifying)
        /\ Len(verifying) \in Nat
    BY <1>v, <2>1
  <2>5. VerifyInv'
    <3>1. SUFFICES ASSUME NEW i \in DOMAIN verifying', verifying'[i].fd \in fresh \cap open
                   PROVE  verifying'[i].account \in names'[verifying'[i].fd]
      BY <2>1 DEF VerifyInv
    <3>2. CASE i \in DOMAIN verifying
      BY <1>t, <1>v, <2>2, <2>4, <3>1, <3>2 DEF FInv, VerifyInv
    <3>3. CASE i = Len(verifying) + 1
      BY <2>3, <2>4, <3>3
    <3>. QED BY <2>4, <3>2, <3>3
  <2>6. OnceInv'
    BY <1>t, <2>1, <2>2 DEF FInv, OnceInv, Count
  <2>7. RoutesMatch' /\ OwnPlayer'
    BY <1>t, <2>1, <2>2 DEF FInv, RoutesMatch, OwnPlayer, OwnUid, IsPlayer
  <2>8. OnlyVerified'
    <3>1. \A g \in fresh : names[g] \cap Known # {} => names'[g] \cap Known # {}
      BY <1>t, <2>2
    <3>. QED BY <1>t, <2>1, <3>1 DEF FInv, OnlyVerified, IsPlayer
  <2>. QED BY <2>5, <2>6, <2>7, <2>8 DEF FInv
<1>3. ASSUME NEW fd \in Fd, OnReqPlayerEnter(fd) PROVE FInv'
  <2>. DEFINE a == account[fd]
  <2>1. /\ IsPlayer(fd)
        /\ ~asked[fd]
        /\ entering' = [entering EXCEPT ![fd][a] = @ + 1]
        /\ asked' = [asked EXCEPT ![fd] = TRUE]
        /\ UNCHANGED <<open, account, uid, socks, verifying, entered, names, fresh>>
    BY <1>3 DEF OnReqPlayerEnter, history
  <2>2. a \in Account /\ a \in names[fd]
    BY <1>t, <2>1 DEF TypeOK, IsPlayer, UInv, NamesInv
  <2>3. ASSUME fd \in fresh
        PROVE  /\ uid[fd] = 0
               /\ \A b \in Account : entering[fd][b] = 0 /\ entered[fd][b] = 0
    BY <1>t, <2>1, <2>3, MayAsk DEF FInv, OnceInv
  <2>4. OnceInv'
    <3>1. /\ asked'[fd] /\ uid'[fd] = uid[fd]
          /\ \A g \in Fd \ {fd} : asked'[g] = asked[g] /\ uid'[g] = uid[g]
                                 /\ entering'[g] = entering[g] /\ entered'[g] = entered[g]
      BY <1>t, <2>1 DEF TypeOK
    <3>2. fd \in fresh =>
            \A b \in Account : entered'[fd][b] = 0 /\ entering'[fd][b] = IF b = a THEN 1 ELSE 0
      BY <1>t, <2>1, <2>2, <2>3 DEF TypeOK
    <3>3. ASSUME NEW g \in fresh, NEW b \in Account, NEW c \in Account
          PROVE  /\ uid'[g] # 0 => asked'[g]
                 /\ Count(g, b)' > 0 => uid'[g] = 0 /\ (g \in open' => asked'[g] /\ b \in names'[g])
                 /\ Count(g, b)' <= 1
                 /\ Count(g, b)' > 0 /\ Count(g, c)' > 0 => b = c
      <4>1. CASE g = fd
        BY <2>1, <2>2, <2>3, <3>1, <3>2, <4>1 DEF Count
      <4>2. CASE g # fd
        BY <1>t, <2>1, <3>1, <4>2 DEF FInv, OnceInv, Count
      <4>. QED BY <4>1, <4>2
    <3>4. \A g \in fresh : uid'[g] # 0 => asked'[g]
      BY <1>t, <2>1, <3>1 DEF FInv, OnceInv
    <3>. QED BY <2>1, <3>3, <3>4 DEF OnceInv
  <2>5. VerifyInv' /\ RoutesMatch' /\ OwnPlayer' /\ OnlyVerified'
    BY <1>t, <2>1 DEF FInv, VerifyInv, RoutesMatch, OwnPlayer, OnlyVerified, OwnUid, IsPlayer
  <2>. QED BY <2>4, <2>5 DEF FInv
<1>4. ASSUME NEW fd \in Fd, ClientCloses(fd) PROVE FInv'
  BY <1>4, DisconnectFInv DEF ClientCloses
<1>5. ASSUME NEW u \in Uid, OnHeatbeatCheck(u) PROVE FInv'
  <2>1. socks[u] \in Fd /\ OnClientDisconnected(socks[u])
    BY <1>t, <1>5 DEF OnHeatbeatCheck, TypeOK
  <2>. QED BY <2>1, DisconnectFInv
<1>6. ASSUME OnNAckConnectVerify PROVE FInv'
  <2>0. UNCHANGED <<open, uid, asked, socks, entering, entered, names, fresh>>
    BY <1>6 DEF OnNAckConnectVerify, history
  <2>1. verifying # <<>> /\ verifying' = Tail(verifying)
    BY <1>t, <1>6, VerifyEffect
  <2>n. \A g \in Fd, b \in Account :
          entering'[g][b] + entered'[g][b] <= entering[g][b] + entered[g][b]
    BY <1>n, <2>0
  <2>2. CASE UNCHANGED <<sessions, account>>
    BY <1>t, <2>0, <2>1, <2>2, <2>n, FInvOfFewer
  <2>3. ASSUME NEW fd \in Fd,
               fd = Head(verifying).fd,
               Head(verifying).account \in Known,
               HasSession(fd),
               account' = [account EXCEPT ![fd] = sessions[fd]]
        PROVE  FInv'
    <3>1. /\ 1 \in DOMAIN verifying
          /\ Head(verifying) = verifying[1]
          /\ \A i \in DOMAIN verifying' : /\ i \in Nat
                                         /\ i + 1 \in DOMAIN verifying
                                         /\ verifying'[i] = verifying[i + 1]
      BY <1>v, <2>1, TailElements
    <3>2. fd \in open
      BY <1>t, <2>3 DEF UInv, NothingBehindClosed, HasSession
    <3>3. sessions[fd] \in names[fd] /\ sessions[fd] # NoAccount
      BY <1>t, <2>3 DEF UInv, NamesInv, HasSession
    <3>4. fd \in fresh => names[fd] \cap Known # {}
      BY <1>t, <2>3, <3>1, <3>2 DEF FInv, VerifyInv
    <3>5. \A g \in Fd : account'[g] = IF g = fd THEN sessions[fd] ELSE account[g]
      BY <1>t, <2>3 DEF TypeOK
    <3>6. OnceInv'
      BY <2>0, <1>t DEF FInv, OnceInv, Count
    <3>7. VerifyInv'
      BY <2>0, <3>1, <1>t DEF FInv, VerifyInv
    <3>8. RoutesMatch'
      BY <1>t, <2>0, <3>3, <3>5 DEF FInv, RoutesMatch, IsPlayer
    <3>9. OwnPlayer' /\ OnlyVerified'
      BY <1>t, <2>0, <3>3, <3>4, <3>5 DEF FInv, OwnPlayer, OnlyVerified, OwnUid, IsPlayer
    <3>. QED BY <3>6, <3>7, <3>8, <3>9 DEF FInv
  <2>. QED BY <1>t, <1>6, <2>2, <2>3, VerifyEffect
<1>7. ASSUME NEW fd \in Fd, NEW a \in Account, PlayerNodeEnters(fd, a) PROVE FInv'
  <2>1. /\ entering[fd][a] > 0
        /\ entering' = [entering EXCEPT ![fd][a] = @ - 1]
        /\ entered' = [entered EXCEPT ![fd][a] = @ + 1]
        /\ UNCHANGED <<open, account, uid, asked, socks, verifying, names, fresh>>
    BY <1>7 DEF PlayerNodeEnters, players, history
  <2>2. \A g \in Fd, b \in Account :
          entering'[g][b] + entered'[g][b] <= entering[g][b] + entered[g][b]
    BY <1>t, <2>1 DEF TypeOK
  <2>. QED BY <1>t, <2>1, <2>2, FInvOfFewer
<1>8. ASSUME NEW fd \in Fd, NEW a \in Account, OnAckPlayerEnter(fd, a) PROVE FInv'
  <2>. DEFINE u == UidOf[a]
  <2>0. UNCHANGED <<open, account, asked, verifying, entering, names, fresh>>
    BY <1>8 DEF OnAckPlayerEnter, history
  <2>1. /\ u \in Uid
        /\ entered[fd][a] > 0
        /\ entered' = [entered EXCEPT ![fd][a] = @ - 1]
    BY <1>t, <1>8, EnterEffect
  <2>2. \A g \in Fd, b \in Account :
          entering'[g][b] + entered'[g][b] <= entering[g][b] + entered[g][b]
    BY <1>t, <2>0, <2>1 DEF TypeOK
  <2>3. CASE UNCHANGED <<socks, uid, schedules>>
    BY <1>t, <2>0, <2>2, <2>3, FInvOfFewer
  <2>4. CASE /\ ~HasEntered(u)
             /\ IsPlayer(fd)
             /\ socks' = [socks EXCEPT ![u] = fd]
             /\ uid' = [uid EXCEPT ![fd] = u]
    <3>1. fd \in open
      BY <1>t, <2>4 DEF UInv, NothingBehindClosed
    <3>2. ASSUME fd \in fresh
          PROVE  /\ uid[fd] = 0 /\ asked[fd] /\ a \in names[fd]
                 /\ \A b \in Account : entering'[fd][b] + entered'[fd][b] = 0
      <4>1. Count(fd, a) > 0
        BY <1>n, <2>1 DEF Count
      <4>2. uid[fd] = 0 /\ asked[fd] /\ a \in names[fd] /\ Count(fd, a) <= 1
        BY <1>t, <3>1, <3>2, <4>1 DEF FInv, OnceInv
      <4>3. \A b \in Account : b # a => Count(fd, b) = 0
        BY <1>n, <1>t, <3>2, <4>1 DEF FInv, OnceInv, Count
      <4>4. \A b \in Account : entered'[fd][b] = IF b = a THEN entered[fd][a] - 1 ELSE entered[fd][b]
        BY <1>t, <2>1 DEF TypeOK
      <4>. QED BY <1>n, <2>0, <2>1, <4>2, <4>3, <4>4 DEF Count
    <3>3. \A g \in Fd : uid'[g] = IF g = fd THEN u ELSE uid[g]
      BY <1>t, <2>4 DEF TypeOK
    <3>4. OnceInv'
      <4>1. ASSUME NEW g \in fresh, g # fd, NEW b \in Account
            PROVE  Count(g, b)' = Count(g, b)
        BY <1>t, <2>0, <2>1, <4>1 DEF Count, TypeOK
      <4>2. ASSUME NEW g \in fresh, NEW b \in Account, NEW c \in Account
            PROVE  /\ uid'[g] # 0 => asked'[g]
                   /\ Count(g, b)' > 0 => uid'[g] = 0 /\ (g \in open' => asked'[g] /\ b \in names'[g])
                   /\ Count(g, b)' <= 1
                   /\ Count(g, b)' > 0 /\ Count(g, c)' > 0 => b = c
        <5>1. CASE g = fd
          BY <2>0, <3>2, <5>1 DEF Count
        <5>2. CASE g # fd
          BY <1>t, <2>0, <3>3, <4>1, <5>2 DEF FInv, OnceInv
        <5>. QED BY <5>1, <5>2
      <4>3. \A g \in fresh : uid'[g] # 0 => asked'[g]
        BY <1>t, <2>0, <3>2, <3>3 DEF FInv, OnceInv
      <4>. QED BY <2>0, <4>2, <4>3 DEF OnceInv
    <3>5. RoutesMatch'
      <4>1. ASSUME fd \in fresh, NEW w \in Uid PROVE socks[w] # fd
        BY <1>t, <3>2, <4>1, UidAssumption DEF FInv, RoutesMatch
      <4>. QED BY <1>t, <2>0, <2>1, <2>4, <3>3, <4>1 DEF FInv, RoutesMatch, IsPlayer, TypeOK
    <3>6. OwnPlayer'
      BY <1>t, <2>0, <2>4, <3>2, <3>3 DEF FInv, OwnPlayer, OwnUid, IsPlayer
    <3>7. VerifyInv' /\ OnlyVerified'
      BY <1>t, <2>0 DEF FInv, VerifyInv, OnlyVerified, IsPlayer
    <3>. QED BY <3>4, <3>5, <3>6, <3>7 DEF FInv
  <2>. QED BY <1>t, <1>8, <2>3, <2>4, EnterEffect
<1>9. ASSUME VerifyLost PROVE FInv'
  <2>1. /\ UNCHANGED <<open, account, uid, asked, socks, entering, entered, names, fresh>>
        /\ verifying # <<>> /\ verifying' = Tail(verifying)
    BY <1>9 DEF VerifyLost, players, history
  <2>. QED BY <1>n, <1>t, <2>1, FInvOfFewer
<1>10. ASSUME NEW fd \in Fd, NEW a \in Account, EnterLost(fd, a) PROVE FInv'
  <2>1. UNCHANGED <<open, account, uid, asked, socks, verifying, names, fresh>>
    BY <1>10 DEF EnterLost, players, history
  <2>2. \A g \in Fd, b \in Account :
          entering'[g][b] + entered'[g][b] <= entering[g][b] + entered[g][b]
    <3>1. CASE /\ entering' = [entering EXCEPT ![fd][a] = @ - 1]
               /\ entered' = entered
      BY <1>t, <3>1 DEF TypeOK
    <3>2. CASE /\ entered' = [entered EXCEPT ![fd][a] = @ - 1]
               /\ entering' = entering
      BY <1>t, <3>2 DEF TypeOK
    <3>. QED BY <1>10, <3>1, <3>2 DEF EnterLost
  <2>. QED BY <1>t, <2>1, <2>2, FInvOfFewer
<1>11. ASSUME UNCHANGED vars PROVE FInv'
  <2>1. UNCHANGED <<open, account, uid, asked, socks, verifying, entering, entered, names, fresh>>
    BY <1>11 DEF vars, players, nodes, history
  <2>. QED BY <1>n, <1>t, <2>1, FInvOfFewer
<1>. QED BY <1>0, <1>1, <1>2, <1>3, <1>4, <1>5, <1>6, <1>7, <1>8, <1>9, <1>10, <1>11

(* IInv is an invariant of ProxySession. *)
THEOREM IdentityInvariance == Spec => []IInv
<1>1. Init => IInv
  BY InitUInv, InitFInv DEF IInv
<1>2. IInv /\ [Next]_vars => IInv'
  BY NextUInv, NextFInv DEF IInv
<1>. QED BY <1>1, <1>2, PTL DEF Spec

(* The tables of the proxy agree with each other: a uid leads to the client *)
(* that entered with it, and its heartbeat is checked as long as it does.   *)
THEOREM RoutesStayTrue == Spec => []RoutesAgree
<1>1. IInv => RoutesAgree
  BY DEF IInv, UInv, FInv, RoutesAgree
<1>. QED BY <1>1, IdentityInvariance, PTL

(* A client in the game acts as the verified player of an account it named, *)
(* and what is forwarded in its name is its own, whatever else it names     *)
(* meanwhile and whatever answers are under way for others.                 *)
THEOREM PlaysVerified == Spec => []OwnVerifiedPlayer
<1>1. ASSUME IInv PROVE SentAsOwn
  <2>1. TypeOK /\ RoutesMatch /\ OwnPlayer
    BY <1>1 DEF IInv, UInv, FInv
  <2>2. \A fd \in fresh : \A u \in OnOtherMessage(fd) : u = 0 \/ OwnUid(fd, u)
    BY <2>1 DEF OnOtherMessage, OwnPlayer
  <2>3. ASSUME NEW u \in Uid, NEW fd \in SendToPlayer(u) \cap fresh
        PROVE  IsPlayer(fd) /\ OwnUid(fd, u)
    <3>1. socks[u] # 0 /\ fd = socks[u]
      BY <2>3 DEF SendToPlayer, HasEntered
    <3>2. IsPlayer(fd) /\ uid[fd] = u
      BY <2>1, <2>3, <3>1 DEF RoutesMatch
    <3>. QED BY <2>1, <2>3, <3>2, UidAssumption DEF OwnPlayer
  <2>. QED BY <2>2, <2>3 DEF SentAsOwn
<1>2. IInv => OwnVerifiedPlayer
  BY <1>1 DEF IInv, FInv, OwnVerifiedPlayer
<1>. QED BY <1>2, IdentityInvariance, PTL


-----------------------------------------------------------------------------
(***************************************************************************)
(* PlayerMgr.  The parts of its invariants: the Lua state, the table of    *)
(* the queries, the messages and the proxies.                              *)
(***************************************************************************)
\* Everything a stage can be, and what it can be for a kind of coroutine.
Stages == Reads \cup Inserts \cup Updates \cup Indexes
          \cup {"insertRows", "selectRows", "updateRows", "execute", "new"} \cup Ended
StagesOf(kind, lib) ==
    IF kind = "enter" THEN (Reads \cup Inserts \cup Indexes \cup {"update"}) \cup Ended
    ELSE IF kind = "leave" THEN {"leave", "done"}
    ELSE IF lib = "mysql"
    THEN {"insertRows", "selectRows", "updateRows", "execute", "done"}
    ELSE IF lib = "clickhouse" THEN {"insertRows", "selectRows", "execute", "done"}
    ELSE {"failed"}

\* The records of the Lua state, and what holds of each coroutine.
Coroutine == [kind : {"enter", "leave", "script"}, lib : Lib,
              acc : AccountId \cup {"none"}, uid : Nat, stage : Stages, id : Nat,
              told : BOOLEAN]
CoroutineOK(k) ==
    /\ k \in Coroutine
    /\ k.stage \in StagesOf(k.kind, k.lib)
    /\ k.kind # "script" => k.lib = "mongo" /\ k.acc \in AccountId
    /\ k.kind = "script" => k.lib # "mongo" /\ k.acc = "none"
    /\ k.lib # "redis" => k.id > 0
    /\ k.lib = "redis" => k.stage = "failed"
    /\ k.stage = "insertBase" => k.uid > 0

\* The tables from numbers to numbers, and the Lua state.
Entries == UNION {[S -> Nat] : S \in SUBSET Nat}
LuaState == [co : Seq(Coroutine), query_id : [Lib -> Nat], table : Entries,
             coroutines : Entries, timeout : SUBSET Nat, players : SUBSET Nat,
             uid_sec : Nat, crossed : SUBSET Nat, doubt : SUBSET (AccountId \cup {"none"})]
LuaInv ==
    /\ lua \in LuaState /\ Len(lua.co) <= MaxCo
    /\ \A c \in DOMAIN lua.co :
          CoroutineOK(lua.co[c]) /\ lua.co[c].id <= lua.query_id[lua.co[c].lib]
    /\ DOMAIN lua.coroutines \subseteq Players(lua)
    /\ lua.timeout \subseteq DOMAIN lua.coroutines

\* An entry of QueryAsync.co is of a coroutine that waits, under its number.
TableInv ==
    \A id \in DOMAIN lua.table :
        /\ lua.table[id] \in DOMAIN lua.co
        /\ lua.co[lua.table[id]].id = id /\ Waiting(lua, lua.table[id])
\* Only a number that two libraries gave out was ever crossed.
CrossInv == \A n \in lua.crossed : Shared(n)

\* The databases and the messages.
Flags == UNION {[S -> BOOLEAN] : S \in SUBSET Nat}
Player == [acc : AccountId, uid : Nat \ {0}]
StoreType == [base : Seq(Player), detail : Flags,
              index : [{"base", "detail"} -> BOOLEAN], rows : Entries]
QueryType == [lib : Lib, id : Nat, stage : Stages, acc : AccountId \cup {"none"},
              uid : Nat, c : Nat]
AnswerType == [kind : Lib, id : Nat, stage : Stages, c : Nat, ok : BOOLEAN,
               matched : {0, 1}, uid : Nat]
\* All messages of f, one of toDb and fromDb.
All(f) == UNION {{f[d][i] : i \in DOMAIN f[d]} : d \in Db}
\* A query is of a coroutine, and its newest one if the numbers are equal.
QueryOK(q) ==
    /\ q.c \in DOMAIN lua.co
    /\ LET k == lua.co[q.c]
       IN  /\ q.lib = k.lib /\ q.acc = k.acc /\ q.id \in 1..k.id
           /\ q.stage \in StagesOf(k.kind, k.lib) \ Ended
           /\ q.id = k.id /\ k.stage \notin Ended => q.stage = k.stage /\ q.uid = k.uid
           /\ q.stage = "insertBase" => q.uid > 0
\* So is an answer.
AnswerOK(a) ==
    /\ a.c \in DOMAIN lua.co
    /\ LET k == lua.co[a.c]
       IN  /\ a.kind = k.lib /\ a.id \in 0..k.id
           /\ a.id = k.id /\ k.stage \notin Ended => a.stage = k.stage
MessageInv ==
    /\ toDb \in [Db -> Seq(QueryType)] /\ fromDb \in [Db -> Seq(AnswerType)]
    /\ \A q \in All(toDb) : QueryOK(q)
    /\ \A a \in All(fromDb) : AnswerOK(a)
ProxyInv ==
    up \in [Db -> {"up", "noSession", "down"}] /\ faults \in 0..MaxFault /\ store \in StoreType

\* The coroutine c took the number n of the library l.
Took(l, n, c) ==
    \/ c \in DOMAIN lua.co /\ lua.co[c].lib = l /\ lua.co[c].id = n
    \/ \E q \in All(toDb) : q.lib = l /\ q.id = n /\ q.c = c
    \/ \E a \in All(fromDb) : a.kind = l /\ a.id = n /\ a.c = c
\* No two coroutines took one number of one library.
NumberInv ==
    \A l \in Lib, n \in Nat \ {0}, b, c \in Nat : Took(l, n, b) /\ Took(l, n, c) => b = c

\* No two messages of f have the coroutine and the number in common.
Unique(f) ==
    \A d, e \in Db : \A i \in DOMAIN f[d], j \in DOMAIN f[e] :
        f[d][i].c = f[e][j].c /\ f[d][i].id = f[e][j].id /\ f[d][i].id > 0
            => d = e /\ i = j
\* A query is asked once, and is not also answered.
AskedOnceInv ==
    /\ Unique(toDb) /\ Unique(fromDb)
    /\ \A q \in All(toDb), a \in All(fromDb) : q.c = a.c => q.id # a.id

\* The account is connected with the uid somewhere.
Has(acc, u) ==
    \/ \E c \in Players(lua) : lua.co[c].acc = acc /\ lua.co[c].uid = u
    \/ \E i \in DOMAIN store.base : store.base[i].acc = acc /\ store.base[i].uid = u
    \/ \E q \in All(toDb) : q.lib = "mongo" /\ q.acc = acc /\ q.uid = u
    \/ \E a \in All(fromDb) :
          a.kind = "mongo" /\ lua.co[a.c].acc = acc /\ a.uid = u
\* A uid is of one account, and GenUID has given it out.
UidInv ==
    /\ \A a, b \in AccountId, u \in Nat \ {0} : Has(a, u) /\ Has(b, u) => a = b
    /\ \A a \in AccountId, u \in Nat : Has(a, u) => u <= lua.uid_sec

\* So has it those of the stored details and of the cache.
StoreInv == DOMAIN store.detail \cup lua.players \subseteq 0..lua.uid_sec

\* Of a sure account at most one coroutine waits.
OneInv ==
    \A b, c \in Players(lua) :
        lua.co[b].acc = lua.co[c].acc /\ lua.co[b].acc \notin lua.doubt
          /\ Waiting(lua, b) /\ Waiting(lua, c) => b = c
\* A message of a sure account is about the query its coroutine waits for.
CurrentInv ==
    /\ \A q \in All(toDb) : q.lib = "mongo" /\ q.acc \notin lua.doubt =>
          Waiting(lua, q.c) /\ q.id = lua.co[q.c].id
    /\ \A a \in All(fromDb) : a.kind = "mongo" /\ lua.co[a.c].acc \notin lua.doubt =>
          Waiting(lua, a.c) /\ a.id = lua.co[a.c].id

\* The stages of an account that is not stored, and its records.
NoRecord == {"findIndexBase", "findIndexDetail", "createIndexBase", "insertIndexBase",
             "createIndexDetail", "insertIndexDetail"}
RecordsIn(S, acc) == {i \in DOMAIN S.base : S.base[i].acc = acc}
Recorded(k, S) == \E i \in RecordsIn(S, k.acc) : S.base[i].uid = k.uid
Stored(k, S) == Recorded(k, S) /\ k.uid \in DOMAIN S.detail

\* Of a coroutine k, with the databases S and the players P in the cache.
WaitsRight(k, S, P) ==
    /\ k.stage \in NoRecord => RecordsIn(S, k.acc) = {}
    /\ k.stage = "insertBase" =>
          /\ \A i \in RecordsIn(S, k.acc) : S.base[i].uid = k.uid
          /\ k.uid \notin DOMAIN S.detail
    /\ k.stage \in {"insertDetail", "findDetail"} => Recorded(k, S)
    /\ k.stage \in {"insertBase", "insertDetail"} =>
          /\ k.uid \notin P
          /\ k.uid \in DOMAIN S.detail => ~S.detail[k.uid]
    /\ k.stage \in {"update", "leave", "done"} => Stored(k, S)
\* Of an answer a to the coroutine k.
AnswerRight(a, k, S) ==
    /\ a.stage = "findBase" =>
         /\ a.matched = 0 => RecordsIn(S, k.acc) = {}
         /\ a.matched = 1 => \E i \in RecordsIn(S, k.acc) : S.base[i].uid = a.uid
    /\ a.stage = "findDetail" =>
         /\ a.uid = k.uid
         /\ a.matched = 1 => k.uid \in DOMAIN S.detail
    /\ a.stage = "insertBase" => RecordsIn(S, k.acc) # {}
    /\ a.stage = "insertDetail" => k.uid \in DOMAIN S.detail
    /\ a.stage = "update" => S.detail[k.uid]
    /\ a.stage = "leave" => ~S.detail[k.uid]

\* What holds of an account of which nothing went wrong.
CoroutinesRight(acc) ==
    \A c \in Players(lua) :
        lua.co[c].acc = acc => WaitsRight(lua.co[c], store, lua.players)
AskedRight(acc) ==
    \A q \in All(toDb) :
        q.stage = "insertBase" /\ q.acc = acc => RecordsIn(store, acc) = {}
AnsweredRight(acc) ==
    \A a \in All(fromDb) :
        a.kind = "mongo" /\ lua.co[a.c].acc = acc => AnswerRight(a, lua.co[a.c], store)
\* It has at most one record, and the cache agrees unless a turn is under way.
OneRecord(acc) == \A i, j \in RecordsIn(store, acc) : i = j
Turning(acc) ==
    \E c \in Players(lua) : lua.co[c].acc = acc /\ lua.co[c].stage \in {"update", "leave"}
Agrees(u, S, P) == u \in P <=> u \in DOMAIN S.detail /\ S.detail[u]
AgreeRight(acc) ==
    ~Turning(acc) =>
        \A i \in RecordsIn(store, acc) : Agrees(store.base[i].uid, store, lua.players)
\* All of it, of one account and of every sure one.
Right(acc) ==
    /\ CoroutinesRight(acc) /\ AskedRight(acc) /\ AnsweredRight(acc)
    /\ OneRecord(acc) /\ AgreeRight(acc)
RightInv == \A acc \in AccountId : acc \notin lua.doubt => Right(acc)
\* What a script is told is stored is, if nothing of the scripts failed.
ScriptsInv ==
    "none" \notin lua.doubt =>
        /\ \A c \in DOMAIN lua.co : lua.co[c].kind = "script" /\ lua.co[c].told =>
              c \in DOMAIN store.rows /\ store.rows[c] = NRow
        /\ \A a \in All(fromDb) : a.stage = "insertRows" /\ a.ok =>
              a.c \in DOMAIN store.rows /\ store.rows[a.c] = NRow
-----------------------------------------------------------------------------
(* What the helpers on tables return. *)
LEMMA WithEntry ==
    ASSUME NEW f \in Entries, NEW x \in Nat, NEW y \in Nat
    PROVE  With(f, x, y) \in Entries
<1>1. PICK S \in SUBSET Nat : f \in [S -> Nat]
  BY DEF Entries
<1>2. With(f, x, y) \in [S \cup {x} -> Nat]
  BY <1>1 DEF With
<1> QED  BY <1>2 DEF Entries

LEMMA WithoutEntry ==
    ASSUME NEW f \in Entries, NEW x
    PROVE  Without(f, x) \in Entries
<1>1. PICK S \in SUBSET Nat : f \in [S -> Nat]
  BY DEF Entries
<1>2. Without(f, x) \in [S \ {x} -> Nat]
  BY <1>1 DEF Without
<1> QED  BY <1>2 DEF Entries

\* M is the Lua state L when the coroutine c has got to the stage.
Entered(L, c, stage, M) ==
    LET k == L.co[c]
        n == L.query_id[k.lib] + 1
    IN  /\ M \in LuaState
        /\ DOMAIN M.co = DOMAIN L.co
        /\ \A x \in DOMAIN L.co \ {c} : M.co[x] = L.co[x]
        /\ M.players = L.players /\ M.uid_sec = L.uid_sec
        /\ M.coroutines = L.coroutines /\ M.timeout = L.timeout
        /\ stage \in Ended =>
              /\ M.co[c] = [k EXCEPT !.stage = stage]
              /\ M.query_id = L.query_id /\ M.table = L.table
              /\ M.crossed = L.crossed /\ M.doubt = L.doubt
        /\ stage \notin Ended =>
              /\ M.co[c] = [k EXCEPT !.stage = stage, !.id = n]
              /\ M.query_id = [L.query_id EXCEPT ![k.lib] = n]
              /\ M.table = With(L.table, n, c)
              /\ n \notin DOMAIN L.table => M.crossed = L.crossed /\ M.doubt = L.doubt
              /\ n \in DOMAIN L.table =>
                    /\ M.crossed = L.crossed \cup {n}
                    /\ M.doubt = L.doubt \cup {k.acc, L.co[L.table[n]].acc}

LEMMA EnterResult ==
    ASSUME NEW L \in LuaState, NEW c \in DOMAIN L.co, NEW stage \in Stages,
           \A id \in DOMAIN L.table : L.table[id] \in DOMAIN L.co
    PROVE  Entered(L, c, stage, Enter(L, c, stage))
<1> DEFINE k == L.co[c]
           n == L.query_id[k.lib] + 1
           S == [L EXCEPT !.co[c].stage = stage]
           kk == [k EXCEPT !.stage = stage]
<1>0. /\ L.co \in Seq(Coroutine) /\ L.query_id \in [Lib -> Nat] /\ L.table \in Entries
  BY DEF LuaState
<1>1. k \in Coroutine /\ DOMAIN L.co = 1 .. Len(L.co) /\ c \in Nat
  BY <1>0
<1>2. k.lib \in Lib /\ k.acc \in AccountId \cup {"none"}
  BY <1>1 DEF Coroutine
<1>2a. n \in Nat
  BY <1>2, <1>0
<1>3. kk \in Coroutine /\ kk.lib = k.lib /\ kk.acc = k.acc
  BY <1>1 DEF Coroutine
<1>4. [L.co EXCEPT ![c] = kk] \in Seq(Coroutine)
  BY <1>0, <1>1, <1>3, ExceptSeq
<1>5. /\ S \in LuaState /\ S.co = [L.co EXCEPT ![c] = kk]
      /\ S.query_id = L.query_id /\ S.table = L.table /\ S.crossed = L.crossed
      /\ S.doubt = L.doubt /\ S.players = L.players /\ S.uid_sec = L.uid_sec
      /\ S.coroutines = L.coroutines /\ S.timeout = L.timeout
  BY <1>4, Zenon DEF LuaState
<1>6. /\ DOMAIN S.co = DOMAIN L.co /\ S.co[c] = kk
      /\ \A x \in DOMAIN L.co \ {c} : S.co[x] = L.co[x]
  BY <1>5, <1>0, <1>1
<1>7. CASE stage \in Ended
  <2>1. Enter(L, c, stage) = S
    BY <1>7 DEF Enter
  <2> QED  BY <2>1, <1>5, <1>6, <1>7, Zenon DEF Entered
<1>8. CASE stage \notin Ended
  <2> DEFINE M == QueryAwait(S, c)
             km == [k EXCEPT !.stage = stage, !.id = n]
             crossed == IF n \in DOMAIN L.table THEN L.crossed \cup {n} ELSE L.crossed
             doubt == IF n \in DOMAIN L.table
                      THEN L.doubt \cup {k.acc, S.co[L.table[n]].acc} ELSE L.doubt
  <2>1. Enter(L, c, stage) = M
    BY <1>8 DEF Enter
  <2>2. S.co[c].lib = k.lib /\ S.co[c].acc = k.acc
    BY <1>3, <1>6, Zenon
  <2>3. M = [S EXCEPT !.query_id[k.lib] = n, !.co[c].id = n,
                      !.table = With(@, n, c), !.crossed = crossed, !.doubt = doubt]
    BY <2>2, <1>5, Zenon DEF QueryAwait
  <2>4. km \in Coroutine
    BY <1>1, <1>2a DEF Coroutine
  <2>5. [S.co EXCEPT ![c].id = n] = [L.co EXCEPT ![c] = km]
    <3>1. [S.co EXCEPT ![c].id = n] = [S.co EXCEPT ![c] = [S.co[c] EXCEPT !.id = n]]
      OBVIOUS
    <3>2. [kk EXCEPT !.id = n] = km
      BY <1>1 DEF Coroutine
    <3>3. [[L.co EXCEPT ![c] = kk] EXCEPT ![c] = km] = [L.co EXCEPT ![c] = km]
      BY <1>0, <1>1
    <3> QED  BY <3>1, <3>2, <3>3, <1>5, <1>6
  <2>6. [L.co EXCEPT ![c] = km] \in Seq(Coroutine)
    BY <1>0, <1>1, <2>4, ExceptSeq
  <2>7. [L.query_id EXCEPT ![k.lib] = n] \in [Lib -> Nat] /\ With(L.table, n, c) \in Entries
    BY <1>0, <1>1, <1>2a, WithEntry, Zenon
  <2>8. n \in DOMAIN L.table => S.co[L.table[n]].acc = L.co[L.table[n]].acc
    BY <1>3, <1>6, Zenon
  <2>9. crossed \in SUBSET Nat /\ doubt \in SUBSET (AccountId \cup {"none"})
    <3>1. L.crossed \in SUBSET Nat /\ L.doubt \in SUBSET (AccountId \cup {"none"})
      BY Zenon DEF LuaState
    <3>2. n \in DOMAIN L.table => L.co[L.table[n]].acc \in AccountId \cup {"none"}
      <4>1. n \in DOMAIN L.table => L.co[L.table[n]] \in Coroutine
        BY <1>0
      <4> QED  BY <4>1, Zenon DEF Coroutine
    <3> QED  BY <3>1, <3>2, <2>8, <1>2, <1>2a, Zenon
  <2>10. M = [S EXCEPT !.query_id = [L.query_id EXCEPT ![k.lib] = n],
                       !.co = [L.co EXCEPT ![c] = km],
                       !.table = With(L.table, n, c), !.crossed = crossed, !.doubt = doubt]
    BY <2>3, <2>5, <1>5, Zenon DEF LuaState
  <2> HIDE DEF M, S, crossed, doubt
  <2>11. /\ M.co = [L.co EXCEPT ![c] = km] /\ M.query_id = [L.query_id EXCEPT ![k.lib] = n]
         /\ M.table = With(L.table, n, c) /\ M.crossed = crossed /\ M.doubt = doubt
         /\ M.players = L.players /\ M.uid_sec = L.uid_sec
         /\ M.coroutines = L.coroutines /\ M.timeout = L.timeout
         /\ M \in LuaState
    BY <2>10, <1>5, <2>6, <2>7, <2>9, Zenon DEF LuaState
  <2>12. DOMAIN M.co = DOMAIN L.co /\ M.co[c] = km
         /\ \A x \in DOMAIN L.co \ {c} : M.co[x] = L.co[x]
    BY <2>11, <1>0, <1>1
  <2> QED  BY <2>1, <2>8, <2>11, <2>12, <1>8, Zenon DEF crossed, doubt, Entered
<1> QED  BY <1>7, <1>8

(* The stages a coroutine gets to are those of its kind. *)
LEMMA EnterStages ==
    ASSUME NEW lib
    PROVE  /\ Reads \cup Inserts \cup Indexes \cup {"update", "done", "failed"}
                 = StagesOf("enter", lib)
           /\ StagesOf("enter", lib) \subseteq Stages
  BY DEF StagesOf, Stages, Ended, Updates

LEMMA AfterStage ==
    ASSUME NEW k, CoroutineOK(k), k.stage \notin Ended, NEW a, a = Nil \/ a \in AnswerType
    PROVE  /\ After(k, a) \in StagesOf(k.kind, k.lib) /\ After(k, a) \in Stages
           /\ k.kind = "script" => After(k, a) \notin {"insertBase", "findDetail", "insertRows"}
           /\ k.kind # "script" /\ After(k, a) = "findDetail" =>
                 k.stage = "findBase" /\ a.kind = "mongo" /\ a.matched = 1
<1>1. CASE k.kind = "script"
  <2>1. After(k, a) = Following(IF k.lib = "mysql" THEN MysqlQueries ELSE ClickhouseQueries, k.stage)
    BY <1>1 DEF After
  <2>2. CASE k.stage = "execute"
    BY <2>1, <2>2, <1>1 DEF Following, CoroutineOK, StagesOf, Stages, Ended, Coroutine
  <2>3. CASE k.stage # "execute" /\ k.lib = "mysql"
    <3> DEFINE i == CHOOSE i \in DOMAIN MysqlQueries : MysqlQueries[i] = k.stage
    <3>1. k.stage \in {"insertRows", "selectRows", "updateRows"}
      BY <1>1, <2>3 DEF CoroutineOK, StagesOf, Ended
    <3>2. i \in DOMAIN MysqlQueries /\ MysqlQueries[i] = k.stage
      <4>1. \E j \in DOMAIN MysqlQueries : MysqlQueries[j] = k.stage
        BY <3>1 DEF MysqlQueries
      <4> QED  BY <4>1
    <3>3. i \in 1 .. 3 /\ MysqlQueries[1 + i] \in {"selectRows", "updateRows", "execute"}
      BY <3>1, <3>2 DEF MysqlQueries
    <3>4. After(k, a) = MysqlQueries[1 + i]
      BY <2>1, <2>3 DEF Following
    <3> QED  BY <3>3, <3>4, <1>1, <2>3 DEF StagesOf, Stages
  <2>4. CASE k.stage # "execute" /\ k.lib # "mysql"
    <3> DEFINE i == CHOOSE i \in DOMAIN ClickhouseQueries : ClickhouseQueries[i] = k.stage
    <3>1. k.stage \in {"insertRows", "selectRows"} /\ k.lib = "clickhouse"
      BY <1>1, <2>4 DEF CoroutineOK, StagesOf, Ended
    <3>2. i \in DOMAIN ClickhouseQueries /\ ClickhouseQueries[i] = k.stage
      <4>1. \E j \in DOMAIN ClickhouseQueries : ClickhouseQueries[j] = k.stage
        BY <3>1 DEF ClickhouseQueries
      <4> QED  BY <4>1
    <3>3. i \in 1 .. 2 /\ ClickhouseQueries[1 + i] \in {"selectRows", "execute"}
      BY <3>1, <3>2 DEF ClickhouseQueries
    <3>4. After(k, a) = ClickhouseQueries[1 + i]
      BY <2>1, <2>4 DEF Following
    <3> QED  BY <3>3, <3>4, <3>1, <1>1 DEF StagesOf, Stages
  <2> QED  BY <2>2, <2>3, <2>4
<1>2. CASE k.kind # "script" /\ k.stage \notin Reads
  <2>1. After(k, a) = Onward(k.stage)
    BY <1>2 DEF After
  <2>2. k.kind = "enter" => k.stage \in Inserts \cup Indexes \cup {"update"}
    BY <1>2 DEF CoroutineOK, StagesOf
  <2>3. k.kind # "enter" => k.kind = "leave" /\ k.stage = "leave"
    BY <1>2 DEF CoroutineOK, StagesOf, Coroutine, Ended
  <2>4. k.kind = "enter" => Onward(k.stage) \in {"insertIndexBase", "findIndexDetail",
              "insertIndexDetail", "insertBase", "insertDetail", "update", "done"}
    BY <2>2 DEF Onward, Inserts, Indexes
  <2>5. k.kind # "enter" => Onward(k.stage) = "done"
    BY <2>3 DEF Onward
  <2>6. {"insertIndexBase", "findIndexDetail", "insertIndexDetail", "insertBase",
         "insertDetail", "update", "done"}
           \subseteq Reads \cup Inserts \cup Indexes \cup {"update", "done", "failed"}
    BY DEF Reads, Inserts
  <2>7. CASE k.kind = "enter"
    BY <1>2, <2>1, <2>4, <2>6, <2>7, EnterStages
  <2>8. CASE k.kind # "enter"
    BY <1>2, <2>1, <2>3, <2>5, <2>8 DEF StagesOf, Stages, Ended
  <2> QED  BY <2>7, <2>8
<1>3. CASE k.kind # "script" /\ k.stage \in Reads
  <2>1. k.kind = "enter"
    BY <1>3 DEF CoroutineOK, StagesOf, Reads, Coroutine
  <2>2. CASE a.kind # "mongo"
    BY <1>3, <2>1, <2>2 DEF After, StagesOf, Stages, Ended
  <2>3. CASE a.kind = "mongo"
    <3>1. a \in AnswerType
      BY <2>3 DEF Nil
    <3>2. a.matched \in {0, 1}
      BY <3>1 DEF AnswerType
    <3>3. After(k, a) = IF a.matched = 0 THEN IfNone(k.stage) ELSE IfFound(k.stage)
      BY <1>3, <2>3 DEF After, NoneFound
    <3>4. IfNone(k.stage) \in {"findIndexBase", "createIndexBase", "createIndexDetail", "failed"}
      BY <1>3 DEF IfNone, Reads
    <3>5. /\ IfFound(k.stage) \in {"findDetail", "findIndexDetail", "insertBase", "update"}
          /\ IfFound(k.stage) = "findDetail" => k.stage = "findBase"
      BY <1>3 DEF IfFound, Reads
    <3>6. {"findIndexBase", "createIndexBase", "createIndexDetail", "failed", "findDetail",
           "findIndexDetail", "insertBase", "update"}
             \subseteq Reads \cup Inserts \cup Indexes \cup {"update", "done", "failed"}
      BY DEF Reads, Inserts, Indexes
    <3>7. CASE a.matched = 0
      BY <2>1, <3>3, <3>4, <3>6, <3>7, EnterStages
    <3>8. CASE a.matched = 1
      BY <2>1, <2>3, <3>3, <3>5, <3>6, <3>8, EnterStages
    <3> QED  BY <3>2, <3>7, <3>8
  <2> QED  BY <2>2, <2>3
<1> QED  BY <1>1, <1>2, <1>3

(* The fields that Passing and the answer change. *)
LEMMA FieldUpdates ==
    ASSUME NEW T \in LuaState, NEW X, NEW q
    PROVE  /\ [T EXCEPT !.uid_sec = T.uid_sec + 1, !.co = X]
                 = [T EXCEPT !.co = X, !.uid_sec = T.uid_sec + 1, !.players = T.players]
           /\ [T EXCEPT !.co = X]
                 = [T EXCEPT !.co = X, !.uid_sec = T.uid_sec, !.players = T.players]
           /\ [T EXCEPT !.players = q]
                 = [T EXCEPT !.co = T.co, !.uid_sec = T.uid_sec, !.players = q]
  BY Zenon DEF LuaState

\* M is the Lua state L when the coroutine c was resumed with a.
Resumed(L, c, a, M) ==
    LET k == L.co[c]
        n == L.query_id[k.lib] + 1
        stage == After(k, a)
        table == Without(L.table, k.id)
    IN  /\ M \in LuaState
        /\ DOMAIN M.co = DOMAIN L.co
        /\ \A x \in DOMAIN L.co \ {c} : M.co[x] = L.co[x]
        /\ M.coroutines = L.coroutines /\ M.timeout = L.timeout
        /\ M.co[c].kind = k.kind /\ M.co[c].lib = k.lib /\ M.co[c].acc = k.acc
        /\ M.co[c].stage = stage
        /\ M.co[c].uid = IF stage = "insertBase" THEN L.uid_sec + 1
                         ELSE IF stage = "findDetail" THEN a.uid ELSE k.uid
        /\ M.co[c].told = IF k.stage = "insertRows" THEN a.kind # "nil" /\ a.ok ELSE k.told
        /\ M.co[c].id = IF stage \in Ended THEN k.id ELSE n
        /\ M.uid_sec = IF stage = "insertBase" THEN L.uid_sec + 1 ELSE L.uid_sec
        /\ M.players = IF stage # "done" THEN L.players
                       ELSE IF k.kind = "enter" THEN L.players \cup {k.uid}
                       ELSE IF k.kind = "leave" THEN L.players \ {k.uid}
                       ELSE L.players
        /\ stage \in Ended =>
              /\ M.query_id = L.query_id /\ M.table = table
              /\ M.crossed = L.crossed /\ M.doubt = L.doubt
        /\ stage \notin Ended =>
              /\ M.query_id = [L.query_id EXCEPT ![k.lib] = n]
              /\ M.table = With(table, n, c)
              /\ n \notin DOMAIN table => M.crossed = L.crossed /\ M.doubt = L.doubt
              /\ n \in DOMAIN table =>
                    /\ M.crossed = L.crossed \cup {n}
                    /\ M.doubt = L.doubt \cup {k.acc, L.co[table[n]].acc}

LEMMA ResumeResult ==
    ASSUME NEW L \in LuaState, NEW c \in DOMAIN L.co, CoroutineOK(L.co[c]), Waiting(L, c),
           \A id \in DOMAIN L.table : L.table[id] \in DOMAIN L.co,
           NEW a, a = Nil \/ a \in AnswerType
    PROVE  Resumed(L, c, a, Resume(L, c, a))
<1> DEFINE k == L.co[c]
           n == L.query_id[k.lib] + 1
           stage == After(k, a)
           table == Without(L.table, k.id)
           heard == a.kind # "nil" /\ a.ok
           told == IF k.stage = "insertRows" THEN heard ELSE k.told
           player == IF stage = "insertBase" THEN L.uid_sec + 1
                  ELSE IF stage = "findDetail" THEN a.uid ELSE k.uid
           uid_sec == IF stage = "insertBase" THEN L.uid_sec + 1 ELSE L.uid_sec
           cache == IF stage # "done" THEN L.players
                      ELSE IF k.kind = "enter" THEN L.players \cup {k.uid}
                      ELSE IF k.kind = "leave" THEN L.players \ {k.uid}
                      ELSE L.players
           M == QueryClean(L, k.id)
           T == IF k.stage = "insertRows" THEN [M EXCEPT !.co[c].told = heard] ELSE M
           P == Passing(T, c, stage, a)
<1>0. /\ L.co \in Seq(Coroutine) /\ L.query_id \in [Lib -> Nat] /\ L.table \in Entries
      /\ L.uid_sec \in Nat /\ L.players \in SUBSET Nat
  BY DEF LuaState
<1>1. k \in Coroutine /\ DOMAIN L.co = 1 .. Len(L.co) /\ c \in Nat
  BY <1>0
<1>2. k.lib \in Lib /\ k.acc \in AccountId \cup {"none"} /\ k.uid \in Nat /\ k.told \in BOOLEAN
      /\ k.kind \in {"enter", "leave", "script"} /\ k.stage \in Stages
  BY <1>1 DEF Coroutine
<1>3. /\ stage \in Stages
      /\ k.kind = "script" => stage \notin {"insertBase", "findDetail"}
      /\ k.kind # "script" /\ stage = "findDetail" => a.kind = "mongo"
  BY AfterStage DEF Waiting
<1>4. heard \in BOOLEAN /\ told \in BOOLEAN
  <2>1. a = Nil => heard = FALSE
    BY DEF Nil
  <2>2. a \in AnswerType => heard \in BOOLEAN
    BY DEF AnswerType
  <2> QED  BY <2>1, <2>2, <1>2
<1>5. player \in Nat
  <2>1. stage = "findDetail" => a.uid \in Nat
    <3>1. stage = "findDetail" => a \in AnswerType
      BY <1>3, <1>2 DEF Nil
    <3> QED  BY <3>1 DEF AnswerType
  <2> QED  BY <2>1, <1>0, <1>2
<1>6. M \in LuaState /\ M = [L EXCEPT !.table = table]
  BY <1>0, WithoutEntry DEF LuaState, QueryClean
<1> HIDE DEF heard, table, stage
<1>7. T \in LuaState /\ T = [L EXCEPT !.table = table,
                                      !.co = [L.co EXCEPT ![c] = [k EXCEPT !.told = told]]]
  <2>1. [k EXCEPT !.told = told] \in Coroutine
    BY <1>1, <1>4 DEF Coroutine
  <2>2. [L.co EXCEPT ![c] = [k EXCEPT !.told = told]] \in Seq(Coroutine)
    BY <1>0, <1>1, <2>1, ExceptSeq
  <2>3. CASE k.stage = "insertRows"
    BY <1>6, <2>2, <2>3 DEF LuaState
  <2>4. CASE k.stage # "insertRows"
    <3>1. [k EXCEPT !.told = told] = k
      BY <1>1, <2>4 DEF Coroutine
    <3>2. [L.co EXCEPT ![c] = k] = L.co
      BY <1>0, <1>1
    <3>3. [L EXCEPT !.table = table, !.co = L.co] = [L EXCEPT !.table = table]
      BY DEF LuaState
    <3> QED  BY <1>6, <3>1, <3>2, <3>3, <2>4
  <2> QED  BY <2>3, <2>4
<1> DEFINE kk == [k EXCEPT !.told = told, !.uid = player]
<1>8. kk \in Coroutine /\ kk.lib = k.lib /\ kk.acc = k.acc /\ kk.kind = k.kind
      /\ kk.uid = player /\ kk.told = told /\ kk.id = k.id
  BY <1>1, <1>4, <1>5 DEF Coroutine
<1>9. [L.co EXCEPT ![c] = kk] \in Seq(Coroutine)
  BY <1>0, <1>1, <1>8, ExceptSeq
<1> HIDE DEF T, told
<1>10. T.co[c] = [k EXCEPT !.told = told] /\ T.co[c].kind = k.kind /\ T.co[c].uid = k.uid
       /\ T.uid_sec = L.uid_sec /\ T.players = L.players
  BY <1>7, <1>0, <1>1 DEF LuaState, Coroutine
<1>11. [T.co EXCEPT ![c].uid = player] = [L.co EXCEPT ![c] = kk] /\ T.co \in Seq(Coroutine)
  <2>1. T.co = [L.co EXCEPT ![c] = [k EXCEPT !.told = told]] /\ T.co \in Seq(Coroutine)
    BY <1>7 DEF LuaState
  <2>2. [T.co EXCEPT ![c].uid = player] = [T.co EXCEPT ![c] = [T.co[c] EXCEPT !.uid = player]]
    OBVIOUS
  <2>3. [[k EXCEPT !.told = told] EXCEPT !.uid = player] = kk
    BY <1>1 DEF Coroutine
  <2>4. [[L.co EXCEPT ![c] = [k EXCEPT !.told = told]] EXCEPT ![c] = kk] = [L.co EXCEPT ![c] = kk]
    BY <1>0, <1>1
  <2> QED  BY <2>1, <2>2, <2>3, <2>4, <1>10
<1>12. P = [T EXCEPT !.co = [L.co EXCEPT ![c] = kk], !.uid_sec = uid_sec, !.players = cache]
  <2>1. CASE stage = "insertBase"
    <3>1. P = [T EXCEPT !.uid_sec = @ + 1, !.co[c].uid = player]
      BY <2>1, <1>10 DEF Passing, GetNewPlayerData
    <3>2. P = [T EXCEPT !.uid_sec = @ + 1, !.co = [T.co EXCEPT ![c].uid = player]]
      BY <3>1
    <3> DEFINE X == [L.co EXCEPT ![c] = kk]
    <3>a. P = [T EXCEPT !.uid_sec = T.uid_sec + 1, !.co = X]
      BY <3>2, <1>11
    <3>3. uid_sec = T.uid_sec + 1 /\ cache = T.players
      BY <2>1, <1>10
    <3> HIDE DEF uid_sec, cache, kk, P, M, player, X
    <3>4. P = [T EXCEPT !.co = X, !.uid_sec = uid_sec, !.players = cache]
      <4>1. [T EXCEPT !.uid_sec = T.uid_sec + 1, !.co = X]
              = [T EXCEPT !.co = X, !.uid_sec = T.uid_sec + 1, !.players = T.players]
        <5>1. T \in LuaState
          BY <1>7
        <5> QED  BY <5>1, FieldUpdates, Zenon
      <4> QED  BY <3>a, <3>3, <4>1, Zenon
    <3> QED  BY <3>4 DEF X
  <2>2. CASE stage = "findDetail"
    <3>1. P = [T EXCEPT !.co[c].uid = player]
      BY <2>2 DEF Passing
    <3>2. P = [T EXCEPT !.co = [T.co EXCEPT ![c].uid = player]]
      BY <3>1
    <3> DEFINE X == [L.co EXCEPT ![c] = kk]
    <3>a. P = [T EXCEPT !.co = X]
      BY <3>2, <1>11
    <3>3. uid_sec = T.uid_sec /\ cache = T.players
      BY <2>2, <1>10
    <3> HIDE DEF uid_sec, cache, kk, P, M, player, X
    <3>4. P = [T EXCEPT !.co = X, !.uid_sec = uid_sec, !.players = cache]
      <4>1. T \in LuaState
        BY <1>7
      <4>2. [T EXCEPT !.co = X]
              = [T EXCEPT !.co = X, !.uid_sec = T.uid_sec, !.players = T.players]
        BY <4>1, FieldUpdates, Zenon
      <4> QED  BY <3>a, <3>3, <4>2, Zenon
    <3> QED  BY <3>4 DEF X
  <2>3. CASE stage \notin {"insertBase", "findDetail"}
    <3>1. [L.co EXCEPT ![c] = kk] = T.co
      <4>1. player = k.uid /\ kk = [k EXCEPT !.told = told]
        BY <2>3, <1>1, <1>2 DEF Coroutine
      <4>2. T.co = [L.co EXCEPT ![c] = [k EXCEPT !.told = told]]
        BY <1>7 DEF LuaState
      <4> QED  BY <4>1, <4>2
    <3>2. T = [T EXCEPT !.co = T.co, !.uid_sec = L.uid_sec, !.players = L.players]
      BY <1>7, <1>10, Zenon DEF LuaState
    <3>3. CASE stage = "done" /\ k.kind = "enter"
      <4>1. P = [T EXCEPT !.players = @ \cup {k.uid}]
        BY <3>3, <1>10 DEF Passing
      <4>2. uid_sec = T.uid_sec /\ cache = T.players \cup {k.uid}
        BY <3>3, <1>10
      <4> HIDE DEF uid_sec, cache, kk, P, M, player
      <4>3. T \in LuaState
        BY <1>7
      <4>4. [T EXCEPT !.players = T.players \cup {k.uid}]
              = [T EXCEPT !.co = T.co, !.uid_sec = T.uid_sec, !.players = T.players \cup {k.uid}]
        BY <4>3, FieldUpdates, Zenon
      <4> QED  BY <4>1, <4>2, <4>4, <3>1, Zenon
    <3>4. CASE stage = "done" /\ k.kind = "leave"
      <4>1. P = [T EXCEPT !.players = @ \ {k.uid}]
        BY <3>4, <1>10 DEF Passing
      <4>2. uid_sec = T.uid_sec /\ cache = T.players \ {k.uid}
        BY <3>4, <1>10
      <4> HIDE DEF uid_sec, cache, kk, P, M, player
      <4>3. T \in LuaState
        BY <1>7
      <4>4. [T EXCEPT !.players = T.players \ {k.uid}]
              = [T EXCEPT !.co = T.co, !.uid_sec = T.uid_sec, !.players = T.players \ {k.uid}]
        BY <4>3, FieldUpdates, Zenon
      <4> QED  BY <4>1, <4>2, <4>4, <3>1, Zenon
    <3>5. CASE stage = "done" => k.kind \notin {"enter", "leave"}
      BY <3>1, <3>2, <3>5, <1>10, <2>3 DEF Passing
    <3> QED  BY <3>3, <3>4, <3>5
  <2> QED  BY <2>1, <2>2, <2>3
<1>13. uid_sec \in Nat /\ cache \in SUBSET Nat
  BY <1>0, <1>2
<1> HIDE DEF P, uid_sec, cache, M, player
<1>14. /\ P \in LuaState /\ P.co = [L.co EXCEPT ![c] = kk] /\ P.uid_sec = uid_sec
       /\ P.players = cache /\ P.query_id = L.query_id /\ P.table = table
       /\ P.crossed = L.crossed /\ P.doubt = L.doubt
       /\ P.coroutines = L.coroutines /\ P.timeout = L.timeout
  BY <1>12, <1>7, <1>9, <1>13 DEF LuaState
<1>15. /\ DOMAIN P.co = DOMAIN L.co /\ P.co[c] = kk
       /\ \A x \in DOMAIN L.co \ {c} : P.co[x] = L.co[x]
  BY <1>14, <1>0, <1>1
<1>16. \A id \in DOMAIN P.table : P.table[id] \in DOMAIN P.co
  BY <1>14, <1>15 DEF table, Without
<1>17. Resume(L, c, a) = Enter(P, c, stage)
  BY Zenon DEF Resume, P, T, M, stage, heard
<1>18. n \in DOMAIN table => P.co[table[n]].acc = L.co[table[n]].acc
  <2>1. n \in DOMAIN table => table[n] \in DOMAIN L.co
    BY <1>14, <1>15, <1>16
  <2> QED  BY <2>1, <1>8, <1>15
<1> HIDE DEF kk
<1>19. [kk EXCEPT !.stage = stage].told = told /\ [kk EXCEPT !.stage = stage].uid = player
  BY <1>8 DEF Coroutine
<1>19a. P.query_id[P.co[c].lib] + 1 = n /\ P.co[c].acc = k.acc /\ P.co[c].lib = k.lib
  BY <1>8, <1>14, <1>15 DEF kk
<1> DEFINE R == Enter(P, c, stage)
<1>19b. Entered(P, c, stage, R)
  <2>1. c \in DOMAIN P.co
    BY <1>15, Zenon
  <2> QED  BY <1>3, <1>14, <1>16, <2>1, EnterResult
<1> HIDE DEF R
<1>20. /\ R \in LuaState /\ DOMAIN R.co = DOMAIN L.co
       /\ \A x \in DOMAIN L.co \ {c} : R.co[x] = L.co[x]
       /\ R.players = cache /\ R.uid_sec = uid_sec
       /\ R.coroutines = L.coroutines /\ R.timeout = L.timeout
       /\ stage \in Ended =>
             /\ R.co[c] = [kk EXCEPT !.stage = stage]
             /\ R.query_id = L.query_id /\ R.table = table
             /\ R.crossed = L.crossed /\ R.doubt = L.doubt
       /\ stage \notin Ended =>
             /\ R.co[c] = [kk EXCEPT !.stage = stage, !.id = n]
             /\ R.query_id = [L.query_id EXCEPT ![k.lib] = n]
             /\ R.table = With(table, n, c)
             /\ n \notin DOMAIN table => R.crossed = L.crossed /\ R.doubt = L.doubt
             /\ n \in DOMAIN table =>
                   /\ R.crossed = L.crossed \cup {n}
                   /\ R.doubt = L.doubt \cup {k.acc, L.co[table[n]].acc}
  <2>1. /\ R \in LuaState /\ DOMAIN R.co = DOMAIN L.co
        /\ \A x \in DOMAIN L.co \ {c} : R.co[x] = L.co[x]
        /\ R.players = cache /\ R.uid_sec = uid_sec
        /\ R.coroutines = L.coroutines /\ R.timeout = L.timeout
    BY <1>14, <1>15, <1>19b DEF Entered
  <2>2. CASE stage \in Ended
    <3>1. /\ R.co[c] = [kk EXCEPT !.stage = stage]
          /\ R.query_id = L.query_id /\ R.table = table
          /\ R.crossed = L.crossed /\ R.doubt = L.doubt
      BY <1>14, <1>15, <1>19b, <2>2, Zenon DEF Entered
    <3> QED  BY <2>1, <2>2, <3>1, Zenon
  <2>3. CASE stage \notin Ended
    <3>1. /\ R.co[c] = [kk EXCEPT !.stage = stage, !.id = n]
          /\ R.query_id = [L.query_id EXCEPT ![k.lib] = n]
          /\ R.table = With(table, n, c)
      BY <1>14, <1>15, <1>19a, <1>19b, <2>3, Zenon DEF Entered
    <3>2. n \notin DOMAIN table => R.crossed = L.crossed /\ R.doubt = L.doubt
      BY <1>14, <1>19a, <1>19b, <2>3, Zenon DEF Entered
    <3>3. n \in DOMAIN table =>
             /\ R.crossed = L.crossed \cup {n}
             /\ R.doubt = L.doubt \cup {k.acc, L.co[table[n]].acc}
      BY <1>14, <1>18, <1>19a, <1>19b, <2>3, Zenon DEF Entered
    <3> QED  BY <2>1, <2>3, <3>1, <3>2, <3>3, Zenon
  <2> QED  BY <2>2, <2>3, Zenon
<1>21. /\ R.co[c].kind = k.kind /\ R.co[c].lib = k.lib /\ R.co[c].acc = k.acc
       /\ R.co[c].stage = stage /\ R.co[c].uid = player /\ R.co[c].told = told
       /\ R.co[c].id = IF stage \in Ended THEN k.id ELSE n
  <2>1. CASE stage \in Ended
    BY <1>8, <1>20, <2>1, Zenon DEF Coroutine
  <2>2. CASE stage \notin Ended
    BY <1>8, <1>20, <2>2, Zenon DEF Coroutine
  <2> QED  BY <2>1, <2>2
<1> HIDE DEF R
<1>22. Resume(L, c, a) = R
  BY <1>17 DEF R
<1> QED  BY <1>20, <1>21, <1>22, Zenon DEF player, uid_sec, cache, told, heard, table, stage, Resumed

\* M is the Lua state when the coroutine k has been started.
Launched(k, stage, listed, M) ==
    LET c == Len(lua.co) + 1
        n == lua.query_id[k.lib] + 1
        doubt == IF Busy(k.acc) THEN lua.doubt \cup {k.acc} ELSE lua.doubt
    IN  /\ M \in LuaState
        /\ Len(M.co) = c /\ DOMAIN M.co = 1 .. c
        /\ \A x \in DOMAIN lua.co : M.co[x] = lua.co[x]
        /\ M.players = lua.players /\ M.uid_sec = lua.uid_sec /\ M.timeout = lua.timeout
        /\ M.coroutines = IF listed THEN With(lua.coroutines, c, 0) ELSE lua.coroutines
        /\ M.co[c] = [k EXCEPT !.stage = stage, !.id = n]
        /\ M.query_id = [lua.query_id EXCEPT ![k.lib] = n]
        /\ M.table = With(lua.table, n, c)
        /\ n \notin DOMAIN lua.table => M.crossed = lua.crossed /\ M.doubt = doubt
        /\ n \in DOMAIN lua.table =>
              /\ M.crossed = lua.crossed \cup {n}
              /\ M.doubt = doubt \cup {k.acc, lua.co[lua.table[n]].acc}

LEMMA StartResult ==
    ASSUME lua \in LuaState, NEW k \in Coroutine, NEW stage \in Stages \ Ended,
           \A id \in DOMAIN lua.table : lua.table[id] \in DOMAIN lua.co,
           NEW listed \in BOOLEAN
    PROVE  Launched(k, stage, listed, Started(k, stage, listed))
<1> DEFINE c == Len(lua.co) + 1
           n == lua.query_id[k.lib] + 1
           doubt == IF Busy(k.acc) THEN lua.doubt \cup {k.acc} ELSE lua.doubt
           L == [lua EXCEPT !.co = Append(@, k), !.doubt = doubt]
           M == Enter(L, c, stage)
           coroutines == IF listed THEN With(lua.coroutines, c, 0) ELSE lua.coroutines
<1>1. /\ lua.co \in Seq(Coroutine) /\ lua.query_id \in [Lib -> Nat]
      /\ lua.doubt \in SUBSET (AccountId \cup {"none"}) /\ lua.coroutines \in Entries
  BY DEF LuaState
<1>2. k.lib \in Lib /\ k.acc \in AccountId \cup {"none"}
  BY DEF Coroutine
<1>3. /\ Append(lua.co, k) \in Seq(Coroutine) /\ c \in Nat
      /\ Len(Append(lua.co, k)) = c /\ Append(lua.co, k)[c] = k
      /\ DOMAIN Append(lua.co, k) = 1 .. c /\ DOMAIN lua.co = 1 .. Len(lua.co)
      /\ \A x \in DOMAIN lua.co : Append(lua.co, k)[x] = lua.co[x]
  BY <1>1
<1>4. doubt \in SUBSET (AccountId \cup {"none"}) /\ coroutines \in Entries
  BY <1>1, <1>2, <1>3, WithEntry
<1> HIDE DEF doubt, coroutines
<1>5. /\ L \in LuaState /\ L.co = Append(lua.co, k) /\ L.doubt = doubt
      /\ L.query_id = lua.query_id /\ L.table = lua.table /\ L.crossed = lua.crossed
      /\ L.players = lua.players /\ L.uid_sec = lua.uid_sec
      /\ L.coroutines = lua.coroutines /\ L.timeout = lua.timeout
  BY <1>3, <1>4 DEF LuaState
<1> HIDE DEF L
<1>6. c \in DOMAIN L.co /\ L.co[c] = k
  BY <1>3, <1>5
<1>7. \A id \in DOMAIN L.table :
          L.table[id] \in DOMAIN L.co /\ L.co[L.table[id]] = lua.co[lua.table[id]]
  BY <1>3, <1>5
<1>8. Entered(L, c, stage, M)
  BY <1>5, <1>6, <1>7, EnterResult, Zenon
<1> HIDE DEF M
<1>9. /\ M \in LuaState /\ DOMAIN M.co = 1 .. c
      /\ \A x \in DOMAIN lua.co : M.co[x] = lua.co[x]
      /\ M.players = lua.players /\ M.uid_sec = lua.uid_sec /\ M.timeout = lua.timeout
      /\ M.co[c] = [k EXCEPT !.stage = stage, !.id = n]
      /\ M.query_id = [lua.query_id EXCEPT ![k.lib] = n]
      /\ M.table = With(lua.table, n, c)
      /\ n \notin DOMAIN lua.table => M.crossed = lua.crossed /\ M.doubt = doubt
      /\ n \in DOMAIN lua.table =>
            /\ M.crossed = lua.crossed \cup {n}
            /\ M.doubt = doubt \cup {k.acc, lua.co[lua.table[n]].acc}
      /\ M.coroutines = lua.coroutines
  <2>1. \A x \in DOMAIN lua.co : x \in DOMAIN L.co \ {c} /\ L.co[x] = lua.co[x]
    BY <1>3, <1>5
  <2>2. n \in DOMAIN lua.table => L.co[L.table[n]].acc = lua.co[lua.table[n]].acc
    BY <1>5, <1>7
  <2> QED  BY <1>3, <1>5, <1>6, <1>8, <2>1, <2>2, Zenon DEF Entered
<1>10. Len(M.co) = c
  <2>1. M.co \in Seq(Coroutine)
    BY <1>9, Zenon DEF LuaState
  <2> QED  BY <2>1, <1>9, <1>3, LenProperties
<1> DEFINE N == [M EXCEPT !.coroutines = coroutines]
<1>11. Started(k, stage, listed) = N
  <2>1. Started(k, stage, listed) = [M EXCEPT !.coroutines = IF listed THEN With(@, c, 0) ELSE @]
    BY DEF Started, M, L, doubt
  <2> QED  BY <2>1, <1>9 DEF coroutines
<1>12. /\ N \in LuaState /\ N.co = M.co /\ N.query_id = M.query_id /\ N.table = M.table
       /\ N.players = M.players /\ N.uid_sec = M.uid_sec /\ N.timeout = M.timeout
       /\ N.crossed = M.crossed /\ N.doubt = M.doubt /\ N.coroutines = coroutines
  BY <1>4, <1>9 DEF LuaState
<1> HIDE DEF N
<1> QED  BY <1>9, <1>10, <1>11, <1>12, Zenon DEF Launched, coroutines, doubt

-----------------------------------------------------------------------------
(* A step of the Lua state: a coroutine is made or goes on, to its next query *)
(* or to its end.                                                             *)
Cleaned(c) == IF c \in DOMAIN lua.co THEN Without(lua.table, lua.co[c].id) ELSE lua.table
Advance(c) ==
    LET k == lua'.co[c]
        n == lua.query_id[k.lib] + 1
        T == Cleaned(c)
    IN  /\ lua' \in LuaState /\ c \in 1 .. (Len(lua.co) + 1)
        /\ DOMAIN lua'.co = DOMAIN lua.co \cup {c} /\ Len(lua'.co) <= MaxCo
        /\ \A x \in DOMAIN lua.co \ {c} : lua'.co[x] = lua.co[x]
        /\ c \in DOMAIN lua.co =>
              /\ Waiting(lua, c)
              /\ k.kind = lua.co[c].kind /\ k.lib = lua.co[c].lib /\ k.acc = lua.co[c].acc
        /\ c \notin DOMAIN lua.co => Waiting(lua', c)
        /\ CoroutineOK(k)
        /\ lua.doubt \subseteq lua'.doubt
        /\ Waiting(lua', c) =>
              /\ k.id = n /\ lua'.query_id = [lua.query_id EXCEPT ![k.lib] = n]
              /\ lua'.table = With(T, n, c)
              /\ n \in DOMAIN T => {k.acc, lua.co[T[n]].acc} \subseteq lua'.doubt
        /\ ~Waiting(lua', c) =>
              /\ k.id = lua.co[c].id /\ lua'.query_id = lua.query_id /\ lua'.table = T
        /\ \A m \in lua'.crossed \ lua.crossed :
              Shared(m) \/ (Waiting(lua', c) /\ m = n /\ n \in DOMAIN T)
        /\ Send(lua', c)

LEMMA StartAdvances ==
    ASSUME LuaInv, TableInv, NEW k \in Coroutine, NEW stage \in Stages \ Ended,
           NEW listed \in BOOLEAN, Start(k, stage, listed),
           CoroutineOK([k EXCEPT !.stage = stage, !.id = lua.query_id[k.lib] + 1])
    PROVE  Launched(k, stage, listed, lua') /\ Advance(Len(lua.co) + 1)
<1> DEFINE c == Len(lua.co) + 1
           n == lua.query_id[k.lib] + 1
           kk == [k EXCEPT !.stage = stage, !.id = n]
<1>1. lua \in LuaState /\ lua.co \in Seq(Coroutine) /\ DOMAIN lua.co = 1 .. Len(lua.co)
      /\ Len(lua.co) \in Nat
  BY DEF LuaInv, LuaState
<1>2. Launched(k, stage, listed, lua')
  BY <1>1, StartResult DEF Start, TableInv
<1>3. kk \in Coroutine /\ kk.lib = k.lib /\ kk.acc = k.acc /\ kk.id = n /\ kk.stage = stage
  <2>1. k.lib \in Lib
    BY DEF Coroutine
  <2>2. n \in Nat
    BY <1>1, <2>1 DEF LuaState
  <2> QED  BY <2>2, Zenon DEF Coroutine
<1>4. /\ lua' \in LuaState /\ DOMAIN lua'.co = 1 .. c /\ Len(lua'.co) = c
      /\ \A x \in DOMAIN lua.co : lua'.co[x] = lua.co[x]
      /\ lua'.co[c] = kk /\ lua'.query_id = [lua.query_id EXCEPT ![k.lib] = n]
      /\ lua'.table = With(lua.table, n, c)
      /\ lua.doubt \subseteq lua'.doubt
      /\ \A m \in lua'.crossed \ lua.crossed : m = n /\ n \in DOMAIN lua.table
      /\ n \in DOMAIN lua.table => {k.acc, lua.co[lua.table[n]].acc} \subseteq lua'.doubt
  BY <1>2 DEF Launched
<1>5. c \in 1 .. Len(lua.co) + 1 /\ c \notin DOMAIN lua.co /\ 1 .. c = DOMAIN lua.co \cup {c}
      /\ Cleaned(c) = lua.table
  BY <1>1 DEF Cleaned
<1>6. Waiting(lua', c)
  BY <1>3, <1>4 DEF Waiting
<1>7. Len(lua'.co) <= MaxCo /\ Send(lua', c)
  BY <1>1, <1>4, PlayerMgrAssumption DEF Start
<1> HIDE DEF c, kk, n
<1>8. Advance(c)
  BY <1>3, <1>4, <1>5, <1>6, <1>7 DEF Advance, kk, n
<1> QED  BY <1>2, <1>8 DEF c

LEMMA ResumeAdvances ==
    ASSUME LuaInv, TableInv, NEW c \in DOMAIN lua.co, Waiting(lua, c),
           NEW a, a = Nil \/ a \in AnswerType, NEW L \in LuaState,
           L.co = lua.co, L.query_id = lua.query_id, L.table = lua.table,
           L.uid_sec = lua.uid_sec, lua.doubt \subseteq L.doubt,
           \A m \in L.crossed \ lua.crossed : Shared(m),
           NEW M, M = Resume(L, c, a), lua' \in LuaState, lua'.co = M.co,
           lua'.query_id = M.query_id, lua'.table = M.table, lua'.crossed = M.crossed,
           M.doubt \subseteq lua'.doubt, Send(lua', c)
    PROVE  Resumed(L, c, a, M) /\ Advance(c)
<1> DEFINE k == lua.co[c]
           n == lua.query_id[k.lib] + 1
           stage == After(k, a)
           table == Without(lua.table, k.id)
<1>1. lua \in LuaState /\ lua.co \in Seq(Coroutine) /\ DOMAIN lua.co = 1 .. Len(lua.co)
      /\ Len(lua.co) \in Nat /\ lua.query_id \in [Lib -> Nat] /\ lua.uid_sec \in Nat
  BY DEF LuaInv, LuaState
<1>2. CoroutineOK(k) /\ k \in Coroutine /\ k.lib \in Lib
  BY DEF LuaInv, CoroutineOK, Coroutine
<1>3. Resumed(L, c, a, M)
  <2>1. CoroutineOK(L.co[c]) /\ Waiting(L, c)
        /\ \A id \in DOMAIN L.table : L.table[id] \in DOMAIN L.co
    BY <1>2 DEF Waiting, TableInv
  <2> QED  BY <2>1, ResumeResult
<1>4. stage \in StagesOf(k.kind, k.lib) /\ stage \in Stages
  BY <1>2, AfterStage, Zenon DEF Waiting
<1> HIDE DEF stage
<1>5. /\ M \in LuaState /\ DOMAIN M.co = DOMAIN lua.co
      /\ \A x \in DOMAIN lua.co \ {c} : M.co[x] = lua.co[x]
      /\ M.co[c].kind = k.kind /\ M.co[c].lib = k.lib /\ M.co[c].acc = k.acc
      /\ M.co[c].stage = stage
      /\ stage = "insertBase" => M.co[c].uid = lua.uid_sec + 1
      /\ M.co[c].id = IF stage \in Ended THEN k.id ELSE n
      /\ stage \in Ended => M.query_id = lua.query_id /\ M.table = table
                            /\ M.crossed = L.crossed /\ M.doubt = L.doubt
      /\ stage \notin Ended =>
            /\ M.query_id = [lua.query_id EXCEPT ![k.lib] = n]
            /\ M.table = With(table, n, c)
            /\ n \notin DOMAIN table => M.crossed = L.crossed /\ M.doubt = L.doubt
            /\ n \in DOMAIN table =>
                  /\ M.crossed = L.crossed \cup {n}
                  /\ M.doubt = L.doubt \cup {k.acc, lua.co[table[n]].acc}
  <2>1. /\ M \in LuaState /\ DOMAIN M.co = DOMAIN lua.co
        /\ \A x \in DOMAIN lua.co \ {c} : M.co[x] = lua.co[x]
    <3>1. /\ M \in LuaState /\ DOMAIN M.co = DOMAIN L.co
          /\ \A x \in DOMAIN L.co \ {c} : M.co[x] = L.co[x]
      BY <1>3 DEF Resumed
    <3> QED  BY <3>1
  <2>1a. /\ M.co[c].kind = k.kind /\ M.co[c].lib = k.lib /\ M.co[c].acc = k.acc
         /\ M.co[c].stage = stage
    BY <1>3, Zenon DEF Resumed, stage
  <2>1b. M.co[c].id = IF stage \in Ended THEN k.id ELSE n
    BY <1>3, Zenon DEF Resumed, stage
  <2>2. stage = "insertBase" => M.co[c].uid = lua.uid_sec + 1
    BY <1>3, Zenon DEF Resumed, stage
  <2>3. stage \in Ended => M.query_id = lua.query_id /\ M.table = table
                           /\ M.crossed = L.crossed /\ M.doubt = L.doubt
    BY <1>3, Zenon DEF Resumed, stage
  <2>4. stage \notin Ended =>
            /\ M.query_id = [lua.query_id EXCEPT ![k.lib] = n]
            /\ M.table = With(table, n, c)
            /\ n \notin DOMAIN table => M.crossed = L.crossed /\ M.doubt = L.doubt
            /\ n \in DOMAIN table =>
                  /\ M.crossed = L.crossed \cup {n}
                  /\ M.doubt = L.doubt \cup {k.acc, lua.co[table[n]].acc}
    BY <1>3, Zenon DEF Resumed, stage
  <2> QED  BY <2>1, <2>1a, <2>1b, <2>2, <2>3, <2>4, Zenon
<1>6. Waiting(lua', c) <=> stage \notin Ended
  BY <1>5, Zenon DEF Waiting
<1>7. CoroutineOK(lua'.co[c])
  <2>1. M.co[c] \in Coroutine
    <3>1. M.co \in Seq(Coroutine)
      BY <1>5, Zenon DEF LuaState
    <3>2. c \in DOMAIN M.co
      BY <1>5, Zenon
    <3> QED  BY <3>1, <3>2
  <2>2. n \in Nat \ {0}
    BY <1>1, <1>2
  <2>3. k.lib # "redis"
    BY <1>2 DEF CoroutineOK, Waiting, Ended
  <2>4. k.lib # "redis" => k.id > 0
    BY <1>2 DEF CoroutineOK
  <2>5. M.co[c].id > 0
    <3>1. k.id > 0 /\ n > 0
      BY <2>2, <2>3, <2>4
    <3> HIDE DEF k, n
    <3> QED  BY <3>1, <1>5
  <2>6. stage = "insertBase" => M.co[c].uid > 0
    <3>1. lua.uid_sec + 1 > 0
      BY <1>1
    <3> QED  BY <3>1, <1>5, Zenon
  <2>9. lua'.co[c] = M.co[c]
    OBVIOUS
  <2>7. k.kind # "script" => k.lib = "mongo" /\ k.acc \in AccountId
    BY <1>2 DEF CoroutineOK
  <2>8. k.kind = "script" => k.lib # "mongo" /\ k.acc = "none"
    BY <1>2, Zenon DEF CoroutineOK
  <2>10. /\ M.co[c].kind = k.kind /\ M.co[c].lib = k.lib /\ M.co[c].acc = k.acc
         /\ M.co[c].stage = stage
    BY <1>5, Zenon
  <2> QED  BY <2>1, <2>3, <2>5, <2>6, <2>7, <2>8, <2>9, <2>10, <1>4, Zenon DEF CoroutineOK
<1>8. lua.doubt \subseteq lua'.doubt
  <2>1. L.doubt \subseteq M.doubt
    BY <1>5, Zenon
  <2> QED  BY <2>1
<1>9. Cleaned(c) = table
  BY DEF Cleaned
<1>10. Len(lua'.co) <= MaxCo
  <2>1. lua'.co \in Seq(Coroutine)
    BY <1>5, Zenon DEF LuaState
  <2>2. Len(lua'.co) = Len(lua.co)
    <3>1. Len(lua'.co) \in Nat /\ 1 .. Len(lua'.co) = 1 .. Len(lua.co)
      BY <2>1, <1>1, <1>5, LenProperties, Zenon
    <3> QED  BY <3>1, <1>1
  <2> QED  BY <2>2, Zenon DEF LuaInv
<1>11. \A m \in lua'.crossed \ lua.crossed :
            Shared(m) \/ (Waiting(lua', c) /\ m = n /\ n \in DOMAIN table)
  BY <1>5, <1>6, Zenon
<1> HIDE DEF table
<1> HIDE DEF k, n
<1>12. DOMAIN lua'.co = DOMAIN lua.co \cup {c} /\ c \in 1 .. Len(lua.co) + 1
  <2>1. DOMAIN lua'.co = DOMAIN lua.co
    BY <1>5
  <2>2. c \in 1 .. Len(lua.co) /\ Len(lua.co) \in Nat
    BY <1>1
  <2>3. DOMAIN lua.co = DOMAIN lua.co \cup {c}
    OBVIOUS
  <2>4. c \in 1 .. Len(lua.co) + 1
    BY <2>2
  <2> QED  BY <2>1, <2>3, <2>4
<1>13. Advance(c)
  <2> DEFINE m == lua'.co[c]
             next == lua.query_id[m.lib] + 1
  <2>1. m = M.co[c] /\ m.kind = k.kind /\ m.lib = k.lib /\ m.acc = k.acc
    BY <1>5, Zenon
  <2>2. next = n
    BY <2>1 DEF n
  <2>3. Waiting(lua', c) =>
           /\ m.id = next /\ lua'.query_id = [lua.query_id EXCEPT ![m.lib] = next]
           /\ lua'.table = With(table, next, c)
           /\ next \in DOMAIN table => {m.acc, lua.co[table[next]].acc} \subseteq lua'.doubt
    BY <1>5, <1>6, <2>1, <2>2
  <2>4. ~Waiting(lua', c) =>
           m.id = k.id /\ lua'.query_id = lua.query_id /\ lua'.table = table
    BY <1>5, <1>6, <2>1
  <2>5. \A x \in DOMAIN lua.co \ {c} : lua'.co[x] = lua.co[x]
    BY <1>5, Zenon
  <2>6. \A i \in lua'.crossed \ lua.crossed :
           Shared(i) \/ (Waiting(lua', c) /\ i = next /\ next \in DOMAIN table)
    BY <1>11, <2>2, Zenon
  <2> HIDE DEF m, next
  <2> QED  BY <1>7, <1>8, <1>9, <1>10, <1>12, <2>1, <2>3, <2>4, <2>5, <2>6, Zenon
           DEF Advance, k, m, next
<1> QED  BY <1>3, <1>13

(* A number two libraries gave out stays one. *)
LEMMA SharedMeans ==
    ASSUME lua \in LuaState, NEW n \in Nat
    PROVE  Shared(n) <=> \E l, m \in Lib : l # m /\ n <= lua.query_id[l] /\ n <= lua.query_id[m]
<1>1. \A l \in Lib : lua.query_id[l] \in Nat
  BY DEF LuaState
<1>2. \A l \in Lib : lua.query_id[l] \in 0 .. n - 1 <=> ~(n <= lua.query_id[l])
  BY <1>1
<1> QED  BY <1>2 DEF Shared

(* What a coroutine that goes on leaves of each part of CoreInv. *)
LEMMA AdvanceCounts ==
    ASSUME LuaInv, NEW c, Advance(c)
    PROVE  /\ lua.query_id \in [Lib -> Nat] /\ lua'.query_id \in [Lib -> Nat]
           /\ \A l \in Lib : lua.query_id[l] <= lua'.query_id[l]
           /\ \A x \in DOMAIN lua'.co : CoroutineOK(lua'.co[x])
                 /\ lua'.co[x].id <= lua'.query_id[lua'.co[x].lib]
           /\ c \in DOMAIN lua.co => lua.co[c].id <= lua'.co[c].id
           /\ Waiting(lua', c) =>
                 /\ lua'.co[c].id = lua'.query_id[lua'.co[c].lib]
                 /\ lua'.co[c].id = lua.query_id[lua'.co[c].lib] + 1
                 /\ c \in DOMAIN lua.co => lua.co[c].id < lua'.co[c].id
           /\ lua'.co[c].lib \in Lib
<1> DEFINE k == lua'.co[c]
           n == lua.query_id[k.lib] + 1
<1>1. /\ lua.query_id \in [Lib -> Nat] /\ lua'.query_id \in [Lib -> Nat]
      /\ CoroutineOK(k) /\ k \in Coroutine /\ k.lib \in Lib
  BY DEF LuaInv, Advance, LuaState, CoroutineOK, Coroutine
<1>2. n \in Nat
  BY <1>1
<1>3. \A x \in DOMAIN lua.co : CoroutineOK(lua.co[x]) /\ lua.co[x].lib \in Lib
          /\ lua.co[x].id \in Nat /\ lua.co[x].id <= lua.query_id[lua.co[x].lib]
  BY DEF LuaInv, CoroutineOK, Coroutine
<1>4. CASE Waiting(lua', c)
  <2>1. k.id = n /\ lua'.query_id = [lua.query_id EXCEPT ![k.lib] = n]
    BY <1>4 DEF Advance
  <2>2. \A l \in Lib : lua.query_id[l] <= lua'.query_id[l]
    BY <1>1, <2>1
  <2>3. c \in DOMAIN lua.co => lua.co[c].id < lua'.co[c].id
    <3>1. c \in DOMAIN lua.co => lua.co[c].lib = k.lib
      BY DEF Advance
    <3> QED  BY <1>1, <1>3, <2>1, <3>1
  <2>4. k.id = lua'.query_id[k.lib]
    BY <1>1, <2>1
  <2>5. \A x \in DOMAIN lua.co \ {c} : lua'.co[x].id <= lua'.query_id[lua'.co[x].lib]
    <3>1. \A x \in DOMAIN lua.co \ {c} : lua'.co[x] = lua.co[x]
      BY Zenon DEF Advance
    <3> QED  BY <1>1, <1>3, <2>2, <3>1
  <2>6. DOMAIN lua'.co = DOMAIN lua.co \cup {c}
        /\ \A x \in DOMAIN lua.co \ {c} : lua'.co[x] = lua.co[x]
    BY DEF Advance
  <2>7. k.id \in Nat /\ (c \in DOMAIN lua.co => lua.co[c].id <= k.id)
    BY <1>2, <1>3, <2>1, <2>3
  <2> QED  BY <1>1, <1>2, <1>3, <2>1, <2>2, <2>3, <2>4, <2>5, <2>6, <2>7
<1>5. CASE ~Waiting(lua', c)
  <2>1. /\ c \in DOMAIN lua.co /\ k.id = lua.co[c].id /\ lua'.query_id = lua.query_id
        /\ k.lib = lua.co[c].lib
        /\ DOMAIN lua'.co = DOMAIN lua.co \cup {c}
        /\ \A x \in DOMAIN lua.co \ {c} : lua'.co[x] = lua.co[x]
    BY <1>5 DEF Advance
  <2> QED  BY <1>1, <1>3, <1>5, <2>1
<1> QED  BY <1>4, <1>5

LEMMA AdvanceTable ==
    ASSUME LuaInv, TableInv, CrossInv, NEW c, Advance(c)
    PROVE  TableInv' /\ CrossInv'
<1> DEFINE k == lua'.co[c]
           n == lua.query_id[k.lib] + 1
           T == Cleaned(c)
<1>1. /\ lua \in LuaState /\ lua' \in LuaState
      /\ DOMAIN lua'.co = DOMAIN lua.co \cup {c}
      /\ \A x \in DOMAIN lua.co \ {c} : lua'.co[x] = lua.co[x]
  BY DEF LuaInv, Advance
<1>2. \A id \in DOMAIN T : id \in DOMAIN lua.table /\ T[id] = lua.table[id] /\ T[id] # c
          /\ T[id] \in DOMAIN lua.co
  BY DEF Cleaned, Without, TableInv
<1> HIDE DEF T
<1>3. \A id \in DOMAIN T : /\ T[id] \in DOMAIN lua'.co
                           /\ lua'.co[T[id]].id = id /\ Waiting(lua', T[id])
  BY <1>1, <1>2 DEF TableInv, Waiting
<1>4. TableInv'
  <2>1. CASE Waiting(lua', c)
    <3>1. lua'.table = With(T, n, c) /\ k.id = n
      BY <2>1 DEF Advance, T
    <3> HIDE DEF n
    <3>2. \A id \in DOMAIN lua'.table :
              (id = n /\ lua'.table[id] = c) \/ (id \in DOMAIN T /\ lua'.table[id] = T[id])
      <4>1. DOMAIN With(T, n, c) = DOMAIN T \cup {n}
            /\ \A id \in DOMAIN T \cup {n} : With(T, n, c)[id] = IF id = n THEN c ELSE T[id]
        BY DEF With
      <4> DEFINE W == With(T, n, c)
      <4>2. lua'.table = W
        BY <3>1
      <4> HIDE DEF W
      <4>3. DOMAIN W = DOMAIN T \cup {n}
            /\ \A id \in DOMAIN T \cup {n} : W[id] = IF id = n THEN c ELSE T[id]
        BY <4>1 DEF W
      <4> QED  BY <4>2, <4>3
    <3>3. c \in DOMAIN lua'.co
      BY <1>1
    <3> QED  BY <1>3, <2>1, <3>1, <3>2, <3>3 DEF TableInv, Waiting
  <2>2. CASE ~Waiting(lua', c)
    <3>1. lua'.table = T
      BY <2>2 DEF Advance, T
    <3> QED  BY <1>3, <3>1, Zenon DEF TableInv, Waiting
  <2> QED  BY <2>1, <2>2
<1>5. CrossInv'
  <2>1. SUFFICES ASSUME NEW m \in lua'.crossed PROVE Shared(m)'
    BY DEF CrossInv
  <2>2. m \in Nat
    BY <1>1 DEF LuaState
  <2>3. Shared(m)' <=> \E l, j \in Lib : l # j /\ m <= lua'.query_id[l] /\ m <= lua'.query_id[j]
    <3>1. \A l \in Lib : lua'.query_id[l] \in Nat
      BY <1>1 DEF LuaState
    <3>2. \A l \in Lib : lua'.query_id[l] \in 0 .. m - 1 <=> ~(m <= lua'.query_id[l])
      BY <2>2, <3>1
    <3> QED  BY <3>2 DEF Shared
  <2>4. CASE Shared(m)
    <3>1. PICK l \in Lib, j \in Lib : l # j /\ m <= lua.query_id[l] /\ m <= lua.query_id[j]
      BY <2>2, <2>4, <1>1, SharedMeans
    <3>2. m <= lua'.query_id[l] /\ m <= lua'.query_id[j]
      BY <2>2, <3>1, AdvanceCounts
    <3> QED  BY <2>3, <3>1, <3>2
  <2>5. CASE ~Shared(m)
    <3>1. Waiting(lua', c) /\ m = n /\ n \in DOMAIN T
      BY <2>5, <2>1, Zenon DEF Advance, CrossInv, T
    <3> DEFINE b == lua.table[n]
    <3>2. b \in DOMAIN lua.co /\ lua.co[b].id = n
      BY <3>1, <1>2, Zenon DEF TableInv
    <3>3. lua.co[b].lib \in Lib /\ n <= lua.query_id[lua.co[b].lib]
      BY <3>2, Zenon DEF LuaInv, CoroutineOK, Coroutine
    <3>4. k.lib \in Lib /\ k.id = n /\ k.id = lua'.query_id[k.lib]
          /\ lua.query_id[lua.co[b].lib] <= lua'.query_id[lua.co[b].lib]
          /\ lua.query_id \in [Lib -> Nat] /\ lua'.query_id \in [Lib -> Nat]
      BY <3>1, <3>3, AdvanceCounts, Zenon
    <3>7. n \in Nat /\ ~(n <= lua.query_id[k.lib])
      <4>1. lua.query_id[k.lib] \in Nat
        BY <3>4, Zenon
      <4> QED  BY <4>1
    <3>5. k.lib # lua.co[b].lib
      BY <3>3, <3>7, Zenon
    <3> HIDE DEF n
    <3>6. n <= lua'.query_id[lua.co[b].lib] /\ n <= lua'.query_id[k.lib]
      <4> DEFINE u == lua.query_id[lua.co[b].lib]
                 v == lua'.query_id[lua.co[b].lib]
      <4>1. u \in Nat /\ v \in Nat /\ n <= u /\ u <= v
        BY <3>3, <3>4, Zenon
      <4>2. n = lua'.query_id[k.lib]
        BY <3>4, Zenon
      <4> HIDE DEF u, v
      <4>3. n <= v
        BY <4>1, <3>7
      <4>4. n <= lua'.query_id[k.lib]
        BY <4>2, <3>7
      <4> QED  BY <4>4, <4>3, Zenon DEF v
    <3> QED  BY <2>3, <3>1, <3>3, <3>4, <3>5, <3>6, Zenon
  <2> QED  BY <2>4, <2>5
<1> QED  BY <1>4, <1>5, Zenon
-----------------------------------------------------------------------------
(* The messages.  From f to g each proxy's sequence loses some at its head  *)
(* and its end, and one of them may gain m at its end.                      *)
Moved(f, g, m) ==
    \E s \in [Db -> Nat], e \in Db : \A d \in Db : \A i \in DOMAIN g[d] :
        \/ i + s[d] \in DOMAIN f[d] /\ g[d][i] = f[d][i + s[d]]
        \/ d = e /\ i = Len(g[d]) /\ g[d][i] = m
Drained(f, g) ==
    \E s \in [Db -> Nat] : \A d \in Db : \A i \in DOMAIN g[d] :
        i + s[d] \in DOMAIN f[d] /\ g[d][i] = f[d][i + s[d]]

(* What a queue that loses its head or its end, or gains a message, keeps. *)
LEMMA MovedAll ==
    ASSUME NEW f, NEW g, NEW m, Moved(f, g, m)
    PROVE  All(g) \subseteq All(f) \cup {m}
  BY DEF Moved, All

LEMMA DrainedAll ==
    ASSUME NEW f, NEW g, Drained(f, g)
    PROVE  All(g) \subseteq All(f)
  BY DEF Drained, All

LEMMA DrainedUnique ==
    ASSUME NEW S, NEW f \in [Db -> Seq(S)], NEW g \in [Db -> Seq(S)], Drained(f, g), Unique(f)
    PROVE  Unique(g)
<1>1. PICK s \in [Db -> Nat] : \A d \in Db : \A i \in DOMAIN g[d] :
                                  i + s[d] \in DOMAIN f[d] /\ g[d][i] = f[d][i + s[d]]
  BY DEF Drained
<1>2. SUFFICES ASSUME NEW d \in Db, NEW e \in Db, NEW i \in DOMAIN g[d], NEW j \in DOMAIN g[e],
                      g[d][i].c = g[e][j].c, g[d][i].id = g[e][j].id, g[d][i].id > 0
               PROVE  d = e /\ i = j
  BY DEF Unique
<1>3. d = e /\ i + s[d] = j + s[e]
  <2>1. /\ i + s[d] \in DOMAIN f[d] /\ g[d][i] = f[d][i + s[d]]
        /\ j + s[e] \in DOMAIN f[e] /\ g[e][j] = f[e][j + s[e]]
    BY <1>1
  <2> QED  BY <1>2, <2>1 DEF Unique
<1>4. i \in Nat /\ j \in Nat /\ s[d] \in Nat
  OBVIOUS
<1> QED  BY <1>3, <1>4

LEMMA MovedUnique ==
    ASSUME NEW S, NEW f \in [Db -> Seq(S)], NEW g \in [Db -> Seq(S)], NEW m,
           Moved(f, g, m), Unique(f),
           \A x \in All(f) : x.c = m.c /\ x.id = m.id => ~(m.id > 0)
    PROVE  Unique(g)
<1>1. PICK s \in [Db -> Nat], e \in Db : \A d \in Db : \A i \in DOMAIN g[d] :
            \/ i + s[d] \in DOMAIN f[d] /\ g[d][i] = f[d][i + s[d]]
            \/ d = e /\ i = Len(g[d]) /\ g[d][i] = m
  BY DEF Moved
<1>2. SUFFICES ASSUME NEW d \in Db, NEW b \in Db, NEW i \in DOMAIN g[d], NEW j \in DOMAIN g[b],
                      g[d][i].c = g[b][j].c, g[d][i].id = g[b][j].id, g[d][i].id > 0
               PROVE  d = b /\ i = j
  BY DEF Unique
<1>3. i \in Nat /\ j \in Nat /\ s[d] \in Nat /\ s[b] \in Nat
  OBVIOUS
<1> DEFINE old(x, k) == k + s[x] \in DOMAIN f[x] /\ g[x][k] = f[x][k + s[x]]
           new(x, k) == x = e /\ k = Len(g[x]) /\ g[x][k] = m
<1>4. (old(d, i) \/ new(d, i)) /\ (old(b, j) \/ new(b, j))
  BY <1>1
<1>5. /\ old(d, i) => g[d][i] \in All(f)
      /\ old(b, j) => g[b][j] \in All(f)
  BY DEF All
<1>6. CASE old(d, i) /\ old(b, j)
  <2>1. d = b /\ i + s[d] = j + s[b]
    BY <1>2, <1>6 DEF Unique
  <2> QED  BY <2>1, <1>3
<1>7. CASE new(d, i) /\ new(b, j)
  BY <1>7
<1>8. ~(old(d, i) /\ new(b, j))
  BY <1>2, <1>5
<1>9. ~(new(d, i) /\ old(b, j))
  BY <1>2, <1>5
<1> QED  BY <1>4, <1>6, <1>7, <1>8, <1>9

LEMMA SameDrained ==
    ASSUME NEW S, NEW f \in [Db -> Seq(S)]
    PROVE  Drained(f, f)
<1>1. [d \in Db |-> 0] \in [Db -> Nat]
  OBVIOUS
<1>2. \A d \in Db : \A i \in DOMAIN f[d] : i + 0 = i
  OBVIOUS
<1> QED  BY <1>1, <1>2 DEF Drained

LEMMA TailDrained ==
    ASSUME NEW S, NEW f \in [Db -> Seq(S)], NEW d \in Db, f[d] # <<>>
    PROVE  LET g == [f EXCEPT ![d] = Tail(f[d])]
           IN  /\ g \in [Db -> Seq(S)] /\ Drained(f, g)
               /\ Head(f[d]) \in All(f) /\ Head(f[d]) \in S
               /\ Unique(f) /\ Head(f[d]).id > 0 =>
                     \A x \in All(g) : ~(x.c = Head(f[d]).c /\ x.id = Head(f[d]).id)
<1> DEFINE g == [f EXCEPT ![d] = Tail(f[d])]
           s == [e \in Db |-> IF e = d THEN 1 ELSE 0]
<1>1. /\ f[d] \in Seq(S) /\ Len(f[d]) \in Nat /\ Len(f[d]) > 0 /\ DOMAIN f[d] = 1 .. Len(f[d])
      /\ Head(f[d]) = f[d][1] /\ 1 \in DOMAIN f[d]
  BY LenProperties, EmptySeq
<1>2. Tail(f[d]) \in Seq(S) /\ DOMAIN Tail(f[d]) = 1 .. Len(f[d]) - 1
      /\ \A i \in 1 .. Len(f[d]) - 1 : Tail(f[d])[i] = f[d][i + 1]
  BY <1>1, HeadTailProperties
<1>3. g \in [Db -> Seq(S)] /\ g[d] = Tail(f[d]) /\ \A e \in Db \ {d} : g[e] = f[e]
  BY <1>2
<1> HIDE DEF g
<1>4. \A e \in Db : \A i \in DOMAIN g[e] : /\ i + s[e] \in DOMAIN f[e]
                                           /\ g[e][i] = f[e][i + s[e]]
                                           /\ e = d => i + s[e] # 1
  <2>1. SUFFICES ASSUME NEW e \in Db, NEW i \in DOMAIN g[e]
                 PROVE  /\ i + s[e] \in DOMAIN f[e] /\ g[e][i] = f[e][i + s[e]]
                        /\ e = d => i + s[e] # 1
    OBVIOUS
  <2>2. CASE e = d
    <3>1. i \in 1 .. Len(f[d]) - 1 /\ i + 1 \in 1 .. Len(f[d]) /\ i + 1 # 1
      BY <1>1, <1>2, <1>3, <2>2
    <3> QED  BY <1>1, <1>2, <1>3, <2>2, <3>1
  <2>3. CASE e # d
    <3>1. g[e] = f[e] /\ i + 0 = i
      BY <1>3, <2>3
    <3> QED  BY <2>3, <3>1
  <2> QED  BY <2>2, <2>3
<1>5. s \in [Db -> Nat]
  OBVIOUS
<1> HIDE DEF s
<1>6. Drained(f, g)
  BY <1>4, <1>5 DEF Drained
<1>7. Head(f[d]) \in All(f) /\ Head(f[d]) \in S
  BY <1>1 DEF All
<1>8. ASSUME Unique(f), Head(f[d]).id > 0, NEW x \in All(g),
             x.c = Head(f[d]).c, x.id = Head(f[d]).id
      PROVE  FALSE
  <2>0. PICK e \in Db : \E i \in DOMAIN g[e] : x = g[e][i]
    BY DEF All
  <2>1. PICK i \in DOMAIN g[e] : x = g[e][i]
    BY <2>0
  <2>2. i + s[e] \in DOMAIN f[e] /\ x = f[e][i + s[e]] /\ (e = d => i + s[e] # 1)
    BY <1>4, <2>1
  <2>3. d = e /\ 1 = i + s[e]
    BY <1>1, <1>8, <2>2 DEF Unique
  <2> QED  BY <2>2, <2>3
<1> QED  BY <1>3, <1>6, <1>7, <1>8 DEF g

LEMMA AppendMoves ==
    ASSUME NEW S, NEW f \in [Db -> Seq(S)], NEW d \in Db, NEW m \in S
    PROVE  LET g == [f EXCEPT ![d] = Append(f[d], m)]
           IN  g \in [Db -> Seq(S)] /\ Moved(f, g, m)
<1> DEFINE g == [f EXCEPT ![d] = Append(f[d], m)]
           s == [e \in Db |-> 0]
<1>1. s \in [Db -> Nat]
  OBVIOUS
<1>2. \A e \in Db : \A i \in Nat : i + s[e] = i
  OBVIOUS
<1> HIDE DEF s
<1>3. /\ Append(f[d], m) \in Seq(S)
      /\ DOMAIN Append(f[d], m) = 1 .. Len(Append(f[d], m))
      /\ Len(f[d]) \in Nat /\ DOMAIN f[d] = 1 .. Len(f[d])
      /\ Len(Append(f[d], m)) = Len(f[d]) + 1
      /\ \A i \in 1 .. Len(f[d]) : Append(f[d], m)[i] = f[d][i]
      /\ Append(f[d], m)[Len(f[d]) + 1] = m
  BY AppendProperties, LenProperties
<1>4. /\ g[d] = Append(f[d], m) /\ \A e \in Db \ {d} : g[e] = f[e]
      /\ g \in [Db -> Seq(S)]
  BY <1>3
<1> HIDE DEF g
<1>5. ASSUME NEW e \in Db, NEW i \in DOMAIN g[e]
      PROVE  \/ i + s[e] \in DOMAIN f[e] /\ g[e][i] = f[e][i + s[e]]
             \/ e = d /\ i = Len(g[e]) /\ g[e][i] = m
  <2>1. CASE e = d
    <3>1. i \in Nat /\ (i \in 1 .. Len(f[d]) \/ i = Len(f[d]) + 1)
      BY <1>3, <1>4, <2>1
    <3>2. i + s[e] = i
      BY <1>2, <3>1
    <3> QED  BY <1>3, <1>4, <2>1, <3>1, <3>2
  <2>2. CASE e # d
    <3>1. i + s[e] = i
      BY <1>2, <1>4, <2>2
    <3> QED  BY <1>4, <2>2, <3>1
  <2> QED  BY <2>1, <2>2
<1>6. Moved(f, g, m)
  <2> SUFFICES \E z \in [Db -> Nat], y \in Db : \A e \in Db : \A i \in DOMAIN g[e] :
          \/ i + z[e] \in DOMAIN f[e] /\ g[e][i] = f[e][i + z[e]]
          \/ e = y /\ i = Len(g[e]) /\ g[e][i] = m
    BY DEF Moved
  <2> USE <1>1
  <2> WITNESS s \in [Db -> Nat], d \in Db
  <2> QED  BY <1>5
<1> QED  BY <1>4, <1>6 DEF g

LEMMA QueryTaken ==
    ASSUME toDb \in [Db -> Seq(QueryType)], NEW d \in Db, toDb[d] # <<>>,
           toDb' = [toDb EXCEPT ![d] = Tail(toDb[d])]
    PROVE  /\ toDb' \in [Db -> Seq(QueryType)] /\ Drained(toDb, toDb')
           /\ Head(toDb[d]) \in All(toDb) /\ Head(toDb[d]) \in QueryType
           /\ Unique(toDb) /\ Head(toDb[d]).id > 0 =>
                 \A x \in All(toDb') : ~(x.c = Head(toDb[d]).c /\ x.id = Head(toDb[d]).id)
<1> DEFINE g == [toDb EXCEPT ![d] = Tail(toDb[d])]
<1>1. /\ g \in [Db -> Seq(QueryType)] /\ Drained(toDb, g)
      /\ Head(toDb[d]) \in All(toDb) /\ Head(toDb[d]) \in QueryType
      /\ Unique(toDb) /\ Head(toDb[d]).id > 0 =>
            \A x \in All(g) : ~(x.c = Head(toDb[d]).c /\ x.id = Head(toDb[d]).id)
  BY TailDrained, Zenon
<1>2. toDb' = g
  OBVIOUS
<1> HIDE DEF g
<1> QED  BY <1>1, <1>2

LEMMA AnswerAppended ==
    ASSUME fromDb \in [Db -> Seq(AnswerType)], NEW d \in Db, NEW a \in AnswerType,
           fromDb' = [fromDb EXCEPT ![d] = Append(fromDb[d], a)]
    PROVE  fromDb' \in [Db -> Seq(AnswerType)] /\ Moved(fromDb, fromDb', a)
<1> DEFINE g == [fromDb EXCEPT ![d] = Append(fromDb[d], a)]
<1>1. g \in [Db -> Seq(AnswerType)] /\ Moved(fromDb, g, a)
  BY AppendMoves
<1>2. fromDb' = g
  OBVIOUS
<1> HIDE DEF g
<1> QED  BY <1>1, <1>2

LEMMA QueryAppended ==
    ASSUME toDb \in [Db -> Seq(QueryType)], NEW d \in Db, NEW q \in QueryType,
           toDb' = [toDb EXCEPT ![d] = Append(toDb[d], q)]
    PROVE  toDb' \in [Db -> Seq(QueryType)] /\ Moved(toDb, toDb', q)
<1> DEFINE g == [toDb EXCEPT ![d] = Append(toDb[d], q)]
<1>1. g \in [Db -> Seq(QueryType)] /\ Moved(toDb, g, q)
  BY AppendMoves
<1>2. toDb' = g
  OBVIOUS
<1> HIDE DEF g
<1> QED  BY <1>1, <1>2

LEMMA SendMoves ==
    ASSUME toDb \in [Db -> Seq(QueryType)], NEW c, Send(lua', c),
           Waiting(lua', c) => Query(lua', c) \in QueryType
    PROVE  /\ toDb' \in [Db -> Seq(QueryType)]
           /\ ~Waiting(lua', c) => toDb' = toDb
           /\ Moved(toDb, toDb', Query(lua', c))
<1> DEFINE q == Query(lua', c)
           s == [d \in Db |-> 0]
<1>1. PICK d \in Db : toDb' = IF up[d] = "down" \/ ~Waiting(lua', c) THEN toDb
                              ELSE [toDb EXCEPT ![d] = Append(@, q)]
  BY DEF Send
<1>2. s \in [Db -> Nat] /\ \A e \in Db : \A i \in Nat : i + s[e] = i
  OBVIOUS
<1>2a. s \in [Db -> Nat]
  BY <1>2
<1> HIDE DEF s, q
<1>3. ASSUME toDb' = toDb
      PROVE  toDb' \in [Db -> Seq(QueryType)] /\ Moved(toDb, toDb', q)
  <2>1. \A e \in Db : \A i \in DOMAIN toDb'[e] : i + s[e] \in DOMAIN toDb[e]
                                                /\ toDb'[e][i] = toDb[e][i + s[e]]
    BY <1>2, <1>3
  <2> QED  BY <1>2, <1>3, <2>1 DEF Moved
<1>4. ASSUME Waiting(lua', c), toDb' = [toDb EXCEPT ![d] = Append(@, q)]
      PROVE  toDb' \in [Db -> Seq(QueryType)] /\ Moved(toDb, toDb', q)
  <2>1. q \in QueryType
    BY <1>4 DEF q
  <2>2. toDb' = [toDb EXCEPT ![d] = Append(toDb[d], q)]
    BY <1>4
  <2> HIDE DEF q
  <2> QED  BY <2>1, <2>2, QueryAppended
<1>5. toDb' = toDb \/ (Waiting(lua', c) /\ toDb' = [toDb EXCEPT ![d] = Append(@, q)])
  BY <1>1
<1>6. ~Waiting(lua', c) => toDb' = toDb
  BY <1>1
<1> QED  BY <1>3, <1>4, <1>5, <1>6 DEF q

(* A turn of the Lua state: some coroutine goes on, what it asks is sent,   *)
(* an answer may have been taken.                                           *)
Turn(c) ==
    /\ Advance(c) /\ Send(lua', c)
    /\ fromDb' \in [Db -> Seq(AnswerType)] /\ Drained(fromDb, fromDb')

LEMMA TurnAsks ==
    ASSUME LuaInv, MessageInv, NEW c, Turn(c)
    PROVE  /\ toDb' \in [Db -> Seq(QueryType)] /\ Moved(toDb, toDb', Query(lua', c))
           /\ ~Waiting(lua', c) => toDb' = toDb
           /\ \A q \in All(toDb') :
                 q \in All(toDb) \/ (Waiting(lua', c) /\ q = Query(lua', c))
           /\ All(fromDb') \subseteq All(fromDb)
           /\ c \in DOMAIN lua'.co /\ CoroutineOK(lua'.co[c])
           /\ \A q \in All(toDb) : q.c \in DOMAIN lua.co /\ q.id \in 1 .. lua.co[q.c].id
                                   /\ q.lib = lua.co[q.c].lib
                                   /\ lua.co[q.c].id \in Nat
           /\ \A a \in All(fromDb) : a.c \in DOMAIN lua.co /\ a.id \in 0 .. lua.co[a.c].id
                                     /\ a.kind = lua.co[a.c].lib
                                     /\ lua.co[a.c].id \in Nat
<1>1. c \in DOMAIN lua'.co /\ CoroutineOK(lua'.co[c]) /\ lua'.co[c] \in Coroutine /\ c \in Nat
  <2>1. c \in DOMAIN lua'.co /\ CoroutineOK(lua'.co[c])
    BY Zenon DEF Turn, Advance
  <2>2. c \in Nat
    BY DEF Turn, Advance, LuaInv, LuaState
  <2> QED  BY <2>1, <2>2, Zenon DEF CoroutineOK
<1>2. Query(lua', c) \in QueryType
  <2> DEFINE k == lua'.co[c]
  <2>1. k.lib \in Lib /\ k.id \in Nat /\ k.stage \in Stages /\ k.acc \in AccountId \cup {"none"}
        /\ k.uid \in Nat
    BY <1>1 DEF Coroutine
  <2> HIDE DEF k
  <2> QED  BY <1>1, <2>1 DEF Query, QueryType, k
<1>3. /\ toDb' \in [Db -> Seq(QueryType)] /\ Moved(toDb, toDb', Query(lua', c))
      /\ ~Waiting(lua', c) => toDb' = toDb
  BY <1>2, SendMoves DEF Turn, MessageInv
<1>4. /\ All(toDb') \subseteq All(toDb) \cup {Query(lua', c)}
      /\ All(fromDb') \subseteq All(fromDb)
  BY <1>3, MovedAll, DrainedAll DEF Turn
<1>5. \A q \in All(toDb') : q \in All(toDb) \/ (Waiting(lua', c) /\ q = Query(lua', c))
  BY <1>3, <1>4
<1>6. \A x \in DOMAIN lua.co : lua.co[x].id \in Nat
  BY DEF LuaInv, CoroutineOK, Coroutine
<1>7. \A q \in All(toDb) : q.c \in DOMAIN lua.co /\ q.id \in 1 .. lua.co[q.c].id
                           /\ q.lib = lua.co[q.c].lib
  BY DEF MessageInv, QueryOK
<1>8. \A a \in All(fromDb) : a.c \in DOMAIN lua.co /\ a.id \in 0 .. lua.co[a.c].id
                             /\ a.kind = lua.co[a.c].lib
  BY DEF MessageInv, AnswerOK
<1> QED  BY <1>1, <1>3, <1>4, <1>5, <1>6, <1>7, <1>8

LEMMA TurnMessages ==
    ASSUME LuaInv, MessageInv, NEW c, Turn(c)
    PROVE  MessageInv'
<1> DEFINE k == lua'.co[c]
<1>1. /\ DOMAIN lua'.co = DOMAIN lua.co \cup {c}
      /\ \A x \in DOMAIN lua.co \ {c} : lua'.co[x] = lua.co[x]
      /\ c \in DOMAIN lua.co =>
           k.kind = lua.co[c].kind /\ k.lib = lua.co[c].lib /\ k.acc = lua.co[c].acc
  BY DEF Turn, Advance
<1>2. /\ c \in DOMAIN lua.co => lua.co[c].id <= k.id
      /\ c \in DOMAIN lua.co /\ k.stage \notin Ended => lua.co[c].id < k.id
  BY AdvanceCounts DEF Turn, Waiting
<1>3. k.id \in Nat
  BY TurnAsks DEF CoroutineOK, Coroutine
<1>4. ASSUME NEW q \in All(toDb') PROVE QueryOK(q)'
  <2>1. CASE q \in All(toDb)
    <3>1. QueryOK(q) /\ q.id \in 1 .. lua.co[q.c].id /\ lua.co[q.c].id \in Nat
          /\ q.c \in DOMAIN lua.co
      BY <2>1, TurnAsks DEF MessageInv
    <3>2. CASE q.c # c
      <4>1. q.c \in DOMAIN lua'.co /\ lua'.co[q.c] = lua.co[q.c]
        BY <1>1, <3>1, <3>2
      <4> QED  BY <3>1, <4>1 DEF QueryOK
    <3>3. CASE q.c = c
      <4>1. q.id \in 1 .. k.id /\ ~(q.id = k.id /\ k.stage \notin Ended)
        <5>1. c \in DOMAIN lua.co /\ lua.co[c].id \in Nat /\ q.id \in 1 .. lua.co[c].id
          BY <3>1, <3>3
        <5> HIDE DEF k
        <5> QED  BY <1>2, <1>3, <5>1
      <4> QED  BY <1>1, <3>1, <3>3, <4>1 DEF QueryOK
    <3> QED  BY <3>2, <3>3
  <2>2. CASE Waiting(lua', c) /\ q = Query(lua', c)
    <3>1. q.c = c /\ q.lib = k.lib /\ q.acc = k.acc /\ q.id = k.id /\ q.stage = k.stage
          /\ q.uid = k.uid
      BY <2>2 DEF Query
    <3>2. /\ c \in DOMAIN lua'.co /\ k.stage \in StagesOf(k.kind, k.lib) \ Ended
          /\ k.stage = "insertBase" => k.uid > 0
          /\ k.lib # "redis" => k.id > 0
          /\ k.lib = "redis" => k.stage = "failed"
      BY <2>2, TurnAsks DEF CoroutineOK, Waiting
    <3>3. k.id \in 1 .. k.id
      <4>1. k.id > 0
        BY <3>2 DEF Ended
      <4> HIDE DEF k
      <4> QED  BY <1>3, <4>1
    <3> QED  BY <3>1, <3>2, <3>3 DEF QueryOK
  <2> QED  BY <2>1, <2>2, TurnAsks
<1>5. ASSUME NEW a \in All(fromDb') PROVE AnswerOK(a)'
  <2>1. AnswerOK(a) /\ a.id \in 0 .. lua.co[a.c].id /\ lua.co[a.c].id \in Nat
        /\ a.c \in DOMAIN lua.co
    BY TurnAsks DEF MessageInv
  <2>2. CASE a.c # c
    <3>1. a.c \in DOMAIN lua'.co /\ lua'.co[a.c] = lua.co[a.c]
      BY <1>1, <2>1, <2>2
    <3> QED  BY <2>1, <3>1 DEF AnswerOK
  <2>3. CASE a.c = c
    <3>1. a.id \in 0 .. k.id /\ ~(a.id = k.id /\ k.stage \notin Ended)
      <4>1. c \in DOMAIN lua.co /\ lua.co[c].id \in Nat /\ a.id \in 0 .. lua.co[c].id
        BY <2>1, <2>3
      <4> HIDE DEF k
      <4> QED  BY <1>2, <1>3, <4>1
    <3> QED  BY <1>1, <2>1, <2>3, <3>1 DEF AnswerOK
  <2> QED  BY <2>2, <2>3
<1>6. toDb' \in [Db -> Seq(QueryType)] /\ fromDb' \in [Db -> Seq(AnswerType)]
  BY TurnAsks DEF Turn
<1> QED  BY <1>4, <1>5, <1>6, Zenon DEF MessageInv

LEMMA TurnNumbers ==
    ASSUME LuaInv, MessageInv, NumberInv, AskedOnceInv, NEW c, Turn(c)
    PROVE  NumberInv' /\ AskedOnceInv'
<1> DEFINE k == lua'.co[c]
           m == Query(lua', c)
<1>1. /\ DOMAIN lua'.co = DOMAIN lua.co \cup {c}
      /\ \A x \in DOMAIN lua.co \ {c} : lua'.co[x] = lua.co[x]
      /\ c \in DOMAIN lua.co => k.lib = lua.co[c].lib
      /\ ~Waiting(lua', c) => c \in DOMAIN lua.co /\ k.id = lua.co[c].id
  BY DEF Turn, Advance
<1>2. /\ c \in DOMAIN lua.co => lua.co[c].id <= k.id
      /\ Waiting(lua', c) => k.id = lua.query_id[k.lib] + 1
      /\ Waiting(lua', c) /\ c \in DOMAIN lua.co => lua.co[c].id < k.id
      /\ lua.query_id \in [Lib -> Nat] /\ k.lib \in Lib
  BY AdvanceCounts DEF Turn
<1>3. k.id \in Nat
  BY TurnAsks DEF CoroutineOK, Coroutine
<1>4. m.c = c /\ m.lib = k.lib /\ m.id = k.id
  BY DEF Query
<1>5. \A x \in DOMAIN lua.co : lua.co[x].id \in Nat /\ lua.co[x].lib \in Lib
                               /\ lua.co[x].id <= lua.query_id[lua.co[x].lib]
  BY DEF LuaInv, CoroutineOK, Coroutine
<1>6. ASSUME NEW l \in Lib, NEW n \in Nat \ {0}, NEW x \in Nat, Took(l, n, x)'
      PROVE  Took(l, n, x) \/ (Waiting(lua', c) /\ x = c /\ l = k.lib /\ n = k.id)
  <2>1. CASE x \in DOMAIN lua'.co /\ lua'.co[x].lib = l /\ lua'.co[x].id = n
    BY <1>1, <2>1 DEF Took
  <2>2. CASE \E q \in All(toDb') : q.lib = l /\ q.id = n /\ q.c = x
    <3>1. PICK q \in All(toDb') : q.lib = l /\ q.id = n /\ q.c = x
      BY <2>2
    <3>2. q \in All(toDb) \/ (Waiting(lua', c) /\ q = m)
      BY TurnAsks
    <3> QED  BY <1>4, <3>1, <3>2 DEF Took
  <2>3. CASE \E a \in All(fromDb') : a.kind = l /\ a.id = n /\ a.c = x
    BY <2>3, TurnAsks DEF Took
  <2> QED  BY <1>6, <2>1, <2>2, <2>3 DEF Took
<1>7. ASSUME NEW l \in Lib, NEW n \in Nat \ {0}, NEW x \in Nat, Took(l, n, x)
      PROVE  n <= lua.query_id[l]
  <2>1. x \in DOMAIN lua.co /\ lua.co[x].lib = l /\ n <= lua.co[x].id
    <3>1. CASE x \in DOMAIN lua.co /\ lua.co[x].lib = l /\ lua.co[x].id = n
      BY <3>1
    <3>2. CASE \E q \in All(toDb) : q.lib = l /\ q.id = n /\ q.c = x
      BY <3>2, TurnAsks
    <3>3. CASE \E a \in All(fromDb) : a.kind = l /\ a.id = n /\ a.c = x
      BY <3>3, TurnAsks
    <3> QED  BY <1>7, <3>1, <3>2, <3>3 DEF Took
  <2>2. lua.co[x].id \in Nat /\ lua.co[x].id <= lua.query_id[l] /\ lua.query_id[l] \in Nat
    BY <1>2, <1>5, <2>1
  <2> QED  BY <2>1, <2>2
<1>8. NumberInv'
  <2>1. SUFFICES ASSUME NEW l \in Lib, NEW n \in Nat \ {0}, NEW x \in Nat, NEW y \in Nat,
                        Took(l, n, x)', Took(l, n, y)'
                 PROVE  x = y
    BY DEF NumberInv
  <2>2. CASE Took(l, n, x) /\ Took(l, n, y)
    BY <2>2 DEF NumberInv
  <2>3. CASE Waiting(lua', c) /\ l = k.lib /\ n = k.id
    <3>1. lua.query_id[l] \in Nat /\ n = lua.query_id[l] + 1
      BY <1>2, <2>3
    <3>2. ~Took(l, n, x) /\ ~Took(l, n, y)
      BY <1>7, <3>1
    <3> QED  BY <1>6, <2>1, <3>2
  <2> QED  BY <1>6, <2>1, <2>2, <2>3
<1>9. Unique(toDb)'
  <2>1. CASE Waiting(lua', c)
    <3>1. ASSUME NEW q \in All(toDb), q.c = m.c, q.id = m.id PROVE FALSE
      <4>1. c \in DOMAIN lua.co /\ k.id \in 1 .. lua.co[c].id /\ lua.co[c].id \in Nat
        BY <1>4, <3>1, TurnAsks
      <4> HIDE DEF k
      <4> QED  BY <1>2, <1>3, <2>1, <4>1
    <3>2. toDb \in [Db -> Seq(QueryType)] /\ toDb' \in [Db -> Seq(QueryType)]
          /\ Moved(toDb, toDb', m) /\ Unique(toDb)
      BY TurnAsks DEF MessageInv, AskedOnceInv
    <3> HIDE DEF m
    <3>3. Unique(toDb')
      BY <3>1, <3>2, MovedUnique
    <3> QED  BY <3>3 DEF Unique
  <2>2. CASE ~Waiting(lua', c)
    BY <2>2, TurnAsks DEF AskedOnceInv, Unique
  <2> QED  BY <2>1, <2>2
<1>10. Unique(fromDb)'
  <2>1. Unique(fromDb')
    BY DrainedUnique DEF Turn, MessageInv, AskedOnceInv
  <2> QED  BY <2>1 DEF Unique
<1>11. ASSUME NEW q \in All(toDb'), NEW a \in All(fromDb'), q.c = a.c PROVE q.id # a.id
  <2>1. a \in All(fromDb) /\ (q \in All(toDb) \/ (Waiting(lua', c) /\ q = m))
    BY TurnAsks
  <2>2. CASE q \in All(toDb)
    BY <1>11, <2>1, <2>2 DEF AskedOnceInv
  <2>3. CASE Waiting(lua', c) /\ q = m
    <3>1. c \in DOMAIN lua.co /\ a.id \in 0 .. lua.co[c].id /\ lua.co[c].id \in Nat
          /\ lua.co[c].id < k.id /\ q.id = k.id
      BY <1>2, <1>4, <1>11, <2>1, <2>3, TurnAsks
    <3> HIDE DEF k
    <3> QED  BY <1>3, <3>1
  <2> QED  BY <2>1, <2>2, <2>3
<1> QED  BY <1>8, <1>9, <1>10, <1>11, Zenon DEF AskedOnceInv

(* The actions of the node.                                                 *)
LEMMA StartTurns ==
    ASSUME LuaInv, TableInv, MessageInv, NEW k \in Coroutine, NEW stage \in Stages \ Ended,
           NEW listed \in BOOLEAN, Start(k, stage, listed), listed => k.kind # "script",
           CoroutineOK([k EXCEPT !.stage = stage, !.id = lua.query_id[k.lib] + 1])
    PROVE  LuaInv' /\ Turn(Len(lua.co) + 1) /\ Launched(k, stage, listed, lua')
<1> DEFINE c == Len(lua.co) + 1
<1>1. Launched(k, stage, listed, lua') /\ Advance(c)
  BY StartAdvances, Zenon
<1>2. Turn(c)
  <2>1. Send(lua', Len(lua'.co)) /\ fromDb' = fromDb
    BY Zenon DEF Start
  <2>2. Len(lua'.co) = c
    BY <1>1 DEF Launched
  <2>3. fromDb \in [Db -> Seq(AnswerType)]
    BY Zenon DEF MessageInv
  <2> QED  BY <1>1, <2>1, <2>2, <2>3, SameDrained DEF Turn
<1>3. /\ lua' \in LuaState /\ Len(lua'.co) <= MaxCo
      /\ \A x \in DOMAIN lua'.co : CoroutineOK(lua'.co[x])
            /\ lua'.co[x].id <= lua'.query_id[lua'.co[x].lib]
  BY <1>1, AdvanceCounts, Zenon DEF Advance
<1>4. /\ DOMAIN lua'.co = DOMAIN lua.co \cup {c}
      /\ \A x \in DOMAIN lua.co : lua'.co[x] = lua.co[x]
      /\ lua'.co[c] = [k EXCEPT !.stage = stage, !.id = lua.query_id[k.lib] + 1]
      /\ lua'.timeout = lua.timeout
      /\ lua'.coroutines = IF listed THEN With(lua.coroutines, c, 0) ELSE lua.coroutines
  BY <1>1 DEF Launched, Advance
<1>5. lua'.co[c].kind = k.kind
  BY <1>4 DEF Coroutine
<1>6. /\ DOMAIN lua'.coroutines
             = DOMAIN lua.coroutines \cup (IF listed THEN {c} ELSE {})
      /\ Players(lua) \subseteq Players(lua')
      /\ listed => c \in Players(lua')
  BY <1>4, <1>5 DEF With, Players
<1> HIDE DEF c
<1> QED  BY <1>1, <1>2, <1>3, <1>4, <1>6 DEF LuaInv, c

LEMMA EnterTurns ==
    ASSUME LuaInv, TableInv, MessageInv, NEW acc \in AccountId, ReqPlayerEnter(acc)
    PROVE  /\ LuaInv' /\ Turn(Len(lua.co) + 1)
           /\ Launched(New("enter", "mongo", acc, 0), "findBase", TRUE, lua')
<1> DEFINE k == New("enter", "mongo", acc, 0)
           n == lua.query_id[k.lib] + 1
<1>1. n \in Nat /\ n > 0
  BY DEF LuaInv, LuaState, New, Lib
<1>2. k \in Coroutine
  BY DEF New, Coroutine, Lib, Stages
<1>3. CoroutineOK([k EXCEPT !.stage = "findBase", !.id = n])
  <2> HIDE DEF n
  <2> QED  BY <1>1, Zenon DEF New, CoroutineOK, Coroutine, Lib, Stages, StagesOf, Reads
<1> QED  BY <1>2, <1>3, StartTurns, Zenon
         DEF ReqPlayerEnter, New, Stages, Reads, Ended

LEMMA LeaveTurns ==
    ASSUME LuaInv, TableInv, MessageInv, NEW b \in DOMAIN lua.co, ReqPlayerLeave(b)
    PROVE  /\ LuaInv' /\ Turn(Len(lua.co) + 1)
           /\ lua.co[b].kind = "enter" /\ lua.co[b].stage = "done"
           /\ Launched(New("leave", "mongo", lua.co[b].acc, lua.co[b].uid), "leave", TRUE, lua')
<1> DEFINE acc == lua.co[b].acc
           player == lua.co[b].uid
           k == New("leave", "mongo", acc, player)
           n == lua.query_id[k.lib] + 1
<1>1. n \in Nat /\ n > 0
  BY DEF LuaInv, LuaState, New, Lib
<1>2. lua.co[b].kind = "enter" /\ lua.co[b].stage = "done" /\ Start(k, "leave", TRUE)
  BY DEF ReqPlayerLeave
<1>3. acc \in AccountId /\ player \in Nat
  <2>1. CoroutineOK(lua.co[b])
    BY DEF LuaInv
  <2> QED  BY <1>2, <2>1 DEF CoroutineOK, Coroutine
<1> HIDE DEF acc, player
<1>4. k \in Coroutine /\ k.kind # "script"
  BY <1>3 DEF New, Coroutine, Lib, Stages
<1>5. CoroutineOK([k EXCEPT !.stage = "leave", !.id = n])
  <2> HIDE DEF n
  <2> QED  BY <1>1, <1>3 DEF New, CoroutineOK, Coroutine, Lib, Stages, StagesOf, Updates
<1>6. "leave" \in Stages \ Ended
  BY DEF Stages, Updates, Ended
<1> HIDE DEF k
<1> QED  BY <1>2, <1>4, <1>5, <1>6, StartTurns, Zenon DEF acc, player, k

LEMMA ScriptTurns ==
    ASSUME LuaInv, TableInv, MessageInv, NEW lib \in {"mysql", "clickhouse"}, Script(lib)
    PROVE  /\ LuaInv' /\ Turn(Len(lua.co) + 1)
           /\ Launched(New("script", lib, "none", 0), "insertRows", FALSE, lua')
<1> DEFINE k == New("script", lib, "none", 0)
           n == lua.query_id[k.lib] + 1
<1>1. n \in Nat /\ n > 0
  BY DEF LuaInv, LuaState, New, Lib
<1>2. k \in Coroutine
  BY DEF New, Coroutine, Lib, Stages
<1>3. CoroutineOK([k EXCEPT !.stage = "insertRows", !.id = n])
  <2> HIDE DEF n
  <2> QED  BY <1>1 DEF New, CoroutineOK, Coroutine, Lib, Stages, StagesOf
<1> QED  BY <1>2, <1>3, StartTurns, Zenon DEF Script, Stages, Ended

(* A turn keeps the Lua state in order. *)
LEMMA TurnInv ==
    ASSUME LuaInv, NEW c \in DOMAIN lua.co, Advance(c),
           lua'.coroutines = lua.coroutines, lua'.timeout \subseteq lua.timeout
    PROVE  LuaInv' /\ Players(lua') = Players(lua)
<1>1. /\ lua' \in LuaState /\ Len(lua'.co) <= MaxCo
      /\ \A x \in DOMAIN lua'.co : CoroutineOK(lua'.co[x])
            /\ lua'.co[x].id <= lua'.query_id[lua'.co[x].lib]
  BY AdvanceCounts, Zenon DEF Advance
<1>2. /\ DOMAIN lua'.co = DOMAIN lua.co /\ lua'.co[c].kind = lua.co[c].kind
      /\ \A x \in DOMAIN lua.co \ {c} : lua'.co[x] = lua.co[x]
  BY DEF Advance
<1>3. Players(lua') = Players(lua)
  BY <1>2, Zenon DEF Players
<1> QED  BY <1>1, <1>3 DEF LuaInv

(* An answer that another query of the table's number is waiting for: the   *)
(* number is one of two libraries.                                          *)
LEMMA ForeignShared ==
    ASSUME LuaInv, TableInv, MessageInv, NumberInv, NEW a \in All(fromDb),
           Awaited(lua, a), Foreign(lua, a)
    PROVE  Shared(a.id)
<1> DEFINE c == lua.table[a.id]
           k == lua.co[c]
           b == lua.co[a.c]
<1>1. c \in DOMAIN lua.co /\ k.id = a.id /\ Waiting(lua, c)
  BY DEF Awaited, TableInv
<1>2. a.c # c
  BY <1>1, Zenon DEF Foreign
<1>3. CoroutineOK(k) /\ k.lib \in Lib /\ k.id \in Nat /\ k.id <= lua.query_id[k.lib]
  BY <1>1, Zenon DEF LuaInv, CoroutineOK, Coroutine
<1>4. k.lib # "redis" /\ k.id > 0
  BY <1>1, <1>3 DEF CoroutineOK, Waiting, Ended
<1>5. a.c \in DOMAIN lua.co /\ a.kind = b.lib /\ a.id \in 0 .. b.id
  BY DEF MessageInv, AnswerOK
<1>6. b.lib \in Lib /\ b.id \in Nat /\ b.id <= lua.query_id[b.lib]
  BY <1>5 DEF LuaInv, CoroutineOK, Coroutine
<1>7. c \in Nat /\ a.c \in Nat
  BY <1>1, <1>5 DEF LuaInv, LuaState
<1>8. b.lib # k.lib
  <2>1. SUFFICES ASSUME b.lib = k.lib PROVE FALSE
    BY Zenon
  <2>2. Took(k.lib, a.id, c) /\ Took(k.lib, a.id, a.c)
    BY <1>1, <1>5, <2>1, Zenon DEF Took
  <2>3. a.id \in Nat \ {0}
    BY <1>1, <1>3, <1>4
  <2> QED  BY <1>2, <1>3, <1>7, <2>2, <2>3 DEF NumberInv
<1>9. a.id \in Nat /\ a.id <= lua.query_id[b.lib] /\ a.id <= lua.query_id[k.lib]
  <2>1. lua.query_id[b.lib] \in Nat
    BY <1>6, Zenon DEF LuaInv, LuaState
  <2>2. a.id <= lua.query_id[k.lib]
    BY <1>1, <1>3, Zenon
  <2> HIDE DEF b, k
  <2> QED  BY <1>5, <1>6, <2>1, <2>2
<1> QED  BY <1>3, <1>6, <1>8, <1>9, SharedMeans DEF LuaInv

LEMMA AnswerTurns ==
    ASSUME LuaInv, TableInv, MessageInv, NumberInv, NEW d \in Db, QueryResume(d),
           NEW a, a = Head(fromDb[d]), Awaited(lua, a), NEW c, c = lua.table[a.id]
    PROVE  /\ LuaInv' /\ Turn(c) /\ c \in DOMAIN lua.co /\ Players(lua') = Players(lua)
           /\ Resumed(Noted(lua, a), c, a, lua')
           /\ a \in All(fromDb) /\ a \in AnswerType
<1>1. /\ fromDb[d] # <<>> /\ fromDb' = [fromDb EXCEPT ![d] = Tail(fromDb[d])]
      /\ lua' = Resume(Noted(lua, a), c, a) /\ Send(lua', c)
  BY Zenon DEF QueryResume
<1>2. fromDb' \in [Db -> Seq(AnswerType)] /\ Drained(fromDb, fromDb')
      /\ a \in All(fromDb) /\ a \in AnswerType
  BY <1>1, TailDrained DEF MessageInv
<1>3. c \in DOMAIN lua.co /\ Waiting(lua, c)
  BY DEF Awaited, TableInv
<1> DEFINE L == Noted(lua, a)
<1>4. /\ lua \in LuaState /\ a.id \in Nat /\ lua.co[c].acc \in AccountId \cup {"none"}
  BY <1>2, <1>3, Zenon DEF LuaInv, AnswerType, CoroutineOK, Coroutine
<1>5. /\ L \in LuaState /\ L.co = lua.co /\ L.query_id = lua.query_id /\ L.table = lua.table
      /\ L.uid_sec = lua.uid_sec /\ lua.doubt \subseteq L.doubt
      /\ L.coroutines = lua.coroutines /\ L.timeout = lua.timeout
      /\ \A m \in L.crossed \ lua.crossed : m = a.id /\ Foreign(lua, a)
  BY <1>4, Zenon DEF Noted, LuaState
<1> HIDE DEF L
<1>6. \A m \in L.crossed \ lua.crossed : Shared(m)
  BY <1>2, <1>5, ForeignShared
<1> DEFINE M == Resume(L, c, a)
<1>7. lua' = M
  BY <1>1 DEF L
<1> HIDE DEF M
<1>7a. M = Resume(L, c, a)
  BY Zenon DEF M
<1>8. Resumed(L, c, a, M)
  <2>1. CoroutineOK(L.co[c]) /\ Waiting(L, c) /\ c \in DOMAIN L.co
    BY <1>3, <1>5 DEF LuaInv, Waiting
  <2>2. \A id \in DOMAIN L.table : L.table[id] \in DOMAIN L.co
    BY <1>5, Zenon DEF TableInv
  <2> QED  BY <1>2, <1>5, <2>1, <2>2, ResumeResult, Zenon DEF M
<1>9. Advance(c)
  <2>1. lua' \in LuaState
    BY <1>7, <1>8, Zenon DEF Resumed
  <2>2. M.doubt \subseteq lua'.doubt /\ lua'.co = M.co /\ lua'.query_id = M.query_id
        /\ lua'.table = M.table /\ lua'.crossed = M.crossed
    BY <1>7
  <2>3. Send(lua', c)
    BY <1>1, Zenon
  <2> QED  BY <1>2, <1>3, <1>5, <1>6, <1>7a, <2>1, <2>2, <2>3, ResumeAdvances, Zenon
<1>10. lua'.coroutines = lua.coroutines /\ lua'.timeout = lua.timeout
  BY <1>5, <1>7, <1>8, Zenon DEF Resumed
<1>11. LuaInv' /\ Players(lua') = Players(lua)
  BY <1>3, <1>9, <1>10, TurnInv
<1> QED  BY <1>1, <1>2, <1>3, <1>7, <1>8, <1>9, <1>11, Zenon DEF Turn, L

(* The node gives one up: M is the Lua state when the coroutine has run.    *)
TimedOut(c, M) ==
    /\ Resumed(lua, c, Nil, M)
    /\ lua'.co = M.co /\ lua'.players = M.players /\ lua'.uid_sec = M.uid_sec
    /\ lua'.doubt = M.doubt \cup {lua.co[c].acc}
    /\ lua'.timeout = lua.timeout \ {c} /\ lua'.coroutines = lua.coroutines

LEMMA CheckTurns ==
    ASSUME LuaInv, TableInv, MessageInv, NEW c \in lua.timeout, CheckNext(c), Waiting(lua, c)
    PROVE  /\ LuaInv' /\ Turn(c) /\ c \in DOMAIN lua.co /\ Players(lua') = Players(lua)
           /\ \E M : TimedOut(c, M)
<1> DEFINE M == Resume(lua, c, Nil)
           doubt == M.doubt \cup {M.co[c].acc}
<1>1. c \in DOMAIN lua.co /\ CoroutineOK(lua.co[c]) /\ lua \in LuaState
  BY DEF LuaInv, Players
<1>2. Resumed(lua, c, Nil, M)
  <2>1. \A id \in DOMAIN lua.table : lua.table[id] \in DOMAIN lua.co
    BY DEF TableInv
  <2> QED  BY <1>1, <2>1, ResumeResult
<1>3. /\ lua' = [[M EXCEPT !.doubt = doubt] EXCEPT !.timeout = @ \ {c}]
      /\ Send(lua', c) /\ fromDb' = fromDb
  BY Zenon DEF CheckNext, Check
<1> HIDE DEF M
<1>4. M \in LuaState /\ M.co[c].acc = lua.co[c].acc /\ M.timeout = lua.timeout
      /\ M.coroutines = lua.coroutines
  BY <1>2, Zenon DEF Resumed
<1>5. lua.co[c].acc \in AccountId \cup {"none"}
  BY <1>1 DEF CoroutineOK, Coroutine
<1>6. /\ lua' \in LuaState /\ lua'.co = M.co /\ lua'.query_id = M.query_id
      /\ lua'.table = M.table /\ lua'.crossed = M.crossed /\ lua'.uid_sec = M.uid_sec
      /\ lua'.players = M.players /\ lua'.coroutines = M.coroutines
      /\ lua'.doubt = M.doubt \cup {lua.co[c].acc} /\ lua'.timeout = M.timeout \ {c}
  BY <1>3, <1>4, <1>5 DEF LuaState
<1>7. Advance(c)
  <2>1. /\ Send(lua', c) /\ M.doubt \subseteq lua'.doubt
        /\ \A m \in lua.crossed \ lua.crossed : Shared(m)
    BY <1>3, <1>6
  <2>2. M = Resume(lua, c, Nil)
    BY DEF M
  <2> QED  BY <1>1, <1>6, <2>1, <2>2, ResumeAdvances
<1>8. Turn(c)
  <2>1. fromDb' \in [Db -> Seq(AnswerType)] /\ Drained(fromDb, fromDb')
    BY <1>3, SameDrained DEF MessageInv
  <2> QED  BY <1>3, <1>7, <2>1 DEF Turn
<1>9. LuaInv' /\ Players(lua') = Players(lua)
  BY <1>1, <1>4, <1>6, <1>7, TurnInv
<1>10. TimedOut(c, M)
  BY <1>2, <1>4, <1>6 DEF TimedOut
<1> QED  BY <1>1, <1>8, <1>9, <1>10

(* The steps in which no coroutine goes on.                                 *)
LEMMA QuietLua ==
    ASSUME LuaInv, TableInv, CrossInv, lua' \in LuaState,
           lua'.co = lua.co, lua'.query_id = lua.query_id, lua'.table = lua.table,
           lua'.crossed = lua.crossed,
           DOMAIN lua'.coroutines \subseteq DOMAIN lua.coroutines,
           lua'.timeout \subseteq DOMAIN lua'.coroutines
    PROVE  LuaInv' /\ TableInv' /\ CrossInv'
<1>1. LuaInv'
  BY DEF LuaInv, Players
<1>2. TableInv'
  BY DEF TableInv, Waiting
<1>3. CrossInv'
  BY DEF CrossInv, Shared
<1> QED  BY <1>1, <1>2, <1>3

\* The coroutines are those there were, and new ones that have asked nothing.
SameCoroutines ==
    /\ \A x \in DOMAIN lua.co : x \in DOMAIN lua'.co /\ lua'.co[x] = lua.co[x]
    /\ \A x \in DOMAIN lua'.co \ DOMAIN lua.co : lua'.co[x].id = 0

LEMMA SameMessage ==
    ASSUME SameCoroutines
    PROVE  /\ \A q : QueryOK(q) => QueryOK(q)'
           /\ \A a : AnswerOK(a) => AnswerOK(a)'
<1>1. ASSUME NEW q, QueryOK(q) PROVE QueryOK(q)'
  <2>1. q.c \in DOMAIN lua'.co /\ lua'.co[q.c] = lua.co[q.c]
    BY <1>1 DEF SameCoroutines, QueryOK
  <2> QED  BY <1>1, <2>1 DEF QueryOK
<1>2. ASSUME NEW a, AnswerOK(a) PROVE AnswerOK(a)'
  <2>1. a.c \in DOMAIN lua'.co /\ lua'.co[a.c] = lua.co[a.c]
    BY <1>2 DEF SameCoroutines, AnswerOK
  <2> QED  BY <1>2, <2>1 DEF AnswerOK
<1> QED  BY <1>1, <1>2

LEMMA MessagesStay ==
    ASSUME MessageInv, NumberInv, AskedOnceInv, SameCoroutines,
           toDb' \in [Db -> Seq(QueryType)], Drained(toDb, toDb'),
           fromDb' \in [Db -> Seq(AnswerType)], Drained(fromDb, fromDb')
    PROVE  MessageInv' /\ NumberInv' /\ AskedOnceInv'
<1>1. All(toDb') \subseteq All(toDb) /\ All(fromDb') \subseteq All(fromDb)
  BY DrainedAll
<1>2. MessageInv'
  <2>1. \A q \in All(toDb') : QueryOK(q)'
    BY <1>1, SameMessage DEF MessageInv
  <2>2. \A a \in All(fromDb') : AnswerOK(a)'
    BY <1>1, SameMessage DEF MessageInv
  <2> QED  BY <2>1, <2>2 DEF MessageInv
<1>3. \A l \in Lib, n \in Nat \ {0}, x \in Nat : Took(l, n, x)' => Took(l, n, x)
  BY <1>1 DEF Took, SameCoroutines
<1>4. NumberInv'
  BY <1>3 DEF NumberInv
<1>5. Unique(toDb') /\ Unique(fromDb')
  BY DrainedUnique, Zenon DEF MessageInv, AskedOnceInv
<1>6. AskedOnceInv'
  BY <1>1, <1>5 DEF AskedOnceInv, Unique
<1> QED  BY <1>2, <1>4, <1>6

LEMMA MessagesReply ==
    ASSUME LuaInv, MessageInv, NumberInv, AskedOnceInv, SameCoroutines, NEW d \in Db, toDb[d] # <<>>,
           toDb' = [toDb EXCEPT ![d] = Tail(toDb[d])],
           NEW q, q = Head(toDb[d]), NEW a \in AnswerType,
           fromDb' = [fromDb EXCEPT ![d] = Append(fromDb[d], a)],
           a.kind = q.lib, a.c = q.c, a.stage = q.stage, a.id = q.id \/ a.id = 0
    PROVE  MessageInv' /\ NumberInv' /\ AskedOnceInv'
<1>1. /\ toDb' \in [Db -> Seq(QueryType)] /\ Drained(toDb, toDb') /\ q \in All(toDb)
      /\ q \in QueryType
      /\ q.id > 0 => \A x \in All(toDb') : ~(x.c = q.c /\ x.id = q.id)
  <2>1. toDb \in [Db -> Seq(QueryType)] /\ Unique(toDb)
    BY DEF MessageInv, AskedOnceInv
  <2>2. /\ toDb' \in [Db -> Seq(QueryType)] /\ Drained(toDb, toDb')
        /\ Head(toDb[d]) \in All(toDb) /\ Head(toDb[d]) \in QueryType
        /\ Unique(toDb) /\ Head(toDb[d]).id > 0 =>
              \A x \in All(toDb') : ~(x.c = Head(toDb[d]).c /\ x.id = Head(toDb[d]).id)
    BY <2>1, QueryTaken
  <2> QED  BY <2>1, <2>2
<1>2. fromDb' \in [Db -> Seq(AnswerType)] /\ Moved(fromDb, fromDb', a)
  <2>1. fromDb \in [Db -> Seq(AnswerType)]
    BY DEF MessageInv
  <2> QED  BY <2>1, AnswerAppended
<1>3. /\ All(toDb') \subseteq All(toDb) /\ All(fromDb') \subseteq All(fromDb) \cup {a}
  BY <1>1, <1>2, DrainedAll, MovedAll
<1>4. QueryOK(q)
  BY <1>1, Zenon DEF MessageInv
<1>5. AnswerOK(a)
  <2> DEFINE k == lua.co[q.c]
  <2>1. q.c \in DOMAIN lua.co /\ q.lib = k.lib /\ q.id \in 1 .. k.id
        /\ (q.id = k.id /\ k.stage \notin Ended => q.stage = k.stage)
    BY <1>4 DEF QueryOK
  <2>2. a.id \in 0 .. k.id /\ (a.id = k.id => q.id = k.id)
    <3> HIDE DEF k
    <3>1. q.id \in 1 .. k.id
      BY <2>1
    <3>2. a.id = q.id \/ a.id = 0
      BY Zenon
    <3>3. k.id \in Nat
      BY <2>1 DEF k, LuaInv, CoroutineOK, Coroutine
    <3> QED  BY <3>1, <3>2, <3>3
  <2> QED  BY <2>1, <2>2, Zenon DEF AnswerOK
<1>6. MessageInv'
  <2>1. \A x \in All(toDb') : QueryOK(x)'
    BY <1>3, SameMessage DEF MessageInv
  <2>2. \A x \in All(fromDb') : AnswerOK(x)'
    BY <1>3, <1>5, SameMessage DEF MessageInv
  <2> QED  BY <1>1, <1>2, <2>1, <2>2 DEF MessageInv
<1>7. ASSUME NEW l \in Lib, NEW n \in Nat \ {0}, NEW x \in Nat, Took(l, n, x)'
      PROVE  Took(l, n, x)
  <2>1. CASE x \in DOMAIN lua'.co /\ lua'.co[x].lib = l /\ lua'.co[x].id = n
    BY <1>7, <2>1 DEF Took, SameCoroutines
  <2>2. CASE \E y \in All(toDb') : y.lib = l /\ y.id = n /\ y.c = x
    BY <1>3, <2>2 DEF Took
  <2>3. CASE \E y \in All(fromDb') : y.kind = l /\ y.id = n /\ y.c = x
    <3>1. PICK y \in All(fromDb') : y.kind = l /\ y.id = n /\ y.c = x
      BY <2>3
    <3>2. CASE y = a
      BY <1>1, <1>7, <3>1, <3>2 DEF Took
    <3> QED  BY <1>3, <3>1, <3>2 DEF Took
  <2> QED  BY <1>7, <2>1, <2>2, <2>3 DEF Took
<1>8. NumberInv'
  BY <1>7 DEF NumberInv
<1>9. Unique(toDb')
  BY <1>1, DrainedUnique DEF MessageInv, AskedOnceInv
<1>10. Unique(fromDb')
  <2>1. \A x \in All(fromDb) : x.c = a.c /\ x.id = a.id => ~(a.id > 0)
    BY <1>1 DEF AskedOnceInv
  <2>2. fromDb \in [Db -> Seq(AnswerType)] /\ Unique(fromDb)
    BY DEF MessageInv, AskedOnceInv
  <2> DEFINE g == fromDb'
  <2>3. g \in [Db -> Seq(AnswerType)] /\ Moved(fromDb, g, a)
    BY <1>2
  <2> HIDE DEF g
  <2>4. Unique(g)
    BY <2>1, <2>2, <2>3, MovedUnique
  <2> QED  BY <2>4 DEF g
<1>11. ASSUME NEW x \in All(toDb'), NEW y \in All(fromDb'), x.c = y.c, x.id = y.id PROVE FALSE
  <2>1. x.id > 0 /\ q.id > 0
    <3>1. QueryOK(x)
      BY <1>3, Zenon DEF MessageInv
    <3>2. x.id \in 1 .. lua.co[x.c].id /\ q.id \in 1 .. lua.co[q.c].id
      BY <1>4, <3>1 DEF QueryOK
    <3> QED  BY <3>2
  <2>2. CASE y = a
    <3>1. x.c = q.c /\ x.id = a.id
      BY <1>11, <2>2
    <3>2. x.id = q.id
      BY <2>1, <3>1
    <3> QED  BY <1>1, <2>1, <3>1, <3>2
  <2>3. CASE y \in All(fromDb)
    BY <1>3, <1>11, <2>3 DEF AskedOnceInv
  <2> QED  BY <1>3, <2>2, <2>3
<1> QED  BY <1>6, <1>8, <1>9, <1>10, <1>11 DEF AskedOnceInv, Unique

(* The proxies.                                                             *)
(* The record that a find names is the first. *)
LEMMA SmallestOf ==
    ASSUME NEW T \in SUBSET Nat, T # {}
    PROVE  \E i \in T : \A j \in T : i <= j
<1>1. IsWellFoundedOn(OpToRel(<, Nat), Nat)
  BY NatLessThanWellFounded, Zenon
<1>2. PICK i \in T : \A j \in T : ~(<<j, i>> \in OpToRel(<, Nat))
  BY <1>1, WFMin, Zenon
<1>3. \A j \in T : ~(j < i)
  BY <1>2 DEF OpToRel
<1> QED  BY <1>3

LEMMA FirstUidResult ==
    ASSUME store \in StoreType, NEW q \in QueryType
    PROVE  /\ FirstUid(q) \in Nat
           /\ IF q.stage = "findBase" /\ Found(q) # {}
              THEN \E i \in Found(q) : FirstUid(q) = store.base[i].uid
              ELSE FirstUid(q) = q.uid
<1>1. CASE q.stage = "findBase" /\ Found(q) # {}
  <2>1. Found(q) \in SUBSET Nat /\ store.base \in Seq(Player)
    BY DEF Found, StoreType
  <2>2. \E i \in Found(q) : \A j \in Found(q) : i <= j
    BY <1>1, <2>1, SmallestOf
  <2> DEFINE i == CHOOSE i \in Found(q) : \A j \in Found(q) : i <= j
  <2>3. i \in Found(q) /\ FirstUid(q) = store.base[i].uid
    BY <1>1, <2>2 DEF FirstUid
  <2> HIDE DEF i
  <2>4. store.base[i] \in Player
    <3>1. i \in DOMAIN store.base
      BY <2>3 DEF Found
    <3> QED  BY <2>1, <3>1
  <2>5. store.base[i].uid \in Nat
    BY <2>4 DEF Player
  <2> QED  BY <1>1, <2>3, <2>5
<1>2. CASE ~(q.stage = "findBase" /\ Found(q) # {})
  BY <1>2 DEF FirstUid, QueryType
<1> QED  BY <1>1, <1>2

LEMMA WithFlag ==
    ASSUME NEW f \in Flags, NEW x \in Nat, NEW b \in BOOLEAN
    PROVE  With(f, x, b) \in Flags
<1>1. PICK S \in SUBSET Nat : f \in [S -> BOOLEAN]
  BY DEF Flags
<1>2. With(f, x, b) \in [S \cup {x} -> BOOLEAN]
  BY <1>1 DEF With
<1> QED  BY <1>2 DEF Flags

(* The types of what a proxy does. *)
LEMMA AnswerResult ==
    ASSUME NEW q \in QueryType, NEW ok \in BOOLEAN, NEW matched \in {0, 1}, NEW player \in Nat
    PROVE  LET a == Answer(q, ok, matched, player)
           IN  /\ a \in AnswerType
               /\ a.kind = q.lib /\ a.id = q.id /\ a.stage = q.stage /\ a.c = q.c
  BY DEF Answer, AnswerType, QueryType

(* What a query does and is answered.                                       *)
Ran(q, s, a) ==
    /\ s \in StoreType
    /\ s.base = IF q.stage = "insertBase"
                THEN Append(store.base, [acc |-> q.acc, uid |-> q.uid]) ELSE store.base
    /\ s.detail = IF q.stage = "insertDetail" THEN With(store.detail, q.uid, FALSE)
                  ELSE IF q.stage \in Updates /\ q.uid \in DOMAIN store.detail
                  THEN [store.detail EXCEPT ![q.uid] = q.stage = "update"]
                  ELSE store.detail
    /\ s.rows = IF q.stage = "insertRows" THEN With(store.rows, q.c, NRow) ELSE store.rows
    /\ a = IF q.stage \in Reads THEN Answer(q, TRUE, Matched(q), FirstUid(q))
           ELSE Answer(q, TRUE, 0, 0)

LEMMA RowsResult ==
    ASSUME store \in StoreType, NEW q, q.c \in Nat, NEW n \in Nat
    PROVE  /\ Rows(q, n).store \in StoreType
           /\ Rows(q, n).store.base = store.base /\ Rows(q, n).store.detail = store.detail
           /\ Rows(q, n).store.rows = With(store.rows, q.c, n)
           /\ Rows(q, n).ack = Answer(q, TRUE, 0, 0)
<1>1. With(store.rows, q.c, n) \in Entries
  BY WithEntry DEF StoreType
<1> QED  BY <1>1 DEF Rows, Handled, StoreType

LEMMA RunResult ==
    ASSUME LuaInv, store \in StoreType, NEW q \in QueryType, QueryOK(q)
    PROVE  Ran(q, Run(q).store, Run(q).ack)
<1> DEFINE k == lua.co[q.c]
<1>1. CoroutineOK(k) /\ q.stage \in StagesOf(k.kind, k.lib) \ Ended /\ q.lib = k.lib
      /\ q.acc = k.acc
  BY DEF QueryOK, LuaInv
<1>2. q.uid \in Nat /\ q.c \in Nat /\ NRow \in Nat
  BY PlayerMgrAssumption DEF QueryType
<1>3. CASE q.stage \in Reads
  <2>1. Run(q) = Handled(store, Matched(q), FirstUid(q), q)
    BY <1>3 DEF Run, OnReqFind
  <2>2. Run(q).store = store /\ Run(q).ack = Answer(q, TRUE, Matched(q), FirstUid(q))
    BY <2>1 DEF Handled
  <2>3. q.stage \notin {"insertBase", "insertDetail", "insertRows"} \cup Updates
    BY <1>3 DEF Reads, Updates
  <2> QED  BY <1>3, <2>2, <2>3 DEF Ran
<1>4. CASE q.stage = "insertBase"
  <2>1. q.acc \in AccountId /\ q.uid \in Nat \ {0}
    BY <1>1, <1>2, <1>4 DEF CoroutineOK, StagesOf, QueryOK, Ended
  <2>2. Append(store.base, [acc |-> q.acc, uid |-> q.uid]) \in Seq(Player)
    <3>1. [acc |-> q.acc, uid |-> q.uid] \in Player
      BY <2>1 DEF Player
    <3> QED  BY <3>1, AppendProperties DEF StoreType
  <2> DEFINE s == [store EXCEPT !.base = Append(@, [acc |-> q.acc, uid |-> q.uid])]
  <2>3. Run(q) = Handled(s, 0, 0, q)
    BY <1>4 DEF Run, OnReqInsert, Reads, Inserts
  <2>4. s \in StoreType /\ s.base = Append(store.base, [acc |-> q.acc, uid |-> q.uid])
        /\ s.detail = store.detail /\ s.rows = store.rows
    BY <2>2 DEF StoreType
  <2>5. Run(q).store = s /\ Run(q).ack = Answer(q, TRUE, 0, 0)
    BY <2>3 DEF Handled
  <2> HIDE DEF s
  <2>6. q.stage \notin Reads \cup {"insertRows"} /\ q.stage \notin Updates
    BY <1>4 DEF Reads, Updates
  <2> QED  BY <1>4, <2>4, <2>5, <2>6 DEF Ran
<1>5. CASE q.stage = "insertDetail"
  <2>2. With(store.detail, q.uid, FALSE) \in Flags
    BY <1>2, WithFlag DEF StoreType
  <2> DEFINE s == [store EXCEPT !.detail = With(@, q.uid, FALSE)]
  <2>3. Run(q) = Handled(s, 0, 0, q)
    BY <1>5 DEF Run, OnReqInsert, Reads, Inserts
  <2>4. s \in StoreType /\ s.base = store.base
        /\ s.detail = With(store.detail, q.uid, FALSE) /\ s.rows = store.rows
    BY <2>2 DEF StoreType
  <2>5. Run(q).store = s /\ Run(q).ack = Answer(q, TRUE, 0, 0)
    BY <2>3 DEF Handled
  <2> HIDE DEF s
  <2>6. q.stage \notin Reads \cup {"insertRows"} /\ q.stage \notin Updates
    BY <1>5 DEF Reads, Updates
  <2> QED  BY <1>5, <2>4, <2>5, <2>6 DEF Ran
<1>6. CASE q.stage \in {"insertIndexBase", "insertIndexDetail"}
  <2> DEFINE i == IF q.stage = "insertIndexBase" THEN "base" ELSE "detail"
             s == [store EXCEPT !.index[i] = TRUE]
  <2>3. Run(q) = Handled(s, 0, 0, q)
    BY <1>6 DEF Run, OnReqInsert, Reads, Inserts
  <2>4. s \in StoreType /\ s.base = store.base /\ s.detail = store.detail /\ s.rows = store.rows
    BY DEF StoreType
  <2>5. Run(q).store = s /\ Run(q).ack = Answer(q, TRUE, 0, 0)
    BY <2>3 DEF Handled
  <2> HIDE DEF s
  <2>6. q.stage \notin Reads \cup {"insertRows"} /\ q.stage \notin Updates
    BY <1>6 DEF Reads, Updates
  <2> QED  BY <1>6, <2>4, <2>5, <2>6 DEF Ran
<1>7. CASE q.stage \in Updates
  <2> DEFINE s == IF q.uid \in DOMAIN store.detail
                  THEN [store EXCEPT !.detail[q.uid] = q.stage = "update"] ELSE store
             b == q.stage = "update"
  <2>1. [store.detail EXCEPT ![q.uid] = b] \in Flags
    <3>1. PICK S \in SUBSET Nat : store.detail \in [S -> BOOLEAN]
      BY DEF StoreType, Flags
    <3>2. [store.detail EXCEPT ![q.uid] = b] \in [S -> BOOLEAN]
      BY <3>1
    <3> QED  BY <3>2 DEF Flags
  <2>3. Run(q) = Handled(s, 0, 0, q)
    BY <1>7 DEF Run, OnReqUpdate, Reads, Inserts, Updates
  <2>4. s \in StoreType /\ s.base = store.base /\ s.rows = store.rows
        /\ s.detail = IF q.uid \in DOMAIN store.detail
                      THEN [store.detail EXCEPT ![q.uid] = b] ELSE store.detail
    BY <2>1 DEF StoreType
  <2>5. Run(q).store = s /\ Run(q).ack = Answer(q, TRUE, 0, 0)
    BY <2>3 DEF Handled
  <2> HIDE DEF s
  <2>6. q.stage \notin Reads \cup {"insertRows"} /\ q.stage \notin Inserts
    BY <1>7 DEF Reads, Updates, Inserts
  <2> QED  BY <1>7, <2>4, <2>5, <2>6 DEF Ran, Inserts
<1>8. CASE q.stage \in Indexes
  BY <1>8 DEF Run, OnReqCreateIndex, Reads, Inserts, Updates, Indexes, Handled, Ran
<1>9. CASE q.stage = "insertRows"
  <2>1. Run(q) = Rows(q, NRow)
    BY <1>9 DEF Run, Reads, Inserts, Updates, Indexes, RunMysql, RunClickhouse,
          MysqlInsert, ClickhouseInsert
  <2>2. q.stage \notin Reads \cup Updates
    BY <1>9 DEF Reads, Updates
  <2> DEFINE s == Run(q).store
  <2>3. /\ s \in StoreType /\ s.base = store.base /\ s.detail = store.detail
        /\ s.rows = With(store.rows, q.c, NRow) /\ Run(q).ack = Answer(q, TRUE, 0, 0)
    <3> DEFINE r == Rows(q, NRow)
    <3>1. /\ r.store \in StoreType /\ r.store.base = store.base
          /\ r.store.detail = store.detail /\ r.store.rows = With(store.rows, q.c, NRow)
          /\ r.ack = Answer(q, TRUE, 0, 0)
      BY <1>2, RowsResult
    <3> HIDE DEF r
    <3>2. Run(q) = r
      BY <2>1 DEF r
    <3> QED  BY <3>1, <3>2
  <2> HIDE DEF s
  <2> QED  BY <1>9, <2>2, <2>3 DEF Ran, s
<1>10. CASE q.stage \in {"selectRows", "updateRows", "execute"}
  <2>1. q.stage = "updateRows" => q.lib = "mysql"
    BY <1>1 DEF StagesOf, CoroutineOK, Reads, Inserts, Indexes, Ended, Coroutine, Lib
  <2>2. Run(q) = Handled(store, 0, 0, q)
    BY <1>10, <2>1 DEF Run, Reads, Inserts, Updates, Indexes, RunMysql, RunClickhouse,
          MysqlSelect, MysqlUpdate,
          MysqlExecute, ClickhouseSelect, ClickhouseExecute
  <2>3. Run(q).store = store /\ Run(q).ack = Answer(q, TRUE, 0, 0)
    BY <2>2 DEF Handled
  <2>4. q.stage \notin Reads \cup Updates \cup {"insertRows", "insertBase", "insertDetail"}
    BY <1>10 DEF Reads, Updates
  <2> QED  BY <2>3, <2>4 DEF Ran
<1>11. q.stage \in Reads \cup Inserts \cup Updates \cup Indexes
                    \cup {"insertRows", "selectRows", "updateRows", "execute"}
  BY <1>1 DEF StagesOf, CoroutineOK, Ended, Coroutine, Updates, Lib
<1> QED  BY <1>3, <1>4, <1>5, <1>6, <1>7, <1>8, <1>9, <1>10, <1>11 DEF Inserts

(* The inductive invariant behind OwnAnswer. *)
CoreInv ==
    /\ LuaInv /\ TableInv /\ CrossInv /\ ProxyInv
    /\ MessageInv /\ NumberInv /\ AskedOnceInv

LEMMA CoreMeans == CoreInv => OwnAnswer
<1> SUFFICES ASSUME CoreInv PROVE OwnAnswer
  OBVIOUS
<1>1. PlayerMgrTypeOK
  BY DEF CoreInv, LuaInv, TableInv, ProxyInv, PlayerMgrTypeOK, LuaState
<1> QED  BY <1>1 DEF CoreInv, CrossInv, TableInv, OwnAnswer

LEMMA CoreInit == PlayerMgrInit => CoreInv
<1> SUFFICES ASSUME PlayerMgrInit PROVE CoreInv
  OBVIOUS
<1>1. <<>> \in Entries /\ <<>> \in Seq(Coroutine) /\ <<>> \in Flags /\ <<>> \in Seq(Player)
      /\ DOMAIN <<>> = {}
  <2>1. DOMAIN <<>> = {} /\ <<>> = [x \in {} |-> 0] /\ <<>> = [x \in {} |-> TRUE]
    BY EmptySeq
  <2>2. <<>> \in [{} -> Nat] /\ <<>> \in [{} -> BOOLEAN]
    BY <2>1
  <2> QED  BY <2>1, <2>2, EmptySeq DEF Entries, Flags
<1>2. lua \in LuaState
  <2>1. [l \in Lib |-> 0] \in [Lib -> Nat]
    OBVIOUS
  <2> QED  BY <1>1, <2>1 DEF PlayerMgrInit, LuaState
<1>3. /\ lua.co = <<>> /\ lua.table = <<>> /\ lua.coroutines = <<>> /\ lua.timeout = {}
      /\ lua.crossed = {}
  BY DEF PlayerMgrInit
<1>4. LuaInv
  <2>1. Len(<<>>) = 0 /\ 0 <= MaxCo
    BY PlayerMgrAssumption
  <2> QED  BY <1>1, <1>2, <1>3, <2>1 DEF LuaInv
<1>5. TableInv /\ CrossInv
  BY <1>1, <1>3 DEF TableInv, CrossInv
<1>6. /\ toDb \in [Db -> Seq(QueryType)] /\ fromDb \in [Db -> Seq(AnswerType)]
      /\ \A d \in Db : toDb[d] = <<>> /\ fromDb[d] = <<>>
  BY EmptySeq DEF PlayerMgrInit
<1>7. All(toDb) = {} /\ All(fromDb) = {}
  BY <1>1, <1>6 DEF All
<1>8. MessageInv
  BY <1>6, <1>7 DEF MessageInv
<1>9. NumberInv
  BY <1>1, <1>3, <1>7 DEF NumberInv, Took
<1>10. AskedOnceInv
  BY <1>1, <1>6, <1>7 DEF AskedOnceInv, Unique
<1>11. ProxyInv
  <2>1. up \in [Db -> {"up", "noSession", "down"}]
    BY DEF PlayerMgrInit
  <2>2. faults \in 0 .. MaxFault
    <3>1. IsFiniteSet({d \in Db : up[d] = "noSession"})
      BY PlayerMgrAssumption, FS_Subset
    <3>2. Cardinality({d \in Db : up[d] = "noSession"}) \in Nat
      BY <3>1, FS_CardinalityType
    <3> QED  BY <3>2, PlayerMgrAssumption DEF PlayerMgrInit
  <2>3. store \in StoreType
    BY <1>1 DEF PlayerMgrInit, StoreType
  <2> QED  BY <2>1, <2>2, <2>3 DEF ProxyInv
<1> QED  BY <1>4, <1>5, <1>8, <1>9, <1>10, <1>11 DEF CoreInv

(* The steps in which a coroutine asks, and those in which none does. *)
LEMMA TurnCore ==
    ASSUME CoreInv, NEW c, Turn(c), LuaInv', UNCHANGED <<up, store, faults>>
    PROVE  CoreInv'
<1>1. TableInv' /\ CrossInv'
  BY AdvanceTable DEF CoreInv, Turn
<1>2. MessageInv'
  BY TurnMessages DEF CoreInv
<1>3. NumberInv' /\ AskedOnceInv'
  BY TurnNumbers DEF CoreInv
<1>4. ProxyInv'
  BY DEF CoreInv, ProxyInv
<1> QED  BY <1>1, <1>2, <1>3, <1>4 DEF CoreInv

LEMMA StayCore ==
    ASSUME CoreInv, lua' \in LuaState,
           lua'.co = lua.co, lua'.query_id = lua.query_id, lua'.table = lua.table,
           lua'.crossed = lua.crossed,
           DOMAIN lua'.coroutines \subseteq DOMAIN lua.coroutines,
           lua'.timeout \subseteq DOMAIN lua'.coroutines,
           toDb' \in [Db -> Seq(QueryType)], Drained(toDb, toDb'),
           fromDb' \in [Db -> Seq(AnswerType)], Drained(fromDb, fromDb'), ProxyInv'
    PROVE  CoreInv'
<1>1. LuaInv' /\ TableInv' /\ CrossInv'
  BY QuietLua DEF CoreInv
<1>2. SameCoroutines
  BY DEF SameCoroutines
<1>3. MessageInv' /\ NumberInv' /\ AskedOnceInv'
  BY <1>2, MessagesStay DEF CoreInv
<1> QED  BY <1>1, <1>3 DEF CoreInv

LEMMA SameMessages ==
    ASSUME MessageInv, UNCHANGED <<toDb, fromDb>>
    PROVE  /\ toDb' \in [Db -> Seq(QueryType)] /\ Drained(toDb, toDb')
           /\ fromDb' \in [Db -> Seq(AnswerType)] /\ Drained(fromDb, fromDb')
  BY SameDrained DEF MessageInv

LEMMA RedisCore ==
    ASSUME CoreInv, RedisScript
    PROVE  CoreInv'
<1> DEFINE k == [New("script", "redis", "none", 0) EXCEPT !.stage = "failed"]
           c == Len(lua.co) + 1
           n == lua.query_id["redis"] + 1
<1>1. /\ lua \in LuaState /\ lua.co \in Seq(Coroutine) /\ DOMAIN lua.co = 1 .. Len(lua.co)
      /\ Len(lua.co) \in Nat /\ n \in Nat /\ lua.query_id \in [Lib -> Nat]
  BY DEF CoreInv, LuaInv, LuaState, Lib
<1>2. k \in Coroutine /\ CoroutineOK(k) /\ k.id = 0 /\ k.lib = "redis" /\ k.kind = "script"
  BY DEF New, Coroutine, CoroutineOK, Lib, Stages, StagesOf, Ended
<1> HIDE DEF k
<1>3. /\ lua' = [lua EXCEPT !.co = Append(lua.co, k),
                            !.query_id = [lua.query_id EXCEPT !["redis"] = n]]
      /\ Len(lua.co) < MaxCo /\ lua.timeout = {}
  BY <1>1 DEF RedisScript, k, LuaState
<1>4. /\ Append(lua.co, k) \in Seq(Coroutine) /\ Len(Append(lua.co, k)) = c
      /\ DOMAIN Append(lua.co, k) = 1 .. c
      /\ \A x \in 1 .. Len(lua.co) : Append(lua.co, k)[x] = lua.co[x]
      /\ Append(lua.co, k)[c] = k
  BY <1>1, <1>2, AppendProperties, LenProperties
<1> HIDE DEF n
<1>5. [lua.query_id EXCEPT !["redis"] = n] \in [Lib -> Nat]
  BY <1>1
<1>6. /\ lua' \in LuaState /\ lua'.co = Append(lua.co, k) /\ lua'.table = lua.table
      /\ lua'.query_id = [lua.query_id EXCEPT !["redis"] = n]
      /\ lua'.crossed = lua.crossed /\ lua'.coroutines = lua.coroutines
      /\ lua'.timeout = lua.timeout
  BY <1>1, <1>3, <1>4, <1>5 DEF LuaState
<1>7. /\ \A x \in DOMAIN lua.co : x \in DOMAIN lua'.co /\ lua'.co[x] = lua.co[x]
      /\ \A x \in DOMAIN lua'.co : x \in DOMAIN lua.co \/ (x = c /\ lua'.co[x] = k)
      /\ Len(lua'.co) = c
  BY <1>1, <1>4, <1>6
<1>8. \A l \in Lib : lua.query_id[l] <= lua'.query_id[l]
  <2>1. n >= lua.query_id["redis"]
    BY <1>1 DEF n, Lib
  <2> QED  BY <1>1, <1>6, <2>1
<1>9. LuaInv'
  <2>1. Len(lua'.co) <= MaxCo
    BY <1>1, <1>3, <1>7, PlayerMgrAssumption
  <2>2. ASSUME NEW x \in DOMAIN lua'.co
        PROVE  CoroutineOK(lua'.co[x]) /\ lua'.co[x].id <= lua'.query_id[lua'.co[x].lib]
    <3>1. CASE x \in DOMAIN lua.co
      <4>1. CoroutineOK(lua.co[x]) /\ lua.co[x].lib \in Lib /\ lua.co[x].id \in Nat
            /\ lua.co[x].id <= lua.query_id[lua.co[x].lib]
        BY <3>1 DEF CoreInv, LuaInv, CoroutineOK, Coroutine
      <4>2. lua'.co[x] = lua.co[x]
        BY <1>7, <3>1
      <4> DEFINE l == lua.co[x].lib
      <4>3. lua.query_id[l] \in Nat /\ lua'.query_id[l] \in Nat
            /\ lua.query_id[l] <= lua'.query_id[l]
        BY <1>1, <1>5, <1>6, <1>8, <4>1
      <4>4. lua.co[x].id <= lua'.query_id[l]
        <5> HIDE DEF l
        <5>1. lua.co[x].id <= lua.query_id[l]
          BY <4>1 DEF l
        <5> QED  BY <4>1, <4>3, <5>1
      <4> QED  BY <4>1, <4>2, <4>4
    <3>2. CASE x = c /\ lua'.co[x] = k
      <4>1. lua'.query_id["redis"] \in Nat
        BY <1>5, <1>6 DEF Lib
      <4> QED  BY <1>2, <3>2, <4>1
    <3> QED  BY <1>7, <3>1, <3>2
  <2>3. DOMAIN lua'.coroutines \subseteq Players(lua')
    BY <1>6, <1>7 DEF CoreInv, LuaInv, Players
  <2> QED  BY <1>6, <2>1, <2>2, <2>3 DEF CoreInv, LuaInv
<1>10. TableInv'
  BY <1>6, <1>7 DEF CoreInv, TableInv, Waiting
<1>11. CrossInv'
  <2>1. ASSUME NEW m \in lua'.crossed PROVE Shared(m)'
    <3>1. m \in Nat /\ Shared(m)
      BY <1>1, <1>6, <2>1 DEF CoreInv, CrossInv, LuaState
    <3>2. PICK l \in Lib, j \in Lib : l # j /\ m <= lua.query_id[l] /\ m <= lua.query_id[j]
      BY <1>1, <3>1, SharedMeans
    <3>3. \A x \in Lib : lua.query_id[x] \in Nat /\ lua'.query_id[x] \in Nat
      BY <1>1, <1>5, <1>6
    <3>4. m <= lua'.query_id[l] /\ m <= lua'.query_id[j]
      BY <1>8, <3>1, <3>2, <3>3
    <3>5. lua'.query_id[l] \notin 0 .. m - 1 /\ lua'.query_id[j] \notin 0 .. m - 1
      BY <3>1, <3>3, <3>4
    <3> QED  BY <3>2, <3>5 DEF Shared
  <2> QED  BY <2>1 DEF CrossInv
<1>12. SameCoroutines
  BY <1>2, <1>7 DEF SameCoroutines
<1>13. MessageInv' /\ NumberInv' /\ AskedOnceInv'
  <2>1. /\ toDb' \in [Db -> Seq(QueryType)] /\ Drained(toDb, toDb')
        /\ fromDb' \in [Db -> Seq(AnswerType)] /\ Drained(fromDb, fromDb')
    BY SameMessages DEF CoreInv, RedisScript
  <2> QED  BY <1>12, <2>1, MessagesStay DEF CoreInv
<1>14. ProxyInv'
  BY DEF CoreInv, ProxyInv, RedisScript
<1> QED  BY <1>9, <1>10, <1>11, <1>13, <1>14 DEF CoreInv

(* The other steps of the node.                                             *)
LEMMA TickCore ==
    ASSUME CoreInv, Tick
    PROVE  CoreInv'
<1> DEFINE f == [c \in DOMAIN lua.coroutines |->
                    IF lua.coroutines[c] <= Timeout THEN lua.coroutines[c] + 1
                    ELSE lua.coroutines[c]]
<1>1. lua \in LuaState /\ lua.coroutines \in Entries
  BY DEF CoreInv, LuaInv, LuaState
<1>2. f \in Entries
  <2>1. PICK S \in SUBSET Nat : lua.coroutines \in [S -> Nat]
    BY <1>1 DEF Entries
  <2>2. f \in [S -> Nat]
    BY <2>1, PlayerMgrAssumption
  <2> HIDE DEF f
  <2> QED  BY <2>2 DEF Entries
<1>3. lua' = [lua EXCEPT !.coroutines = f]
  BY DEF Tick
<1>4. DOMAIN f = DOMAIN lua.coroutines
  OBVIOUS
<1> HIDE DEF f
<1>5. /\ lua' \in LuaState /\ lua'.co = lua.co /\ lua'.query_id = lua.query_id
      /\ lua'.table = lua.table /\ lua'.crossed = lua.crossed /\ lua'.coroutines = f
      /\ lua'.timeout = lua.timeout
  BY <1>1, <1>2, <1>3 DEF LuaState
<1>6. ProxyInv'
  BY DEF CoreInv, ProxyInv, Tick
<1>7. lua'.timeout \subseteq DOMAIN lua'.coroutines
  BY <1>4, <1>5 DEF CoreInv, LuaInv
<1> QED  BY <1>4, <1>5, <1>6, <1>7, StayCore, SameMessages DEF CoreInv, Tick

LEMMA CheckCore ==
    ASSUME CoreInv, CheckCoroutne
    PROVE  CoreInv'
<1>1. lua \in LuaState /\ lua.coroutines \in Entries
  BY DEF CoreInv, LuaInv, LuaState
<1>2. Overdue \subseteq DOMAIN lua.coroutines /\ DOMAIN lua.coroutines \subseteq Nat
  BY <1>1 DEF Overdue, Entries
<1>3. lua' = [lua EXCEPT !.timeout = Overdue] /\ Overdue \in SUBSET Nat
  BY <1>2 DEF CheckCoroutne
<1>4. /\ lua' \in LuaState /\ lua'.co = lua.co /\ lua'.query_id = lua.query_id
      /\ lua'.table = lua.table /\ lua'.crossed = lua.crossed
      /\ lua'.coroutines = lua.coroutines /\ lua'.timeout = Overdue
  BY <1>1, <1>3 DEF LuaState
<1>5. ProxyInv'
  BY DEF CoreInv, ProxyInv, CheckCoroutne
<1> QED  BY <1>2, <1>4, <1>5, StayCore, SameMessages DEF CoreInv, CheckCoroutne

LEMMA EndedCheck ==
    ASSUME CoreInv, NEW c \in lua.timeout, CheckNext(c), ~Waiting(lua, c)
    PROVE  /\ CoreInv' /\ UNCHANGED <<toDb, fromDb, up, store, faults>>
           /\ lua'.co = lua.co /\ lua'.doubt = lua.doubt /\ lua'.players = lua.players
           /\ lua'.uid_sec = lua.uid_sec
<1> DEFINE f == Without(lua.coroutines, c)
<1>1. lua \in LuaState /\ lua.coroutines \in Entries
  BY DEF CoreInv, LuaInv, LuaState
<1>2. f \in Entries
  BY <1>1, WithoutEntry
<1>3. lua' = [[lua EXCEPT !.coroutines = f] EXCEPT !.timeout = lua.timeout \ {c}]
  BY <1>1 DEF CheckNext, Check, LuaState
<1>4. DOMAIN f = DOMAIN lua.coroutines \ {c}
  BY DEF Without
<1> HIDE DEF f
<1>5. /\ lua' \in LuaState /\ lua'.co = lua.co /\ lua'.query_id = lua.query_id
      /\ lua'.table = lua.table /\ lua'.crossed = lua.crossed /\ lua'.coroutines = f
      /\ lua'.timeout = lua.timeout \ {c} /\ lua'.doubt = lua.doubt
      /\ lua'.players = lua.players /\ lua'.uid_sec = lua.uid_sec
  BY <1>1, <1>2, <1>3 DEF LuaState
<1>6. toDb' = toDb /\ UNCHANGED <<fromDb, up, store, faults>>
  BY <1>5 DEF CheckNext, Send, Waiting
<1>7. ProxyInv'
  BY <1>6 DEF CoreInv, ProxyInv
<1>8. lua'.timeout \subseteq DOMAIN lua'.coroutines
      /\ DOMAIN lua'.coroutines \subseteq DOMAIN lua.coroutines
  BY <1>4, <1>5 DEF CoreInv, LuaInv
<1>9. CoreInv'
  BY <1>5, <1>6, <1>7, <1>8, StayCore, SameMessages DEF CoreInv
<1> QED  BY <1>5, <1>6, <1>9

LEMMA DroppedAnswer ==
    ASSUME CoreInv, NEW d \in Db, QueryResume(d), ~Awaited(lua, Head(fromDb[d]))
    PROVE  /\ CoreInv' /\ UNCHANGED <<lua, toDb, up, store, faults>>
           /\ All(fromDb') \subseteq All(fromDb)
<1>1. /\ fromDb[d] # <<>> /\ fromDb' = [fromDb EXCEPT ![d] = Tail(fromDb[d])]
      /\ UNCHANGED <<lua, toDb, up, store, faults>>
  BY DEF QueryResume
<1>2. fromDb' \in [Db -> Seq(AnswerType)] /\ Drained(fromDb, fromDb')
  BY <1>1, TailDrained DEF CoreInv, MessageInv
<1>3. toDb' \in [Db -> Seq(QueryType)] /\ Drained(toDb, toDb')
  BY <1>1, SameDrained DEF CoreInv, MessageInv
<1>4. ProxyInv'
  BY <1>1 DEF CoreInv, ProxyInv
<1>5. lua \in LuaState /\ lua.timeout \subseteq DOMAIN lua.coroutines
  BY DEF CoreInv, LuaInv
<1>6. CoreInv'
  BY <1>1, <1>2, <1>3, <1>4, <1>5, StayCore
<1> QED  BY <1>1, <1>2, <1>6, DrainedAll

Node ==
    \/ \E acc \in AccountId : ReqPlayerEnter(acc)
    \/ \E c \in DOMAIN lua.co : ReqPlayerLeave(c)
    \/ \E lib \in {"mysql", "clickhouse"} : Script(lib)
    \/ RedisScript \/ Update \/ Tick \/ \E d \in Db : QueryResume(d)

LEMMA NodeCore == CoreInv /\ Node => CoreInv'
<1> SUFFICES ASSUME CoreInv, Node PROVE CoreInv'
  OBVIOUS
<1>0. LuaInv /\ TableInv /\ MessageInv /\ NumberInv
  BY DEF CoreInv
<1>1. ASSUME NEW acc \in AccountId, ReqPlayerEnter(acc) PROVE CoreInv'
  <2>1. LuaInv' /\ Turn(Len(lua.co) + 1) /\ UNCHANGED <<up, store, faults>>
    BY <1>0, <1>1, EnterTurns DEF ReqPlayerEnter, Start
  <2> QED  BY <2>1, TurnCore
<1>2. ASSUME NEW b \in DOMAIN lua.co, ReqPlayerLeave(b) PROVE CoreInv'
  <2>1. LuaInv' /\ Turn(Len(lua.co) + 1) /\ UNCHANGED <<up, store, faults>>
    BY <1>0, <1>2, LeaveTurns DEF ReqPlayerLeave, Start
  <2> QED  BY <2>1, TurnCore
<1>3. ASSUME NEW lib \in {"mysql", "clickhouse"}, Script(lib) PROVE CoreInv'
  <2>1. LuaInv' /\ Turn(Len(lua.co) + 1) /\ UNCHANGED <<up, store, faults>>
    BY <1>0, <1>3, ScriptTurns DEF Script, Start
  <2> QED  BY <2>1, TurnCore
<1>4. ASSUME NEW c \in lua.timeout, CheckNext(c) PROVE CoreInv'
  <2>1. CASE Waiting(lua, c)
    <3>1. LuaInv' /\ Turn(c) /\ UNCHANGED <<up, store, faults>>
      BY <1>0, <1>4, <2>1, CheckTurns DEF CheckNext
    <3> QED  BY <3>1, TurnCore
  <2>2. CASE ~Waiting(lua, c)
    BY <1>4, <2>2, EndedCheck
  <2> QED  BY <2>1, <2>2
<1>5. ASSUME NEW d \in Db, QueryResume(d) PROVE CoreInv'
  <2>1. CASE Awaited(lua, Head(fromDb[d]))
    <3> DEFINE a == Head(fromDb[d])
               c == lua.table[a.id]
    <3>1. LuaInv' /\ Turn(c) /\ UNCHANGED <<up, store, faults>>
      BY <1>0, <1>5, <2>1, AnswerTurns, Zenon DEF QueryResume
    <3> QED  BY <3>1, TurnCore, Zenon
  <2>2. CASE ~Awaited(lua, Head(fromDb[d]))
    BY <1>5, <2>2, DroppedAnswer
  <2> QED  BY <2>1, <2>2
<1> QED  BY <1>1, <1>2, <1>3, <1>4, <1>5, RedisCore, TickCore, CheckCore DEF Node, Update

(* The steps of a proxy.                                                    *)
LEMMA DoubtStays ==
    ASSUME lua \in LuaState, NEW acc \in AccountId \cup {"none"},
           lua' = [lua EXCEPT !.doubt = lua.doubt \cup {acc}]
    PROVE  /\ lua' \in LuaState /\ lua'.co = lua.co /\ lua'.query_id = lua.query_id
           /\ lua'.table = lua.table /\ lua'.crossed = lua.crossed
           /\ lua'.coroutines = lua.coroutines /\ lua'.timeout = lua.timeout
           /\ lua'.players = lua.players /\ lua'.uid_sec = lua.uid_sec
           /\ lua'.doubt = lua.doubt \cup {acc}
  BY DEF LuaState

LEMMA ReplyCore ==
    ASSUME CoreInv, NEW d \in Db, toDb[d] # <<>>,
           toDb' = [toDb EXCEPT ![d] = Tail(toDb[d])],
           NEW q, q = Head(toDb[d]), NEW a \in AnswerType,
           fromDb' = [fromDb EXCEPT ![d] = Append(fromDb[d], a)],
           a.kind = q.lib, a.c = q.c, a.stage = q.stage, a.id = q.id \/ a.id = 0,
           lua' \in LuaState, lua'.co = lua.co, lua'.query_id = lua.query_id,
           lua'.table = lua.table, lua'.crossed = lua.crossed,
           lua'.coroutines = lua.coroutines, lua'.timeout = lua.timeout, ProxyInv'
    PROVE  CoreInv'
<1>1. LuaInv' /\ TableInv' /\ CrossInv'
  <2>1. lua'.timeout \subseteq DOMAIN lua'.coroutines
    BY DEF CoreInv, LuaInv
  <2> QED  BY <2>1, QuietLua DEF CoreInv
<1>2. SameCoroutines
  BY DEF SameCoroutines
<1>3. MessageInv' /\ NumberInv' /\ AskedOnceInv'
  BY <1>2, MessagesReply DEF CoreInv
<1> QED  BY <1>1, <1>3 DEF CoreInv

LEMMA HeadQuery ==
    ASSUME MessageInv, NEW d \in Db, toDb[d] # <<>>
    PROVE  /\ Head(toDb[d]) \in All(toDb) /\ Head(toDb[d]) \in QueryType
           /\ QueryOK(Head(toDb[d]))
<1>1. toDb[d] \in Seq(QueryType) /\ 1 \in DOMAIN toDb[d] /\ Head(toDb[d]) = toDb[d][1]
  <2>1. toDb[d] \in Seq(QueryType)
    BY DEF MessageInv
  <2>2. Len(toDb[d]) \in Nat /\ Len(toDb[d]) > 0 /\ DOMAIN toDb[d] = 1 .. Len(toDb[d])
    BY <2>1, LenProperties, EmptySeq
  <2> QED  BY <2>1, <2>2
<1>2. Head(toDb[d]) \in All(toDb)
  BY <1>1 DEF All
<1> QED  BY <1>1, <1>2 DEF MessageInv

LEMMA RunCore ==
    ASSUME CoreInv, NEW d \in Db, OnReq(d)
    PROVE  /\ CoreInv'
           /\ Ran(Head(toDb[d]), store', Run(Head(toDb[d])).ack)
<1> DEFINE q == Head(toDb[d])
           a == Run(q).ack
<1>1. /\ toDb[d] # <<>> /\ toDb' = [toDb EXCEPT ![d] = Tail(toDb[d])]
      /\ fromDb' = [fromDb EXCEPT ![d] = Append(fromDb[d], a)]
      /\ store' = Run(q).store /\ UNCHANGED <<lua, up, faults>>
  BY DEF OnReq, Taken, Reply
<1>2. q \in QueryType /\ QueryOK(q)
  BY <1>1, HeadQuery DEF CoreInv
<1> HIDE DEF q
<1>3. Ran(q, store', a)
  BY <1>1, <1>2, RunResult DEF CoreInv, ProxyInv
<1>4. Matched(q) \in {0, 1} /\ FirstUid(q) \in Nat
  BY <1>2, FirstUidResult DEF CoreInv, ProxyInv, Matched
<1>5. a \in AnswerType /\ a.kind = q.lib /\ a.id = q.id /\ a.stage = q.stage /\ a.c = q.c
  <2> HIDE DEF a
  <2>1. PICK m \in {0, 1}, u \in Nat : a = Answer(q, TRUE, m, u)
    BY <1>3, <1>4 DEF Ran
  <2> QED  BY <1>2, <1>4, <2>1, AnswerResult, Zenon
<1>6. ProxyInv'
  <2>1. store' \in StoreType
    BY <1>3 DEF Ran
  <2> QED  BY <1>1, <2>1 DEF CoreInv, ProxyInv
<1>7. lua \in LuaState
  BY DEF CoreInv, LuaInv
<1> HIDE DEF a
<1>8. CoreInv'
  BY <1>1, <1>5, <1>6, <1>7, ReplyCore DEF q
<1> QED  BY <1>3, <1>8 DEF q, a

LEMMA FailCore ==
    ASSUME CoreInv, NEW d \in Db, OnReqFails(d)
    PROVE  /\ CoreInv' /\ toDb[d] # <<>>
           /\ \/ store' = store
              \/ Ran(Head(toDb[d]), store', Run(Head(toDb[d])).ack)
              \/ /\ Head(toDb[d]).lib = "mysql"
                 /\ store'.base = store.base /\ store'.detail = store.detail
           /\ lua' \in LuaState /\ lua'.co = lua.co /\ lua'.players = lua.players
           /\ lua'.uid_sec = lua.uid_sec
           /\ lua'.doubt = lua.doubt \cup {Head(toDb[d]).acc}
<1> DEFINE q == Head(toDb[d])
           a == Answer(q, FALSE, 0, 0)
<1>1. /\ toDb[d] # <<>> /\ toDb' = [toDb EXCEPT ![d] = Tail(toDb[d])]
      /\ fromDb' = [fromDb EXCEPT ![d] = Append(fromDb[d], a)]
      /\ lua' = [lua EXCEPT !.doubt = lua.doubt \cup {q.acc}]
      /\ UNCHANGED up /\ faults < MaxFault /\ faults' = faults + 1
      /\ \/ store' = store
         \/ store' = Run(q).store
         \/ /\ q.lib = "mysql" /\ q.stage = "insertRows"
            /\ \E n \in 1 .. (NRow - 1) : store' = Rows(q, n).store
  BY DEF OnReqFails, Taken, Reply, Doubted
<1>2. q \in QueryType /\ QueryOK(q)
  BY <1>1, HeadQuery DEF CoreInv
<1> HIDE DEF q
<1>3. q.acc \in AccountId \cup {"none"} /\ q.c \in Nat
  BY <1>2 DEF QueryType
<1>4. a \in AnswerType /\ a.kind = q.lib /\ a.id = q.id /\ a.stage = q.stage /\ a.c = q.c
  BY <1>2, AnswerResult
<1>5. lua \in LuaState /\ store \in StoreType
  BY DEF CoreInv, LuaInv, ProxyInv
<1>6. /\ store' \in StoreType
      /\ \/ store' = store
         \/ Ran(q, store', Run(q).ack)
         \/ q.lib = "mysql" /\ store'.base = store.base /\ store'.detail = store.detail
  <2>1. CASE store' = store
    BY <1>5, <2>1
  <2>2. CASE store' = Run(q).store
    <3>1. Ran(q, store', Run(q).ack)
      BY <1>2, <1>5, <2>2, RunResult DEF CoreInv
    <3>2. store' \in StoreType
      BY <3>1 DEF Ran
    <3> QED  BY <3>1, <3>2
  <2>3. ASSUME q.lib = "mysql", NEW n \in 1 .. (NRow - 1), store' = Rows(q, n).store
        PROVE  store' \in StoreType /\ store'.base = store.base /\ store'.detail = store.detail
    <3>1. n \in Nat
      BY PlayerMgrAssumption
    <3> DEFINE s == Rows(q, n).store
    <3>2. s \in StoreType /\ s.base = store.base /\ s.detail = store.detail
      BY <1>3, <1>5, <3>1, RowsResult
    <3>3. store' = s
      BY <2>3
    <3> HIDE DEF s
    <3> QED  BY <3>2, <3>3
  <2> QED  BY <1>1, <2>1, <2>2, <2>3
<1>7. ProxyInv'
  <2>1. faults \in 0 .. MaxFault /\ MaxFault \in Nat
    BY PlayerMgrAssumption DEF CoreInv, ProxyInv
  <2>2. faults' \in 0 .. MaxFault
    BY <1>1, <2>1
  <2> QED  BY <1>1, <1>6, <2>2 DEF CoreInv, ProxyInv
<1>8. /\ lua' \in LuaState /\ lua'.co = lua.co /\ lua'.query_id = lua.query_id
      /\ lua'.table = lua.table /\ lua'.crossed = lua.crossed
      /\ lua'.coroutines = lua.coroutines /\ lua'.timeout = lua.timeout
      /\ lua'.players = lua.players /\ lua'.uid_sec = lua.uid_sec
      /\ lua'.doubt = lua.doubt \cup {q.acc}
  BY <1>1, <1>3, <1>5, DoubtStays
<1> HIDE DEF a
<1>9. CoreInv'
  BY <1>1, <1>4, <1>7, <1>8, ReplyCore DEF q
<1> QED  BY <1>1, <1>6, <1>8, <1>9 DEF q

LEMMA NoSessionCore ==
    ASSUME CoreInv, NEW d \in Db, OnReqNoSession(d)
    PROVE  /\ CoreInv' /\ toDb[d] # <<>> /\ store' = store
           /\ lua' \in LuaState /\ lua'.co = lua.co /\ lua'.players = lua.players
           /\ lua'.uid_sec = lua.uid_sec
           /\ lua'.doubt = lua.doubt \cup {Head(toDb[d]).acc}
<1> DEFINE q == Head(toDb[d])
           b == Answer(q, FALSE, 0, 0)
           a == [b EXCEPT !.id = 0]
<1>1. /\ toDb[d] # <<>> /\ toDb' = [toDb EXCEPT ![d] = Tail(toDb[d])]
      /\ fromDb' = fromDb \/ fromDb' = [fromDb EXCEPT ![d] = Append(fromDb[d], a)]
      /\ lua' = [lua EXCEPT !.doubt = lua.doubt \cup {q.acc}]
      /\ UNCHANGED <<up, store, faults>>
  BY DEF OnReqNoSession, Taken, Reply, Doubted
<1>2. q \in QueryType /\ QueryOK(q)
  BY <1>1, HeadQuery DEF CoreInv
<1> HIDE DEF q
<1>3. q.acc \in AccountId \cup {"none"}
  BY <1>2 DEF QueryType
<1>4. b \in AnswerType /\ b.kind = q.lib /\ b.stage = q.stage /\ b.c = q.c
  BY <1>2, AnswerResult
<1> HIDE DEF b
<1>5. a \in AnswerType /\ a.kind = q.lib /\ a.id = 0 /\ a.stage = q.stage /\ a.c = q.c
  BY <1>4 DEF AnswerType
<1>6. lua \in LuaState
  BY DEF CoreInv, LuaInv
<1>7. ProxyInv'
  BY <1>1 DEF CoreInv, ProxyInv
<1>8. /\ lua' \in LuaState /\ lua'.co = lua.co /\ lua'.query_id = lua.query_id
      /\ lua'.table = lua.table /\ lua'.crossed = lua.crossed
      /\ lua'.coroutines = lua.coroutines /\ lua'.timeout = lua.timeout
      /\ lua'.players = lua.players /\ lua'.uid_sec = lua.uid_sec
      /\ lua'.doubt = lua.doubt \cup {q.acc}
  BY <1>1, <1>3, <1>6, DoubtStays
<1> HIDE DEF a
<1>9. CoreInv'
  <2>1. CASE fromDb' = [fromDb EXCEPT ![d] = Append(fromDb[d], a)]
    BY <1>1, <1>5, <1>7, <1>8, <2>1, ReplyCore DEF q
  <2>2. CASE fromDb' = fromDb
    <3>1. fromDb' \in [Db -> Seq(AnswerType)] /\ Drained(fromDb, fromDb')
      BY <2>2, SameDrained DEF CoreInv, MessageInv
    <3>2. toDb' \in [Db -> Seq(QueryType)] /\ Drained(toDb, toDb')
      BY <1>1, QueryTaken DEF CoreInv, MessageInv
    <3>3. lua'.timeout \subseteq DOMAIN lua'.coroutines
      BY <1>8 DEF CoreInv, LuaInv
    <3> QED  BY <1>7, <1>8, <3>1, <3>2, <3>3, StayCore
  <2> QED  BY <1>1, <2>1, <2>2
<1> QED  BY <1>1, <1>8, <1>9 DEF q

LEMMA DiesDrained ==
    ASSUME MessageInv, NEW d \in Db, Dies(d)
    PROVE  /\ toDb' \in [Db -> Seq(QueryType)] /\ Drained(toDb, toDb')
           /\ fromDb' \in [Db -> Seq(AnswerType)] /\ Drained(fromDb, fromDb')
<1> DEFINE s == [e \in Db |-> 0]
<1>1. s \in [Db -> Nat]
  OBVIOUS
<1>2. \A e \in Db : \A i \in Nat : i + s[e] = i
  OBVIOUS
<1> HIDE DEF s
<1>3. toDb \in [Db -> Seq(QueryType)] /\ fromDb \in [Db -> Seq(AnswerType)]
  BY DEF MessageInv
<1>4. toDb' = [toDb EXCEPT ![d] = <<>>]
  BY DEF Dies
<1>5. toDb' \in [Db -> Seq(QueryType)]
  BY <1>3, <1>4, EmptySeq
<1>6. ASSUME NEW e \in Db, NEW i \in DOMAIN toDb'[e]
      PROVE  i + s[e] \in DOMAIN toDb[e] /\ toDb'[e][i] = toDb[e][i + s[e]]
  <2>1. e # d
    BY <1>3, <1>4, EmptySeq
  <2>2. toDb'[e] = toDb[e] /\ i \in Nat
    BY <1>3, <1>4, <2>1
  <2> QED  BY <1>2, <2>2
<1>7. PICK n \in 0 .. Len(fromDb[d]) : fromDb' = [fromDb EXCEPT ![d] = SubSeq(@, 1, n)]
  BY DEF Dies
<1>8. fromDb[d] \in Seq(AnswerType) /\ Len(fromDb[d]) \in Nat /\ n \in Nat /\ n <= Len(fromDb[d])
      /\ DOMAIN fromDb[d] = 1 .. Len(fromDb[d])
  BY <1>3, LenProperties
<1> DEFINE g == SubSeq(fromDb[d], 1, n)
<1>9. g \in Seq(AnswerType) /\ DOMAIN g = 1 .. n /\ \A i \in 1 .. n : g[i] = fromDb[d][i]
  BY <1>8
<1> HIDE DEF g
<1>10. fromDb' = [fromDb EXCEPT ![d] = g]
  BY <1>7 DEF g
<1>11. fromDb' \in [Db -> Seq(AnswerType)]
  BY <1>3, <1>9, <1>10
<1>12. ASSUME NEW e \in Db, NEW i \in DOMAIN fromDb'[e]
       PROVE  i + s[e] \in DOMAIN fromDb[e] /\ fromDb'[e][i] = fromDb[e][i + s[e]]
  <2>1. CASE e = d
    <3>1. fromDb'[e] = g /\ i \in 1 .. n
      BY <1>3, <1>9, <1>10, <2>1
    <3>2. i \in Nat /\ i \in 1 .. Len(fromDb[d])
      BY <1>8, <3>1
    <3>3. i + s[e] = i
      BY <1>2, <3>2
    <3> QED  BY <1>8, <1>9, <2>1, <3>1, <3>2, <3>3
  <2>2. CASE e # d
    <3>1. fromDb'[e] = fromDb[e] /\ i \in Nat
      BY <1>3, <1>10, <2>2
    <3> QED  BY <1>2, <3>1
  <2> QED  BY <2>1, <2>2
<1>13. Drained(toDb, toDb')
  BY <1>1, <1>6 DEF Drained
<1>14. Drained(fromDb, fromDb')
  BY <1>1, <1>12 DEF Drained
<1> QED  BY <1>5, <1>11, <1>13, <1>14

LEMMA DownCore ==
    ASSUME CoreInv, NEW d \in Db, NoClient(d) \/ Crash(d) \/ Restart(d)
    PROVE  /\ CoreInv' /\ UNCHANGED <<lua, store>>
           /\ All(toDb') \subseteq All(toDb) /\ All(fromDb') \subseteq All(fromDb)
<1>1. UNCHANGED <<lua, store>>
  BY DEF NoClient, Crash, Restart
<1>2. /\ toDb' \in [Db -> Seq(QueryType)] /\ Drained(toDb, toDb')
      /\ fromDb' \in [Db -> Seq(AnswerType)] /\ Drained(fromDb, fromDb')
  <2>1. CASE NoClient(d) \/ Crash(d)
    BY <2>1, DiesDrained DEF CoreInv, NoClient, Crash
  <2>2. CASE Restart(d)
    BY <2>2, SameMessages DEF CoreInv, Restart
  <2> QED  BY <2>1, <2>2
<1>3. ProxyInv'
  <2>1. faults \in 0 .. MaxFault /\ MaxFault \in Nat
    BY PlayerMgrAssumption DEF CoreInv, ProxyInv
  <2>2. faults' \in 0 .. MaxFault
    BY <2>1 DEF NoClient, Crash, Restart
  <2>3. up' \in [Db -> {"up", "noSession", "down"}]
    BY DEF NoClient, Crash, Restart, Dies, CoreInv, ProxyInv
  <2> QED  BY <1>1, <2>2, <2>3 DEF CoreInv, ProxyInv
<1>4. lua \in LuaState /\ lua.timeout \subseteq DOMAIN lua.coroutines
  BY DEF CoreInv, LuaInv
<1>5. CoreInv'
  BY <1>1, <1>2, <1>3, <1>4, StayCore
<1> QED  BY <1>1, <1>2, <1>5, DrainedAll

LEMMA CoreStep == CoreInv /\ [PlayerMgrNext]_playerMgrVars => CoreInv'
<1> SUFFICES ASSUME CoreInv, [PlayerMgrNext]_playerMgrVars PROVE CoreInv'
  OBVIOUS
<1>1. ASSUME NEW d \in Db, Proxy(d) \/ Crash(d) \/ Restart(d) PROVE CoreInv'
  BY <1>1, RunCore, FailCore, NoSessionCore, DownCore, Zenon DEF Proxy
<1>2. CASE UNCHANGED playerMgrVars
  BY <1>2 DEF playerMgrVars, CoreInv, LuaInv, TableInv, CrossInv, ProxyInv, MessageInv,
     NumberInv, AskedOnceInv, Players, Waiting, Shared, QueryOK, AnswerOK, Took, Unique
<1> QED  BY <1>1, <1>2, NodeCore DEF PlayerMgrNext, Node

(* Whatever is asked, however many accounts, proxies and coroutines: a      *)
(* coroutine is resumed with its own answer or none, except where two       *)
(* libraries have given out the same number.                                *)
THEOREM OwnAnswerHolds == PlayerMgrSpec => []OwnAnswer
<1>1. PlayerMgrSpec => []CoreInv
  BY CoreInit, CoreStep, PTL DEF PlayerMgrSpec
<1> QED  BY <1>1, CoreMeans, PTL

(* The uids: GetNewPlayerData gives a new one, and all others are copied    *)
(* within an account.                                                       *)
UidKnown(c) ==
    LET k == lua'.co[c]
    IN  k.kind # "script" =>
          \/ k.uid = 0 \/ Has(k.acc, k.uid)
          \/ k.uid = lua.uid_sec + 1 /\ lua'.uid_sec = lua.uid_sec + 1

(* The uids after a turn. *)
LEMMA UidTurn ==
    ASSUME LuaInv, MessageInv, UidInv, NEW c, Turn(c), store' = store,
           lua.uid_sec <= lua'.uid_sec, UidKnown(c)
    PROVE  UidInv'
<1> DEFINE k == lua'.co[c]
<1>1. /\ DOMAIN lua'.co = DOMAIN lua.co \cup {c} /\ CoroutineOK(k) /\ k \in Coroutine
      /\ \A x \in DOMAIN lua.co \ {c} : lua'.co[x] = lua.co[x]
      /\ c \in DOMAIN lua.co => k.kind = lua.co[c].kind /\ k.acc = lua.co[c].acc
      /\ lua \in LuaState /\ lua' \in LuaState
  BY DEF Turn, Advance, CoroutineOK, LuaInv
<1>2. lua.uid_sec \in Nat /\ lua'.uid_sec \in Nat /\ k.uid \in Nat
  BY <1>1 DEF LuaState, Coroutine
<1>3. ASSUME NEW acc \in AccountId, NEW u \in Nat, Has(acc, u)'
      PROVE  Has(acc, u) \/ (k.kind # "script" /\ acc = k.acc /\ u = k.uid)
  <2>1. CASE \E x \in Players(lua') : lua'.co[x].acc = acc /\ lua'.co[x].uid = u
    BY <1>1, <2>1 DEF Players, Has
  <2>2. CASE \E i \in DOMAIN store'.base : store'.base[i].acc = acc /\ store'.base[i].uid = u
    BY <2>2 DEF Has
  <2>3. CASE \E q \in All(toDb') : q.lib = "mongo" /\ q.acc = acc /\ q.uid = u
    <3>1. PICK q \in All(toDb') : q.lib = "mongo" /\ q.acc = acc /\ q.uid = u
      BY <2>3
    <3>2. CASE q \in All(toDb)
      BY <3>1, <3>2 DEF Has
    <3>3. CASE q = Query(lua', c)
      <4>1. k.lib = "mongo" /\ k.acc = acc /\ k.uid = u
        BY <3>1, <3>3 DEF Query
      <4>2. k.kind # "script"
        BY <1>1, <4>1 DEF CoroutineOK
      <4> QED  BY <4>1, <4>2
    <3> QED  BY <3>2, <3>3, TurnAsks
  <2>4. CASE \E a \in All(fromDb') :
                a.kind = "mongo" /\ lua'.co[a.c].acc = acc /\ a.uid = u
    <3>1. PICK a \in All(fromDb') : a.kind = "mongo" /\ lua'.co[a.c].acc = acc /\ a.uid = u
      BY <2>4
    <3>2. a \in All(fromDb) /\ a.c \in DOMAIN lua.co
      BY TurnAsks
    <3>3. lua'.co[a.c].acc = lua.co[a.c].acc
      BY <1>1, <3>2
    <3> QED  BY <3>1, <3>2, <3>3 DEF Has
  <2> QED  BY <1>3, <2>1, <2>2, <2>3, <2>4 DEF Has
<1>4. \A a \in AccountId, u \in Nat : Has(a, u) => u <= lua.uid_sec
  BY DEF UidInv
<1>5. k.kind # "script" => k.acc \in AccountId
  BY <1>1 DEF CoroutineOK
<1>6. ASSUME NEW acc \in AccountId, NEW u \in Nat, Has(acc, u)'
      PROVE  \/ u = 0 \/ Has(acc, u)
             \/ /\ acc = k.acc /\ k.kind # "script"
                /\ u = lua.uid_sec + 1 /\ lua'.uid_sec = lua.uid_sec + 1
  BY <1>3, <1>6 DEF UidKnown
<1>7. ASSUME NEW acc \in AccountId, NEW u \in Nat, Has(acc, u)' PROVE u <= lua'.uid_sec
  BY <1>2, <1>4, <1>6, <1>7
<1>8. ASSUME NEW a \in AccountId, NEW b \in AccountId, NEW u \in Nat \ {0}, Has(a, u)', Has(b, u)'
      PROVE  a = b
  <2>1. u \in Nat /\ u # 0 /\ (u = lua.uid_sec + 1 => ~Has(a, u) /\ ~Has(b, u))
    BY <1>2, <1>4
  <2>2. Has(a, u) /\ Has(b, u) => a = b
    BY DEF UidInv
  <2> QED  BY <1>6, <1>8, <2>1, <2>2
<1> QED  BY <1>7, <1>8, Zenon DEF UidInv

LEMMA StartUids ==
    ASSUME CoreInv, UidInv, StoreInv, NEW kind, NEW lib, NEW acc, NEW player, NEW stage, NEW listed,
           Launched(New(kind, lib, acc, player), stage, listed, lua'), Turn(Len(lua.co) + 1),
           store' = store, kind # "script" => player = 0 \/ Has(acc, player)
    PROVE  UidInv' /\ StoreInv'
<1> DEFINE c == Len(lua.co) + 1
<1>1. /\ lua'.uid_sec = lua.uid_sec /\ lua'.players = lua.players
      /\ lua'.co[c].kind = kind /\ lua'.co[c].acc = acc /\ lua'.co[c].uid = player
  BY DEF Launched, New
<1>2. lua.uid_sec \in Nat
  BY DEF CoreInv, LuaInv, LuaState
<1>3. UidKnown(c)
  BY <1>1 DEF UidKnown
<1>4. lua.uid_sec <= lua'.uid_sec
  BY <1>1, <1>2
<1> HIDE DEF c
<1>5. UidInv'
  BY <1>3, <1>4, UidTurn DEF CoreInv, c
<1> QED  BY <1>1, <1>5 DEF StoreInv

\* The only message with the number of the coroutine's query is its answer.
Own(a, c) ==
    LET k == lua.co[c]
    IN  /\ a \in AnswerType /\ a \in All(fromDb) /\ a.kind = k.lib
        /\ a.c = c /\ a.id = k.id /\ a.stage = k.stage
        /\ \A q \in All(toDb) : ~(q.c = c /\ q.id = k.id)
        /\ \A x \in All(fromDb') : ~(x.c = c /\ x.id = k.id)

(* A coroutine that goes on to its next stage with the answer a, or Nil.    *)
GoesOn(c, a) ==
    LET k == lua.co[c]
        m == lua'.co[c]
        stage == After(k, a)
    IN  /\ c \in DOMAIN lua.co /\ Waiting(lua, c) /\ Turn(c)
        /\ Players(lua') = Players(lua)
        /\ m.stage = stage
        /\ m.uid = IF stage = "insertBase" THEN lua.uid_sec + 1
                   ELSE IF stage = "findDetail" THEN a.uid ELSE k.uid
        /\ m.told = IF k.stage = "insertRows" THEN a.kind # "nil" /\ a.ok ELSE k.told
        /\ lua'.uid_sec = IF stage = "insertBase" THEN lua.uid_sec + 1 ELSE lua.uid_sec
        /\ lua'.players = IF stage # "done" THEN lua.players
                          ELSE IF k.kind = "enter" THEN lua.players \cup {k.uid}
                          ELSE IF k.kind = "leave" THEN lua.players \ {k.uid}
                          ELSE lua.players
        /\ a = Nil \/ a \in AnswerType
        /\ \/ k.acc \in lua'.doubt /\ a.kind # k.lib
           \/ Own(a, c)

LEMMA AnswerTaken ==
    ASSUME fromDb \in [Db -> Seq(AnswerType)], NEW d \in Db, fromDb[d] # <<>>, Unique(fromDb),
           fromDb' = [fromDb EXCEPT ![d] = Tail(fromDb[d])], Head(fromDb[d]).id > 0
    PROVE  \A x \in All(fromDb') : ~(x.c = Head(fromDb[d]).c /\ x.id = Head(fromDb[d]).id)
<1> DEFINE g == [fromDb EXCEPT ![d] = Tail(fromDb[d])]
<1>1. \A x \in All(g) : ~(x.c = Head(fromDb[d]).c /\ x.id = Head(fromDb[d]).id)
  BY TailDrained, Zenon
<1>2. fromDb' = g
  OBVIOUS
<1> HIDE DEF g
<1> QED  BY <1>1, <1>2

LEMMA AnswerGoesOn ==
    ASSUME CoreInv, NEW d \in Db, QueryResume(d), Awaited(lua, Head(fromDb[d]))
    PROVE  \E c \in DOMAIN lua.co : GoesOn(c, Head(fromDb[d]))
<1> DEFINE a == Head(fromDb[d])
           c == lua.table[a.id]
           k == lua.co[c]
           L == Noted(lua, a)
<1>0. LuaInv /\ TableInv /\ MessageInv /\ NumberInv /\ AskedOnceInv
  BY DEF CoreInv
<1>1. /\ Turn(c) /\ c \in DOMAIN lua.co /\ Players(lua') = Players(lua)
      /\ Resumed(L, c, a, lua') /\ a \in All(fromDb) /\ a \in AnswerType
  BY <1>0, AnswerTurns
<1>2. /\ fromDb[d] # <<>> /\ fromDb' = [fromDb EXCEPT ![d] = Tail(fromDb[d])]
  BY Zenon DEF QueryResume
<1>3. Waiting(lua, c) /\ CoroutineOK(k) /\ k.id = a.id
  BY <1>1, Zenon DEF Awaited, CoreInv, LuaInv, TableInv
<1>4. k.acc \in AccountId \cup {"none"} /\ k.lib # "redis" /\ k.id > 0
  BY <1>3, Zenon DEF CoroutineOK, Coroutine, Waiting, Ended
<1>5. AnswerOK(a) /\ lua \in LuaState /\ a.id \in Nat
  BY <1>1, Zenon DEF CoreInv, MessageInv, LuaInv, AnswerType
<1>6. /\ L \in LuaState /\ L.co = lua.co /\ L.uid_sec = lua.uid_sec
      /\ L.players = lua.players
      /\ Foreign(lua, a) => k.acc \in L.doubt
  BY <1>4, <1>5, Zenon DEF Noted, LuaState
<1> HIDE DEF L
<1>7. lua'.co[c].kind = k.kind /\ L.doubt \subseteq lua'.doubt
  BY <1>1, <1>6, Zenon DEF Resumed, Ended
<1>8. \/ k.acc \in lua'.doubt /\ a.kind # k.lib
      \/ Own(a, c)
  <2>1. CASE a.c = c
    <3>1. a.kind = k.lib /\ a.stage = k.stage
      BY <1>3, <1>5, <2>1, Zenon DEF AnswerOK, Waiting
    <3>2. \A q \in All(toDb) : ~(q.c = c /\ q.id = k.id)
      BY <1>0, <1>1, <1>3, <2>1, Zenon DEF AskedOnceInv
    <3>3. \A x \in All(fromDb') : ~(x.c = c /\ x.id = k.id)
      BY <1>0, <1>2, <1>3, <1>4, <2>1, AnswerTaken, Zenon DEF MessageInv, AskedOnceInv
    <3> QED  BY <1>1, <1>3, <2>1, <3>1, <3>2, <3>3, Zenon DEF Own
  <2>2. CASE a.c # c
    <3>1. Foreign(lua, a)
      BY <2>2, Zenon DEF Foreign
    <3>2. a.kind # k.lib
      <4>1. SUFFICES ASSUME a.kind = k.lib PROVE FALSE
        BY Zenon
      <4>2. Took(k.lib, a.id, c) /\ Took(k.lib, a.id, a.c)
        BY <1>1, <1>3, <4>1, Zenon DEF Took
      <4>3. a.id \in Nat \ {0} /\ a.c \in Nat
        <5>1. k.id # 0
          BY <1>4
        <5> HIDE DEF a, c, k
        <5> QED  BY <1>1, <1>3, <1>5, <5>1, Zenon DEF AnswerType
      <4>4. c \in Nat /\ k.lib \in Lib
        <5> HIDE DEF c
        <5> QED  BY <1>1, <1>3, <1>5 DEF LuaState, CoroutineOK, Coroutine
      <4> QED  BY <1>0, <2>2, <4>2, <4>3, <4>4, Zenon DEF NumberInv
    <3> QED  BY <1>6, <1>7, <3>1, <3>2
  <2> QED  BY <2>1, <2>2, Zenon
<1> HIDE DEF a, c
<1>9. GoesOn(c, a)
  BY <1>1, <1>3, <1>6, <1>8, Zenon DEF GoesOn, Resumed
<1> QED  BY <1>1, <1>9 DEF a

LEMMA CheckGoesOn ==
    ASSUME CoreInv, NEW c \in lua.timeout, CheckNext(c), Waiting(lua, c)
    PROVE  GoesOn(c, Nil)
<1>1. LuaInv /\ TableInv /\ MessageInv
  BY DEF CoreInv
<1>2. /\ Turn(c) /\ c \in DOMAIN lua.co /\ Players(lua') = Players(lua)
      /\ \E M : TimedOut(c, M)
  BY <1>1, CheckTurns
<1>3. PICK M : TimedOut(c, M)
  BY <1>2
<1>4. Nil.kind # lua.co[c].lib
  <2>1. lua.co[c].lib \in Lib
    BY <1>1, <1>2 DEF LuaInv, CoroutineOK, Coroutine
  <2> QED  BY <2>1 DEF Lib, Nil
<1>5. Resumed(lua, c, Nil, M) /\ lua'.co = M.co /\ lua'.players = M.players
      /\ lua'.uid_sec = M.uid_sec /\ lua.co[c].acc \in lua'.doubt
  BY <1>3 DEF TimedOut
<1> QED  BY <1>2, <1>4, <1>5, Zenon DEF GoesOn, Resumed

LEMMA GoesOnStage ==
    ASSUME CoreInv, NEW c, NEW a, GoesOn(c, a)
    PROVE  LET k == lua.co[c]
               m == lua'.co[c]
           IN  /\ CoroutineOK(k) /\ CoroutineOK(m) /\ k.stage \notin Ended
               /\ m.kind = k.kind /\ m.acc = k.acc /\ m.lib = k.lib
               /\ m.stage = After(k, a)
               /\ k.kind # "script" /\ m.stage = "findDetail" =>
                     k.stage = "findBase" /\ a.matched = 1 /\ Own(a, c)
               /\ k.kind = "script" => m.stage \notin {"insertBase", "findDetail", "insertRows"}
<1> DEFINE k == lua.co[c]
           m == lua'.co[c]
<1>1. /\ c \in DOMAIN lua.co /\ k.stage \notin Ended /\ Advance(c) /\ m.stage = After(k, a)
      /\ a = Nil \/ a \in AnswerType
      /\ a.kind = k.lib => Own(a, c)
  BY Zenon DEF GoesOn, Waiting, Turn
<1>2. CoroutineOK(k) /\ CoroutineOK(m) /\ m.kind = k.kind /\ m.acc = k.acc /\ m.lib = k.lib
  BY <1>1 DEF CoreInv, LuaInv, Advance
<1>3. /\ k.kind = "script" => After(k, a) \notin {"insertBase", "findDetail", "insertRows"}
      /\ k.kind # "script" /\ After(k, a) = "findDetail" =>
            k.stage = "findBase" /\ a.kind = "mongo" /\ a.matched = 1
  BY <1>1, <1>2, AfterStage
<1>4. k.kind # "script" => k.lib = "mongo"
  BY <1>2 DEF CoroutineOK
<1> HIDE DEF k, m
<1>5. k.kind # "script" /\ m.stage = "findDetail" =>
          k.stage = "findBase" /\ a.matched = 1 /\ Own(a, c)
  BY <1>1, <1>3, <1>4
<1> QED  BY <1>1, <1>2, <1>3, <1>5 DEF k, m

LEMMA GoesOnUids ==
    ASSUME CoreInv, UidInv, StoreInv, NEW c, NEW a, GoesOn(c, a), store' = store
    PROVE  UidInv' /\ StoreInv'
<1> DEFINE k == lua.co[c]
           m == lua'.co[c]
<1>1. /\ c \in DOMAIN lua.co /\ Turn(c) /\ lua.uid_sec \in Nat
      /\ m.uid = IF m.stage = "insertBase" THEN lua.uid_sec + 1
                 ELSE IF m.stage = "findDetail" THEN a.uid ELSE k.uid
      /\ lua'.uid_sec = IF m.stage = "insertBase" THEN lua.uid_sec + 1 ELSE lua.uid_sec
      /\ lua'.players \subseteq lua.players \cup (IF k.kind = "script" THEN {} ELSE {k.uid})
  BY DEF GoesOn, CoreInv, LuaInv, LuaState
<1>2. /\ m.kind = k.kind /\ m.acc = k.acc /\ CoroutineOK(k)
      /\ k.kind # "script" /\ m.stage = "findDetail" => Own(a, c)
  BY GoesOnStage
<1>3. k.kind # "script" =>
          Has(k.acc, k.uid) /\ k.acc \in AccountId /\ k.uid \in Nat /\ k.lib = "mongo"
  BY <1>1, <1>2 DEF Has, Players, CoroutineOK, Coroutine
<1>4. k.kind # "script" /\ Own(a, c) => Has(k.acc, a.uid)
  BY <1>3 DEF Own, Has
<1> HIDE DEF k, m
<1>5. UidKnown(c)
  BY <1>1, <1>2, <1>3, <1>4 DEF UidKnown, k, m
<1>6. lua.uid_sec <= lua'.uid_sec /\ lua'.uid_sec \in Nat
  BY <1>1
<1>7. UidInv'
  BY <1>1, <1>5, <1>6, UidTurn DEF CoreInv
<1>8. k.kind # "script" => k.uid \in 0 .. lua.uid_sec
  BY <1>1, <1>3 DEF UidInv
<1>9. \A u \in 0 .. lua.uid_sec : u \in 0 .. lua'.uid_sec
  BY <1>1, <1>6
<1>10. StoreInv'
  BY <1>1, <1>8, <1>9 DEF StoreInv
<1> QED  BY <1>7, <1>10

(* A step in which a proxy takes the query q, and answers with a or not.    *)
Serves(q, a) ==
    /\ q \in All(toDb) /\ q \in QueryType /\ QueryOK(q)
    /\ All(toDb') \subseteq All(toDb)
    /\ \A x \in All(toDb') : ~(x.c = q.c /\ x.id = q.id)
    /\ All(fromDb') \subseteq All(fromDb) \cup {a}
    /\ a \in AnswerType /\ a.c = q.c /\ a.kind = q.lib /\ a.stage = q.stage
    /\ lua' \in LuaState /\ lua'.co = lua.co /\ lua'.players = lua.players
    /\ lua'.uid_sec = lua.uid_sec /\ lua.doubt \subseteq lua'.doubt
    /\ \/ a.id = q.id /\ Ran(q, store', a)
       \/ /\ q.acc \in lua'.doubt /\ a.uid = 0
          /\ \/ store' = store
             \/ \E b : Ran(q, store', b)
             \/ q.lib = "mysql" /\ store'.base = store.base /\ store'.detail = store.detail

LEMMA TakenQuery ==
    ASSUME MessageInv, AskedOnceInv, NEW d \in Db, toDb[d] # <<>>,
           toDb' = [toDb EXCEPT ![d] = Tail(toDb[d])]
    PROVE  /\ Head(toDb[d]) \in All(toDb) /\ Head(toDb[d]) \in QueryType
           /\ QueryOK(Head(toDb[d])) /\ All(toDb') \subseteq All(toDb)
           /\ \A x \in All(toDb') : ~(x.c = Head(toDb[d]).c /\ x.id = Head(toDb[d]).id)
<1> DEFINE q == Head(toDb[d])
<1>1. q \in All(toDb) /\ q \in QueryType /\ QueryOK(q)
  BY HeadQuery
<1>2. q.id > 0
  <2> HIDE DEF q
  <2>1. q.id \in 1 .. lua.co[q.c].id
    BY <1>1 DEF QueryOK
  <2> QED  BY <2>1
<1>3. toDb \in [Db -> Seq(QueryType)] /\ Unique(toDb)
  BY DEF MessageInv, AskedOnceInv
<1>4. Drained(toDb, toDb')
  BY <1>3, QueryTaken
<1>5. \A x \in All(toDb') : ~(x.c = Head(toDb[d]).c /\ x.id = Head(toDb[d]).id)
  BY <1>2, <1>3, QueryTaken
<1>6. All(toDb') \subseteq All(toDb)
  BY <1>4, DrainedAll
<1> QED  BY <1>1, <1>5, <1>6

(* The messages and the databases after a proxy took a query. *)
LEMMA ReplyAll ==
    ASSUME MessageInv, NEW d \in Db, NEW a \in AnswerType,
           fromDb' = [fromDb EXCEPT ![d] = Append(fromDb[d], a)]
    PROVE  All(fromDb') \subseteq All(fromDb) \cup {a}
<1>1. Moved(fromDb, fromDb', a)
  BY AnswerAppended DEF MessageInv
<1> QED  BY <1>1, MovedAll

LEMMA RunServes ==
    ASSUME CoreInv, NEW d \in Db, OnReq(d)
    PROVE  \E q, a : Serves(q, a)
<1> DEFINE q == Head(toDb[d])
           a == Run(q).ack
<1>1. /\ toDb[d] # <<>> /\ toDb' = [toDb EXCEPT ![d] = Tail(toDb[d])]
      /\ fromDb' = [fromDb EXCEPT ![d] = Append(fromDb[d], a)]
      /\ UNCHANGED <<lua, up, faults>>
  BY DEF OnReq, Taken, Reply
<1>2. Ran(q, store', a)
  BY RunCore
<1>3. /\ q \in All(toDb) /\ q \in QueryType
      /\ QueryOK(q) /\ All(toDb') \subseteq All(toDb)
      /\ \A x \in All(toDb') : ~(x.c = q.c /\ x.id = q.id)
  BY <1>1, TakenQuery DEF CoreInv
<1> HIDE DEF q
<1>4. Matched(q) \in {0, 1} /\ FirstUid(q) \in Nat
  BY <1>3, FirstUidResult DEF CoreInv, ProxyInv, Matched
<1>5. a \in AnswerType /\ a.kind = q.lib /\ a.id = q.id /\ a.stage = q.stage /\ a.c = q.c
  <2> HIDE DEF a
  <2>1. PICK m \in {0, 1}, u \in Nat : a = Answer(q, TRUE, m, u)
    BY <1>2, <1>4 DEF Ran
  <2> QED  BY <1>3, <2>1, AnswerResult
<1> HIDE DEF a
<1>6. All(fromDb') \subseteq All(fromDb) \cup {a}
  BY <1>1, <1>5, ReplyAll DEF CoreInv
<1>7. lua \in LuaState
  BY DEF CoreInv, LuaInv
<1>8. Serves(q, a)
  BY <1>1, <1>2, <1>3, <1>5, <1>6, <1>7 DEF Serves
<1> QED  BY <1>8

LEMMA FailServes ==
    ASSUME CoreInv, NEW d \in Db, OnReqFails(d) \/ OnReqNoSession(d)
    PROVE  \E q, a : Serves(q, a)
<1> DEFINE q == Head(toDb[d])
           b == Answer(q, FALSE, 0, 0)
           z == [b EXCEPT !.id = 0]
<1>1. /\ toDb[d] # <<>> /\ toDb' = [toDb EXCEPT ![d] = Tail(toDb[d])]
      /\ \/ fromDb' = [fromDb EXCEPT ![d] = Append(fromDb[d], b)]
         \/ fromDb' = [fromDb EXCEPT ![d] = Append(fromDb[d], z)]
         \/ fromDb' = fromDb
  BY DEF OnReqFails, OnReqNoSession, Taken, Reply
<1>2. /\ \/ store' = store
         \/ Ran(q, store', Run(q).ack)
         \/ q.lib = "mysql" /\ store'.base = store.base /\ store'.detail = store.detail
      /\ lua' \in LuaState /\ lua'.co = lua.co /\ lua'.players = lua.players
      /\ lua'.uid_sec = lua.uid_sec /\ lua'.doubt = lua.doubt \cup {q.acc}
  BY FailCore, NoSessionCore
<1>3. /\ q \in All(toDb) /\ q \in QueryType
      /\ QueryOK(q) /\ All(toDb') \subseteq All(toDb)
      /\ \A x \in All(toDb') : ~(x.c = q.c /\ x.id = q.id)
  BY <1>1, TakenQuery DEF CoreInv
<1> HIDE DEF q
<1>4. b \in AnswerType /\ b.kind = q.lib /\ b.stage = q.stage /\ b.c = q.c /\ b.uid = 0
  <2>1. b.uid = 0
    BY DEF Answer
  <2> QED  BY <1>3, <2>1, AnswerResult
<1> HIDE DEF b
<1>5. z \in AnswerType /\ z.kind = q.lib /\ z.stage = q.stage /\ z.c = q.c /\ z.uid = 0
  BY <1>4 DEF AnswerType
<1> HIDE DEF z
<1>6. PICK a \in {b, z} : All(fromDb') \subseteq All(fromDb) \cup {a}
  <2>1. CASE fromDb' = [fromDb EXCEPT ![d] = Append(fromDb[d], b)]
    BY <1>4, <2>1, ReplyAll DEF CoreInv
  <2>2. CASE fromDb' = [fromDb EXCEPT ![d] = Append(fromDb[d], z)]
    BY <1>5, <2>2, ReplyAll DEF CoreInv
  <2>3. CASE fromDb' = fromDb
    BY <2>3
  <2> QED  BY <1>1, <2>1, <2>2, <2>3
<1>7. a \in AnswerType /\ a.kind = q.lib /\ a.stage = q.stage /\ a.c = q.c /\ a.uid = 0
  BY <1>4, <1>5, <1>6
<1>8. Serves(q, a)
  BY <1>2, <1>3, <1>6, <1>7 DEF Serves
<1> QED  BY <1>8

LEMMA QueryKind ==
    ASSUME LuaInv, NEW q, QueryOK(q)
    PROVE  LET k == lua.co[q.c]
           IN  /\ q.c \in DOMAIN lua.co /\ CoroutineOK(k) /\ k.acc = q.acc /\ k.lib = q.lib
               /\ q.stage \in Reads \cup Inserts \cup Updates \cup Indexes => q.lib = "mongo"
               /\ q.lib = "mongo" =>
                     q.acc \in AccountId /\ q.c \in Players(lua) /\ q.stage # "insertRows"
               /\ q.lib # "mongo" => q.acc = "none"
<1> DEFINE k == lua.co[q.c]
<1>1. q.c \in DOMAIN lua.co /\ CoroutineOK(k) /\ k.acc = q.acc /\ k.lib = q.lib
      /\ q.stage \in StagesOf(k.kind, k.lib) \ Ended
  BY DEF LuaInv, QueryOK
<1>2. k.kind \in {"enter", "leave", "script"} /\ k.lib \in Lib
  BY <1>1 DEF CoroutineOK, Coroutine
<1>3. q.stage \in Reads \cup Inserts \cup Updates \cup Indexes => k.kind # "script"
  BY <1>1, <1>2 DEF StagesOf, Reads, Inserts, Updates, Indexes, Ended, Lib
<1>4. k.kind # "script" => q.stage # "insertRows"
  BY <1>1, <1>2 DEF StagesOf, Reads, Inserts, Updates, Indexes, Ended
<1>5. /\ k.kind # "script" => k.lib = "mongo" /\ k.acc \in AccountId
      /\ k.kind = "script" => k.lib # "mongo" /\ k.acc = "none"
  BY <1>1 DEF CoroutineOK
<1> QED  BY <1>1, <1>3, <1>4, <1>5 DEF Players

LEMMA RanBase ==
    ASSUME store \in StoreType, NEW q, NEW s, NEW a, Ran(q, s, a), NEW i \in DOMAIN s.base
    PROVE  \/ i \in DOMAIN store.base /\ s.base[i] = store.base[i]
           \/ /\ q.stage = "insertBase" /\ i = Len(store.base) + 1
              /\ s.base[i] = [acc |-> q.acc, uid |-> q.uid]
<1> DEFINE p == [acc |-> q.acc, uid |-> q.uid]
<1>1. s.base = IF q.stage = "insertBase" THEN Append(store.base, p) ELSE store.base
  BY DEF Ran
<1> HIDE DEF p
<1>2. CASE q.stage = "insertBase"
  <2>1. s.base = Append(store.base, p) /\ store.base \in Seq(Player)
    BY <1>1, <1>2 DEF StoreType
  <2> DEFINE B == store.base
  <2> HIDE DEF B
  <2>2. B \in Seq(Player \cup {p}) /\ s.base = Append(B, p)
    BY <2>1 DEF B
  <2>3. /\ DOMAIN B = 1 .. Len(B) /\ Len(B) \in Nat
        /\ DOMAIN Append(B, p) = 1 .. Len(B) + 1 /\ Append(B, p)[Len(B) + 1] = p
        /\ \A j \in 1 .. Len(B) : Append(B, p)[j] = B[j]
    BY <2>2, AppendProperties, LenProperties
  <2>4. i \in 1 .. Len(B) \/ i = Len(B) + 1
    BY <2>2, <2>3
  <2> QED  BY <1>2, <2>2, <2>3, <2>4 DEF B, p
<1>3. CASE q.stage # "insertBase"
  BY <1>1, <1>3
<1> QED  BY <1>2, <1>3

LEMMA ServesHas ==
    ASSUME CoreInv, NEW q, NEW a, Serves(q, a), NEW acc \in AccountId, NEW u \in Nat,
           Has(acc, u)'
    PROVE  u = 0 \/ Has(acc, u)
<1>0. LuaInv /\ store \in StoreType /\ q \in QueryType /\ QueryOK(q) /\ q \in All(toDb)
  BY DEF CoreInv, ProxyInv, Serves
<1>1. /\ lua.co[q.c].acc = q.acc
      /\ q.stage \in Reads \cup Inserts \cup Updates \cup Indexes => q.lib = "mongo"
  BY <1>0, QueryKind
<1>2. q.lib = "mongo" => Has(q.acc, q.uid)
  BY <1>0 DEF Has
<1>3. CASE \E x \in Players(lua') : lua'.co[x].acc = acc /\ lua'.co[x].uid = u
  BY <1>3 DEF Serves, Players, Has
<1>4. CASE \E i \in DOMAIN store'.base : store'.base[i].acc = acc /\ store'.base[i].uid = u
  <2>1. PICK i \in DOMAIN store'.base : store'.base[i].acc = acc /\ store'.base[i].uid = u
    BY <1>4
  <2>2. CASE store'.base = store.base
    BY <2>1, <2>2 DEF Has
  <2>3. ASSUME NEW b, Ran(q, store', b) PROVE Has(acc, u)
    <3>1. CASE i \in DOMAIN store.base /\ store'.base[i] = store.base[i]
      BY <2>1, <3>1 DEF Has
    <3>2. CASE q.stage = "insertBase" /\ store'.base[i] = [acc |-> q.acc, uid |-> q.uid]
      <4>1. q.acc = acc /\ q.uid = u
        BY <2>1, <3>2
      <4> QED  BY <1>1, <1>2, <3>2, <4>1 DEF Inserts
    <3> QED  BY <1>0, <2>3, <3>1, <3>2, RanBase
  <2>4. store'.base = store.base \/ \E b : Ran(q, store', b)
    BY DEF Serves
  <2> QED  BY <2>2, <2>3, <2>4
<1>5. CASE \E x \in All(toDb') : x.lib = "mongo" /\ x.acc = acc /\ x.uid = u
  BY <1>5 DEF Serves, Has
<1>6. CASE \E x \in All(fromDb') : x.kind = "mongo" /\ lua'.co[x.c].acc = acc /\ x.uid = u
  <2>1. PICK x \in All(fromDb') : x.kind = "mongo" /\ lua'.co[x.c].acc = acc /\ x.uid = u
    BY <1>6
  <2>2. CASE x \in All(fromDb)
    BY <2>1, <2>2 DEF Serves, Has
  <2>3. CASE x = a
    <3>1. q.acc = acc /\ q.lib = "mongo" /\ a.uid = u
      BY <1>1, <2>1, <2>3 DEF Serves
    <3>2. CASE Ran(q, store', a)
      <4>1. a.uid = 0 \/ (a.uid = FirstUid(q) /\ q.stage \in Reads)
        BY <3>2 DEF Ran, Answer
      <4>2. FirstUid(q) = q.uid \/ \E i \in Found(q) : FirstUid(q) = store.base[i].uid
        BY <1>0, FirstUidResult
      <4>3. CASE a.uid = FirstUid(q) /\ FirstUid(q) = q.uid
        BY <1>2, <3>1, <4>3
      <4>4. ASSUME NEW i \in Found(q), a.uid = FirstUid(q), FirstUid(q) = store.base[i].uid
            PROVE  Has(acc, u)
        BY <3>1, <4>4 DEF Found, Has
      <4> QED  BY <3>1, <4>1, <4>2, <4>3, <4>4
    <3>3. CASE a.uid = 0
      BY <3>1, <3>3
    <3> QED  BY <3>2, <3>3 DEF Serves
  <2> QED  BY <2>1, <2>2, <2>3 DEF Serves
<1> QED  BY <1>3, <1>4, <1>5, <1>6 DEF Has

LEMMA ServesUids ==
    ASSUME CoreInv, UidInv, StoreInv, NEW q, NEW a, Serves(q, a)
    PROVE  UidInv' /\ StoreInv'
<1>1. lua.uid_sec \in Nat /\ lua'.uid_sec = lua.uid_sec
  BY DEF CoreInv, LuaInv, LuaState, Serves
<1>2. \A acc \in AccountId, u \in Nat : Has(acc, u)' => u = 0 \/ Has(acc, u)
  BY ServesHas
<1>3. UidInv'
  <2>1. \A acc \in AccountId, u \in Nat : Has(acc, u)' => u <= lua'.uid_sec
    BY <1>1, <1>2 DEF UidInv
  <2>2. \A x, y \in AccountId, u \in Nat \ {0} : Has(x, u)' /\ Has(y, u)' => x = y
    <3>1. SUFFICES ASSUME NEW x \in AccountId, NEW y \in AccountId, NEW u \in Nat \ {0},
                          Has(x, u)', Has(y, u)'
                   PROVE  x = y
      OBVIOUS
    <3>2. u \in Nat /\ u # 0
      OBVIOUS
    <3>3. Has(x, u) /\ Has(y, u)
      BY <1>2, <3>1, <3>2
    <3> QED  BY <3>3 DEF UidInv
  <2> QED  BY <2>1, <2>2 DEF UidInv
<1>4. DOMAIN store'.detail \subseteq
          DOMAIN store.detail \cup (IF q.stage = "insertDetail" THEN {q.uid} ELSE {})
  <2>1. ASSUME NEW b, Ran(q, store', b)
        PROVE  DOMAIN store'.detail \subseteq
                 DOMAIN store.detail \cup (IF q.stage = "insertDetail" THEN {q.uid} ELSE {})
    <3>1. CASE q.stage = "insertDetail"
      <4>1. store'.detail = With(store.detail, q.uid, FALSE)
        BY <2>1, <3>1 DEF Ran
      <4>2. DOMAIN With(store.detail, q.uid, FALSE) = DOMAIN store.detail \cup {q.uid}
        BY DEF With
      <4> QED  BY <3>1, <4>1, <4>2
    <3>2. CASE q.stage # "insertDetail"
      <4>1. store'.detail = store.detail
            \/ store'.detail = [store.detail EXCEPT ![q.uid] = q.stage = "update"]
        BY <2>1, <3>2 DEF Ran
      <4>2. DOMAIN [store.detail EXCEPT ![q.uid] = q.stage = "update"] = DOMAIN store.detail
        OBVIOUS
      <4> QED  BY <4>1, <4>2
    <3> QED  BY <3>1, <3>2
  <2>2. store'.detail = store.detail \/ \E b : Ran(q, store', b)
    BY DEF Serves
  <2> QED  BY <2>1, <2>2
<1>5. q.stage = "insertDetail" => q.uid \in 0 .. lua.uid_sec
  <2>1. SUFFICES ASSUME q.stage = "insertDetail" PROVE q.uid \in 0 .. lua.uid_sec
    OBVIOUS
  <2>2. q \in All(toDb) /\ q \in QueryType /\ QueryOK(q) /\ LuaInv
    BY DEF Serves, CoreInv
  <2>3. q.lib = "mongo" /\ q.acc \in AccountId
    BY <2>1, <2>2, QueryKind DEF Inserts
  <2>4. Has(q.acc, q.uid) /\ q.uid \in Nat
    BY <2>2, <2>3 DEF Has, QueryType
  <2> QED  BY <1>1, <2>3, <2>4 DEF UidInv
<1>6. lua'.players = lua.players
  BY DEF Serves
<1> QED  BY <1>1, <1>3, <1>4, <1>5, <1>6 DEF StoreInv

(* A step in which no message comes and nothing of the accounts changes.    *)
Still ==
    /\ lua'.players = lua.players /\ lua'.uid_sec = lua.uid_sec
    /\ lua.doubt \subseteq lua'.doubt /\ store' = store
    /\ All(toDb') \subseteq All(toDb) /\ All(fromDb') \subseteq All(fromDb)
    /\ \A x \in DOMAIN lua.co : x \in DOMAIN lua'.co /\ lua'.co[x] = lua.co[x]
    /\ Players(lua') = Players(lua)
    /\ \A x \in DOMAIN lua'.co \ DOMAIN lua.co : ~lua'.co[x].told

LEMMA StillUids ==
    ASSUME CoreInv, UidInv, StoreInv, Still
    PROVE  UidInv' /\ StoreInv'
<1>1. ASSUME NEW acc, NEW u, Has(acc, u)' PROVE Has(acc, u)
  <2>1. CASE \E x \in Players(lua') : lua'.co[x].acc = acc /\ lua'.co[x].uid = u
    BY <2>1 DEF Still, Players, Has
  <2>2. CASE \E i \in DOMAIN store'.base : store'.base[i].acc = acc /\ store'.base[i].uid = u
    BY <2>2 DEF Still, Has
  <2>3. CASE \E x \in All(toDb') : x.lib = "mongo" /\ x.acc = acc /\ x.uid = u
    BY <2>3 DEF Still, Has
  <2>4. CASE \E x \in All(fromDb') : x.kind = "mongo" /\ lua'.co[x.c].acc = acc /\ x.uid = u
    <3>1. PICK x \in All(fromDb') : x.kind = "mongo" /\ lua'.co[x.c].acc = acc /\ x.uid = u
      BY <2>4
    <3>2. x \in All(fromDb) /\ x.c \in DOMAIN lua.co
      BY DEF Still, CoreInv, MessageInv, AnswerOK
    <3> QED  BY <3>1, <3>2 DEF Still, Has
  <2> QED  BY <1>1, <2>1, <2>2, <2>3, <2>4 DEF Has
<1>2. UidInv'
  BY <1>1 DEF UidInv, Still
<1>3. StoreInv'
  BY DEF StoreInv, Still
<1> QED  BY <1>2, <1>3

(* A sure account: the coroutine that waits is the only one, and what is on *)
(* its way is its query or its answer.                                      *)
LEMMA TurnSure ==
    ASSUME CoreInv, OneInv, CurrentInv, NEW c, Turn(c),
           lua'.co[c].kind # "script" /\ lua'.co[c].acc \notin lua'.doubt =>
              /\ \A x \in Players(lua) :
                    lua.co[x].acc = lua'.co[c].acc /\ Waiting(lua, x) => x = c
              /\ c \in DOMAIN lua.co =>
                    /\ \A q \in All(toDb) : ~(q.c = c /\ q.id = lua.co[c].id)
                    /\ \A a \in All(fromDb') : ~(a.c = c /\ a.id = lua.co[c].id)
    PROVE  OneInv' /\ CurrentInv'
<1> DEFINE m == lua'.co[c]
<1>1. /\ DOMAIN lua'.co = DOMAIN lua.co \cup {c} /\ CoroutineOK(m)
      /\ \A x \in DOMAIN lua.co \ {c} : lua'.co[x] = lua.co[x]
      /\ c \in DOMAIN lua.co =>
            m.kind = lua.co[c].kind /\ m.acc = lua.co[c].acc /\ Waiting(lua, c)
      /\ lua.doubt \subseteq lua'.doubt
  BY DEF Turn, Advance
<1>2. OneInv'
  <2>1. SUFFICES ASSUME NEW b \in Players(lua'), NEW x \in Players(lua'),
                        lua'.co[b].acc = lua'.co[x].acc, lua'.co[b].acc \notin lua'.doubt,
                        Waiting(lua', b), Waiting(lua', x)
                 PROVE  b = x
    BY DEF OneInv
  <2>2. \A y \in Players(lua') : y # c /\ Waiting(lua', y) =>
            y \in Players(lua) /\ lua'.co[y] = lua.co[y] /\ Waiting(lua, y)
    BY <1>1 DEF Players, Waiting
  <2>3. CASE b # c /\ x # c
    <3>1. lua.co[b].acc \notin lua.doubt
      BY <1>1, <2>1, <2>2, <2>3
    <3> QED  BY <2>1, <2>2, <2>3, <3>1 DEF OneInv
  <2>4. CASE b = c /\ x # c
    BY <2>1, <2>2, <2>4 DEF Players
  <2>5. CASE b # c /\ x = c
    BY <2>1, <2>2, <2>5 DEF Players
  <2>6. CASE b = c /\ x = c
    BY <2>6
  <2> QED  BY <2>3, <2>4, <2>5, <2>6
<1>3. ASSUME NEW q \in All(toDb'), q.lib = "mongo", q.acc \notin lua'.doubt
      PROVE  Waiting(lua', q.c) /\ q.id = lua'.co[q.c].id
  <2>1. CASE Waiting(lua', c) /\ q = Query(lua', c)
    BY <2>1 DEF Query
  <2>2. CASE q \in All(toDb)
    <3>1. Waiting(lua, q.c) /\ q.id = lua.co[q.c].id
      BY <1>1, <1>3, <2>2 DEF CurrentInv
    <3>2. q.c \in DOMAIN lua.co /\ lua.co[q.c].acc = q.acc /\ q.c \in Players(lua)
      BY <1>3, <2>2, QueryKind DEF CoreInv, MessageInv
    <3>3. q.c # c
      <4>1. SUFFICES ASSUME q.c = c PROVE FALSE
        OBVIOUS
      <4>2. m.kind # "script" /\ m.acc = q.acc
        BY <1>1, <3>2, <4>1 DEF Players
      <4> QED  BY <1>3, <2>2, <3>1, <3>2, <4>1, <4>2
    <3> QED  BY <1>1, <3>1, <3>2, <3>3 DEF Waiting
  <2> QED  BY <2>1, <2>2, TurnAsks DEF CoreInv
<1>4. ASSUME NEW a \in All(fromDb'), a.kind = "mongo", lua'.co[a.c].acc \notin lua'.doubt
      PROVE  Waiting(lua', a.c) /\ a.id = lua'.co[a.c].id
  <2>1. a \in All(fromDb) /\ a.c \in DOMAIN lua.co /\ a.kind = lua.co[a.c].lib
    BY TurnAsks DEF CoreInv
  <2>2. lua'.co[a.c].acc = lua.co[a.c].acc
    BY <1>1, <2>1
  <2>3. Waiting(lua, a.c) /\ a.id = lua.co[a.c].id
    BY <1>1, <1>4, <2>1, <2>2 DEF CurrentInv
  <2>4. a.c # c
    <3>1. SUFFICES ASSUME a.c = c PROVE FALSE
      OBVIOUS
    <3>2. lua.co[c].kind # "script"
      BY <1>4, <2>1, <3>1 DEF CoreInv, LuaInv, CoroutineOK
    <3> QED  BY <1>1, <1>4, <2>1, <2>3, <3>1, <3>2
  <2> QED  BY <1>1, <2>1, <2>3, <2>4 DEF Waiting
<1> QED  BY <1>2, <1>3, <1>4, Zenon DEF CurrentInv

(* The accounts of a start: one that is not busy, or no longer sure.        *)
LEMMA StartSure ==
    ASSUME CoreInv, OneInv, CurrentInv, NEW kind, NEW lib, NEW acc, NEW player, NEW stage, NEW listed,
           Launched(New(kind, lib, acc, player), stage, listed, lua'), Turn(Len(lua.co) + 1)
    PROVE  OneInv' /\ CurrentInv'
<1> DEFINE c == Len(lua.co) + 1
           k == New(kind, lib, acc, player)
           n == lua.query_id[k.lib] + 1
<1>1. lua'.co[c].acc = acc /\ k.acc = acc
  BY DEF Launched, New
<1>2. Busy(acc) => acc \in lua'.doubt
  <2>1. Busy(k.acc) => k.acc \in lua'.doubt
    BY DEF Launched
  <2> QED  BY <1>1, <2>1, Zenon
<1>3. c \notin DOMAIN lua.co
  <2>1. Len(lua.co) \in Nat /\ DOMAIN lua.co = 1 .. Len(lua.co)
    BY DEF CoreInv, LuaInv, LuaState
  <2> QED  BY <2>1
<1>4. acc \notin lua'.doubt => \A x \in Players(lua) : ~(lua.co[x].acc = acc /\ Waiting(lua, x))
  BY <1>2 DEF Busy
<1> HIDE DEF c
<1>5. OneInv' /\ CurrentInv'
  BY <1>1, <1>3, <1>4, TurnSure DEF c
<1> QED  BY <1>5

LEMMA GoesOnSure ==
    ASSUME CoreInv, OneInv, CurrentInv, NEW c, NEW a, GoesOn(c, a)
    PROVE  /\ OneInv' /\ CurrentInv'
           /\ lua.co[c].kind # "script" /\ lua.co[c].acc \notin lua'.doubt => Own(a, c)
<1> DEFINE k == lua.co[c]
<1>1. /\ Turn(c) /\ c \in DOMAIN lua.co /\ Waiting(lua, c) /\ lua.doubt \subseteq lua'.doubt
      /\ lua'.co[c].kind = k.kind /\ lua'.co[c].acc = k.acc
      /\ k.acc \notin lua'.doubt => Own(a, c)
  BY Zenon DEF GoesOn, Turn, Advance
<1>2. k.kind # "script" /\ k.acc \notin lua'.doubt =>
          \A x \in Players(lua) : lua.co[x].acc = k.acc /\ Waiting(lua, x) => x = c
  BY <1>1 DEF OneInv, Players
<1>3. Own(a, c) => /\ \A q \in All(toDb) : ~(q.c = c /\ q.id = k.id)
                   /\ \A x \in All(fromDb') : ~(x.c = c /\ x.id = k.id)
  BY DEF Own
<1> HIDE DEF k
<1>4. OneInv' /\ CurrentInv'
  BY <1>1, <1>2, <1>3, TurnSure DEF k
<1> QED  BY <1>1, <1>4, Zenon DEF k

LEMMA ServesSure ==
    ASSUME CoreInv, OneInv, CurrentInv, NEW q, NEW a, Serves(q, a)
    PROVE  OneInv' /\ CurrentInv'
<1>1. /\ lua'.co = lua.co /\ lua.doubt \subseteq lua'.doubt /\ q \in All(toDb) /\ QueryOK(q)
      /\ All(toDb') \subseteq All(toDb) /\ All(fromDb') \subseteq All(fromDb) \cup {a}
      /\ a.c = q.c /\ a.kind = q.lib /\ (q.acc \notin lua'.doubt => a.id = q.id)
  BY DEF Serves
<1>2. lua.co[q.c].acc = q.acc
  BY <1>1 DEF QueryOK
<1>3. \A acc : acc \notin lua'.doubt => acc \notin lua.doubt
  BY <1>1
<1>4. OneInv'
  BY <1>1, <1>3 DEF OneInv, Players, Waiting
<1>5. \A x \in All(toDb') : x.lib = "mongo" /\ x.acc \notin lua'.doubt =>
          Waiting(lua', x.c) /\ x.id = lua'.co[x.c].id
  BY <1>1, <1>3 DEF CurrentInv, Waiting
<1>6. ASSUME NEW x \in All(fromDb'), x.kind = "mongo", lua'.co[x.c].acc \notin lua'.doubt
      PROVE  Waiting(lua', x.c) /\ x.id = lua'.co[x.c].id
  <2>1. CASE x \in All(fromDb)
    BY <1>1, <1>3, <1>6, <2>1 DEF CurrentInv, Waiting
  <2>2. CASE x = a
    <3>1. q.acc \notin lua'.doubt /\ q.lib = "mongo"
      BY <1>1, <1>2, <1>6, <2>2
    <3>2. Waiting(lua, q.c) /\ q.id = lua.co[q.c].id /\ x.id = q.id
      BY <1>1, <1>3, <2>2, <3>1 DEF CurrentInv
    <3> QED  BY <1>1, <2>2, <3>2 DEF Waiting
  <2> QED  BY <1>1, <2>1, <2>2
<1> QED  BY <1>4, <1>5, <1>6 DEF CurrentInv

LEMMA StillSure ==
    ASSUME CoreInv, OneInv, CurrentInv, Still
    PROVE  OneInv' /\ CurrentInv'
<1>1. \A acc : acc \notin lua'.doubt => acc \notin lua.doubt
  BY DEF Still
<1>2. OneInv'
  BY <1>1 DEF OneInv, Players, Waiting, Still
<1>3. ASSUME NEW x \in All(toDb'), x.lib = "mongo", x.acc \notin lua'.doubt
      PROVE  Waiting(lua', x.c) /\ x.id = lua'.co[x.c].id
  <2>1. x \in All(toDb) /\ x.c \in DOMAIN lua.co /\ x.acc \notin lua.doubt
    BY <1>1, <1>3 DEF Still, CoreInv, MessageInv, QueryOK
  <2> QED  BY <1>3, <2>1 DEF Still, CurrentInv, Waiting
<1>4. ASSUME NEW x \in All(fromDb'), x.kind = "mongo", lua'.co[x.c].acc \notin lua'.doubt
      PROVE  Waiting(lua', x.c) /\ x.id = lua'.co[x.c].id
  <2>1. x \in All(fromDb) /\ x.c \in DOMAIN lua.co
    BY DEF Still, CoreInv, MessageInv, AnswerOK
  <2>2. lua'.co[x.c] = lua.co[x.c]
    BY <2>1 DEF Still
  <2> QED  BY <1>1, <1>4, <2>1, <2>2 DEF CurrentInv, Waiting
<1> QED  BY <1>2, <1>3, <1>4 DEF CurrentInv

(* A step that does not touch an account.                                   *)
SameRecords(acc) ==
    /\ RecordsIn(store', acc) = RecordsIn(store, acc)
    /\ \A i \in RecordsIn(store, acc) : store'.base[i] = store.base[i]
SamePlayer(u) ==
    /\ u \in lua'.players <=> u \in lua.players
    /\ u \in DOMAIN store'.detail <=> u \in DOMAIN store.detail
    /\ u \in DOMAIN store.detail => store'.detail[u] = store.detail[u]
SameCoroutine(acc) ==
    \A x : \/ x \in Players(lua) /\ lua.co[x].acc = acc
           \/ x \in Players(lua') /\ lua'.co[x].acc = acc
        => x \in Players(lua) /\ x \in Players(lua') /\ lua'.co[x] = lua.co[x]
Apart(acc) ==
    /\ SameCoroutine(acc) /\ SameRecords(acc)
    /\ \A u \in Nat \ {0} : Has(acc, u) => SamePlayer(u)
    /\ \A q \in All(toDb') : q.stage = "insertBase" /\ q.acc = acc => q \in All(toDb)
    /\ \A a \in All(fromDb') :
          a.kind = "mongo" /\ lua'.co[a.c].acc = acc =>
              /\ a \in All(fromDb) /\ a.c \in Players(lua) /\ lua.co[a.c].acc = acc

\* The stages that know the uid of their account.
Placed == {"insertBase", "insertDetail", "findDetail", "update", "leave", "done"}

LEMMA RecordUid ==
    ASSUME NEW S \in StoreType, NEW i \in DOMAIN S.base
    PROVE  S.base[i].uid \in Nat \ {0} /\ S.base[i].acc \in AccountId
<1>1. S.base \in Seq(Player)
  BY DEF StoreType
<1>2. S.base[i] \in Player
  BY <1>1
<1> QED  BY <1>2 DEF Player

LEMMA WaitsUid ==
    ASSUME NEW S \in StoreType, NEW P, NEW k, CoroutineOK(k), WaitsRight(k, S, P),
           k.stage \in Placed
    PROVE  k.uid \in Nat \ {0}
<1>1. k.uid \in Nat /\ (k.stage = "insertBase" => k.uid > 0)
  BY DEF CoroutineOK, Coroutine
<1>2. k.stage # "insertBase" => Recorded(k, S)
  BY DEF WaitsRight, Stored, Placed
<1>3. Recorded(k, S) => k.uid # 0
  <2>1. \A i \in DOMAIN S.base : S.base[i].uid # 0
    BY RecordUid
  <2> QED  BY <2>1 DEF Recorded, RecordsIn
<1> QED  BY <1>1, <1>2, <1>3

(* What a step leaves of an account it does not touch. *)
LEMMA ApartWaits ==
    ASSUME CoreInv, NEW acc, Apart(acc), NEW x \in Players(lua), lua.co[x].acc = acc,
           WaitsRight(lua.co[x], store, lua.players)
    PROVE  WaitsRight(lua.co[x], store', lua'.players)
<1> DEFINE k == lua.co[x]
<1>1. CoroutineOK(k) /\ store \in StoreType /\ k.acc = acc
  BY DEF CoreInv, LuaInv, ProxyInv, Players
<1>2. Has(acc, k.uid)
  BY DEF Has
<1>3. k.stage \in Placed => SamePlayer(k.uid)
  BY <1>1, <1>2, WaitsUid DEF Apart
<1>4. Recorded(k, store') <=> Recorded(k, store)
  BY <1>1 DEF Recorded, Apart, SameRecords
<1>5. RecordsIn(store', acc) = RecordsIn(store, acc)
      /\ \A i \in RecordsIn(store, acc) : store'.base[i] = store.base[i]
  BY Zenon DEF Apart, SameRecords
<1> HIDE DEF k
<1> QED  BY <1>1, <1>3, <1>4, <1>5 DEF WaitsRight, Stored, SamePlayer, Placed, k

LEMMA ApartAnswer ==
    ASSUME CoreInv, CurrentInv, NEW acc, acc \notin lua.doubt, Apart(acc), Right(acc),
           NEW a \in All(fromDb), a.kind = "mongo", a.c \in Players(lua), lua.co[a.c].acc = acc
    PROVE  AnswerRight(a, lua.co[a.c], store')
<1> DEFINE k == lua.co[a.c]
<1>1. CoroutineOK(k) /\ store \in StoreType /\ k.acc = acc
      /\ WaitsRight(k, store, lua.players) /\ AnswerRight(a, k, store)
  BY DEF CoreInv, LuaInv, ProxyInv, Players, Right, CoroutinesRight, AnsweredRight
<1>2. a.stage = k.stage
  BY <1>1 DEF CurrentInv, CoreInv, MessageInv, AnswerOK, Waiting
<1>3. Has(acc, k.uid)
  BY DEF Has
<1>4. k.stage \in Placed => SamePlayer(k.uid)
  BY <1>1, <1>3, WaitsUid DEF Apart
<1>5. RecordsIn(store', acc) = RecordsIn(store, acc)
      /\ \A i \in RecordsIn(store, acc) : store'.base[i] = store.base[i]
  BY DEF Apart, SameRecords
<1>6. k.stage \in {"update", "leave"} => k.uid \in DOMAIN store.detail
  BY <1>1 DEF WaitsRight, Stored
<1> HIDE DEF k
<1> QED  BY <1>1, <1>2, <1>4, <1>5, <1>6 DEF AnswerRight, SamePlayer, Placed, k

LEMMA ApartRight ==
    ASSUME CoreInv, CurrentInv, NEW acc, acc \notin lua.doubt, Apart(acc), Right(acc)
    PROVE  Right(acc)'
<1>1. CoroutinesRight(acc)'
  <2>1. SUFFICES ASSUME NEW x \in Players(lua'), lua'.co[x].acc = acc
                 PROVE  WaitsRight(lua'.co[x], store', lua'.players)
    BY DEF CoroutinesRight
  <2>2. x \in Players(lua) /\ lua'.co[x] = lua.co[x]
    BY <2>1 DEF Apart, SameCoroutine
  <2>3. WaitsRight(lua.co[x], store, lua.players)
    BY <2>1, <2>2 DEF Right, CoroutinesRight
  <2> QED  BY <2>1, <2>2, <2>3, ApartWaits
<1>2. AskedRight(acc)'
  BY DEF AskedRight, Right, Apart, SameRecords
<1>3. AnsweredRight(acc)'
  <2>1. SUFFICES ASSUME NEW a \in All(fromDb'), a.kind = "mongo", lua'.co[a.c].acc = acc
                 PROVE  AnswerRight(a, lua'.co[a.c], store')
    BY DEF AnsweredRight
  <2>2. a \in All(fromDb) /\ a.c \in Players(lua) /\ lua.co[a.c].acc = acc
    BY <2>1 DEF Apart
  <2>3. lua'.co[a.c] = lua.co[a.c]
    BY <2>2 DEF Apart, SameCoroutine
  <2> QED  BY <2>1, <2>2, <2>3, ApartAnswer
<1>4. OneRecord(acc)'
  BY DEF OneRecord, Right, Apart, SameRecords
<1>5. AgreeRight(acc)'
  <2>1. SUFFICES ASSUME ~Turning(acc)', NEW i \in RecordsIn(store', acc)
                 PROVE  Agrees(store'.base[i].uid, store', lua'.players)
    BY DEF AgreeRight
  <2>2. ~Turning(acc)
    BY <2>1 DEF Turning, Apart, SameCoroutine
  <2>3. i \in RecordsIn(store, acc) /\ store'.base[i] = store.base[i]
    BY DEF Apart, SameRecords
  <2>4. Agrees(store.base[i].uid, store, lua.players)
    BY <2>2, <2>3 DEF Right, AgreeRight
  <2>5. store.base[i].uid \in Nat \ {0} /\ Has(acc, store.base[i].uid)
    BY <2>3, RecordUid DEF CoreInv, ProxyInv, RecordsIn, Has
  <2>6. SamePlayer(store.base[i].uid)
    BY <2>5 DEF Apart
  <2> QED  BY <2>3, <2>4, <2>6 DEF Agrees, SamePlayer
<1> QED  BY <1>1, <1>2, <1>3, <1>4, <1>5 DEF Right

LEMMA AnswerPlayer ==
    ASSUME CoreInv, NEW a \in All(fromDb), a.kind = "mongo"
    PROVE  a.c \in Players(lua) /\ lua.co[a.c].lib = "mongo" /\ lua.co[a.c].acc \in AccountId
<1>1. a.c \in DOMAIN lua.co /\ lua.co[a.c].lib = "mongo" /\ CoroutineOK(lua.co[a.c])
  BY DEF CoreInv, LuaInv, MessageInv, AnswerOK
<1> QED  BY <1>1 DEF Players, CoroutineOK

LEMMA StillRight ==
    ASSUME CoreInv, CurrentInv, RightInv, Still
    PROVE  RightInv'
<1>1. SUFFICES ASSUME NEW acc \in AccountId, acc \notin lua'.doubt PROVE Right(acc)'
  BY DEF RightInv
<1>2. acc \notin lua.doubt /\ Right(acc)
  BY <1>1 DEF Still, RightInv
<1>3. SameCoroutine(acc)
  BY DEF SameCoroutine, Still, Players
<1>4. SameRecords(acc) /\ \A u \in Nat \ {0} : SamePlayer(u)
  BY DEF SameRecords, SamePlayer, Still
<1>5. ASSUME NEW a \in All(fromDb'), a.kind = "mongo", lua'.co[a.c].acc = acc
      PROVE  a \in All(fromDb) /\ a.c \in Players(lua) /\ lua.co[a.c].acc = acc
  <2>1. a \in All(fromDb)
    BY DEF Still
  <2>2. a.c \in Players(lua)
    BY <1>5, <2>1, AnswerPlayer
  <2>3. lua'.co[a.c] = lua.co[a.c]
    BY <2>2 DEF Still, Players
  <2> QED  BY <1>5, <2>1, <2>2, <2>3
<1>6. Apart(acc)
  BY <1>3, <1>4, <1>5 DEF Apart, Still
<1> QED  BY <1>2, <1>6, ApartRight

(* A query of another account, or of a script.                              *)
LEMMA ServesRecords ==
    ASSUME store \in StoreType, NEW q, NEW b, Ran(q, store', b), NEW acc,
           q.acc # acc \/ q.stage # "insertBase"
    PROVE  SameRecords(acc)
<1> DEFINE p == [acc |-> q.acc, uid |-> q.uid]
           B == store.base
<1>1. store'.base = IF q.stage = "insertBase" THEN Append(B, p) ELSE B
  BY DEF Ran
<1>2. CASE q.stage # "insertBase"
  BY <1>1, <1>2 DEF SameRecords, RecordsIn
<1>3. CASE q.stage = "insertBase"
  <2>1. store'.base = Append(B, p) /\ B \in Seq(Player) /\ p.acc # acc
    BY <1>1, <1>3 DEF StoreType
  <2> HIDE DEF B, p
  <2>2. B \in Seq(Player \cup {p})
    BY <2>1
  <2>3. /\ DOMAIN B = 1 .. Len(B) /\ Len(B) \in Nat
        /\ DOMAIN Append(B, p) = 1 .. Len(B) + 1 /\ Append(B, p)[Len(B) + 1] = p
        /\ \A j \in 1 .. Len(B) : Append(B, p)[j] = B[j]
    BY <2>2, AppendProperties, LenProperties
  <2>4. \A i \in 1 .. Len(B) + 1 : i \in 1 .. Len(B) \/ i = Len(B) + 1
    BY <2>3
  <2>5. 1 .. Len(B) \subseteq 1 .. Len(B) + 1
    BY <2>3
  <2>6. RecordsIn(store', acc) = {i \in DOMAIN B : B[i].acc = acc}
    BY <2>1, <2>3, <2>4, <2>5 DEF RecordsIn
  <2>7. RecordsIn(store, acc) = {i \in DOMAIN B : B[i].acc = acc}
    BY DEF RecordsIn, B
  <2> QED  BY <2>1, <2>3, <2>6, <2>7 DEF SameRecords, B
<1> QED  BY <1>2, <1>3

LEMMA ServesDetail ==
    ASSUME NEW q, NEW b, Ran(q, store', b), NEW u,
           q.uid # u \/ q.stage \notin Updates \cup {"insertDetail"}, lua'.players = lua.players
    PROVE  SamePlayer(u)
<1>1. \/ store'.detail = store.detail
      \/ q.uid # u /\ store'.detail = With(store.detail, q.uid, FALSE)
      \/ q.uid # u /\ store'.detail = [store.detail EXCEPT ![q.uid] = q.stage = "update"]
  BY DEF Ran
<1>2. CASE store'.detail = store.detail
  BY <1>2 DEF SamePlayer
<1>3. CASE q.uid # u /\ store'.detail = With(store.detail, q.uid, FALSE)
  BY <1>3 DEF SamePlayer, With
<1>4. CASE q.uid # u /\ store'.detail = [store.detail EXCEPT ![q.uid] = q.stage = "update"]
  BY <1>4 DEF SamePlayer
<1> QED  BY <1>1, <1>2, <1>3, <1>4

LEMMA ServesApart ==
    ASSUME CoreInv, UidInv, NEW q, NEW a, Serves(q, a), NEW acc \in AccountId,
           q.acc # acc \/ q.lib # "mongo"
    PROVE  Apart(acc)
<1>1. /\ store \in StoreType /\ q \in All(toDb) /\ q \in QueryType /\ QueryOK(q) /\ LuaInv
      /\ lua'.players = lua.players /\ lua'.co = lua.co /\ a.c = q.c /\ a.kind = q.lib
      /\ All(toDb') \subseteq All(toDb) /\ All(fromDb') \subseteq All(fromDb) \cup {a}
  BY DEF CoreInv, ProxyInv, Serves
<1>2. /\ q.c \in DOMAIN lua.co /\ lua.co[q.c].acc = q.acc
      /\ q.stage \in Reads \cup Inserts \cup Updates \cup Indexes => q.lib = "mongo"
      /\ q.lib = "mongo" => q.acc \in AccountId /\ q.c \in Players(lua)
  BY <1>1, QueryKind
<1>3. q.acc # acc \/ q.stage \notin Inserts \cup Updates
  BY <1>2
<1>4. ASSUME NEW u \in Nat \ {0}, Has(acc, u)
      PROVE  q.uid # u \/ q.stage \notin Inserts \cup Updates
  <2>1. q.lib = "mongo" => Has(q.acc, q.uid)
    BY <1>1 DEF Has
  <2>2. q.lib = "mongo" /\ q.uid = u => q.acc = acc
    BY <1>2, <1>4, <2>1 DEF UidInv
  <2> QED  BY <1>2, <2>2
<1>5. \/ store'.base = store.base /\ store'.detail = store.detail
      \/ \E b : Ran(q, store', b)
  BY DEF Serves
<1>6. SameRecords(acc) /\ \A u \in Nat \ {0} : Has(acc, u) => SamePlayer(u)
  <2>1. CASE store'.base = store.base /\ store'.detail = store.detail
    BY <1>1, <2>1 DEF SameRecords, RecordsIn, SamePlayer
  <2>2. ASSUME NEW b, Ran(q, store', b)
        PROVE  SameRecords(acc) /\ \A u \in Nat \ {0} : Has(acc, u) => SamePlayer(u)
    <3>1. SameRecords(acc)
      BY <1>1, <1>3, <2>2, ServesRecords DEF Inserts
    <3>2. ASSUME NEW u \in Nat \ {0}, Has(acc, u) PROVE SamePlayer(u)
      <4>1. q.uid # u \/ q.stage \notin Updates \cup {"insertDetail"}
        BY <1>4, <3>2 DEF Inserts
      <4> QED  BY <1>1, <2>2, <4>1, ServesDetail
    <3> QED  BY <3>1, <3>2
  <2> QED  BY <1>5, <2>1, <2>2
<1>7. SameCoroutine(acc)
  BY <1>1 DEF SameCoroutine, Players
<1>8. ASSUME NEW x \in All(fromDb'), x.kind = "mongo", lua'.co[x.c].acc = acc
      PROVE  x \in All(fromDb) /\ x.c \in Players(lua) /\ lua.co[x.c].acc = acc
  <2>1. x # a
    BY <1>1, <1>2, <1>8
  <2>2. x \in All(fromDb)
    BY <1>1, <2>1
  <2> QED  BY <1>1, <1>8, <2>2, AnswerPlayer
<1> QED  BY <1>1, <1>6, <1>7, <1>8 DEF Apart

(* The query of the account itself, which is the only one, and its          *)
(* coroutine the only one that waits.                                       *)
LEMMA OwnQuery ==
    ASSUME CoreInv, OneInv, CurrentInv, RightInv, NEW q, NEW a, Serves(q, a),
           q.lib = "mongo", q.acc \notin lua'.doubt
    PROVE  LET k == lua.co[q.c]
           IN  /\ Right(q.acc) /\ q.acc \in AccountId /\ q.c \in Players(lua)
               /\ CoroutineOK(k) /\ k.acc = q.acc /\ k.uid = q.uid /\ k.stage = q.stage
               /\ k.stage \notin Ended
               /\ Ran(q, store', a) /\ store \in StoreType /\ a.c = q.c /\ a.stage = q.stage
               /\ lua'.co = lua.co /\ lua'.players = lua.players
               /\ q \in All(toDb) /\ q \in QueryType
               /\ \A x \in Players(lua) : lua.co[x].acc = q.acc /\ Waiting(lua, x) => x = q.c
               /\ \A x \in All(toDb') : ~(x.lib = "mongo" /\ x.acc = q.acc)
               /\ \A x \in All(fromDb') : x.kind = "mongo" /\ lua.co[x.c].acc = q.acc => x = a
<1> DEFINE k == lua.co[q.c]
<1>1. /\ q \in All(toDb) /\ q \in QueryType /\ QueryOK(q) /\ All(toDb') \subseteq All(toDb)
      /\ \A x \in All(toDb') : ~(x.c = q.c /\ x.id = q.id)
      /\ All(fromDb') \subseteq All(fromDb) \cup {a}
      /\ a.c = q.c /\ a.stage = q.stage /\ lua'.co = lua.co /\ lua'.players = lua.players
      /\ lua.doubt \subseteq lua'.doubt /\ Ran(q, store', a)
  BY DEF Serves
<1>2. q.acc \notin lua.doubt /\ LuaInv /\ store \in StoreType
  BY <1>1 DEF CoreInv, ProxyInv
<1>3. /\ q.acc \in AccountId /\ q.c \in Players(lua) /\ CoroutineOK(k) /\ k.acc = q.acc
  BY <1>1, <1>2, QueryKind
<1>4. Waiting(lua, q.c) /\ q.id = k.id
  BY <1>1, <1>2 DEF CurrentInv
<1>5. k.stage \notin Ended /\ q.stage = k.stage /\ q.uid = k.uid
  BY <1>1, <1>4 DEF QueryOK, Waiting
<1>6. \A x \in Players(lua) : lua.co[x].acc = q.acc /\ Waiting(lua, x) => x = q.c
  BY <1>2, <1>3, <1>4 DEF OneInv
<1>7. ASSUME NEW x \in All(toDb'), x.lib = "mongo", x.acc = q.acc PROVE FALSE
  <2>1. x \in All(toDb) /\ Waiting(lua, x.c) /\ x.id = lua.co[x.c].id
    BY <1>1, <1>2, <1>7 DEF CurrentInv
  <2>2. x.c \in Players(lua) /\ lua.co[x.c].acc = q.acc
    BY <1>2, <1>7, <2>1, QueryKind DEF CoreInv, MessageInv
  <2>3. x.c = q.c
    BY <1>6, <2>1, <2>2
  <2> QED  BY <1>1, <1>4, <2>1, <2>3
<1>8. ASSUME NEW x \in All(fromDb'), x.kind = "mongo", lua.co[x.c].acc = q.acc, x # a
      PROVE  FALSE
  <2>1. x \in All(fromDb)
    BY <1>1, <1>8
  <2>2. Waiting(lua, x.c) /\ x.id = lua.co[x.c].id /\ x.c \in Players(lua)
    BY <1>2, <1>8, <2>1, AnswerPlayer DEF CurrentInv
  <2>3. x.c = q.c /\ x.id = q.id
    BY <1>4, <1>6, <1>8, <2>2
  <2> QED  BY <1>1, <2>1, <2>3 DEF CoreInv, AskedOnceInv
<1>9. Right(q.acc)
  BY <1>2, <1>3 DEF RightInv
<1> QED  BY <1>1, <1>2, <1>3, <1>5, <1>6, <1>7, <1>8, <1>9

\* Which of the coroutines of the account have something to say.
LEMMA OwnRest ==
    ASSUME NEW acc, Right(acc), NEW x \in Players(lua), lua.co[x].acc = acc, ~Waiting(lua, x)
    PROVE  WaitsRight(lua.co[x], store, lua.players)
           /\ (lua.co[x].stage = "done" => Stored(lua.co[x], store))
           /\ lua.co[x].stage \in {"done", "failed"}
  BY DEF Right, CoroutinesRight, WaitsRight, Waiting, Ended

LEMMA OwnServes ==
    ASSUME CoreInv, OneInv, CurrentInv, RightInv, NEW q, NEW a, Serves(q, a),
           q.lib = "mongo", q.acc \notin lua'.doubt,
           \* what is left to show, of the step
           WaitsRight(lua.co[q.c], store', lua.players),
           \A x \in Players(lua) : lua.co[x].acc = q.acc /\ Stored(lua.co[x], store)
               => Stored(lua.co[x], store'),
           AnswerRight(a, lua.co[q.c], store'),
           \A i, j \in RecordsIn(store', q.acc) : i = j,
           ~Turning(q.acc) => \A i \in RecordsIn(store', q.acc) :
               Agrees(store'.base[i].uid, store', lua.players)
    PROVE  Right(q.acc)'
<1> DEFINE k == lua.co[q.c]
           acc == q.acc
<1>1. /\ Right(acc) /\ lua'.co = lua.co /\ lua'.players = lua.players /\ a.c = q.c
      /\ \A x \in Players(lua) : lua.co[x].acc = acc /\ Waiting(lua, x) => x = q.c
      /\ \A x \in All(toDb') : ~(x.lib = "mongo" /\ x.acc = acc)
      /\ \A x \in All(fromDb') : x.kind = "mongo" /\ lua.co[x.c].acc = acc => x = a
  BY OwnQuery
<1>2. Players(lua') = Players(lua)
  BY <1>1 DEF Players
<1>3. ASSUME NEW x \in Players(lua), lua.co[x].acc = acc
      PROVE  WaitsRight(lua.co[x], store', lua.players)
  <2>1. CASE Waiting(lua, x)
    BY <1>1, <1>3, <2>1
  <2>2. CASE ~Waiting(lua, x)
    <3>1. (lua.co[x].stage = "done" => Stored(lua.co[x], store))
          /\ lua.co[x].stage \in {"done", "failed"}
      BY <1>1, <1>3, <2>2, OwnRest
    <3>2. lua.co[x].stage = "done" => Stored(lua.co[x], store')
      BY <1>3, <3>1
    <3> QED  BY <3>1, <3>2 DEF WaitsRight, NoRecord
  <2> QED  BY <2>1, <2>2
<1>4. CoroutinesRight(acc)'
  BY <1>1, <1>2, <1>3 DEF CoroutinesRight
<1>5. AskedRight(acc)'
  <2>1. \A x \in All(toDb') : x.stage = "insertBase" => x.lib = "mongo"
    <3>1. \A x \in All(toDb') : x \in All(toDb)
      BY DEF Serves
    <3>2. \A x \in All(toDb) : QueryOK(x)
      BY DEF CoreInv, MessageInv
    <3> QED  BY <3>1, <3>2, QueryKind DEF CoreInv, Inserts
  <2> QED  BY <1>1, <2>1 DEF AskedRight
<1>6. AnsweredRight(acc)'
  BY <1>1 DEF AnsweredRight
<1>7. OneRecord(acc)'
  BY DEF OneRecord
<1>8. AgreeRight(acc)'
  BY <1>1, <1>2 DEF AgreeRight, Turning
<1> QED  BY <1>4, <1>5, <1>6, <1>7, <1>8 DEF Right

LEMMA OwnInsert ==
    ASSUME CoreInv, OneInv, CurrentInv, RightInv, NEW q, NEW a, Serves(q, a),
           q.lib = "mongo", q.acc \notin lua'.doubt, q.stage = "insertBase"
    PROVE  Right(q.acc)'
<1> DEFINE k == lua.co[q.c]
           acc == q.acc
           p == [acc |-> q.acc, uid |-> q.uid]
           B == store.base
<1>1. /\ Right(acc) /\ k.acc = acc /\ k.uid = q.uid /\ k.stage = "insertBase"
      /\ Ran(q, store', a) /\ q \in All(toDb) /\ a.stage = "insertBase"
      /\ q.c \in Players(lua) /\ store \in StoreType
  BY OwnQuery
<1>2. RecordsIn(store, acc) = {}
  BY <1>1 DEF Right, AskedRight
<1>3. WaitsRight(k, store, lua.players)
  BY <1>1 DEF Right, CoroutinesRight
<1>4. store'.base = Append(B, p) /\ store'.detail = store.detail /\ B \in Seq(Player)
  BY <1>1 DEF Ran, Updates, StoreType
<1>5. p.acc = acc /\ p.uid = q.uid
  OBVIOUS
<1> HIDE DEF p
<1>6. /\ B \in Seq(Player \cup {p}) /\ DOMAIN B = 1 .. Len(B) /\ Len(B) \in Nat
  BY <1>4
<1>7. /\ DOMAIN Append(B, p) = 1 .. Len(B) + 1 /\ Append(B, p)[Len(B) + 1] = p
      /\ \A j \in 1 .. Len(B) : Append(B, p)[j] = B[j]
  BY <1>6, AppendProperties, LenProperties
<1>8. RecordsIn(store', acc) = {Len(B) + 1} /\ store'.base[Len(B) + 1] = p
  <2>1. \A i \in 1 .. Len(B) + 1 : i \in 1 .. Len(B) \/ i = Len(B) + 1
    BY <1>6
  <2>2. Len(B) + 1 \in 1 .. Len(B) + 1
    BY <1>6
  <2>3. \A i \in 1 .. Len(B) : B[i].acc # acc
    BY <1>2, <1>6 DEF RecordsIn
  <2> QED  BY <1>4, <1>5, <1>7, <2>1, <2>2, <2>3 DEF RecordsIn
<1> HIDE DEF k, B
<1>9. k.uid \notin lua.players /\ k.uid \notin DOMAIN store.detail
  BY <1>1, <1>3 DEF WaitsRight
<1>10. WaitsRight(k, store', lua.players)
  BY <1>1, <1>4, <1>5, <1>8, <1>9 DEF WaitsRight, NoRecord
<1>11. \A x \in Players(lua) : lua.co[x].acc = acc => ~Stored(lua.co[x], store)
  BY <1>2 DEF Stored, Recorded
<1>12. AnswerRight(a, k, store')
  BY <1>1, <1>8 DEF AnswerRight
<1>13. \A i, j \in RecordsIn(store', acc) : i = j
  BY <1>8
<1>14. \A i \in RecordsIn(store', acc) : Agrees(store'.base[i].uid, store', lua.players)
  BY <1>1, <1>4, <1>5, <1>8, <1>9 DEF Agrees
<1> QED  BY <1>10, <1>11, <1>12, <1>13, <1>14, OwnServes DEF k

LEMMA OwnDetail ==
    ASSUME CoreInv, OneInv, CurrentInv, RightInv, NEW q, NEW a, Serves(q, a),
           q.lib = "mongo", q.acc \notin lua'.doubt, q.stage = "insertDetail"
    PROVE  Right(q.acc)'
<1> DEFINE k == lua.co[q.c]
           acc == q.acc
<1>1. /\ Right(acc) /\ k.acc = acc /\ k.uid = q.uid /\ k.stage = "insertDetail"
      /\ Ran(q, store', a) /\ a.stage = "insertDetail" /\ q.c \in Players(lua)
  BY OwnQuery
<1>2. WaitsRight(k, store, lua.players) /\ OneRecord(acc)
  BY <1>1 DEF Right, CoroutinesRight
<1>3. store'.base = store.base /\ store'.detail = With(store.detail, q.uid, FALSE)
  BY <1>1 DEF Ran, Updates
<1>4. /\ DOMAIN store'.detail = DOMAIN store.detail \cup {q.uid}
      /\ ~store'.detail[q.uid]
  BY <1>3 DEF With
<1>5. \A b : RecordsIn(store', b) = RecordsIn(store, b)
  BY <1>3 DEF RecordsIn
<1> HIDE DEF k
<1>6. Recorded(k, store) /\ k.uid \notin lua.players
  BY <1>1, <1>2 DEF WaitsRight
<1>7. WaitsRight(k, store', lua.players)
  BY <1>1, <1>3, <1>4, <1>5, <1>6 DEF WaitsRight, NoRecord, Recorded
<1>8. \A x \in Players(lua) : lua.co[x].acc = acc /\ Stored(lua.co[x], store)
         => Stored(lua.co[x], store')
  BY <1>3, <1>4, <1>5 DEF Stored, Recorded
<1>9. AnswerRight(a, k, store')
  BY <1>1, <1>4 DEF AnswerRight
<1>10. \A i, j \in RecordsIn(store', acc) : i = j
  BY <1>2, <1>5 DEF OneRecord
<1>11. \A i \in RecordsIn(store', acc) : store'.base[i].uid = q.uid
  BY <1>1, <1>3, <1>5, <1>6, <1>10 DEF Recorded
<1>12. \A i \in RecordsIn(store', acc) : Agrees(store'.base[i].uid, store', lua.players)
  BY <1>1, <1>4, <1>6, <1>11 DEF Agrees
<1> QED  BY <1>7, <1>8, <1>9, <1>10, <1>12, OwnServes DEF k

LEMMA OwnUpdate ==
    ASSUME CoreInv, OneInv, CurrentInv, RightInv, NEW q, NEW a, Serves(q, a),
           q.lib = "mongo", q.acc \notin lua'.doubt, q.stage \in Updates
    PROVE  Right(q.acc)'
<1> DEFINE k == lua.co[q.c]
           acc == q.acc
           b == q.stage = "update"
<1>1. /\ Right(acc) /\ k.acc = acc /\ k.uid = q.uid /\ k.stage = q.stage
      /\ Ran(q, store', a) /\ a.stage = q.stage /\ q.c \in Players(lua)
  BY OwnQuery
<1>2. WaitsRight(k, store, lua.players) /\ OneRecord(acc)
  BY <1>1 DEF Right, CoroutinesRight
<1>3. Stored(k, store)
  BY <1>1, <1>2 DEF WaitsRight, Updates
<1>4. store'.base = store.base /\ store'.detail = [store.detail EXCEPT ![q.uid] = b]
  BY <1>1, <1>3 DEF Ran, Updates, Stored
<1>5. /\ DOMAIN store'.detail = DOMAIN store.detail
      /\ store'.detail[q.uid] = b
  BY <1>1, <1>3, <1>4 DEF Stored
<1>6. \A e : RecordsIn(store', e) = RecordsIn(store, e)
  BY <1>4 DEF RecordsIn
<1> HIDE DEF k
<1>7. \A x \in Players(lua) : lua.co[x].acc = acc /\ Stored(lua.co[x], store)
         => Stored(lua.co[x], store')
  BY <1>4, <1>5, <1>6 DEF Stored, Recorded
<1>8. Stored(k, store')
  BY <1>3, <1>4, <1>5, <1>6 DEF Stored, Recorded
<1>9. WaitsRight(k, store', lua.players)
  BY <1>1, <1>8 DEF WaitsRight, NoRecord, Updates
<1>10. AnswerRight(a, k, store')
  BY <1>1, <1>5 DEF AnswerRight, Updates
<1>11. \A i, j \in RecordsIn(store', acc) : i = j
  BY <1>2, <1>6 DEF OneRecord
<1>12. Turning(acc)
  BY <1>1 DEF Turning, Updates, k
<1> QED  BY <1>7, <1>9, <1>10, <1>11, <1>12, OwnServes DEF k

LEMMA OwnRead ==
    ASSUME CoreInv, OneInv, CurrentInv, RightInv, NEW q, NEW a, Serves(q, a),
           q.lib = "mongo", q.acc \notin lua'.doubt,
           q.stage \notin Updates \cup {"insertBase", "insertDetail"}
    PROVE  Right(q.acc)'
<1> DEFINE k == lua.co[q.c]
           acc == q.acc
<1>1. /\ Right(acc) /\ k.acc = acc /\ k.uid = q.uid /\ k.stage = q.stage
      /\ Ran(q, store', a) /\ a.stage = q.stage /\ q.c \in Players(lua)
      /\ store \in StoreType /\ q \in QueryType
  BY OwnQuery
<1>2. WaitsRight(k, store, lua.players) /\ OneRecord(acc) /\ AgreeRight(acc)
  BY <1>1 DEF Right, CoroutinesRight
<1>3. store'.base = store.base /\ store'.detail = store.detail
  BY <1>1 DEF Ran
<1>4. \A e : RecordsIn(store', e) = RecordsIn(store, e)
  BY <1>3 DEF RecordsIn
<1> HIDE DEF k
<1>5. \A x : Stored(lua.co[x], store) => Stored(lua.co[x], store')
  BY <1>3, <1>4 DEF Stored, Recorded
<1>6. WaitsRight(k, store', lua.players)
  BY <1>2, <1>3, <1>4 DEF WaitsRight, Stored, Recorded
<1>7. \A i, j \in RecordsIn(store', acc) : i = j
  BY <1>2, <1>4 DEF OneRecord
<1>8. ~Turning(acc) => \A i \in RecordsIn(store', acc) :
          Agrees(store'.base[i].uid, store', lua.players)
  BY <1>2, <1>3, <1>4 DEF AgreeRight, Agrees
<1>9. Found(q) = RecordsIn(store, acc)
  BY DEF Found, RecordsIn
<1>10. AnswerRight(a, k, store')
  <2>1. CASE q.stage = "findBase"
    <3>1. a.matched = Matched(q) /\ a.uid = FirstUid(q)
      BY <1>1, <2>1 DEF Ran, Reads, Answer
    <3>2. a.matched = IF Found(q) # {} THEN 1 ELSE 0
      BY <2>1, <3>1 DEF Matched
    <3>3. Found(q) # {} => \E i \in Found(q) : a.uid = store.base[i].uid
      BY <1>1, <2>1, <3>1, FirstUidResult
    <3> QED  BY <1>1, <1>3, <1>4, <1>9, <2>1, <3>2, <3>3 DEF AnswerRight
  <2>2. CASE q.stage = "findDetail"
    <3>1. a.matched = Matched(q) /\ a.uid = q.uid
      BY <1>1, <2>2 DEF Ran, Reads, Answer, FirstUid
    <3>2. a.matched = 1 => q.uid \in DOMAIN store.detail
      BY <2>2, <3>1 DEF Matched
    <3> QED  BY <1>1, <1>3, <2>2, <3>1, <3>2 DEF AnswerRight
  <2>3. CASE q.stage \notin {"findBase", "findDetail"}
    BY <1>1, <2>3 DEF AnswerRight, Updates
  <2> QED  BY <2>1, <2>2, <2>3
<1> QED  BY <1>5, <1>6, <1>7, <1>8, <1>10, OwnServes DEF k

LEMMA ServesRight ==
    ASSUME CoreInv, UidInv, OneInv, CurrentInv, RightInv, NEW q, NEW a, Serves(q, a)
    PROVE  RightInv'
<1>1. SUFFICES ASSUME NEW acc \in AccountId, acc \notin lua'.doubt PROVE Right(acc)'
  BY DEF RightInv
<1>2. acc \notin lua.doubt /\ Right(acc)
  BY <1>1 DEF Serves, RightInv
<1>3. CASE q.acc # acc \/ q.lib # "mongo"
  <2>1. Apart(acc)
    BY <1>3, ServesApart
  <2> QED  BY <1>2, <2>1, ApartRight
<1>4. CASE q.acc = acc /\ q.lib = "mongo"
  BY <1>1, <1>4, OwnInsert, OwnDetail, OwnUpdate, OwnRead
<1> QED  BY <1>3, <1>4

(* Where an enter or leave gets to with its own answer.                     *)
LEMMA AfterAnswer ==
    ASSUME NEW k, CoroutineOK(k), k.kind # "script", k.stage \notin Ended,
           NEW a, a.kind = "mongo", a.matched \in {0, 1}
    PROVE  /\ k.stage \in {"findBase"} \cup NoRecord \cup
                          {"findDetail", "insertBase", "insertDetail", "update", "leave"}
           /\ k.stage = "findBase" =>
                 After(k, a) = IF a.matched = 0 THEN "findIndexBase" ELSE "findDetail"
           /\ k.stage \in NoRecord => After(k, a) \in NoRecord \cup {"insertBase"}
           /\ k.stage = "findDetail" =>
                 After(k, a) = IF a.matched = 0 THEN "failed" ELSE "update"
           /\ k.stage = "insertBase" => After(k, a) = "insertDetail"
           /\ k.stage = "insertDetail" => After(k, a) = "update"
           /\ k.stage \in {"update", "leave"} => After(k, a) = "done"
           /\ k.stage = "update" => k.kind = "enter"
           /\ k.stage = "leave" => k.kind = "leave"
<1>1. k.kind \in {"enter", "leave"} /\ k.stage \in StagesOf(k.kind, k.lib)
  BY DEF CoroutineOK, Coroutine
<1>2. /\ k.stage \in {"findBase"} \cup NoRecord \cup
                     {"findDetail", "insertBase", "insertDetail", "update", "leave"}
      /\ k.stage = "update" => k.kind = "enter"
      /\ k.stage = "leave" => k.kind = "leave"
  BY <1>1 DEF StagesOf, NoRecord, Reads, Inserts, Indexes, Ended
<1>3. CASE k.stage \in Reads
  <2>1. After(k, a) = IF a.matched = 0 THEN IfNone(k.stage) ELSE IfFound(k.stage)
    BY <1>3 DEF After, NoneFound
  <2>2. CASE k.stage = "findBase"
    BY <2>1, <2>2 DEF IfNone, IfFound, NoRecord
  <2>3. CASE k.stage = "findIndexBase"
    BY <2>1, <2>3 DEF IfNone, IfFound, NoRecord
  <2>4. CASE k.stage = "findIndexDetail"
    BY <2>1, <2>4 DEF IfNone, IfFound, NoRecord
  <2>5. CASE k.stage = "findDetail"
    BY <2>1, <2>5 DEF IfNone, IfFound, NoRecord
  <2> QED  BY <1>2, <1>3, <2>2, <2>3, <2>4, <2>5 DEF Reads
<1>4. CASE k.stage \notin Reads
  <2>1. After(k, a) = Onward(k.stage)
    BY <1>4 DEF After
  <2>2. k.stage \in {"createIndexBase", "insertIndexBase", "createIndexDetail",
                     "insertIndexDetail", "insertBase", "insertDetail", "update", "leave"}
    BY <1>2, <1>4 DEF NoRecord, Reads
  <2> QED  BY <1>2, <2>1, <2>2 DEF Onward, NoRecord
<1> QED  BY <1>3, <1>4

LEMMA TurnApart ==
    ASSUME CoreInv, NEW c, Turn(c), NEW acc, store' = store,
           lua'.co[c].kind # "script" => lua'.co[c].acc # acc,
           \A u \in Nat \ {0} : Has(acc, u) => (u \in lua'.players <=> u \in lua.players)
    PROVE  Apart(acc)
<1> DEFINE m == lua'.co[c]
<1>1. /\ DOMAIN lua'.co = DOMAIN lua.co \cup {c} /\ CoroutineOK(m)
      /\ \A x \in DOMAIN lua.co \ {c} : lua'.co[x] = lua.co[x]
      /\ c \in DOMAIN lua.co => m.kind = lua.co[c].kind /\ m.acc = lua.co[c].acc
  BY DEF Turn, Advance
<1>2. /\ \A q \in All(toDb') : q \in All(toDb) \/ q = Query(lua', c)
      /\ All(fromDb') \subseteq All(fromDb)
  BY TurnAsks DEF CoreInv
<1>3. SameCoroutine(acc)
  BY <1>1 DEF SameCoroutine, Players
<1>4. SameRecords(acc) /\ \A u \in Nat \ {0} : Has(acc, u) => SamePlayer(u)
  BY DEF SameRecords, SamePlayer
<1>5. Query(lua', c).stage = "insertBase" => Query(lua', c).acc # acc
  <2>1. Query(lua', c).stage = m.stage /\ Query(lua', c).acc = m.acc
    BY DEF Query
  <2>2. m.stage = "insertBase" => m.kind # "script"
    BY <1>1 DEF CoroutineOK, StagesOf, Ended
  <2> QED  BY <2>1, <2>2
<1>6. ASSUME NEW a \in All(fromDb'), a.kind = "mongo", lua'.co[a.c].acc = acc
      PROVE  a \in All(fromDb) /\ a.c \in Players(lua) /\ lua.co[a.c].acc = acc
  <2>1. a \in All(fromDb) /\ a.c \in Players(lua)
    BY <1>2, <1>6, AnswerPlayer
  <2>2. lua'.co[a.c].acc = lua.co[a.c].acc
    BY <1>1, <2>1 DEF Players
  <2> QED  BY <1>6, <2>1, <2>2
<1> QED  BY <1>2, <1>3, <1>4, <1>5, <1>6, Zenon DEF Apart

LEMMA GoesOnApart ==
    ASSUME CoreInv, UidInv, NEW c, NEW a, GoesOn(c, a), store' = store, NEW acc \in AccountId,
           lua.co[c].acc # acc \/ lua.co[c].kind = "script"
    PROVE  Apart(acc)
<1> DEFINE k == lua.co[c]
<1>1. /\ Turn(c) /\ lua'.co[c].kind = k.kind /\ lua'.co[c].acc = k.acc
      /\ CoroutineOK(k) /\ c \in DOMAIN lua.co
  BY GoesOnStage, Zenon DEF GoesOn
<1>2. \A u : u # k.uid \/ k.kind = "script" => (u \in lua'.players <=> u \in lua.players)
  BY DEF GoesOn
<1>3. ASSUME NEW u \in Nat \ {0}, Has(acc, u), k.kind # "script" PROVE u # k.uid
  <2>1. Has(k.acc, k.uid) /\ k.acc \in AccountId
    BY <1>1, <1>3 DEF Has, Players, CoroutineOK
  <2> QED  BY <1>3, <2>1 DEF UidInv
<1> QED  BY <1>1, <1>2, <1>3, TurnApart, Zenon

\* What the next stage of the coroutine c of a sure account needs.
NextRight(c) ==
    LET k == lua.co[c]
        m == lua'.co[c]
        acc == k.acc
    IN  /\ WaitsRight(m, store, lua'.players)
        /\ m.stage = "insertBase" => RecordsIn(store, acc) = {}
        /\ \/ m.stage = "update"
           \/ /\ k.stage \notin {"update", "leave"} /\ lua'.players = lua.players
           \/ \A i \in RecordsIn(store, acc) : Agrees(store.base[i].uid, store, lua'.players)

LEMMA GoesOnNext ==
    ASSUME CoreInv, StoreInv, NEW c, NEW a, GoesOn(c, a), Own(a, c), lua.co[c].kind # "script",
           Right(lua.co[c].acc)
    PROVE  NextRight(c)
<1> DEFINE k == lua.co[c]
           m == lua'.co[c]
           acc == k.acc
           P == lua.players
           R == RecordsIn(store, acc)
<1>1. /\ CoroutineOK(k) /\ CoroutineOK(m) /\ k.stage \notin Ended /\ k.kind # "script"
      /\ m.kind = k.kind /\ m.acc = acc /\ m.stage = After(k, a) /\ k.lib = "mongo"
  BY GoesOnStage DEF CoroutineOK
<1>2. /\ c \in Players(lua) /\ a \in All(fromDb) /\ a.c = c /\ a.kind = "mongo"
      /\ a.stage = k.stage /\ a.matched \in {0, 1}
      /\ m.uid = IF m.stage = "insertBase" THEN lua.uid_sec + 1
                 ELSE IF m.stage = "findDetail" THEN a.uid ELSE k.uid
      /\ lua'.players = IF m.stage # "done" THEN P
                        ELSE IF k.kind = "enter" THEN P \cup {k.uid}
                        ELSE IF k.kind = "leave" THEN P \ {k.uid} ELSE P
  BY <1>1 DEF GoesOn, Own, Players, AnswerType
<1>3. /\ WaitsRight(k, store, P) /\ AnswerRight(a, k, store)
      /\ \A i, j \in R : i = j
  BY <1>2 DEF Right, CoroutinesRight, AnsweredRight, OneRecord
<1>4. /\ k.stage \in {"findBase"} \cup NoRecord \cup
                     {"findDetail", "insertBase", "insertDetail", "update", "leave"}
      /\ k.stage = "findBase" =>
            m.stage = IF a.matched = 0 THEN "findIndexBase" ELSE "findDetail"
      /\ k.stage \in NoRecord => m.stage \in NoRecord \cup {"insertBase"}
      /\ k.stage = "findDetail" => m.stage = IF a.matched = 0 THEN "failed" ELSE "update"
      /\ k.stage = "insertBase" => m.stage = "insertDetail"
      /\ k.stage = "insertDetail" => m.stage = "update"
      /\ k.stage \in {"update", "leave"} => m.stage = "done"
      /\ k.stage = "update" => k.kind = "enter"
      /\ k.stage = "leave" => k.kind = "leave"
  BY <1>1, <1>2, AfterAnswer
<1>5. lua.uid_sec + 1 \notin P /\ lua.uid_sec + 1 \notin DOMAIN store.detail
  <2>1. lua.uid_sec + 1 \notin 0 .. lua.uid_sec
    BY DEF CoreInv, LuaInv, LuaState
  <2> QED  BY <2>1 DEF StoreInv
<1> HIDE DEF k, m
<1>6. CASE k.stage \in {"findBase"} \cup NoRecord
  <2>1. /\ k.stage \notin {"update", "leave"} /\ m.stage # "done" /\ lua'.players = P
        /\ m.stage \in NoRecord \cup {"insertBase", "findDetail"}
    BY <1>2, <1>4, <1>6 DEF NoRecord
  <2>2. CASE m.stage = "findDetail"
    <3>1. k.stage = "findBase" /\ a.matched = 1 /\ m.uid = a.uid
      BY <1>2, <1>4, <1>6, <2>2 DEF NoRecord
    <3>2. \E i \in R : store.base[i].uid = m.uid
      BY <1>2, <1>3, <3>1 DEF AnswerRight
    <3>3. WaitsRight(m, store, lua'.players)
      BY <1>1, <2>2, <3>2 DEF WaitsRight, NoRecord, Recorded
    <3> QED  BY <2>1, <2>2, <3>3 DEF NextRight, k, m
  <2>3. CASE m.stage \in NoRecord \cup {"insertBase"}
    <3>1. R = {}
      <4>1. CASE k.stage = "findBase"
        <5>1. a.matched = 0
          BY <1>2, <1>4, <2>3, <4>1 DEF NoRecord
        <5> QED  BY <1>2, <1>3, <4>1, <5>1 DEF AnswerRight
      <4>2. CASE k.stage \in NoRecord
        BY <1>3, <4>2 DEF WaitsRight
      <4> QED  BY <1>6, <4>1, <4>2
    <3>2. m.stage = "insertBase" => m.uid \notin lua'.players /\ m.uid \notin DOMAIN store.detail
      BY <1>2, <1>5, <2>1
    <3>3. WaitsRight(m, store, lua'.players)
      BY <1>1, <2>3, <3>1, <3>2 DEF WaitsRight, NoRecord
    <3> QED  BY <2>1, <3>1, <3>3 DEF NextRight, k, m
  <2> QED  BY <2>1, <2>2, <2>3
<1>7. CASE k.stage = "findDetail"
  <2>1. m.stage \in {"failed", "update"} /\ m.uid = k.uid /\ lua'.players = P
    BY <1>2, <1>4, <1>7
  <2>2. m.stage = "update" => Stored(m, store)
    <3>1. Recorded(k, store)
      BY <1>3, <1>7 DEF WaitsRight
    <3>2. m.stage = "update" => k.uid \in DOMAIN store.detail
      BY <1>2, <1>3, <1>4, <1>7 DEF AnswerRight
    <3> QED  BY <1>1, <2>1, <3>1, <3>2 DEF Stored, Recorded
  <2>3. WaitsRight(m, store, lua'.players)
    BY <2>1, <2>2 DEF WaitsRight, NoRecord
  <2> QED  BY <1>7, <2>1, <2>3 DEF NextRight, k, m
<1>8. CASE k.stage = "insertBase"
  <2>1. m.stage = "insertDetail" /\ m.uid = k.uid /\ lua'.players = P
    BY <1>2, <1>4, <1>8
  <2>2. /\ R # {} /\ \A i \in R : store.base[i].uid = k.uid
        /\ k.uid \notin P /\ k.uid \notin DOMAIN store.detail
    BY <1>2, <1>3, <1>8 DEF AnswerRight, WaitsRight
  <2>3. Recorded(m, store)
    BY <1>1, <2>1, <2>2 DEF Recorded
  <2>4. WaitsRight(m, store, lua'.players)
    BY <2>1, <2>2, <2>3 DEF WaitsRight, NoRecord
  <2> QED  BY <1>8, <2>1, <2>4 DEF NextRight, k, m
<1>9. CASE k.stage = "insertDetail"
  <2>1. m.stage = "update" /\ m.uid = k.uid
    BY <1>2, <1>4, <1>9
  <2>2. Recorded(k, store) /\ k.uid \in DOMAIN store.detail
    BY <1>2, <1>3, <1>9 DEF AnswerRight, WaitsRight
  <2>3. Stored(m, store)
    BY <1>1, <2>1, <2>2 DEF Stored, Recorded
  <2>4. WaitsRight(m, store, lua'.players)
    BY <2>1, <2>3 DEF WaitsRight, NoRecord
  <2> QED  BY <2>1, <2>4 DEF NextRight, k, m
<1>10. CASE k.stage \in {"update", "leave"}
  <2>1. m.stage = "done" /\ m.uid = k.uid
    BY <1>2, <1>4, <1>10
  <2>2. Stored(k, store)
    BY <1>3, <1>10 DEF WaitsRight
  <2>3. Stored(m, store)
    BY <1>1, <2>1, <2>2 DEF Stored, Recorded
  <2>4. WaitsRight(m, store, lua'.players)
    BY <2>1, <2>3 DEF WaitsRight, NoRecord
  <2>5. \A i \in R : store.base[i].uid = k.uid
    BY <1>3, <2>2 DEF Stored, Recorded
  <2>6. Agrees(k.uid, store, lua'.players)
    <3>1. CASE k.stage = "update"
      BY <1>2, <1>3, <1>4, <2>1, <2>2, <3>1 DEF AnswerRight, Stored, Agrees
    <3>2. CASE k.stage = "leave"
      BY <1>2, <1>3, <1>4, <2>1, <2>2, <3>2 DEF AnswerRight, Stored, Agrees
    <3> QED  BY <1>10, <3>1, <3>2
  <2>7. \A i \in R : Agrees(store.base[i].uid, store, lua'.players)
    BY <2>5, <2>6
  <2> QED  BY <2>1, <2>4, <2>7 DEF NextRight, k, m
<1> QED  BY <1>4, <1>6, <1>7, <1>8, <1>9, <1>10

LEMMA GoesOnOwn ==
    ASSUME CoreInv, StoreInv, OneInv, CurrentInv, RightInv, NEW c, NEW a, GoesOn(c, a),
           store' = store, lua.co[c].kind # "script", NEW acc, lua.co[c].acc = acc,
           acc \notin lua'.doubt
    PROVE  Right(acc)'
<1> DEFINE k == lua.co[c]
           m == lua'.co[c]
<1>1. /\ c \in DOMAIN lua.co /\ Waiting(lua, c) /\ Turn(c) /\ Players(lua') = Players(lua)
      /\ lua.doubt \subseteq lua'.doubt /\ acc \notin lua.doubt
      /\ \A x \in DOMAIN lua.co \ {c} : lua'.co[x] = lua.co[x]
      /\ c \in Players(lua)
  BY Zenon DEF GoesOn, Turn, Advance, Players
<1>2. /\ CoroutineOK(k) /\ m.acc = acc /\ m.kind = k.kind /\ Own(a, c) /\ m.stage = After(k, a)
  BY GoesOnStage, GoesOnSure
<1>3. acc \in AccountId /\ Right(acc)
  BY <1>1, <1>2 DEF CoroutineOK, RightInv
<1>4. NextRight(c)
  BY <1>2, <1>3, GoesOnNext
<1>5. \A x \in Players(lua) : lua.co[x].acc = acc /\ Waiting(lua, x) => x = c
  BY <1>1 DEF OneInv
<1>0. k.acc = acc
  OBVIOUS
<1> HIDE DEF k, m
<1>6. CoroutinesRight(acc)'
  <2>1. SUFFICES ASSUME NEW x \in Players(lua), lua'.co[x].acc = acc
                 PROVE  WaitsRight(lua'.co[x], store, lua'.players)
    BY <1>1 DEF CoroutinesRight
  <2>2. CASE x = c
    BY <1>4, <2>2 DEF NextRight, m
  <2>3. CASE x # c
    <3>1. lua'.co[x] = lua.co[x] /\ lua.co[x].acc = acc /\ ~Waiting(lua, x)
      BY <1>1, <1>5, <2>1, <2>3 DEF Players
    <3>2. /\ lua.co[x].stage = "done" => Stored(lua.co[x], store)
          /\ lua.co[x].stage \in {"done", "failed"}
      BY <1>3, <3>1, OwnRest
    <3> QED  BY <3>1, <3>2 DEF WaitsRight, NoRecord
  <2> QED  BY <2>2, <2>3
<1>7. AskedRight(acc)'
  <2>1. SUFFICES ASSUME NEW q \in All(toDb'), q.stage = "insertBase", q.acc = acc
                 PROVE  RecordsIn(store, acc) = {}
    BY DEF AskedRight
  <2>2. q \in All(toDb) \/ q = Query(lua', c)
    BY <1>1, TurnAsks DEF CoreInv
  <2>3. CASE q \in All(toDb)
    BY <1>3, <2>1, <2>3 DEF Right, AskedRight
  <2>4. CASE q = Query(lua', c)
    <3>1. m.stage = "insertBase"
      BY <2>1, <2>4 DEF Query, m
    <3> QED  BY <1>4, <3>1 DEF NextRight, k, m
  <2> QED  BY <2>2, <2>3, <2>4
<1>8. AnsweredRight(acc)'
  <2>1. SUFFICES ASSUME NEW x \in All(fromDb'), x.kind = "mongo", lua'.co[x.c].acc = acc
                 PROVE  FALSE
    BY DEF AnsweredRight
  <2>2. x \in All(fromDb) /\ x.c \in Players(lua)
    BY <1>1, <2>1, TurnAsks, AnswerPlayer DEF CoreInv
  <2>3. lua.co[x.c].acc = acc
    BY <1>1, <1>2, <2>1, <2>2 DEF Players, k, m
  <2>4. Waiting(lua, x.c) /\ x.id = lua.co[x.c].id
    BY <1>1, <2>1, <2>2, <2>3 DEF CurrentInv
  <2>5. x.c = c
    BY <1>5, <2>2, <2>3, <2>4
  <2> QED  BY <1>2, <2>1, <2>4, <2>5 DEF Own
<1>9. OneRecord(acc)'
  BY <1>3 DEF Right, OneRecord
<1>10. AgreeRight(acc)'
  <2>1. SUFFICES ASSUME ~Turning(acc)'
                 PROVE  \A i \in RecordsIn(store, acc) :
                            Agrees(store.base[i].uid, store, lua'.players)
    BY DEF AgreeRight
  <2>2. m.stage # "update"
    BY <1>1, <1>2, <2>1 DEF Turning, m
  <2>3. CASE k.stage \notin {"update", "leave"} /\ lua'.players = lua.players
    <3>1. ~Turning(acc)
      <4>1. SUFFICES ASSUME NEW x \in Players(lua), lua.co[x].acc = acc,
                            lua.co[x].stage \in {"update", "leave"}
                     PROVE  FALSE
        BY DEF Turning
      <4>2. x # c
        BY <2>3, <4>1 DEF k
      <4>3. lua'.co[x] = lua.co[x]
        BY <1>1, <4>2 DEF Players
      <4> QED  BY <1>1, <2>1, <4>1, <4>3 DEF Turning
    <3> QED  BY <1>3, <2>3, <3>1 DEF Right, AgreeRight
  <2> QED  BY <1>0, <1>4, <2>2, <2>3 DEF NextRight, k, m
<1> QED  BY <1>6, <1>7, <1>8, <1>9, <1>10, Zenon DEF Right

LEMMA GoesOnRight ==
    ASSUME CoreInv, UidInv, StoreInv, OneInv, CurrentInv, RightInv, NEW c, NEW a, GoesOn(c, a),
           store' = store
    PROVE  RightInv'
<1>1. SUFFICES ASSUME NEW acc \in AccountId, acc \notin lua'.doubt PROVE Right(acc)'
  BY Zenon DEF RightInv
<1>2. acc \notin lua.doubt /\ Right(acc)
  BY <1>1 DEF GoesOn, Turn, Advance, RightInv
<1>3. CASE lua.co[c].acc # acc \/ lua.co[c].kind = "script"
  <2>1. Apart(acc)
    BY <1>3, GoesOnApart
  <2> QED  BY <1>2, <2>1, ApartRight
<1>4. CASE lua.co[c].acc = acc /\ lua.co[c].kind # "script"
  BY <1>1, <1>4, GoesOnOwn
<1> QED  BY <1>3, <1>4

\* A leave is of a player that an earlier enter of the account brought in.
Brought(acc, player) ==
    \E b \in Players(lua) :
        lua.co[b].stage = "done" /\ lua.co[b].acc = acc /\ lua.co[b].uid = player

LEMMA StartRight ==
    ASSUME CoreInv, CurrentInv, RightInv, NEW kind, NEW lib, NEW of, NEW player, NEW stage,
           NEW listed, Launched(New(kind, lib, of, player), stage, listed, lua'),
           Turn(Len(lua.co) + 1), store' = store,
           kind # "script" => stage = "findBase" \/ (stage = "leave" /\ Brought(of, player))
    PROVE  RightInv'
<1> DEFINE c == Len(lua.co) + 1
           m == lua'.co[c]
<1>1. /\ lua'.players = lua.players /\ m.kind = kind /\ m.acc = of /\ m.uid = player
      /\ m.stage = stage
      /\ \A x \in DOMAIN lua.co : lua'.co[x] = lua.co[x]
  BY Zenon DEF Launched, New
<1>2. /\ DOMAIN lua'.co = DOMAIN lua.co \cup {c} /\ c \notin DOMAIN lua.co
      /\ lua.doubt \subseteq lua'.doubt
  <2>1. Len(lua.co) \in Nat /\ DOMAIN lua.co = 1 .. Len(lua.co)
    BY DEF CoreInv, LuaInv, LuaState
  <2>2. c \notin DOMAIN lua.co
    BY <2>1
  <2> QED  BY <2>2, Zenon DEF Turn, Advance
<1>3. SUFFICES ASSUME NEW acc \in AccountId, acc \notin lua'.doubt PROVE Right(acc)'
  BY DEF RightInv
<1>4. acc \notin lua.doubt /\ Right(acc)
  BY <1>2, <1>3 DEF RightInv
<1> HIDE DEF c
<1>5. Turn(c)
  BY DEF c
<1>6. CASE m.kind = "script" \/ of # acc
  <2>1. Apart(acc)
    BY <1>1, <1>5, <1>6, TurnApart
  <2> QED  BY <1>4, <2>1, ApartRight
<1>7. CASE m.kind # "script" /\ of = acc
  <2>0. Players(lua') = Players(lua) \cup {c}
    BY <1>1, <1>2, <1>7 DEF Players
  <2>1. CoroutinesRight(acc)'
    <3>1. WaitsRight(m, store, lua.players)
      <4>1. CASE stage = "findBase"
        BY <1>1, <4>1 DEF WaitsRight, NoRecord
      <4>2. CASE stage = "leave" /\ Brought(of, player)
        <5>1. PICK b \in Players(lua) :
                  lua.co[b].stage = "done" /\ lua.co[b].acc = of /\ lua.co[b].uid = player
          BY <4>2 DEF Brought
        <5>2. WaitsRight(lua.co[b], store, lua.players)
          BY <1>4, <1>7, <5>1 DEF Right, CoroutinesRight
        <5>3. Stored(lua.co[b], store)
          BY <5>1, <5>2 DEF WaitsRight
        <5>4. Stored(m, store)
          BY <1>1, <5>1, <5>3 DEF Stored, Recorded
        <5> QED  BY <1>1, <4>2, <5>4 DEF WaitsRight, NoRecord
      <4> QED  BY <1>1, <1>7, <4>1, <4>2
    <3> QED  BY <1>1, <1>4, <2>0, <3>1 DEF CoroutinesRight, Right, Players
  <2>2. AskedRight(acc)'
    <3>1. \A q \in All(toDb') : q \in All(toDb) \/ q = Query(lua', c)
      BY <1>5, TurnAsks DEF CoreInv
    <3>2. Query(lua', c).stage # "insertBase"
      BY <1>1, <1>7 DEF Query
    <3> QED  BY <1>4, <3>1, <3>2 DEF Right, AskedRight
  <2>3. AnsweredRight(acc)'
    <3>1. SUFFICES ASSUME NEW x \in All(fromDb'), x.kind = "mongo", lua'.co[x.c].acc = acc
                   PROVE  AnswerRight(x, lua'.co[x.c], store)
      BY DEF AnsweredRight
    <3>2. x \in All(fromDb) /\ x.c \in Players(lua)
      BY <1>5, <3>1, TurnAsks, AnswerPlayer DEF CoreInv
    <3>3. lua'.co[x.c] = lua.co[x.c]
      BY <1>1, <3>2 DEF Players
    <3> QED  BY <1>4, <3>1, <3>2, <3>3 DEF Right, AnsweredRight
  <2>4. OneRecord(acc)'
    BY <1>4 DEF Right, OneRecord
  <2>5. AgreeRight(acc)'
    <3>1. Turning(acc) => Turning(acc)'
      BY <1>1, <2>0 DEF Turning, Players
    <3> QED  BY <1>1, <1>4, <3>1 DEF Right, AgreeRight
  <2> QED  BY <2>1, <2>2, <2>3, <2>4, <2>5 DEF Right
<1> QED  BY <1>1, <1>6, <1>7

(* The scripts.                                                             *)
LEMMA StillScripts ==
    ASSUME CoreInv, ScriptsInv, Still
    PROVE  ScriptsInv'
<1>1. SUFFICES ASSUME "none" \notin lua'.doubt
               PROVE  /\ \A c \in DOMAIN lua'.co : lua'.co[c].kind = "script" /\ lua'.co[c].told =>
                            c \in DOMAIN store.rows /\ store.rows[c] = NRow
                      /\ \A a \in All(fromDb') : a.stage = "insertRows" /\ a.ok =>
                            a.c \in DOMAIN store.rows /\ store.rows[a.c] = NRow
  BY DEF ScriptsInv, Still
<1>2. "none" \notin lua.doubt
  BY <1>1 DEF Still
<1>3. ASSUME NEW c \in DOMAIN lua'.co, lua'.co[c].kind = "script", lua'.co[c].told
      PROVE  c \in DOMAIN store.rows /\ store.rows[c] = NRow
  <2>1. c \in DOMAIN lua.co /\ lua'.co[c] = lua.co[c]
    BY <1>3 DEF Still
  <2> QED  BY <1>2, <1>3, <2>1 DEF ScriptsInv
<1>4. \A a \in All(fromDb') : a.stage = "insertRows" /\ a.ok =>
          a.c \in DOMAIN store.rows /\ store.rows[a.c] = NRow
  BY <1>2 DEF ScriptsInv, Still
<1> QED  BY <1>3, <1>4

LEMMA ServesScripts ==
    ASSUME CoreInv, ScriptsInv, NEW q, NEW a, Serves(q, a)
    PROVE  ScriptsInv'
<1>1. /\ lua'.co = lua.co /\ lua.doubt \subseteq lua'.doubt /\ QueryOK(q)
      /\ All(fromDb') \subseteq All(fromDb) \cup {a} /\ a.c = q.c /\ a.stage = q.stage
  BY DEF Serves
<1>2. SUFFICES ASSUME "none" \notin lua'.doubt
               PROVE  /\ \A c \in DOMAIN lua.co : lua.co[c].kind = "script" /\ lua.co[c].told =>
                            c \in DOMAIN store'.rows /\ store'.rows[c] = NRow
                      /\ \A x \in All(fromDb') : x.stage = "insertRows" /\ x.ok =>
                            x.c \in DOMAIN store'.rows /\ store'.rows[x.c] = NRow
  BY <1>1 DEF ScriptsInv
<1>3. /\ q.lib = "mongo" => q.stage # "insertRows"
      /\ q.lib # "mongo" => q.acc = "none"
  BY <1>1, QueryKind DEF CoreInv
<1>4. q.acc = "none" => Ran(q, store', a)
  BY <1>2 DEF Serves
<1>5. store'.rows = store.rows \/ store'.rows = With(store.rows, q.c, NRow)
  <2>1. \/ store' = store \/ \E b : Ran(q, store', b)
    BY <1>3, <1>4 DEF Serves
  <2> QED  BY <2>1 DEF Ran
<1>6. \A x : x \in DOMAIN store.rows /\ store.rows[x] = NRow
          => x \in DOMAIN store'.rows /\ store'.rows[x] = NRow
  BY <1>5 DEF With
<1>7. a.stage = "insertRows" => a.c \in DOMAIN store'.rows /\ store'.rows[a.c] = NRow
  <2>1. SUFFICES ASSUME q.stage = "insertRows"
                 PROVE  q.c \in DOMAIN store'.rows /\ store'.rows[q.c] = NRow
    BY <1>1
  <2>2. store'.rows = With(store.rows, q.c, NRow)
    BY <1>3, <1>4, <2>1 DEF Ran
  <2> QED  BY <2>2 DEF With
<1>8. "none" \notin lua.doubt
  BY <1>1, <1>2
<1> QED  BY <1>1, <1>6, <1>7, <1>8 DEF ScriptsInv

LEMMA TurnScripts ==
    ASSUME CoreInv, ScriptsInv, NEW c, Turn(c), store' = store,
           lua'.co[c].kind = "script" /\ lua'.co[c].told /\ "none" \notin lua'.doubt =>
               c \in DOMAIN store.rows /\ store.rows[c] = NRow
    PROVE  ScriptsInv'
<1>1. /\ DOMAIN lua'.co = DOMAIN lua.co \cup {c} /\ lua.doubt \subseteq lua'.doubt
      /\ \A x \in DOMAIN lua.co \ {c} : lua'.co[x] = lua.co[x]
  BY DEF Turn, Advance
<1>2. All(fromDb') \subseteq All(fromDb)
  BY TurnAsks DEF CoreInv
<1> QED  BY <1>1, <1>2 DEF ScriptsInv

LEMMA GoesOnScripts ==
    ASSUME CoreInv, ScriptsInv, NEW c, NEW a, GoesOn(c, a), store' = store
    PROVE  ScriptsInv'
<1> DEFINE k == lua.co[c]
           m == lua'.co[c]
<1>1. /\ CoroutineOK(k) /\ m.kind = k.kind
  BY GoesOnStage, Zenon
<1>2. /\ Turn(c) /\ c \in DOMAIN lua.co /\ lua.doubt \subseteq lua'.doubt
      /\ m.told = IF k.stage = "insertRows" THEN a.kind # "nil" /\ a.ok ELSE k.told
      /\ (k.acc \in lua'.doubt \/ Own(a, c))
  BY Zenon DEF GoesOn, Turn, Advance
<1>3. ASSUME m.kind = "script", m.told, "none" \notin lua'.doubt
      PROVE  c \in DOMAIN store.rows /\ store.rows[c] = NRow
  <2>1. Own(a, c)
    BY <1>1, <1>2, <1>3 DEF CoroutineOK
  <2>2. CASE k.stage = "insertRows"
    <3>1. a \in All(fromDb) /\ a.c = c /\ a.stage = "insertRows" /\ a.ok
      BY <1>2, <1>3, <2>1, <2>2 DEF Own
    <3> QED  BY <1>2, <1>3, <3>1 DEF ScriptsInv
  <2>3. CASE k.stage # "insertRows"
    BY <1>1, <1>2, <1>3, <2>3 DEF ScriptsInv
  <2> QED  BY <2>2, <2>3
<1> QED  BY <1>2, <1>3, TurnScripts

LEMMA StartScripts ==
    ASSUME CoreInv, ScriptsInv, NEW kind, NEW lib, NEW acc, NEW player, NEW stage, NEW listed,
           Launched(New(kind, lib, acc, player), stage, listed, lua'), Turn(Len(lua.co) + 1),
           store' = store
    PROVE  ScriptsInv'
<1>1. ~lua'.co[Len(lua.co) + 1].told
  BY DEF Launched, New
<1> QED  BY <1>1, TurnScripts

(* The steps that change nothing of the accounts.                           *)
LEMMA SameStill ==
    ASSUME lua'.co = lua.co, lua'.players = lua.players, lua'.uid_sec = lua.uid_sec,
           lua.doubt \subseteq lua'.doubt, store' = store,
           All(toDb') \subseteq All(toDb), All(fromDb') \subseteq All(fromDb)
    PROVE  Still
  BY DEF Still, Players

LEMMA RedisStill ==
    ASSUME CoreInv, RedisScript
    PROVE  Still
<1> DEFINE k == [New("script", "redis", "none", 0) EXCEPT !.stage = "failed"]
           c == Len(lua.co) + 1
<1>1. /\ lua \in LuaState /\ lua.co \in Seq(Coroutine) /\ DOMAIN lua.co = 1 .. Len(lua.co)
      /\ Len(lua.co) \in Nat
  BY DEF CoreInv, LuaInv, LuaState
<1>2. k \in Coroutine /\ k.kind = "script" /\ ~k.told
  BY DEF New, Coroutine, Lib, Stages, Ended
<1> HIDE DEF k
<1>3. /\ lua'.co = Append(lua.co, k) /\ lua'.players = lua.players
      /\ lua'.uid_sec = lua.uid_sec /\ lua'.doubt = lua.doubt
      /\ UNCHANGED <<toDb, fromDb, store>>
  BY <1>1 DEF RedisScript, k, LuaState
<1>4. /\ DOMAIN Append(lua.co, k) = 1 .. c
      /\ \A x \in 1 .. Len(lua.co) : Append(lua.co, k)[x] = lua.co[x]
      /\ Append(lua.co, k)[c] = k
  BY <1>1, <1>2, AppendProperties, LenProperties
<1>5. \A x \in 1 .. c : x \in 1 .. Len(lua.co) \/ x = c
  BY <1>1
<1>6. \A x \in 1 .. Len(lua.co) : x \in 1 .. c
  BY <1>1
<1> HIDE DEF c
<1>7. /\ \A x \in DOMAIN lua.co : x \in DOMAIN lua'.co /\ lua'.co[x] = lua.co[x]
      /\ \A x \in DOMAIN lua'.co : x \in DOMAIN lua.co \/ lua'.co[x] = k
  BY <1>1, <1>3, <1>4, <1>5, <1>6
<1>8. Players(lua') = Players(lua)
  BY <1>2, <1>7 DEF Players
<1>9. \A x \in DOMAIN lua'.co \ DOMAIN lua.co : ~lua'.co[x].told
  BY <1>2, <1>7
<1> QED  BY <1>3, <1>7, <1>8, <1>9 DEF Still

LEMMA QuietStill ==
    ASSUME CoreInv, Tick \/ CheckCoroutne \/ UNCHANGED playerMgrVars
    PROVE  Still
<1>1. lua \in LuaState
  BY DEF CoreInv, LuaInv
<1>2. /\ UNCHANGED <<toDb, fromDb, store>> /\ lua'.co = lua.co /\ lua'.players = lua.players
      /\ lua'.uid_sec = lua.uid_sec /\ lua'.doubt = lua.doubt
  BY <1>1 DEF Tick, CheckCoroutne, playerMgrVars, LuaState
<1> QED  BY <1>2, SameStill

(* A coroutine that is started.                                             *)
Starts ==
    \E kind, lib, acc, player, stage, listed :
        /\ Launched(New(kind, lib, acc, player), stage, listed, lua')
        /\ Turn(Len(lua.co) + 1) /\ store' = store
        /\ kind # "script" =>
              /\ player = 0 \/ Has(acc, player)
              /\ stage = "findBase" \/ (stage = "leave" /\ Brought(acc, player))

LEMMA NodeStarts ==
    ASSUME CoreInv,
           \/ \E acc \in AccountId : ReqPlayerEnter(acc)
           \/ \E c \in DOMAIN lua.co : ReqPlayerLeave(c)
           \/ \E lib \in {"mysql", "clickhouse"} : Script(lib)
    PROVE  Starts
<1>0. LuaInv /\ TableInv /\ MessageInv
  BY DEF CoreInv
<1>1. ASSUME NEW acc \in AccountId, ReqPlayerEnter(acc) PROVE Starts
  <2>1. /\ Launched(New("enter", "mongo", acc, 0), "findBase", TRUE, lua')
        /\ Turn(Len(lua.co) + 1) /\ store' = store
    BY <1>0, <1>1, EnterTurns DEF ReqPlayerEnter, Start
  <2> QED  BY <2>1 DEF Starts
<1>2. ASSUME NEW b \in DOMAIN lua.co, ReqPlayerLeave(b) PROVE Starts
  <2> DEFINE acc == lua.co[b].acc
             player == lua.co[b].uid
  <2>1. /\ Launched(New("leave", "mongo", acc, player), "leave", TRUE, lua')
        /\ lua.co[b].kind = "enter" /\ lua.co[b].stage = "done"
        /\ Turn(Len(lua.co) + 1) /\ store' = store
    BY <1>0, <1>2, LeaveTurns DEF ReqPlayerLeave, Start
  <2>2. b \in Players(lua)
    BY <2>1 DEF Players
  <2>3. Has(acc, player) /\ Brought(acc, player)
    BY <2>1, <2>2 DEF Has, Brought
  <2> HIDE DEF acc, player
  <2> QED  BY <2>1, <2>3 DEF Starts
<1>3. ASSUME NEW lib \in {"mysql", "clickhouse"}, Script(lib) PROVE Starts
  <2>1. /\ Launched(New("script", lib, "none", 0), "insertRows", FALSE, lua')
        /\ Turn(Len(lua.co) + 1) /\ store' = store
    BY <1>0, <1>3, ScriptTurns DEF Script, Start
  <2> QED  BY <2>1 DEF Starts
<1> QED  BY <1>1, <1>2, <1>3

LEMMA StepKinds ==
    ASSUME CoreInv, [PlayerMgrNext]_playerMgrVars
    PROVE  \/ Starts \/ Still
           \/ \E c, a : GoesOn(c, a) /\ store' = store
           \/ \E q, a : Serves(q, a)
<1> DEFINE Kinds == \/ Starts \/ Still
                    \/ \E c, a : GoesOn(c, a) /\ store' = store
                    \/ \E q, a : Serves(q, a)
<1>1. ASSUME NEW c \in lua.timeout, CheckNext(c) PROVE Kinds
  <2>1. CASE Waiting(lua, c)
    <3>1. GoesOn(c, Nil) /\ store' = store
      BY <1>1, <2>1, CheckGoesOn DEF CheckNext
    <3> QED  BY <3>1
  <2>2. CASE ~Waiting(lua, c)
    <3>1. Still
      BY <1>1, <2>2, EndedCheck, SameStill
    <3> QED  BY <3>1
  <2> QED  BY <2>1, <2>2
<1>2. ASSUME NEW d \in Db, QueryResume(d) PROVE Kinds
  <2>1. CASE Awaited(lua, Head(fromDb[d]))
    <3>1. PICK c \in DOMAIN lua.co : GoesOn(c, Head(fromDb[d]))
      BY <1>2, <2>1, AnswerGoesOn
    <3>2. store' = store
      BY <1>2 DEF QueryResume
    <3> QED  BY <3>1, <3>2
  <2>2. CASE ~Awaited(lua, Head(fromDb[d]))
    <3>1. Still
      BY <1>2, <2>2, DroppedAnswer, SameStill
    <3> QED  BY <3>1
  <2> QED  BY <2>1, <2>2
<1>3. ASSUME NEW d \in Db, OnReq(d) \/ OnReqFails(d) \/ OnReqNoSession(d) PROVE Kinds
  BY <1>3, RunServes, FailServes
<1>4. ASSUME NEW d \in Db, NoClient(d) \/ Crash(d) \/ Restart(d) PROVE Kinds
  <2>1. Still
    BY <1>4, DownCore, SameStill
  <2> QED  BY <2>1
<1>5. Tick \/ CheckCoroutne \/ RedisScript \/ UNCHANGED playerMgrVars => Kinds
  BY QuietStill, RedisStill
<1> HIDE DEF Kinds
<1>6. ASSUME \/ \E acc \in AccountId : ReqPlayerEnter(acc)
             \/ \E c \in DOMAIN lua.co : ReqPlayerLeave(c)
             \/ \E lib \in {"mysql", "clickhouse"} : Script(lib)
      PROVE  Kinds
  BY <1>6, NodeStarts DEF Kinds
<1>7. Kinds
  BY <1>1, <1>2, <1>3, <1>4, <1>5, <1>6 DEF PlayerMgrNext, Update, Proxy
<1> QED  BY <1>7 DEF Kinds

(* The inductive invariant behind PlayersRight. *)
PlayersInv ==
    /\ CoreInv /\ UidInv /\ StoreInv /\ OneInv /\ CurrentInv /\ RightInv /\ ScriptsInv

LEMMA PlayersInit == PlayerMgrInit => PlayersInv
<1> SUFFICES ASSUME PlayerMgrInit PROVE PlayersInv
  OBVIOUS
<1>0. DOMAIN <<>> = {}
  BY EmptySeq
<1>1. CoreInv
  BY CoreInit
<1>2. /\ DOMAIN lua.co = {} /\ lua.uid_sec = 0 /\ lua.players = {}
      /\ DOMAIN store.base = {} /\ DOMAIN store.detail = {}
  BY <1>0 DEF PlayerMgrInit
<1>3. All(toDb) = {} /\ All(fromDb) = {}
  <2>1. \A d \in Db : toDb[d] = <<>> /\ fromDb[d] = <<>>
    BY DEF PlayerMgrInit
  <2> QED  BY <1>0, <2>1 DEF All
<1>4. Players(lua) = {}
  BY <1>2 DEF Players
<1>5. UidInv
  BY <1>2, <1>3, <1>4 DEF UidInv, Has
<1>6. StoreInv
  BY <1>2 DEF StoreInv
<1>7. OneInv /\ CurrentInv
  BY <1>3, <1>4 DEF OneInv, CurrentInv
<1>8. RightInv
  BY <1>2, <1>3, <1>4 DEF RightInv, Right, CoroutinesRight, AskedRight, AnsweredRight,
        OneRecord, AgreeRight, RecordsIn
<1>9. ScriptsInv
  BY <1>2, <1>3 DEF ScriptsInv
<1> QED  BY <1>1, <1>5, <1>6, <1>7, <1>8, <1>9 DEF PlayersInv

LEMMA PlayersStep == PlayersInv /\ [PlayerMgrNext]_playerMgrVars => PlayersInv'
<1> SUFFICES ASSUME PlayersInv, [PlayerMgrNext]_playerMgrVars PROVE PlayersInv'
  OBVIOUS
<1>1. CoreInv /\ UidInv /\ StoreInv /\ OneInv /\ CurrentInv /\ RightInv /\ ScriptsInv
  BY DEF PlayersInv
<1>2. CoreInv'
  BY <1>1, CoreStep
<1>3. CASE Starts
  <2>1. PICK kind, lib, acc, player, stage, listed :
            /\ Launched(New(kind, lib, acc, player), stage, listed, lua')
            /\ Turn(Len(lua.co) + 1) /\ store' = store
            /\ kind # "script" =>
                  /\ player = 0 \/ Has(acc, player)
                  /\ stage = "findBase" \/ (stage = "leave" /\ Brought(acc, player))
    BY <1>3 DEF Starts
  <2>2. UidInv' /\ StoreInv'
    BY <1>1, <2>1, StartUids
  <2>3. OneInv' /\ CurrentInv'
    BY <1>1, <2>1, StartSure
  <2>4. RightInv'
    BY <1>1, <2>1, StartRight
  <2>5. ScriptsInv'
    BY <1>1, <2>1, StartScripts
  <2> QED  BY <1>2, <2>2, <2>3, <2>4, <2>5 DEF PlayersInv
<1>4. CASE Still
  BY <1>1, <1>2, <1>4, StillUids, StillSure, StillRight, StillScripts DEF PlayersInv
<1>5. ASSUME NEW c, NEW a, GoesOn(c, a), store' = store PROVE PlayersInv'
  BY <1>1, <1>2, <1>5, GoesOnUids, GoesOnSure, GoesOnRight, GoesOnScripts DEF PlayersInv
<1>6. ASSUME NEW q, NEW a, Serves(q, a) PROVE PlayersInv'
  BY <1>1, <1>2, <1>6, ServesUids, ServesSure, ServesRight, ServesScripts DEF PlayersInv
<1> QED  BY <1>1, <1>3, <1>4, <1>5, <1>6, StepKinds

(* PlayersInv says of the accounts what PlayersRight does. *)
LEMMA PlayersMeans == PlayersInv => PlayersRight
<1> SUFFICES ASSUME PlayersInv PROVE PlayersRight
  OBVIOUS
<1>1. CoreInv /\ RightInv /\ ScriptsInv
  BY DEF PlayersInv
<1>2. \A acc : Records(acc) = RecordsIn(store, acc)
  BY DEF Records, RecordsIn
<1>3. \A acc \in AccountId : Sure(acc) => \A i, j \in Records(acc) : i = j
  BY <1>1, <1>2 DEF RightInv, Right, OneRecord, Sure
<1>4. ASSUME NEW c \in DOMAIN lua.co, lua.co[c].kind = "enter", lua.co[c].stage = "done",
             Sure(lua.co[c].acc)
      PROVE  /\ [acc |-> lua.co[c].acc, uid |-> lua.co[c].uid] \in Range(store.base)
             /\ lua.co[c].uid \in DOMAIN store.detail
  <2> DEFINE k == lua.co[c]
  <2>1. c \in Players(lua) /\ k.acc \in AccountId
    BY <1>1, <1>4 DEF Players, CoreInv, LuaInv, CoroutineOK
  <2>2. Stored(k, store)
    BY <1>1, <1>4, <2>1 DEF RightInv, Right, CoroutinesRight, WaitsRight, Sure
  <2>3. PICK i \in DOMAIN store.base : store.base[i].acc = k.acc /\ store.base[i].uid = k.uid
    BY <2>2 DEF Stored, Recorded, RecordsIn
  <2>4. store.base \in Seq(Player)
    BY <1>1 DEF CoreInv, ProxyInv, StoreType
  <2>5. store.base[i] = [acc |-> k.acc, uid |-> k.uid]
    <3>1. store.base[i] \in Player
      BY <2>4
    <3> QED  BY <2>3, <3>1 DEF Player
  <2>6. store.base[i] \in Range(store.base)
    BY DEF Range
  <2> QED  BY <2>2, <2>5, <2>6 DEF Stored
<1>5. ASSUME NEW c \in DOMAIN lua.co, lua.co[c].kind = "script", lua.co[c].told,
             Sure(lua.co[c].acc)
      PROVE  c \in DOMAIN store.rows /\ store.rows[c] = NRow
  <2>1. lua.co[c].acc = "none"
    BY <1>1, <1>5 DEF CoreInv, LuaInv, CoroutineOK
  <2> QED  BY <1>1, <1>5, <2>1 DEF ScriptsInv, Sure
<1>6. OnePlayer
  BY <1>3, <1>4, <1>5 DEF OnePlayer
<1>7. ASSUME NEW i \in DOMAIN store.base, Sure(store.base[i].acc), ~Busy(store.base[i].acc)
      PROVE  store.base[i].uid \in lua.players
                <=> store.base[i].uid \in DOMAIN store.detail /\ store.detail[store.base[i].uid]
  <2> DEFINE acc == store.base[i].acc
  <2>1. acc \in AccountId /\ i \in RecordsIn(store, acc)
    BY <1>1, RecordUid DEF CoreInv, ProxyInv, RecordsIn
  <2>2. Right(acc)
    BY <1>1, <1>7, <2>1 DEF RightInv, Sure
  <2>3. ~Turning(acc)
    BY <1>7 DEF Turning, Busy, Waiting, Ended
  <2> QED  BY <2>1, <2>2, <2>3 DEF Right, AgreeRight, Agrees
<1>8. CacheAgrees
  BY <1>7 DEF CacheAgrees
<1> QED  BY <1>6, <1>8 DEF PlayersRight

(* An account of which nothing went wrong and whose enters and leaves did   *)
(* not overlap has one player, who is stored when it is told to be in the   *)
(* game, and the cache agrees with the database when nothing is asked.      *)
THEOREM PlayersRightHolds == PlayerMgrSpec => []PlayersRight
<1>1. PlayerMgrSpec => []PlayersInv
  BY PlayersInit, PlayersStep, PTL DEF PlayerMgrSpec
<1> QED  BY <1>1, PlayersMeans, PTL
=============================================================================
