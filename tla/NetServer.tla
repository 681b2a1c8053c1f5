------------------------------ MODULE NetServer ------------------------------
(***************************************************************************)
(* A listening Net (net.cc), as NetModule uses it for messages with a head *)
(* and WSModule for WebSocket frames behind a handshake.  Everything runs  *)
(* on the main thread: UpdateClose at the start of a frame, then the       *)
(* callbacks of libevent.  The modules above are told of sockets that come *)
(* and go and of each message; they may close any socket at any time, also *)
(* in the middle of the messages of one read.                              *)
(*                                                                         *)
(* What a peer writes is a sequence of units <<k, part>>: two parts make   *)
(* up its k-th message, and a read takes any number of units.  On a        *)
(* WebSocket message 0 is the handshake.                                   *)
(***************************************************************************)
EXTENDS Integers, Sequences, FiniteSets

CONSTANTS
  Fd,              \* descriptors the kernel gives out
  MaxConnect,      \* mnMaxConnect
  MaxMessage,      \* bound: messages a peer writes
  MaxPeer,         \* bound: connections made
  MaxGone,         \* bound: times the end of one connection is told
  None

ASSUME FdAssumption == IsFiniteSet(Fd) /\ None \notin Fd
ASSUME BoundAssumption == {MaxConnect, MaxMessage, MaxPeer, MaxGone} \subseteq Nat

VARIABLES
  mbTCPStream,     \* WSModule's net, or NetModule's
  mmObject,        \* the object of each socket, or None
  mvRemoveObject,  \* sockets to close at the start of the next frame
  reading,         \* the socket whose messages are being told, or None
  taken,           \* has this read taken anything from the buffer?
  listening,       \* until Final, or until a text frame ends the process
  wire,            \* units of each socket on their way
  peer,            \* who is behind a socket: [id, left, next, kinds], or None
  session,         \* who the modules above know under a socket, or 0
  lost,            \* sockets accepted and then neither served nor closed
  told,            \* history: messages of a socket as they were taken, ends told
  cut,             \* history: was a frame left incomplete by a read?
  peers            \* number of connections so far

vars == <<mbTCPStream, mmObject, mvRemoveObject, reading, taken, listening, wire, peer,
          session, lost, told, cut, peers>>

(* What a message is.  A close frame and one DecodeFrame refuses have the  *)
(* same effect; "other" is a ping, a pong or a binary frame without a head *)
(* of a known length; "bad" is a handshake that is refused.                *)
Kind == {"binary", "text", "close", "other", "bad"}
First == IF mbTCPStream THEN 0 ELSE 1
Unit == (0 .. MaxMessage) \X {1, 2}
Object == [buff : Seq(Unit), ready : BOOLEAN, bNeedRemove : BOOLEAN]
Peer == [id : 1 .. MaxPeer, left : BOOLEAN, next : 0 .. MaxMessage + 1,
         kinds : [0 .. MaxMessage -> Kind]]

ASSUME NoneAssumption == None \notin Object \cup Peer

FlagsOK == {mbTCPStream, taken, listening} \subseteq BOOLEAN
ObjectsOK ==
  /\ mmObject \in [Fd -> Object \cup {None}]
  /\ mvRemoveObject \subseteq Fd
  /\ reading \in Fd \cup {None}
PeersOK ==
  /\ wire \in [Fd -> Seq(Unit)]
  /\ peer \in [Fd -> Peer \cup {None}]
  /\ peers \in 0 .. MaxPeer
  /\ lost \subseteq Fd
ToldOK ==
  /\ told \in [Fd -> [messages : Seq(0 .. MaxMessage), gone : 0 .. MaxGone]]
  /\ cut \in [Fd -> BOOLEAN]
  /\ session \in [Fd -> 0 .. MaxPeer]
(* An object has a peer, and those to be removed are marked.               *)
MarkedOK ==
  \A fd \in Fd : mmObject[fd] # None =>
    peer[fd] # None /\ (mmObject[fd].bNeedRemove <=> fd \in mvRemoveObject)
TypeOK == FlagsOK /\ ObjectsOK /\ PeersOK /\ ToldOK /\ MarkedOK

Untold == [messages |-> <<>>, gone |-> 0]

Init ==
  /\ mbTCPStream \in BOOLEAN
  /\ mmObject = [fd \in Fd |-> None]
  /\ mvRemoveObject = {}
  /\ reading = None
  /\ taken = FALSE
  /\ listening = TRUE
  /\ wire = [fd \in Fd |-> <<>>]
  /\ peer = [fd \in Fd |-> None]
  /\ session = [fd \in Fd |-> 0]
  /\ lost = {}
  /\ told = [fd \in Fd |-> Untold]
  /\ cut = [fd \in Fd |-> FALSE]
  /\ peers = 0

Open == {fd \in Fd : mmObject[fd] # None}

ReadableWhenMarked(fd) == mmObject[fd] # None                           \* mutant
Readable(fd) == mmObject[fd] # None /\ ~mmObject[fd].bNeedRemove

-----------------------------------------------------------------------------
(* The peers. *)

(* A peer writes its next message; on a WebSocket the handshake may be a   *)
(* bad one and a frame of any kind.  What it writes where nobody will read *)
(* again is left out.                                                      *)
Write(fd, kind) ==
  LET p == peer[fd]
  IN /\ Readable(fd)
     /\ p # None
     /\ ~p.left
     /\ p.next <= MaxMessage
     /\ kind # "binary" => mbTCPStream /\ (kind = "bad" <=> p.next = 0)
     /\ wire' = [wire EXCEPT ![fd] = @ \o << <<p.next, 1>>, <<p.next, 2>> >>]
     /\ peer' = [peer EXCEPT ![fd] = [@ EXCEPT !.next = p.next + 1, !.kinds[p.next] = kind]]
     /\ UNCHANGED <<mbTCPStream, listening, mmObject, mvRemoveObject, reading, taken,
                    session, lost, told, cut, peers>>

(* It leaves; what it wrote last may be lost.                              *)
Leave(fd, n) ==
  /\ peer[fd] # None
  /\ ~peer[fd].left
  /\ n \in {0, Len(wire[fd])}
  /\ wire' = [wire EXCEPT ![fd] = SubSeq(@, 1, n)]
  /\ peer' = [peer EXCEPT ![fd].left = TRUE]
  /\ UNCHANGED <<mbTCPStream, listening, mmObject, mvRemoveObject, reading, taken, session,
                 lost, told, cut, peers>>

-----------------------------------------------------------------------------
(* Net. *)

Full == Cardinality(Open) >= MaxConnect

(* CloseNetObject only marks; the socket is closed with the next frame.    *)
Marked(objects, fd) ==
  IF objects[fd] = None THEN objects ELSE [objects EXCEPT ![fd].bNeedRemove = TRUE]

CloseNetObject(fd) ==
  /\ mmObject[fd] # None
  /\ mmObject' = Marked(mmObject, fd)
  /\ mvRemoveObject' = mvRemoveObject \cup {fd}
  /\ session' = [session EXCEPT ![fd] = 0]
  /\ UNCHANGED <<mbTCPStream, listening, reading, taken, wire, peer, lost, told, cut,
                 peers>>

(* A connection is accepted under a descriptor that is free.  One too many *)
(* is left as it is: nobody closes it.                                     *)
Listener(fd) ==
  /\ listening
  /\ reading = None
  /\ peer[fd] = None
  /\ peers < MaxPeer
  /\ peers' = peers + 1
  /\ peer' = [peer EXCEPT ![fd] = [id |-> peers + 1, left |-> FALSE, next |-> First,
                                   kinds |-> [k \in 0 .. MaxMessage |-> "binary"]]]
  /\ IF mmObject[fd] # None
     THEN /\ mmObject' = Marked(mmObject, fd)
          /\ mvRemoveObject' = mvRemoveObject \cup {fd}
          /\ UNCHANGED <<session, lost, told>>
     ELSE IF Full
     THEN /\ lost' = lost \cup {fd}
          /\ UNCHANGED <<mmObject, mvRemoveObject, session, told>>
     ELSE /\ mmObject' = [mmObject EXCEPT ![fd] =
                            [buff |-> <<>>, ready |-> ~mbTCPStream, bNeedRemove |-> FALSE]]
          /\ told' = [told EXCEPT ![fd] = Untold]
          /\ session' = [session EXCEPT ![fd] = peers + 1]
          /\ UNCHANGED <<mvRemoveObject, lost>>
  /\ cut' = [cut EXCEPT ![fd] = FALSE]
  /\ UNCHANGED <<mbTCPStream, listening, reading, taken, wire>>

ReadCb(fd, n) ==
  /\ reading = None
  /\ Readable(fd)
  /\ n \in 1 .. Len(wire[fd])
  /\ mmObject' = [mmObject EXCEPT ![fd].buff = @ \o SubSeq(wire[fd], 1, n)]
  /\ wire' = [wire EXCEPT ![fd] = SubSeq(@, n + 1, Len(@))]
  /\ reading' = fd
  /\ taken' = FALSE
  /\ UNCHANGED <<mbTCPStream, listening, mvRemoveObject, peer, session, lost, told, cut,
                 peers>>

(* A whole message at the front of the buffer.                             *)
Whole(buff) == Len(buff) >= 2 /\ buff[1][2] = 1

NextMessage(fd) == Whole(mmObject[fd].buff)

RestOfRead(buff) == <<>>  \* mutant: len, not the message
Rest(buff) == SubSeq(buff, 3, Len(buff))

(* A message or a frame goes to the functions that were added for its id,  *)
(* or if there are none to those added for all; an "other" frame to nobody.*)
OnReceiveNetPack(fd, k) == told' = [told EXCEPT ![fd].messages = Append(@, k)]

(* Dismantle: a message is told, also of a socket that was closed by what  *)
(* was told before it.  So is a frame.                                     *)
Dispatch ==
  LET fd == reading
      o == mmObject[fd]
      k == o.buff[1][1]
  IN /\ reading # None
     /\ NextMessage(fd)
     /\ o.ready
     /\ peer[fd].kinds[k] \in {"binary", "other"}
     /\ OnReceiveNetPack(fd, k)
     /\ mmObject' = [mmObject EXCEPT ![fd].buff = Rest(@)]
     /\ taken' = TRUE
     /\ UNCHANGED <<mbTCPStream, listening, mvRemoveObject, reading, wire, peer, session,
                    lost, cut, peers>>

-----------------------------------------------------------------------------
(* WSModule. *)

HandShake ==
  LET fd == reading
      o == mmObject[fd]
  IN /\ reading # None
     /\ ~o.ready
     /\ NextMessage(fd)
     /\ o.buff[1][1] = 0
     /\ peer[fd].kinds[0] = "binary"
     /\ mmObject' = [mmObject EXCEPT ![fd] = [o EXCEPT !.buff = Rest(o.buff), !.ready = TRUE]]
     /\ taken' = TRUE
     /\ UNCHANGED <<mbTCPStream, listening, mvRemoveObject, reading, wire, peer, session,
                    lost, told, cut, peers>>

(* The end of a head that is no handshake, or of which the begin was lost: *)
(* it is answered with an error and everything read is thrown away.  The   *)
(* socket stays open and is never ready.                                   *)
RefuseHandShake ==
  LET fd == reading
      o == mmObject[fd]
  IN /\ reading # None
     /\ ~o.ready
     /\ \E i \in DOMAIN o.buff : o.buff[i] = <<0, 2>>
     /\ NextMessage(fd) => peer[fd].kinds[0] # "binary"
     /\ mmObject' = [mmObject EXCEPT ![fd].buff = <<>>]
     /\ cut' = [cut EXCEPT ![fd] = TRUE]
     /\ reading' = None
     /\ UNCHANGED <<mbTCPStream, listening, mvRemoveObject, taken, wire, peer, session,
                    lost, told, peers>>

(* Everybody who listens is told of the end and lets go of the session.    *)
OnSocketNetEvent(fd) ==
  /\ told[fd].gone < MaxGone
  /\ told' = [told EXCEPT ![fd].gone = @ + 1]
  /\ session' = [session EXCEPT ![fd] = 0]

(* A frame that closes, a frame that is refused, or what is no frame.      *)
RefusedFrame(fd) ==
  LET buff == mmObject[fd].buff
  IN /\ mmObject[fd].ready
     /\ buff # <<>>
     /\ IF Whole(buff) THEN peer[fd].kinds[buff[1][1]] = "close" ELSE buff[1][2] = 2

(* No end of a head: what is read may be more than HANDSHAKE_MAX_SIZE.     *)
NoHandShake(fd) ==
  ~mmObject[fd].ready /\ \A i \in DOMAIN mmObject[fd].buff : mmObject[fd].buff[i] # <<0, 2>>

OnError ==
  LET fd == reading
  IN /\ reading # None
     /\ mbTCPStream
     /\ RefusedFrame(fd) \/ NoHandShake(fd)
     /\ OnSocketNetEvent(fd)
     /\ mmObject' = Marked(mmObject, fd)
     /\ mvRemoveObject' = mvRemoveObject \cup {fd}
     /\ reading' = None
     /\ UNCHANGED <<mbTCPStream, listening, taken, wire, peer, lost, cut, peers>>

(* No more whole message.  Net keeps what is left of a message with a head.*)
(* Of a stream it removes as much as there was when the read began, unless *)
(* so much is no longer there: what is left behind a frame is kept, what   *)
(* a read leaves of a frame it found first is not.                         *)
EndRead ==
  LET fd == reading
      left == mmObject[fd].buff
      dropped == mbTCPStream /\ ~taken
  IN /\ reading # None
     /\ (mmObject[fd].ready /\ ~NextMessage(fd)) \/ NoHandShake(fd)
     /\ mmObject' = [mmObject EXCEPT ![fd].buff = IF dropped THEN <<>> ELSE @]
     /\ cut' = [cut EXCEPT ![fd] = @ \/ (dropped /\ left # <<>>)]
     /\ reading' = None
     /\ UNCHANGED <<mbTCPStream, listening, mvRemoveObject, taken, wire, peer, session,
                    lost, told, peers>>

-----------------------------------------------------------------------------
(* What the modules above send: who gets it.  A head or a frame goes in    *)
(* front of it and then it is written to the object under the descriptor;  *)
(* what is for all is not written to those to be closed.                   *)
SendData(fd) == IF mmObject[fd] = None THEN 0 ELSE peer[fd].id
SendMsg(fd) == SendData(fd)
SendPBToNode(fd) == SendMsg(fd)
SendFrame(fd) == SendData(fd)

SendDataToEach == {SendData(fd) : fd \in Open}                           \* mutant
SendDataToAllClient == {SendData(fd) : fd \in {f \in Open : ~mmObject[f].bNeedRemove}}

-----------------------------------------------------------------------------
GoneOnlyTells(fd) ==  \* mutant: not closed
  /\ reading = None
  /\ mmObject[fd] # None
  /\ peer[fd].left
  /\ wire[fd] = <<>> \/ mmObject[fd].bNeedRemove
  /\ OnSocketNetEvent(fd)
  /\ UNCHANGED <<mbTCPStream, mmObject, mvRemoveObject, listening, reading, taken, wire,
                 peer, lost, cut, peers>>

(* conn_eventcb: the peer is gone and all it wrote was read.  libevent may *)
(* say so for reading and again for writing, also of a socket that is      *)
(* marked already.                                                         *)
Gone(fd) ==
  /\ reading = None
  /\ mmObject[fd] # None
  /\ peer[fd].left
  /\ wire[fd] = <<>> \/ mmObject[fd].bNeedRemove
  /\ OnSocketNetEvent(fd)
  /\ mmObject' = Marked(mmObject, fd)
  /\ mvRemoveObject' = mvRemoveObject \cup {fd}
  /\ UNCHANGED <<mbTCPStream, listening, reading, taken, wire, peer, lost, cut, peers>>

(* CloseObject of every descriptor of a set: the kernel has it back.       *)
Close(closed) ==
  /\ mmObject' = [fd \in Fd |-> IF fd \in closed THEN None ELSE mmObject[fd]]
  /\ peer' = [fd \in Fd |-> IF fd \in closed THEN None ELSE peer[fd]]
  /\ wire' = [fd \in Fd |-> IF fd \in closed THEN <<>> ELSE wire[fd]]
  /\ mvRemoveObject' = {}

UpdateClose ==
  /\ reading = None
  /\ mvRemoveObject # {}
  /\ Close(mvRemoveObject)
  /\ UNCHANGED <<mbTCPStream, listening, reading, taken, session, lost, told, cut, peers>>

CloseSocketAll == Close(Open)

(* DecodeFrame hands a text frame to OnReceiveNetPack with the id 0, which *)
(* is for bytes that were read: the frame, still at the front of the       *)
(* buffer, is decoded again, and so on until the stack is used up.  The    *)
(* process is gone, its sockets with it, and nobody is told.               *)
TextFrame ==
  LET fd == reading
  IN /\ reading # None
     /\ mmObject[fd].ready
     /\ NextMessage(fd)
     /\ peer[fd].kinds[mmObject[fd].buff[1][1]] = "text"
     /\ Close(Open)
     /\ reading' = None
     /\ listening' = FALSE
     /\ UNCHANGED <<mbTCPStream, taken, session, lost, told, cut, peers>>

Final ==
  /\ reading = None
  /\ listening
  /\ CloseSocketAll
  /\ listening' = FALSE
  /\ UNCHANGED <<mbTCPStream, reading, taken, session, lost, told, cut, peers>>

Next ==
  \/ \E fd \in Fd, kind \in Kind : Write(fd, kind)
  \/ \E fd \in Fd, n \in 0 .. 2 * MaxMessage + 2 : Leave(fd, n) \/ ReadCb(fd, n)
  \/ \E fd \in Fd : CloseNetObject(fd) \/ Listener(fd) \/ Gone(fd)
  \/ Dispatch \/ HandShake \/ RefuseHandShake \/ OnError \/ TextFrame \/ EndRead
  \/ UpdateClose \/ Final

(* A frame runs every 10 ms or so and serves every socket that has         *)
(* something to read or has ended.                                         *)
Fairness ==
  /\ WF_vars(UpdateClose)
  /\ WF_vars(Dispatch \/ HandShake \/ RefuseHandShake \/ OnError \/ TextFrame \/ EndRead)
  /\ \A fd \in Fd : WF_vars(Gone(fd)) /\ WF_vars(ReadCb(fd, Len(wire[fd])))

Spec == Init /\ [][Next]_vars /\ Fairness

-----------------------------------------------------------------------------
(* Correctness. *)

(* What is taken and told of a connection is what its peer wrote, each     *)
(* message once and in order, however the units were read; on a WebSocket  *)
(* as long as no read left the begin of a frame alone in the buffer.  A    *)
(* text frame is never told: with it everything ends.                      *)
ToldInOrder ==
  \A fd \in Open : ~cut[fd] =>
    told[fd].messages = [i \in 1 .. Len(told[fd].messages) |-> i]

(* There are never more objects than mnMaxConnect.                         *)
BoundedObjects == Cardinality(Open) <= MaxConnect

(* A module that holds a session sends to the peer it got the session for, *)
(* and to no later one under the same descriptor, by whatever call; what   *)
(* it sends to all reaches the peers of its sessions and nobody it was     *)
(* told is gone or has closed itself.  Until Final or a text frame, of     *)
(* which nobody is told.                                                   *)
SessionsTrue ==
  listening =>
    /\ \A fd \in Fd : session[fd] # 0 =>
         {IF mbTCPStream THEN SendFrame(fd) ELSE SendPBToNode(fd)} = {session[fd]}
    /\ SendDataToAllClient = {session[fd] : fd \in Fd} \ {0}

(* The sockets and the sessions are what the modules above take them for.  *)
SocketsTrue == TypeOK /\ BoundedObjects /\ SessionsTrue

(* A read leaves no whole message behind: each is told with the read that  *)
(* completes it and does not wait for the next one.                        *)
NothingWaits ==
  \A fd \in Open :
    reading # fd /\ mmObject[fd].ready /\ ~mmObject[fd].bNeedRemove =>
      ~Whole(mmObject[fd].buff)

(* Each message is told once, in order and at once.                        *)
MessagesTold == ToldInOrder /\ NothingWaits

(* Once the modules above were told that a connection has ended they hear  *)
(* no further message of it: NetModule's users have let go of its session. *)
QuietAfterGone ==
  [][\A fd \in Fd : told[fd].gone > 0 /\ told'[fd].gone > 0 =>
        told'[fd].messages = told[fd].messages]_vars

(* A descriptor that is in mmObject is marked for removal at the latest    *)
(* when its peer is gone, and freed in the frame after that.               *)
LeftIsFreed == \A fd \in Fd : (peer[fd] # None /\ peer[fd].left /\ mmObject[fd] # None)
                                  ~> mmObject[fd] = None

=============================================================================
