--------------------------- MODULE NetServerProofs ---------------------------
(***************************************************************************)
(* Proofs about NetServer, for any descriptors, limits and messages: a     *)
(* session means one peer, nobody hears of a connection after its end, and *)
(* what a peer writes is told once, in order and with the read that        *)
(* completes it.                                                           *)
(***************************************************************************)
EXTENDS NetServer, SequenceTheorems, FiniteSetTheorems, TLAPS

Served(fd) == mmObject[fd] # None /\ ~mmObject[fd].bNeedRemove

(* What is read is an object of whose end nobody was told; so is what is   *)
(* served, and exactly that has a session.                                 *)
ReadInv == reading # None => mmObject[reading] # None /\ told[reading].gone = 0
GoneInv == \A fd \in Fd : Served(fd) => told[fd].gone = 0
SessionInv ==
  listening => \A fd \in Fd : session[fd] = IF Served(fd) THEN peer[fd].id ELSE 0

(* What is to be closed is there.                                          *)
RemoveInv == \A fd \in Fd : fd \in mvRemoveObject => mmObject[fd] # None

SockInv == MarkedOK /\ RemoveInv /\ ReadInv /\ GoneInv /\ SessionInv /\ BoundedObjects

IInv == TypeOK /\ SockInv

-----------------------------------------------------------------------------

LEMMA BoundFacts ==
  /\ MaxConnect \in Nat /\ MaxMessage \in Nat /\ MaxPeer \in Nat /\ MaxGone \in Nat
  /\ IsFiniteSet(Fd) /\ None \notin Fd /\ None \notin Object /\ None \notin Peer
BY FdAssumption, BoundAssumption, NoneAssumption

(* What the actions do to an object and a peer.                            *)
LEMMA RecordFacts ==
  ASSUME NEW B, NEW true \in B
  PROVE  /\ \A o \in [buff : Seq(Unit), ready : B, bNeedRemove : B] :
              /\ o.buff \in Seq(Unit)
              /\ [o EXCEPT !.bNeedRemove = true] \in [buff : Seq(Unit), ready : B, bNeedRemove : B]
              /\ [o EXCEPT !.bNeedRemove = true].bNeedRemove = true
              /\ \A b \in Seq(Unit) :
                   /\ [o EXCEPT !.buff = b] \in [buff : Seq(Unit), ready : B, bNeedRemove : B]
                   /\ [o EXCEPT !.buff = b].bNeedRemove = o.bNeedRemove
                   /\ [o EXCEPT !.buff = b, !.ready = true]
                        \in [buff : Seq(Unit), ready : B, bNeedRemove : B]
                   /\ [o EXCEPT !.buff = b, !.ready = true].bNeedRemove = o.bNeedRemove
OBVIOUS

LEMMA ObjectFacts ==
  \A o \in Object :
    /\ o.buff \in Seq(Unit)
    /\ [o EXCEPT !.bNeedRemove = TRUE] \in Object
    /\ [o EXCEPT !.bNeedRemove = TRUE].bNeedRemove = TRUE
    /\ \A b \in Seq(Unit) :
         /\ [o EXCEPT !.buff = b] \in Object
         /\ [o EXCEPT !.buff = b].bNeedRemove = o.bNeedRemove
         /\ [o EXCEPT !.buff = b, !.ready = TRUE] \in Object
         /\ [o EXCEPT !.buff = b, !.ready = TRUE].bNeedRemove = o.bNeedRemove
BY RecordFacts, Zenon DEF Object

(* Objects that change but in their mark, and peers but in their name.     *)
LEMMA SockKept ==
  ASSUME SockInv, UNCHANGED <<mvRemoveObject, session, listening>>,
         \A fd \in Fd : mmObject'[fd] # None <=> mmObject[fd] # None,
         \A fd \in Fd : mmObject[fd] # None =>
           (mmObject'[fd].bNeedRemove <=> mmObject[fd].bNeedRemove),
         \A fd \in Fd : peer[fd] # None => peer'[fd] # None /\ peer'[fd].id = peer[fd].id,
         \A fd \in Fd : told'[fd].gone = told[fd].gone,
         reading \in Fd \cup {None}, reading' \in Fd \cup {None},
         reading' # None => reading' = reading \/ Served(reading')
  PROVE  SockInv'
<1>1. MarkedOK' /\ RemoveInv'
  BY DEF SockInv, MarkedOK, RemoveInv
<1>2. \A fd \in Fd : Served(fd)' <=> Served(fd)
  BY DEF Served
<1>3. ReadInv'
  BY DEF SockInv, ReadInv, GoneInv, Served
<1>4. GoneInv'
  BY <1>2 DEF SockInv, GoneInv
<1>5. \A fd \in Fd : Served(fd) => peer[fd] # None
  BY DEF SockInv, MarkedOK, Served
<1>6. SessionInv'
  BY <1>2, <1>5 DEF SockInv, SessionInv
<1>7. Open' = Open
  BY DEF Open
<1>8. BoundedObjects'
  BY <1>7 DEF SockInv, BoundedObjects
<1>. QED BY <1>1, <1>3, <1>4, <1>6, <1>8 DEF SockInv

(* A socket is marked, and nobody has a session of it.                     *)
LEMMA SockMarked ==
  ASSUME IInv, NEW fd \in Fd, mmObject[fd] # None,
         mmObject' = Marked(mmObject, fd), mvRemoveObject' = mvRemoveObject \cup {fd},
         session' = [session EXCEPT ![fd] = 0], UNCHANGED <<listening, peer>>,
         \A f \in Fd \ {fd} : told'[f].gone = told[f].gone,
         reading' = None \/ (reading' = reading /\ told' = told)
  PROVE  ObjectsOK' /\ SockInv'
<1>1. /\ mmObject \in [Fd -> Object \cup {None}] /\ mvRemoveObject \subseteq Fd
      /\ reading \in Fd \cup {None}
  BY DEF IInv, TypeOK, ObjectsOK
<1>2. mmObject[fd] \in Object
  BY <1>1
<1>3. PICK o \in Object : /\ mmObject' = [mmObject EXCEPT ![fd] = o]
                          /\ o.bNeedRemove = TRUE
  <2>1. mmObject' = [mmObject EXCEPT ![fd] = [mmObject[fd] EXCEPT !.bNeedRemove = TRUE]]
    BY DEF Marked
  <2>. QED BY <1>2, <2>1, ObjectFacts, Zenon
<1>4. /\ mmObject'[fd] = o /\ o # None
      /\ \A f \in Fd \ {fd} : mmObject'[f] = mmObject[f]
  BY <1>1, <1>3, BoundFacts
<1>5. ObjectsOK'
  BY <1>1, <1>3 DEF ObjectsOK
<1>6. MarkedOK' /\ RemoveInv'
  BY <1>3, <1>4 DEF IInv, SockInv, MarkedOK, RemoveInv
<1>7. ~Served(fd)' /\ \A f \in Fd \ {fd} : Served(f)' <=> Served(f)
  BY <1>3, <1>4 DEF Served
<1>8. ReadInv'
  BY <1>1, <1>4 DEF IInv, SockInv, ReadInv
<1>9. GoneInv'
  BY <1>7 DEF IInv, SockInv, GoneInv
<1>10. SessionInv'
  BY <1>7 DEF IInv, SockInv, SessionInv, TypeOK, ToldOK
<1>11. Open' = Open
  BY <1>4 DEF Open
<1>12. BoundedObjects'
  BY <1>11 DEF IInv, SockInv, BoundedObjects
<1>. QED BY <1>5, <1>6, <1>8, <1>9, <1>10, <1>12 DEF SockInv

(* Sockets are closed, those whose objects were marked or, with the end,   *)
(* all.                                                                    *)
LEMMA SockClosed ==
  ASSUME IInv, NEW closed \in SUBSET Fd, Close(closed), reading' = None,
         UNCHANGED <<session, told, lost, peers>>,
         \/ closed = mvRemoveObject /\ listening' = listening
         \/ closed = Open /\ listening' = FALSE
  PROVE  ObjectsOK' /\ PeersOK' /\ SockInv'
<1>1. /\ mmObject \in [Fd -> Object \cup {None}] /\ wire \in [Fd -> Seq(Unit)]
      /\ peer \in [Fd -> Peer \cup {None}] /\ <<>> \in Seq(Unit)
  BY EmptySeq DEF IInv, TypeOK, ObjectsOK, PeersOK
<1>2. /\ \A fd \in closed : mmObject'[fd] = None
      /\ \A fd \in Fd \ closed : mmObject'[fd] = mmObject[fd] /\ peer'[fd] = peer[fd]
      /\ mmObject' \in [Fd -> Object \cup {None}] /\ wire' \in [Fd -> Seq(Unit)]
      /\ peer' \in [Fd -> Peer \cup {None}] /\ mvRemoveObject' = {}
  BY <1>1 DEF Close
<1>3. ObjectsOK' /\ PeersOK'
  BY <1>2 DEF IInv, TypeOK, ObjectsOK, PeersOK
<1>4. \A fd \in Fd \ closed : mmObject[fd] # None => Served(fd) /\ peer[fd] # None
  BY DEF IInv, SockInv, MarkedOK, Served, Open
<1>5. MarkedOK' /\ RemoveInv'
  BY <1>2, <1>4 DEF MarkedOK, RemoveInv, Served
<1>6. ReadInv'
  BY DEF ReadInv
<1>7. \A fd \in Fd : Served(fd)' <=> Served(fd) /\ fd \notin closed
  BY <1>2 DEF Served
<1>8. GoneInv'
  BY <1>7 DEF IInv, SockInv, GoneInv
<1>9. SessionInv'
  <2>. SUFFICES ASSUME listening', NEW fd \in Fd
                PROVE  session'[fd] = IF Served(fd)' THEN peer'[fd].id ELSE 0
    BY DEF SessionInv
  <2>1. closed = mvRemoveObject /\ listening
    OBVIOUS
  <2>2. fd \in closed => ~Served(fd)
    BY <2>1 DEF IInv, SockInv, MarkedOK, Served
  <2>3. session[fd] = IF Served(fd) THEN peer[fd].id ELSE 0
    BY <2>1 DEF IInv, SockInv, SessionInv
  <2>. QED BY <1>2, <1>7, <2>2, <2>3
<1>10. Open' \subseteq Open /\ IsFiniteSet(Open) /\ IsFiniteSet(Open')
  <2>1. Open' \subseteq Open /\ Open \subseteq Fd
    BY <1>2 DEF Open
  <2>. QED BY <2>1, BoundFacts, FS_Subset
<1>11. BoundedObjects'
  BY <1>10, BoundFacts, FS_Subset, FS_CardinalityType DEF IInv, SockInv, BoundedObjects
<1>. QED BY <1>3, <1>5, <1>6, <1>8, <1>9, <1>11 DEF SockInv

-----------------------------------------------------------------------------

LEMMA InitIInv == Init => IInv
<1>. SUFFICES ASSUME Init PROVE IInv
  OBVIOUS
<1>. USE DEF Init
<1>1. FlagsOK /\ ObjectsOK
  BY DEF FlagsOK, ObjectsOK
<1>2. PeersOK
  BY BoundFacts, EmptySeq DEF PeersOK
<1>3. Untold \in [messages : Seq(0 .. MaxMessage), gone : 0 .. MaxGone] /\ 0 \in 0 .. MaxPeer
  BY BoundFacts, EmptySeq DEF Untold
<1>4. ToldOK
  BY <1>3 DEF ToldOK
<1>5. \A fd \in Fd : mmObject[fd] = None
  OBVIOUS
<1>6. MarkedOK /\ RemoveInv /\ ReadInv /\ GoneInv /\ SessionInv
  BY <1>5 DEF MarkedOK, RemoveInv, ReadInv, GoneInv, SessionInv, Served
<1>7. Open = {}
  BY <1>5 DEF Open
<1>8. BoundedObjects
  BY <1>7, FS_EmptySet, BoundFacts DEF BoundedObjects
<1>. QED BY <1>1, <1>2, <1>4, <1>6, <1>8 DEF IInv, TypeOK, SockInv

(* The peers change nothing of the sockets.                                *)
LEMMA PeerStep ==
  ASSUME IInv, NEW fd \in Fd, peer[fd] # None,
         NEW p \in Peer, p.id = peer[fd].id, NEW w \in Seq(Unit),
         peer' = [peer EXCEPT ![fd] = p], wire' = [wire EXCEPT ![fd] = w],
         UNCHANGED <<mbTCPStream, listening, mmObject, mvRemoveObject, reading, taken,
                     session, lost, told, cut, peers>>
  PROVE  IInv'
<1>1. peer \in [Fd -> Peer \cup {None}] /\ wire \in [Fd -> Seq(Unit)]
  BY DEF IInv, TypeOK, PeersOK
<1>2. /\ peer'[fd] = p /\ p # None /\ \A f \in Fd \ {fd} : peer'[f] = peer[f]
      /\ peer' \in [Fd -> Peer \cup {None}] /\ wire' \in [Fd -> Seq(Unit)]
  BY <1>1, BoundFacts
<1>3. PeersOK'
  BY <1>2 DEF IInv, TypeOK, PeersOK
<1>4. FlagsOK' /\ ObjectsOK' /\ ToldOK'
  BY DEF IInv, TypeOK, FlagsOK, ObjectsOK, ToldOK
<1>5. SockInv'
  <2>1. \A f \in Fd : peer[f] # None => peer'[f] # None /\ peer'[f].id = peer[f].id
    BY <1>2
  <2>2. reading \in Fd \cup {None}
    BY DEF IInv, TypeOK, ObjectsOK
  <2>. QED BY <2>1, <2>2, SockKept DEF IInv
<1>. QED BY <1>3, <1>4, <1>5 DEF IInv, TypeOK, SockInv

LEMMA PeerFacts ==
  ASSUME NEW p \in Peer
  PROVE  /\ p.id \in 1 .. MaxPeer /\ p.next \in 0 .. MaxMessage + 1
         /\ [p EXCEPT !.left = TRUE] \in Peer /\ [p EXCEPT !.left = TRUE].id = p.id
         /\ p.next <= MaxMessage => \A kind \in Kind :
              /\ [p EXCEPT !.next = p.next + 1, !.kinds[p.next] = kind] \in Peer
              /\ [p EXCEPT !.next = p.next + 1, !.kinds[p.next] = kind].id = p.id
<1>1. /\ p.id \in 1 .. MaxPeer /\ p.left \in BOOLEAN /\ p.next \in 0 .. MaxMessage + 1
      /\ p.kinds \in [0 .. MaxMessage -> Kind]
      /\ p = [id |-> p.id, left |-> p.left, next |-> p.next, kinds |-> p.kinds]
  BY Zenon DEF Peer
<1>2. [p EXCEPT !.left = TRUE] \in Peer /\ [p EXCEPT !.left = TRUE].id = p.id
  BY Zenon DEF Peer
<1>3. ASSUME p.next <= MaxMessage, NEW kind \in Kind
      PROVE  /\ [p EXCEPT !.next = p.next + 1, !.kinds[p.next] = kind] \in Peer
             /\ [p EXCEPT !.next = p.next + 1, !.kinds[p.next] = kind].id = p.id
  <2>1. p.next + 1 \in 0 .. MaxMessage + 1
    BY <1>1, <1>3, BoundFacts
  <2>2. [p.kinds EXCEPT ![p.next] = kind] \in [0 .. MaxMessage -> Kind]
    BY <1>1, <1>3
  <2>. QED BY <1>1, <2>1, <2>2, Zenon DEF Peer
<1>. QED BY <1>1, <1>2, <1>3

LEMMA WriteIInv == ASSUME IInv, NEW fd \in Fd, NEW kind \in Kind, Write(fd, kind) PROVE IInv'
<1>1. peer[fd] \in Peer /\ wire[fd] \in Seq(Unit)
  BY DEF Write, IInv, TypeOK, PeersOK
<1>2. peer[fd].next \in 0 .. MaxMessage
  <2>1. peer[fd].next \in 0 .. MaxMessage + 1
    BY <1>1, PeerFacts, Zenon
  <2>2. peer[fd].next <= MaxMessage
    BY DEF Write
  <2>. QED BY <2>1, <2>2, BoundFacts
<1>. DEFINE p == [peer[fd] EXCEPT !.next = peer[fd].next + 1, !.kinds[peer[fd].next] = kind]
            u == << <<peer[fd].next, 1>>, <<peer[fd].next, 2>> >>
<1>3. p \in Peer /\ p.id = peer[fd].id
  <2>1. peer[fd].next <= MaxMessage
    BY <1>2, BoundFacts
  <2>. QED BY <1>1, <2>1, PeerFacts, Zenon
<1>4. wire[fd] \o u \in Seq(Unit)
  <2>1. u \in Seq(Unit)
    BY <1>2 DEF Unit
  <2>. QED BY <1>1, <2>1, ConcatProperties
<1>5. /\ peer' = [peer EXCEPT ![fd] = p] /\ wire' = [wire EXCEPT ![fd] = wire[fd] \o u]
      /\ peer[fd] # None
      /\ UNCHANGED <<mbTCPStream, listening, mmObject, mvRemoveObject, reading, taken,
                     session, lost, told, cut, peers>>
  BY Zenon DEF Write
<1>. HIDE DEF p, u
<1>. QED BY <1>3, <1>4, <1>5, PeerStep

LEMMA LeaveIInv == ASSUME IInv, NEW fd \in Fd, NEW n \in Nat, Leave(fd, n) PROVE IInv'
<1>1. peer[fd] \in Peer /\ wire[fd] \in Seq(Unit)
  BY DEF Leave, IInv, TypeOK, PeersOK
<1>2. SubSeq(wire[fd], 1, n) \in Seq(Unit)
  <2>1. Len(wire[fd]) \in Nat /\ n <= Len(wire[fd])
    BY <1>1, LenProperties DEF Leave
  <2>2. \A i \in 1 .. n : wire[fd][i] \in Unit
    BY <1>1, <2>1, ElementOfSeq
  <2>. QED BY <2>2, SubSeqProperties
<1>3. /\ peer' = [peer EXCEPT ![fd] = [peer[fd] EXCEPT !.left = TRUE]]
      /\ wire' = [wire EXCEPT ![fd] = SubSeq(wire[fd], 1, n)]
      /\ peer[fd] # None
      /\ UNCHANGED <<mbTCPStream, listening, mmObject, mvRemoveObject, reading, taken,
                     session, lost, told, cut, peers>>
  BY Zenon DEF Leave
<1>. QED BY <1>1, <1>2, <1>3, PeerFacts, PeerStep

-----------------------------------------------------------------------------
(* Reading changes the buffer of one object. *)

LEMMA ObjectStep ==
  ASSUME IInv, NEW fd \in Fd, mmObject[fd] # None,
         NEW o \in Object, o.bNeedRemove = mmObject[fd].bNeedRemove,
         mmObject' = [mmObject EXCEPT ![fd] = o],
         UNCHANGED <<mbTCPStream, listening, mvRemoveObject, peer, session, lost, peers>>,
         taken' \in BOOLEAN, wire' \in [Fd -> Seq(Unit)], cut' \in [Fd -> BOOLEAN],
         told' \in [Fd -> [messages : Seq(0 .. MaxMessage), gone : 0 .. MaxGone]],
         \A f \in Fd : told'[f].gone = told[f].gone,
         reading' \in {reading, None} \/ (reading' = fd /\ Served(fd))
  PROVE  IInv'
<1>1. mmObject \in [Fd -> Object \cup {None}] /\ reading \in Fd \cup {None}
  BY DEF IInv, TypeOK, ObjectsOK
<1>2. mmObject'[fd] = o /\ o # None /\ \A f \in Fd \ {fd} : mmObject'[f] = mmObject[f]
  BY <1>1, BoundFacts
<1>3. ObjectsOK'
  BY <1>1 DEF IInv, TypeOK, ObjectsOK
<1>4. FlagsOK' /\ PeersOK' /\ ToldOK'
  BY DEF IInv, TypeOK, FlagsOK, PeersOK, ToldOK
<1>5. SockInv'
  <2>1. /\ \A f \in Fd : mmObject'[f] # None <=> mmObject[f] # None
        /\ \A f \in Fd : mmObject[f] # None =>
             (mmObject'[f].bNeedRemove <=> mmObject[f].bNeedRemove)
    BY <1>2
  <2>2. reading' \in Fd \cup {None} /\ (reading' # None => reading' = reading \/ Served(reading'))
    BY <1>1
  <2>. QED BY <1>1, <2>1, <2>2, SockKept DEF IInv
<1>. QED BY <1>3, <1>4, <1>5 DEF IInv, TypeOK, SockInv

LEMMA StateFacts ==
  ASSUME IInv
  PROVE  /\ mmObject \in [Fd -> Object \cup {None}] /\ wire \in [Fd -> Seq(Unit)]
         /\ cut \in [Fd -> BOOLEAN] /\ taken \in BOOLEAN /\ peer \in [Fd -> Peer \cup {None}]
         /\ told \in [Fd -> [messages : Seq(0 .. MaxMessage), gone : 0 .. MaxGone]]
         /\ session \in [Fd -> 0 .. MaxPeer]
         /\ reading # None => reading \in Fd /\ mmObject[reading] \in Object
BY DEF IInv, TypeOK, FlagsOK, ObjectsOK, PeersOK, ToldOK, SockInv, ReadInv

(* Parts of what is there.                                                 *)
LEMMA PartFacts ==
  ASSUME NEW s \in Seq(Unit), NEW m \in Int, m >= 1
  PROVE  /\ \A n \in 0 .. Len(s) : SubSeq(s, m, n) \in Seq(Unit)
         /\ SubSeq(s, m, Len(s)) \in Seq(Unit)
<1>1. Len(s) \in Nat
  BY LenProperties
<1>2. ASSUME NEW n \in 0 .. Len(s) PROVE SubSeq(s, m, n) \in Seq(Unit)
  <2>1. \A i \in m .. n : s[i] \in Unit
    BY <1>1, ElementOfSeq
  <2>. QED BY <2>1, <1>1, SubSeqProperties
<1>. QED BY <1>1, <1>2

LEMMA ReadCbIInv == ASSUME IInv, NEW fd \in Fd, NEW n \in Nat, ReadCb(fd, n) PROVE IInv'
<1>1. Served(fd) /\ mmObject[fd] \in Object /\ mmObject[fd].buff \in Seq(Unit)
  BY StateFacts, ObjectFacts DEF ReadCb, Readable, Served
<1>2. wire[fd] \in Seq(Unit) /\ n \in 0 .. Len(wire[fd]) /\ n + 1 \in Int /\ n + 1 >= 1
  BY StateFacts DEF ReadCb
<1>3. SubSeq(wire[fd], 1, n) \in Seq(Unit) /\ SubSeq(wire[fd], n + 1, Len(wire[fd])) \in Seq(Unit)
  BY <1>2, PartFacts
<1>4. PICK b \in Seq(Unit) : b = mmObject[fd].buff \o SubSeq(wire[fd], 1, n)
  BY <1>1, <1>3, ConcatProperties
<1>5. PICK o \in Object : o = [mmObject[fd] EXCEPT !.buff = b] /\ o.bNeedRemove = mmObject[fd].bNeedRemove
  BY <1>1, <1>4, ObjectFacts, Zenon
<1>6. /\ mmObject' = [mmObject EXCEPT ![fd] = o]
      /\ wire' = [wire EXCEPT ![fd] = SubSeq(wire[fd], n + 1, Len(wire[fd]))]
      /\ reading' = fd /\ taken' = FALSE
      /\ UNCHANGED <<mbTCPStream, listening, mvRemoveObject, peer, session, lost, told, cut, peers>>
  BY <1>4, <1>5, Zenon DEF ReadCb
<1>7. wire' \in [Fd -> Seq(Unit)] /\ taken' \in BOOLEAN
  BY <1>3, <1>6, StateFacts
<1>. QED BY <1>1, <1>5, <1>6, <1>7, StateFacts, ObjectStep DEF Served

LEMMA RestFacts ==
  ASSUME NEW b \in Seq(Unit)
  PROVE  /\ Rest(b) \in Seq(Unit)
         /\ Whole(b) => b[1][1] \in 0 .. MaxMessage
<1>1. Rest(b) \in Seq(Unit)
  BY PartFacts DEF Rest
<1>2. ASSUME Whole(b) PROVE b[1][1] \in 0 .. MaxMessage
  <2>1. b[1] \in Unit
    BY <1>2, ElementOfSeq, LenProperties DEF Whole
  <2>. QED BY <2>1 DEF Unit
<1>. QED BY <1>1, <1>2

LEMMA DispatchIInv == IInv /\ Dispatch => IInv'
<1>. SUFFICES ASSUME IInv, Dispatch PROVE IInv'
  OBVIOUS
<1>1. PICK fd \in Fd : fd = reading /\ mmObject[fd] \in Object
  BY StateFacts DEF Dispatch
<1>o. mmObject[fd] \in Object
  BY <1>1
<1>2. PICK b \in Seq(Unit), k \in 0 .. MaxMessage :
        b = Rest(mmObject[fd].buff) /\ k = mmObject[fd].buff[1][1]
  <2>1. mmObject[fd].buff \in Seq(Unit) /\ Whole(mmObject[fd].buff)
    BY <1>1, ObjectFacts DEF Dispatch, NextMessage
  <2>. QED BY <2>1, RestFacts
<1>3. PICK o \in Object : o = [mmObject[fd] EXCEPT !.buff = b] /\ o.bNeedRemove = mmObject[fd].bNeedRemove
  BY <1>o, <1>2, ObjectFacts, Zenon
<1>4. /\ mmObject' = [mmObject EXCEPT ![fd] = o]
      /\ told' = [told EXCEPT ![fd].messages = Append(@, k)]
      /\ taken' = TRUE
      /\ UNCHANGED <<mbTCPStream, listening, mvRemoveObject, reading, wire, peer, session,
                     lost, cut, peers>>
  BY <1>1, <1>2, <1>3, Zenon DEF Dispatch, OnReceiveNetPack
<1>5. /\ told' \in [Fd -> [messages : Seq(0 .. MaxMessage), gone : 0 .. MaxGone]]
      /\ \A f \in Fd : told'[f].gone = told[f].gone
  <2>1. told[fd].messages \in Seq(0 .. MaxMessage) /\ told[fd].gone \in 0 .. MaxGone
    BY StateFacts
  <2>2. Append(told[fd].messages, k) \in Seq(0 .. MaxMessage)
    BY <2>1
  <2>. QED BY <1>4, <2>1, <2>2, StateFacts
<1>6. mmObject[fd] # None
  BY <1>1, BoundFacts
<1>7. taken' \in BOOLEAN
  BY <1>4
<1>. QED BY <1>3, <1>4, <1>5, <1>6, <1>7, StateFacts, ObjectStep

LEMMA HandShakeIInv == IInv /\ HandShake => IInv'
<1>. SUFFICES ASSUME IInv, HandShake PROVE IInv'
  OBVIOUS
<1>1. PICK fd \in Fd : fd = reading /\ mmObject[fd] \in Object
  BY StateFacts DEF HandShake
<1>o. mmObject[fd] \in Object
  BY <1>1
<1>2. PICK b \in Seq(Unit) : b = Rest(mmObject[fd].buff)
  BY <1>1, ObjectFacts, RestFacts
<1>3. PICK o \in Object : /\ o = [mmObject[fd] EXCEPT !.buff = b, !.ready = TRUE]
                          /\ o.bNeedRemove = mmObject[fd].bNeedRemove
  BY <1>o, <1>2, ObjectFacts, Zenon
<1>4. /\ mmObject' = [mmObject EXCEPT ![fd] = o]
      /\ taken' = TRUE
      /\ UNCHANGED <<mbTCPStream, listening, mvRemoveObject, reading, wire, peer, session,
                     lost, told, cut, peers>>
  BY <1>1, <1>2, <1>3, Zenon DEF HandShake
<1>5. mmObject[fd] # None /\ taken' \in BOOLEAN
  BY <1>1, <1>4, BoundFacts
<1>. QED BY <1>3, <1>4, <1>5, StateFacts, ObjectStep

LEMMA RefuseHandShakeIInv == IInv /\ RefuseHandShake => IInv'
<1>. SUFFICES ASSUME IInv, RefuseHandShake PROVE IInv'
  OBVIOUS
<1>1. PICK fd \in Fd : fd = reading /\ mmObject[fd] \in Object
  BY StateFacts DEF RefuseHandShake
<1>o. mmObject[fd] \in Object
  BY <1>1
<1>2. PICK o \in Object : /\ o = [mmObject[fd] EXCEPT !.buff = <<>>]
                          /\ o.bNeedRemove = mmObject[fd].bNeedRemove
  <2>1. <<>> \in Seq(Unit)
    BY EmptySeq
  <2>. QED BY <1>o, <2>1, ObjectFacts, Zenon
<1>3. /\ mmObject' = [mmObject EXCEPT ![fd] = o] /\ reading' = None
      /\ cut' = [cut EXCEPT ![fd] = TRUE]
      /\ UNCHANGED <<mbTCPStream, listening, mvRemoveObject, taken, wire, peer, session,
                     lost, told, peers>>
  BY <1>1, <1>2, Zenon DEF RefuseHandShake
<1>4. mmObject[fd] # None /\ cut' \in [Fd -> BOOLEAN]
  BY <1>1, <1>3, BoundFacts, StateFacts
<1>. QED BY <1>2, <1>3, <1>4, StateFacts, ObjectStep

LEMMA EndReadIInv == IInv /\ EndRead => IInv'
<1>. SUFFICES ASSUME IInv, EndRead PROVE IInv'
  OBVIOUS
<1>1. PICK fd \in Fd : fd = reading /\ mmObject[fd] \in Object
  BY StateFacts DEF EndRead
<1>o. mmObject[fd] \in Object
  BY <1>1
<1>. DEFINE dropped == mbTCPStream /\ ~taken
<1>2. PICK b \in Seq(Unit) : b = IF dropped THEN <<>> ELSE mmObject[fd].buff
  BY <1>1, EmptySeq, ObjectFacts
<1>3. PICK o \in Object : o = [mmObject[fd] EXCEPT !.buff = b] /\ o.bNeedRemove = mmObject[fd].bNeedRemove
  BY <1>o, <1>2, ObjectFacts, Zenon
<1>4. /\ mmObject' = [mmObject EXCEPT ![fd] = o] /\ reading' = None
      /\ cut' = [cut EXCEPT ![fd] = cut[fd] \/ (dropped /\ mmObject[fd].buff # <<>>)]
      /\ UNCHANGED <<mbTCPStream, listening, mvRemoveObject, taken, wire, peer, session,
                     lost, told, peers>>
  BY <1>1, <1>2, <1>3, Zenon DEF EndRead
<1>5. mmObject[fd] # None
  BY <1>1, BoundFacts
<1>6. cut' \in [Fd -> BOOLEAN]
  <2>1. (cut[fd] \/ (dropped /\ mmObject[fd].buff # <<>>)) \in BOOLEAN
    BY Zenon
  <2>. HIDE DEF dropped
  <2>. QED BY <1>4, <2>1, StateFacts, Zenon
<1>. HIDE DEF dropped
<1>. QED BY <1>3, <1>4, <1>5, <1>6, StateFacts, ObjectStep

-----------------------------------------------------------------------------
(* Marking. *)

LEMMA CloseNetObjectIInv == ASSUME IInv, NEW fd \in Fd, CloseNetObject(fd) PROVE IInv'
<1>1. /\ mmObject[fd] # None /\ mmObject' = Marked(mmObject, fd)
      /\ mvRemoveObject' = mvRemoveObject \cup {fd} /\ session' = [session EXCEPT ![fd] = 0]
      /\ UNCHANGED <<mbTCPStream, listening, reading, taken, wire, peer, lost, told, cut, peers>>
  BY DEF CloseNetObject
<1>2. ObjectsOK' /\ SockInv'
  BY <1>1, SockMarked
<1>3. FlagsOK' /\ PeersOK'
  BY <1>1 DEF IInv, TypeOK, FlagsOK, PeersOK
<1>4. ToldOK'
  BY <1>1, BoundFacts DEF IInv, TypeOK, ToldOK
<1>. QED BY <1>2, <1>3, <1>4 DEF IInv, TypeOK, SockInv

(* An end that is told: of the socket that is read, or between reads.      *)
LEMMA EndStep ==
  ASSUME IInv, NEW fd \in Fd, mmObject[fd] # None, OnSocketNetEvent(fd),
         mmObject' = Marked(mmObject, fd), mvRemoveObject' = mvRemoveObject \cup {fd},
         reading' = None,
         UNCHANGED <<mbTCPStream, listening, taken, wire, peer, lost, cut, peers>>
  PROVE  IInv'
<1>1. /\ told' = [told EXCEPT ![fd].gone = @ + 1] /\ session' = [session EXCEPT ![fd] = 0]
      /\ told[fd].gone < MaxGone
  BY DEF OnSocketNetEvent
<1>2. told \in [Fd -> [messages : Seq(0 .. MaxMessage), gone : 0 .. MaxGone]]
  BY StateFacts
<1>3. \A f \in Fd \ {fd} : told'[f].gone = told[f].gone
  BY <1>1, <1>2
<1>4. ObjectsOK' /\ SockInv'
  BY <1>1, <1>3, SockMarked
<1>5. FlagsOK' /\ PeersOK'
  BY DEF IInv, TypeOK, FlagsOK, PeersOK
<1>6. ToldOK'
  <2>1. told[fd].gone + 1 \in 0 .. MaxGone /\ told[fd].messages \in Seq(0 .. MaxMessage)
    BY <1>1, <1>2, BoundFacts
  <2>2. told' \in [Fd -> [messages : Seq(0 .. MaxMessage), gone : 0 .. MaxGone]]
    BY <1>1, <1>2, <2>1
  <2>. QED BY <1>1, <2>2, BoundFacts DEF IInv, TypeOK, ToldOK
<1>. QED BY <1>4, <1>5, <1>6 DEF IInv, TypeOK, SockInv

LEMMA OnErrorIInv == IInv /\ OnError => IInv'
<1>. SUFFICES ASSUME IInv, OnError PROVE IInv'
  OBVIOUS
<1>1. reading \in Fd /\ mmObject[reading] # None
  BY StateFacts, BoundFacts DEF OnError
<1>. QED BY <1>1, EndStep DEF OnError

LEMMA GoneIInv == ASSUME IInv, NEW fd \in Fd, Gone(fd) PROVE IInv'
BY EndStep DEF Gone

-----------------------------------------------------------------------------
(* Accepting and closing. *)

(* A free descriptor has no object, so the branch for an old object of the *)
(* same descriptor is never taken.                                         *)
LEMMA ListenerIInv == ASSUME IInv, NEW fd \in Fd, Listener(fd) PROVE IInv'
<1>1. /\ listening /\ reading = None /\ peer[fd] = None /\ peers < MaxPeer /\ peers' = peers + 1
      /\ UNCHANGED <<mbTCPStream, listening, reading, taken, wire>>
      /\ cut' = [cut EXCEPT ![fd] = FALSE]
  BY DEF Listener
<1>2. mmObject[fd] = None
  BY <1>1 DEF IInv, SockInv, MarkedOK
<1>3. PICK p \in Peer : p.id = peers + 1 /\ peer' = [peer EXCEPT ![fd] = p]
  <2>. DEFINE p == [id |-> peers + 1, left |-> FALSE, next |-> First,
                    kinds |-> [k \in 0 .. MaxMessage |-> "binary"]]
  <2>1. peers + 1 \in 1 .. MaxPeer /\ First \in 0 .. MaxMessage + 1
    BY <1>1, BoundFacts DEF IInv, TypeOK, PeersOK, First
  <2>2. [k \in 0 .. MaxMessage |-> "binary"] \in [0 .. MaxMessage -> Kind]
    BY DEF Kind
  <2>3. p \in Peer /\ p.id = peers + 1
    BY <2>1, <2>2, Zenon DEF Peer
  <2>4. peer' = [peer EXCEPT ![fd] = p]
    BY Zenon DEF Listener
  <2>. HIDE DEF p
  <2>. QED BY <2>3, <2>4
<1>4. /\ peer \in [Fd -> Peer \cup {None}] /\ p # None
      /\ peer' \in [Fd -> Peer \cup {None}] /\ peer'[fd] = p
      /\ \A f \in Fd \ {fd} : peer'[f] = peer[f]
  BY <1>3, BoundFacts, StateFacts
<1>5. PeersOK' /\ FlagsOK'
  <2>1. lost' \subseteq Fd
    BY DEF Listener, IInv, TypeOK, PeersOK
  <2>2. peers' \in 0 .. MaxPeer
    BY <1>1, BoundFacts DEF IInv, TypeOK, PeersOK
  <2>. QED BY <1>1, <1>4, <2>1, <2>2 DEF IInv, TypeOK, PeersOK, FlagsOK
<1>6. cut' \in [Fd -> BOOLEAN]
  BY <1>1, StateFacts
<1>7. CASE Full
  <2>1. UNCHANGED <<mmObject, mvRemoveObject, session, told>>
    BY <1>2, <1>7 DEF Listener
  <2>2. ObjectsOK' /\ ToldOK'
    BY <1>1, <1>6, <2>1 DEF IInv, TypeOK, ObjectsOK, ToldOK
  <2>3. SockInv'
    <3>1. /\ \A f \in Fd : mmObject'[f] # None <=> mmObject[f] # None
          /\ \A f \in Fd : mmObject[f] # None =>
               (mmObject'[f].bNeedRemove <=> mmObject[f].bNeedRemove)
          /\ \A f \in Fd : told'[f].gone = told[f].gone
          /\ \A f \in Fd : peer[f] # None => peer'[f] # None /\ peer'[f].id = peer[f].id
      BY <1>1, <1>4, <2>1
    <3>2. reading = None /\ reading' = None
      BY <1>1
    <3>. QED BY <1>1, <2>1, <3>1, <3>2, SockKept DEF IInv
  <2>. QED BY <1>5, <2>2, <2>3 DEF IInv, TypeOK, SockInv
<1>8. CASE ~Full
  <2>1. /\ mmObject' = [mmObject EXCEPT ![fd] =
                          [buff |-> <<>>, ready |-> ~mbTCPStream, bNeedRemove |-> FALSE]]
        /\ told' = [told EXCEPT ![fd] = Untold]
        /\ session' = [session EXCEPT ![fd] = peers + 1]
        /\ mvRemoveObject' = mvRemoveObject
    BY <1>2, <1>8 DEF Listener
  <2>2. PICK o \in Object : o.bNeedRemove = FALSE /\ mmObject' = [mmObject EXCEPT ![fd] = o]
    <3>1. <<>> \in Seq(Unit) /\ (~mbTCPStream) \in BOOLEAN
      BY EmptySeq
    <3>2. [buff |-> <<>>, ready |-> ~mbTCPStream, bNeedRemove |-> FALSE] \in Object
      BY <3>1, Zenon DEF Object
    <3>3. [buff |-> <<>>, ready |-> ~mbTCPStream, bNeedRemove |-> FALSE].bNeedRemove = FALSE
      BY Zenon
    <3>. QED BY <2>1, <3>2, <3>3, Zenon
  <2>3. /\ mmObject \in [Fd -> Object \cup {None}] /\ mmObject'[fd] = o /\ o # None
        /\ \A f \in Fd \ {fd} : mmObject'[f] = mmObject[f]
    BY <2>2, BoundFacts, StateFacts
  <2>4. fd \notin mvRemoveObject
    BY <1>2 DEF IInv, SockInv, RemoveInv
  <2>5. ObjectsOK'
    BY <1>1, <2>1, <2>2 DEF IInv, TypeOK, ObjectsOK
  <2>6. MarkedOK' /\ RemoveInv'
    <3>1. mmObject'[fd] # None /\ peer'[fd] # None /\ fd \notin mvRemoveObject'
          /\ mmObject'[fd].bNeedRemove = FALSE
      BY <1>4, <2>1, <2>2, <2>3, <2>4
    <3>2. \A f \in Fd \ {fd} : mmObject'[f] = mmObject[f] /\ peer'[f] = peer[f]
      BY <1>4, <2>3
    <3>3. mvRemoveObject' = mvRemoveObject
      BY <2>1
    <3>. QED BY <3>1, <3>2, <3>3 DEF IInv, SockInv, MarkedOK, RemoveInv
  <2>7. Served(fd)' /\ \A f \in Fd \ {fd} : Served(f)' <=> Served(f)
    BY <2>2, <2>3 DEF Served
  <2>8. told'[fd].gone = 0 /\ \A f \in Fd \ {fd} : told'[f].gone = told[f].gone
    BY <2>1, StateFacts DEF Untold
  <2>9. ReadInv' /\ GoneInv'
    BY <1>1, <2>7, <2>8 DEF IInv, SockInv, ReadInv, GoneInv
  <2>10. SessionInv'
    <3>1. /\ session'[fd] = p.id /\ peer'[fd].id = p.id
          /\ \A f \in Fd \ {fd} : session'[f] = session[f] /\ peer'[f] = peer[f]
      BY <1>3, <1>4, <2>1, StateFacts
    <3>2. \A f \in Fd : session[f] = IF Served(f) THEN peer[f].id ELSE 0
      BY <1>1 DEF IInv, SockInv, SessionInv
    <3>. QED BY <2>7, <3>1, <3>2 DEF SessionInv
  <2>11. BoundedObjects'
    <3>1. Open' = Open \cup {fd} /\ Open \subseteq Fd
      BY <2>3 DEF Open
    <3>2. IsFiniteSet(Open)
      BY <3>1, BoundFacts, FS_Subset
    <3>3. Cardinality(Open) \in Nat /\ Cardinality(Open) < MaxConnect
      BY <1>8, <3>2, FS_CardinalityType, BoundFacts DEF Full
    <3>4. Cardinality(Open \cup {fd}) <= Cardinality(Open) + 1
      BY <3>2, <3>3, FS_AddElement
    <3>5. IsFiniteSet(Open \cup {fd})
      BY <3>2, FS_AddElement
    <3>6. Cardinality(Open \cup {fd}) <= MaxConnect
      BY <3>3, <3>4, <3>5, FS_CardinalityType, BoundFacts
    <3>. QED BY <3>1, <3>6 DEF BoundedObjects
  <2>12. ToldOK'
    <3>1. Untold \in [messages : Seq(0 .. MaxMessage), gone : 0 .. MaxGone]
      BY BoundFacts, EmptySeq DEF Untold
    <3>2. peers + 1 \in 0 .. MaxPeer
      BY <1>1, BoundFacts DEF IInv, TypeOK, PeersOK
    <3>. QED BY <1>6, <2>1, <3>1, <3>2, StateFacts DEF ToldOK
  <2>. QED BY <1>5, <2>5, <2>6, <2>9, <2>10, <2>11, <2>12 DEF IInv, TypeOK, SockInv
<1>. QED BY <1>7, <1>8

LEMMA UpdateCloseIInv == IInv /\ UpdateClose => IInv'
<1>. SUFFICES ASSUME IInv, UpdateClose PROVE IInv'
  OBVIOUS
<1>1. /\ Close(mvRemoveObject) /\ reading = None /\ mvRemoveObject \in SUBSET Fd
      /\ UNCHANGED <<mbTCPStream, listening, reading, taken, session, lost, told, cut, peers>>
  BY DEF UpdateClose, IInv, TypeOK, ObjectsOK
<1>2. ObjectsOK' /\ PeersOK' /\ SockInv'
  BY <1>1, SockClosed
<1>3. FlagsOK' /\ ToldOK'
  BY <1>1 DEF IInv, TypeOK, FlagsOK, ToldOK
<1>. QED BY <1>2, <1>3 DEF IInv, TypeOK, SockInv

LEMMA TextFrameIInv == IInv /\ TextFrame => IInv'
<1>. SUFFICES ASSUME IInv, TextFrame PROVE IInv'
  OBVIOUS
<1>1. /\ Close(Open) /\ reading' = None /\ Open \in SUBSET Fd /\ listening' = FALSE
      /\ UNCHANGED <<mbTCPStream, taken, session, lost, told, cut, peers>>
  BY DEF TextFrame, Open
<1>2. ObjectsOK' /\ PeersOK' /\ SockInv'
  BY <1>1, SockClosed
<1>3. FlagsOK' /\ ToldOK'
  BY <1>1 DEF IInv, TypeOK, FlagsOK, ToldOK
<1>. QED BY <1>2, <1>3 DEF IInv, TypeOK, SockInv

LEMMA FinalIInv == IInv /\ Final => IInv'
<1>. SUFFICES ASSUME IInv, Final PROVE IInv'
  OBVIOUS
<1>1. /\ Close(Open) /\ reading = None /\ Open \in SUBSET Fd /\ listening' = FALSE
      /\ UNCHANGED <<mbTCPStream, reading, taken, session, lost, told, cut, peers>>
  BY DEF Final, CloseSocketAll, Open
<1>2. ObjectsOK' /\ PeersOK' /\ SockInv'
  BY <1>1, SockClosed
<1>3. FlagsOK' /\ ToldOK'
  BY <1>1 DEF IInv, TypeOK, FlagsOK, ToldOK
<1>. QED BY <1>2, <1>3 DEF IInv, TypeOK, SockInv

-----------------------------------------------------------------------------
(* The theorems. *)

LEMMA StepIInv == IInv /\ [Next]_vars => IInv'
<1>. SUFFICES ASSUME IInv, [Next]_vars PROVE IInv'
  OBVIOUS
<1>1. CASE UNCHANGED vars
  <2>. USE <1>1 DEF vars
  <2>1. TypeOK'
    BY DEF IInv, TypeOK, FlagsOK, ObjectsOK, PeersOK, ToldOK, MarkedOK
  <2>2. SockInv'
    BY DEF IInv, SockInv, MarkedOK, RemoveInv, ReadInv, GoneInv, SessionInv, Served,
           BoundedObjects, Open
  <2>. QED BY <2>1, <2>2 DEF IInv
<1>2. CASE Next
  <2>1. \/ \E fd \in Fd, kind \in Kind : Write(fd, kind)
        \/ \E fd \in Fd, n \in 0 .. 2 * MaxMessage + 2 : Leave(fd, n) \/ ReadCb(fd, n)
        \/ \E fd \in Fd : CloseNetObject(fd) \/ Listener(fd) \/ Gone(fd)
        \/ Dispatch \/ HandShake \/ RefuseHandShake \/ OnError \/ TextFrame \/ EndRead
        \/ UpdateClose \/ Final
    BY <1>2, Zenon DEF Next
  <2>2. 0 .. 2 * MaxMessage + 2 \subseteq Nat
    BY BoundFacts
  <2>. QED BY <2>1, <2>2, WriteIInv, LeaveIInv, ReadCbIInv, CloseNetObjectIInv,
              ListenerIInv, GoneIInv, DispatchIInv, HandShakeIInv, RefuseHandShakeIInv,
              OnErrorIInv, EndReadIInv, UpdateCloseIInv, TextFrameIInv, FinalIInv, Zenon
<1>. QED BY <1>1, <1>2

LEMMA IInvAlways == Spec => []IInv
BY InitIInv, StepIInv, PTL DEF Spec

(* Who is served has a session, of its own number, and who has one is      *)
(* served: what is sent goes to the right peers.                           *)
LEMMA SessionsAreTrue == IInv => SessionsTrue
<1>. SUFFICES ASSUME IInv, listening PROVE
       /\ \A fd \in Fd : session[fd] # 0 =>
            {IF mbTCPStream THEN SendFrame(fd) ELSE SendPBToNode(fd)} = {session[fd]}
       /\ SendDataToAllClient = {session[fd] : fd \in Fd} \ {0}
  BY Zenon DEF SessionsTrue
<1>1. \A fd \in Fd : session[fd] = IF Served(fd) THEN peer[fd].id ELSE 0
  BY DEF IInv, SockInv, SessionInv
<1>2. \A fd \in Fd : Served(fd) => mmObject[fd] # None /\ peer[fd].id # 0
  <2>. SUFFICES ASSUME NEW fd \in Fd, Served(fd) PROVE mmObject[fd] # None /\ peer[fd].id # 0
    OBVIOUS
  <2>1. mmObject[fd] # None /\ peer[fd] \in Peer
    BY StateFacts DEF Served, IInv, SockInv, MarkedOK
  <2>2. peer[fd].id \in 1 .. MaxPeer
    BY <2>1, PeerFacts, Zenon
  <2>. QED BY <2>1, <2>2
<1>3. \A fd \in Fd : session[fd] # 0 => SendData(fd) = session[fd]
  BY <1>1, <1>2 DEF SendData
<1>4. \A fd \in Fd : SendFrame(fd) = SendData(fd) /\ SendPBToNode(fd) = SendData(fd)
  BY DEF SendFrame, SendPBToNode, SendMsg
<1>5. SendDataToAllClient = {SendData(fd) : fd \in {f \in Fd : Served(f)}}
  BY DEF SendDataToAllClient, Open, Served
<1>6. \A fd \in Fd : session[fd] # 0 <=> Served(fd)
  BY <1>1, <1>2
<1>. QED BY <1>3, <1>4, <1>5, <1>6

(* However many descriptors, connections and messages there are, a session *)
(* means one peer and there are no more objects than Net allows.           *)
THEOREM SessionsMeanOnePeer == Spec => []SocketsTrue
<1>1. IInv => SocketsTrue
  BY SessionsAreTrue DEF IInv, SockInv, SocketsTrue
<1>. QED BY <1>1, IInvAlways, PTL

(* Only of what is read a message is told, and of its end nobody was.      *)
LEMMA QuietStep ==
  ASSUME IInv, Next, NEW fd \in Fd, told[fd].gone > 0, told'[fd].gone > 0
  PROVE  told'[fd].messages = told[fd].messages
<1>1. told \in [Fd -> [messages : Seq(0 .. MaxMessage), gone : 0 .. MaxGone]]
  BY StateFacts
<1>2. \/ told' = told
      \/ Dispatch
      \/ \E f \in Fd : OnSocketNetEvent(f)
      \/ \E f \in Fd : told' = [told EXCEPT ![f] = Untold]
  BY StateFacts DEF Next, Write, Leave, ReadCb, CloseNetObject, Listener, Gone, HandShake,
     RefuseHandShake, OnError, TextFrame, EndRead, UpdateClose, Final
<1>3. CASE Dispatch
  <2>1. reading \in Fd /\ told[reading].gone = 0
    BY <1>3, StateFacts DEF Dispatch, IInv, SockInv, ReadInv
  <2>2. fd # reading
    BY <2>1
  <2>3. PICK k : told' = [told EXCEPT ![reading].messages = Append(@, k)]
    BY <1>3, Zenon DEF Dispatch, OnReceiveNetPack
  <2>. QED BY <1>1, <2>1, <2>2, <2>3
<1>4. CASE \E f \in Fd : OnSocketNetEvent(f)
  BY <1>1, <1>4 DEF OnSocketNetEvent
<1>5. CASE \E f \in Fd : told' = [told EXCEPT ![f] = Untold]
  BY <1>1, <1>5 DEF Untold
<1>. QED BY <1>2, <1>3, <1>4, <1>5

(* Whoever was told of the end of a connection hears no message of it any  *)
(* more, until its descriptor is another connection's.                     *)
THEOREM NothingAfterGone == Spec => QuietAfterGone
<1>. DEFINE Quiet == \A fd \in Fd : told[fd].gone > 0 /\ told'[fd].gone > 0 =>
                        told'[fd].messages = told[fd].messages
<1>1. IInv /\ [Next]_vars => [Quiet]_vars
  BY QuietStep
<1>. QED BY <1>1, IInvAlways, PTL DEF Spec, QuietAfterGone

-----------------------------------------------------------------------------
(* What a peer wrote, on its way.  The units are numbered through; those in *)
(* the buffer and on the wire follow the messages told without a gap, and  *)
(* the peer goes on behind them.                                           *)

Num(u) == 2 * u[1] + u[2]

Stream(start, buff, units) ==
  /\ \A i \in 1 .. Len(buff) : Num(buff[i]) = start + i
  /\ \A i \in 1 .. Len(units) : Num(units[i]) = start + Len(buff) + i

(* The units behind the handshake and the messages told.                   *)
At(ready, messages) == IF ready THEN 2 * Len(messages) + 2 ELSE 0

Fine(buff, ready, units, left, next, messages) ==
  /\ Stream(At(ready, messages), buff, units)
  /\ left \/ 2 * next = At(ready, messages) + Len(buff) + Len(units)
  /\ messages = [i \in 1 .. Len(messages) |-> i]
  /\ ready \/ messages = <<>>

OneOf(buff, ready, removed, units, left, next, messages, lame, busy) ==
  /\ lame \/ Fine(buff, ready, units, left, next, messages)
  /\ busy \/ ~ready \/ removed \/ ~Whole(buff)

OneInv(fd) ==
  mmObject[fd] # None =>
    OneOf(mmObject[fd].buff, mmObject[fd].ready, mmObject[fd].bNeedRemove, wire[fd],
          peer[fd].left, peer[fd].next, told[fd].messages, cut[fd], reading = fd)

(* Nothing is on the wire of a descriptor that is free.                    *)
WireInv == \A fd \in Fd : peer[fd] = None => wire[fd] = <<>>

ReadOnInv == (\A fd \in Fd : OneInv(fd)) /\ WireInv

LEMMA NumFacts ==
  /\ \A u \in Unit : Num(u) \in Nat
  /\ \A k \in 0 .. MaxMessage : /\ Num(<<k, 1>>) = 2 * k + 1 /\ Num(<<k, 2>>) = 2 * k + 2
                                /\ <<k, 1>> \in Unit /\ <<k, 2>> \in Unit
BY BoundFacts DEF Num, Unit

(* Two sequences in one, and a sequence cut in two.                        *)
LEMMA JoinFacts ==
  ASSUME NEW s \in Seq(Unit), NEW t \in Seq(Unit)
  PROVE  /\ s \o t \in Seq(Unit) /\ Len(s \o t) = Len(s) + Len(t)
         /\ Len(s) \in Nat /\ Len(t) \in Nat
         /\ \A i \in 1 .. Len(s) : (s \o t)[i] = s[i]
         /\ \A i \in 1 .. Len(t) : (s \o t)[Len(s) + i] = t[i]
<1>1. Len(s) \in Nat /\ Len(t) \in Nat
  BY LenProperties
<1>2. /\ s \o t \in Seq(Unit) /\ Len(s \o t) = Len(s) + Len(t)
      /\ \A i \in 1 .. Len(s) + Len(t) : (s \o t)[i] = IF i <= Len(s) THEN s[i] ELSE t[i - Len(s)]
  BY ConcatProperties
<1>3. ASSUME NEW i \in 1 .. Len(s) PROVE (s \o t)[i] = s[i]
  BY <1>1, <1>2, i \in 1 .. Len(s) + Len(t)
<1>4. ASSUME NEW i \in 1 .. Len(t) PROVE (s \o t)[Len(s) + i] = t[i]
  <2>1. Len(s) + i \in 1 .. Len(s) + Len(t) /\ ~(Len(s) + i <= Len(s)) /\ (Len(s) + i) - Len(s) = i
    BY <1>1
  <2>. QED BY <2>1, <1>2
<1>. QED BY <1>1, <1>2, <1>3, <1>4

LEMMA CutFacts ==
  ASSUME NEW s \in Seq(Unit), NEW n \in 0 .. Len(s)
  PROVE  /\ SubSeq(s, 1, n) \in Seq(Unit) /\ Len(SubSeq(s, 1, n)) = n
         /\ \A i \in 1 .. n : SubSeq(s, 1, n)[i] = s[i]
         /\ SubSeq(s, n + 1, Len(s)) \in Seq(Unit)
         /\ Len(SubSeq(s, n + 1, Len(s))) = Len(s) - n
         /\ \A i \in 1 .. Len(s) - n : SubSeq(s, n + 1, Len(s))[i] = s[n + i]
<1>1. Len(s) \in Nat /\ n \in Nat /\ n <= Len(s)
  BY LenProperties
<1>2. /\ \A i \in 1 .. n : s[i] \in Unit
      /\ \A i \in n + 1 .. Len(s) : s[i] \in Unit
  BY <1>1, ElementOfSeq
<1>3. /\ SubSeq(s, 1, n) \in Seq(Unit)
      /\ Len(SubSeq(s, 1, n)) = (IF 1 <= n THEN n - 1 + 1 ELSE 0)
      /\ \A i \in 1 .. n - 1 + 1 : SubSeq(s, 1, n)[i] = s[1 + i - 1]
  BY <1>1, <1>2, SubSeqProperties
<1>4. /\ SubSeq(s, n + 1, Len(s)) \in Seq(Unit)
      /\ Len(SubSeq(s, n + 1, Len(s))) = (IF n + 1 <= Len(s) THEN Len(s) - (n + 1) + 1 ELSE 0)
      /\ \A i \in 1 .. Len(s) - (n + 1) + 1 : SubSeq(s, n + 1, Len(s))[i] = s[n + 1 + i - 1]
  <2>1. n + 1 \in Int /\ Len(s) \in Int
    BY <1>1
  <2>. QED BY <1>2, <2>1, SubSeqProperties
<1>5. \A i \in 1 .. n : SubSeq(s, 1, n)[i] = s[i]
  <2>. SUFFICES ASSUME NEW i \in 1 .. n PROVE SubSeq(s, 1, n)[i] = s[i]
    OBVIOUS
  <2>1. i \in 1 .. n - 1 + 1 /\ 1 + i - 1 = i
    BY <1>1
  <2>. QED BY <1>3, <2>1
<1>6. \A i \in 1 .. Len(s) - n : SubSeq(s, n + 1, Len(s))[i] = s[n + i]
  <2>. SUFFICES ASSUME NEW i \in 1 .. Len(s) - n PROVE SubSeq(s, n + 1, Len(s))[i] = s[n + i]
    OBVIOUS
  <2>1. i \in 1 .. Len(s) - (n + 1) + 1 /\ n + 1 + i - 1 = n + i
    BY <1>1
  <2>. QED BY <1>4, <2>1
<1>7. Len(SubSeq(s, 1, n)) = n /\ Len(SubSeq(s, n + 1, Len(s))) = Len(s) - n
  BY <1>1, <1>3, <1>4
<1>. QED BY <1>3, <1>4, <1>5, <1>6, <1>7

(* What a peer writes.                                                     *)
Pair(k) == << <<k, 1>>, <<k, 2>> >>

LEMMA PairFacts ==
  ASSUME NEW k \in 0 .. MaxMessage
  PROVE  /\ Pair(k) \in Seq(Unit) /\ Len(Pair(k)) = 2
         /\ Num(Pair(k)[1]) = 2 * k + 1 /\ Num(Pair(k)[2]) = 2 * k + 2
<1>1. Pair(k) \in Seq(Unit) /\ Len(Pair(k)) = 2
  BY NumFacts DEF Pair
<1>2. Pair(k)[1] = <<k, 1>> /\ Pair(k)[2] = <<k, 2>>
  BY DEF Pair
<1>3. Num(<<k, 1>>) = 2 * k + 1 /\ Num(<<k, 2>>) = 2 * k + 2
  BY NumFacts
<1>. QED BY <1>1, <1>2, <1>3, Zenon

LEMMA StreamWrite0 ==
  ASSUME NEW start \in Nat, NEW buff \in Seq(Unit), NEW units \in Seq(Unit),
         Stream(start, buff, units), NEW w \in Seq(Unit), Len(w) = 2,
         Num(w[1]) = start + Len(buff) + Len(units) + 1,
         Num(w[2]) = start + Len(buff) + Len(units) + 2
  PROVE  /\ Stream(start, buff, units \o w)
         /\ start + Len(buff) + Len(units \o w) = start + Len(buff) + Len(units) + 2
<1>1. /\ Len(units \o w) = Len(units) + Len(w) /\ Len(units) \in Nat
      /\ \A i \in 1 .. Len(units) : (units \o w)[i] = units[i]
      /\ \A i \in 1 .. Len(w) : (units \o w)[Len(units) + i] = w[i]
  BY JoinFacts, Zenon
<1>2. 1 \in 1 .. Len(w) /\ 2 \in 1 .. Len(w) /\ Len(units \o w) = Len(units) + 2
      /\ Len(buff) \in Nat
  BY <1>1, LenProperties
<1>3. (units \o w)[Len(units) + 1] = w[1] /\ (units \o w)[Len(units) + 2] = w[2]
  BY <1>1, <1>2, Zenon
<1>4. ASSUME NEW i \in 1 .. Len(units \o w) PROVE Num((units \o w)[i]) = start + Len(buff) + i
  <2>1. CASE i <= Len(units)
    BY <2>1, <1>1, <1>2 DEF Stream
  <2>2. CASE i = Len(units) + 1
    BY <2>2, <1>1, <1>2, <1>3
  <2>3. CASE i = Len(units) + 2
    BY <2>3, <1>1, <1>2, <1>3
  <2>. QED BY <2>1, <2>2, <2>3, <1>1, <1>2
<1>5. \A i \in 1 .. Len(buff) : Num(buff[i]) = start + i
  BY DEF Stream
<1>6. start + Len(buff) + Len(units \o w) = start + Len(buff) + Len(units) + 2
  BY <1>1, <1>2
<1>. QED BY <1>4, <1>5, <1>6, Zenon DEF Stream

LEMMA StreamWrite ==
  ASSUME NEW start \in Nat, NEW buff \in Seq(Unit), NEW units \in Seq(Unit),
         Stream(start, buff, units), NEW k \in 0 .. MaxMessage,
         2 * k = start + Len(buff) + Len(units)
  PROVE  /\ Stream(start, buff, units \o Pair(k))
         /\ 2 * (k + 1) = start + Len(buff) + Len(units \o Pair(k))
<1>1. PICK m \in Nat : m = 2 * k /\ 2 * (k + 1) = m + 2
  BY BoundFacts
<1>2. m = start + Len(buff) + Len(units)
  BY <1>1, Zenon
<1>3. PICK w \in Seq(Unit) : w = Pair(k) /\ Len(w) = 2 /\ Num(w[1]) = m + 1 /\ Num(w[2]) = m + 2
  BY <1>1, PairFacts, Zenon
<1>4. /\ Num(w[1]) = start + Len(buff) + Len(units) + 1
      /\ Num(w[2]) = start + Len(buff) + Len(units) + 2
  BY <1>2, <1>3, Zenon
<1>5. /\ Stream(start, buff, units \o w)
      /\ start + Len(buff) + Len(units \o w) = start + Len(buff) + Len(units) + 2
  BY <1>3, <1>4, StreamWrite0, Zenon
<1>. QED BY <1>1, <1>2, <1>3, <1>5, Zenon

LEMMA StreamLeave ==
  ASSUME NEW start \in Nat, NEW buff \in Seq(Unit), NEW units \in Seq(Unit),
         Stream(start, buff, units), NEW n \in 0 .. Len(units)
  PROVE  Stream(start, buff, SubSeq(units, 1, n))
<1>1. /\ Len(SubSeq(units, 1, n)) = n /\ \A i \in 1 .. n : SubSeq(units, 1, n)[i] = units[i]
      /\ \A i \in 1 .. n : i \in 1 .. Len(units)
  BY CutFacts, LenProperties
<1>. QED BY <1>1 DEF Stream

LEMMA StreamRead ==
  ASSUME NEW start \in Nat, NEW buff \in Seq(Unit), NEW units \in Seq(Unit),
         Stream(start, buff, units), NEW n \in 0 .. Len(units)
  PROVE  /\ Stream(start, buff \o SubSeq(units, 1, n), SubSeq(units, n + 1, Len(units)))
         /\ Len(buff \o SubSeq(units, 1, n)) + Len(SubSeq(units, n + 1, Len(units)))
              = Len(buff) + Len(units)
<1>0. PICK b, w : b = buff \o SubSeq(units, 1, n) /\ w = SubSeq(units, n + 1, Len(units))
  OBVIOUS
<1>1. /\ Len(units) \in Nat /\ n \in Nat
      /\ SubSeq(units, 1, n) \in Seq(Unit) /\ Len(SubSeq(units, 1, n)) = n
      /\ \A i \in 1 .. n : SubSeq(units, 1, n)[i] = units[i]
      /\ Len(w) = Len(units) - n /\ \A i \in 1 .. Len(units) - n : w[i] = units[n + i]
  <2>1. /\ SubSeq(units, 1, n) \in Seq(Unit) /\ Len(SubSeq(units, 1, n)) = n
        /\ \A i \in 1 .. n : SubSeq(units, 1, n)[i] = units[i]
        /\ Len(w) = Len(units) - n /\ \A i \in 1 .. Len(units) - n : w[i] = units[n + i]
    BY <1>0, CutFacts, Zenon
  <2>. QED BY <2>1, LenProperties
<1>2. /\ Len(b) = Len(buff) + n /\ Len(buff) \in Nat
      /\ \A i \in 1 .. Len(buff) : b[i] = buff[i]
      /\ \A i \in 1 .. n : b[Len(buff) + i] = units[i]
  <2>1. /\ Len(b) = Len(buff) + Len(SubSeq(units, 1, n)) /\ Len(buff) \in Nat
        /\ \A i \in 1 .. Len(buff) : b[i] = buff[i]
        /\ \A i \in 1 .. Len(SubSeq(units, 1, n)) : b[Len(buff) + i] = SubSeq(units, 1, n)[i]
    BY <1>0, <1>1, JoinFacts, Zenon
  <2>. QED BY <1>1, <2>1, Zenon
<1>3. ASSUME NEW i \in 1 .. Len(b) PROVE Num(b[i]) = start + i
  <2>1. CASE i <= Len(buff)
    BY <2>1, <1>2 DEF Stream
  <2>2. CASE i > Len(buff)
    <3>1. PICK j \in 1 .. n : i = Len(buff) + j
      <4>1. i - Len(buff) \in 1 .. n /\ i = Len(buff) + (i - Len(buff))
        BY <2>2, <1>1, <1>2
      <4>. QED BY <4>1
    <3>2. b[i] = units[j] /\ j \in 1 .. Len(units)
      BY <3>1, <1>1, <1>2
    <3>3. Num(units[j]) = start + Len(buff) + j
      BY <3>2 DEF Stream
    <3>. QED BY <3>1, <3>2, <3>3, <1>2
  <2>. QED BY <2>1, <2>2, <1>2
<1>4. ASSUME NEW i \in 1 .. Len(w) PROVE Num(w[i]) = start + Len(b) + i
  <2>1. w[i] = units[n + i] /\ n + i \in 1 .. Len(units)
    BY <1>1
  <2>2. Num(units[n + i]) = start + Len(buff) + (n + i)
    BY <2>1 DEF Stream
  <2>3. start + Len(buff) + (n + i) = start + (Len(buff) + n) + i
    BY <1>1, <1>2
  <2>. QED BY <2>1, <2>2, <2>3, <1>2, Zenon
<1>5. Len(b) + Len(w) = Len(buff) + Len(units)
  <2>1. (Len(buff) + n) + (Len(units) - n) = Len(buff) + Len(units)
    BY <1>1, <1>2
  <2>. QED BY <2>1, <1>1, <1>2, Zenon
<1>6. Stream(start, b, w)
  BY <1>3, <1>4 DEF Stream
<1>. QED BY <1>0, <1>5, <1>6, Zenon

LEMMA StreamRest ==
  ASSUME NEW start \in Nat, NEW buff \in Seq(Unit), NEW units \in Seq(Unit),
         Stream(start, buff, units), Len(buff) >= 2
  PROVE  /\ Stream(start + 2, Rest(buff), units)
         /\ Len(Rest(buff)) = Len(buff) - 2
         /\ Num(buff[1]) = start + 1
<1>1. Len(buff) \in Nat /\ 2 \in 0 .. Len(buff) /\ Len(units) \in Nat
  BY LenProperties
<1>2. /\ Len(Rest(buff)) = Len(buff) - 2
      /\ \A i \in 1 .. Len(buff) - 2 : Rest(buff)[i] = buff[2 + i]
  <2>1. Rest(buff) = SubSeq(buff, 2 + 1, Len(buff))
    BY DEF Rest
  <2>2. /\ Len(SubSeq(buff, 2 + 1, Len(buff))) = Len(buff) - 2
        /\ \A i \in 1 .. Len(buff) - 2 : SubSeq(buff, 2 + 1, Len(buff))[i] = buff[2 + i]
    BY <1>1, CutFacts
  <2>. QED BY <2>1, <2>2, Zenon
<1>3. ASSUME NEW i \in 1 .. Len(Rest(buff)) PROVE Num(Rest(buff)[i]) = start + 2 + i
  <2>1. Rest(buff)[i] = buff[2 + i] /\ 2 + i \in 1 .. Len(buff)
    BY <1>1, <1>2
  <2>2. Num(buff[2 + i]) = start + (2 + i)
    BY <2>1 DEF Stream
  <2>. QED BY <2>1, <2>2
<1>4. ASSUME NEW i \in 1 .. Len(units) PROVE Num(units[i]) = start + 2 + Len(Rest(buff)) + i
  BY <1>1, <1>2 DEF Stream
<1>5. Num(buff[1]) = start + 1
  BY <1>1 DEF Stream
<1>. QED BY <1>2, <1>3, <1>4, <1>5 DEF Stream

-----------------------------------------------------------------------------
(* What the peers do to it, and a mark. *)

LEMMA FieldFacts0 ==
  ASSUME NEW B, NEW true \in B
  PROVE  \A o \in [buff : Seq(Unit), ready : B, bNeedRemove : B] :
           /\ [o EXCEPT !.bNeedRemove = true].buff = o.buff
           /\ [o EXCEPT !.bNeedRemove = true].ready = o.ready
           /\ \A b \in Seq(Unit) :
                /\ [o EXCEPT !.buff = b].buff = b /\ [o EXCEPT !.buff = b].ready = o.ready
                /\ [o EXCEPT !.buff = b, !.ready = true].buff = b
                /\ [o EXCEPT !.buff = b, !.ready = true].ready = true
OBVIOUS

LEMMA FieldFacts ==
  \A o \in Object :
    /\ [o EXCEPT !.bNeedRemove = TRUE].buff = o.buff
    /\ [o EXCEPT !.bNeedRemove = TRUE].ready = o.ready
    /\ \A b \in Seq(Unit) :
         /\ [o EXCEPT !.buff = b].buff = b /\ [o EXCEPT !.buff = b].ready = o.ready
         /\ [o EXCEPT !.buff = b, !.ready = TRUE].buff = b
         /\ [o EXCEPT !.buff = b, !.ready = TRUE].ready = TRUE
BY FieldFacts0, Zenon DEF Object

LEMMA NewBuff ==
  ASSUME NEW x \in Object, NEW b \in Seq(Unit)
  PROVE  \E o \in Object : /\ o = [x EXCEPT !.buff = b] /\ o.buff = b
                           /\ o.ready = x.ready /\ o.bNeedRemove = x.bNeedRemove
<1>1. [x EXCEPT !.buff = b] \in Object /\ [x EXCEPT !.buff = b].bNeedRemove = x.bNeedRemove
  BY ObjectFacts, Zenon
<1>2. [x EXCEPT !.buff = b].buff = b /\ [x EXCEPT !.buff = b].ready = x.ready
  BY FieldFacts, Zenon
<1>. QED BY <1>1, <1>2, Zenon

LEMMA AtFacts ==
  ASSUME NEW S, NEW m \in Seq(S), NEW ready
  PROVE  At(ready, m) \in Nat /\ Len(m) \in Nat
BY LenProperties DEF At

(* One descriptor changes.                                                 *)
LEMMA OneStep ==
  ASSUME ReadOnInv, NEW fd \in Fd,
         \A f \in Fd \ {fd} :
           /\ mmObject'[f] = mmObject[f] /\ wire'[f] = wire[f] /\ peer'[f] = peer[f]
           /\ told'[f].messages = told[f].messages /\ cut'[f] = cut[f]
           /\ (reading' = f) <=> (reading = f),
         OneInv(fd)', peer'[fd] = None => wire'[fd] = <<>>
  PROVE  ReadOnInv'
<1>1. ASSUME NEW f \in Fd \ {fd} PROVE OneInv(f)'
  <2>1. OneInv(f)
    BY DEF ReadOnInv
  <2>. QED BY <2>1 DEF OneInv
<1>2. WireInv'
  BY DEF ReadOnInv, WireInv
<1>. QED BY <1>1, <1>2 DEF ReadOnInv

(* A mark.                                                                 *)
LEMMA MarkReadOn ==
  ASSUME IInv, ReadOnInv, NEW fd \in Fd, mmObject[fd] # None,
         mmObject' = Marked(mmObject, fd), UNCHANGED <<wire, peer, cut>>,
         \A f \in Fd : told'[f].messages = told[f].messages,
         reading' = reading \/ (reading' = None /\ reading \in {fd, None})
  PROVE  ReadOnInv'
<1>1. mmObject \in [Fd -> Object \cup {None}] /\ mmObject[fd] \in Object
  BY StateFacts
<1>2. PICK o \in Object : /\ mmObject' = [mmObject EXCEPT ![fd] = o] /\ o.bNeedRemove = TRUE
                          /\ o.buff = mmObject[fd].buff /\ o.ready = mmObject[fd].ready
  <2>1. mmObject' = [mmObject EXCEPT ![fd] = [mmObject[fd] EXCEPT !.bNeedRemove = TRUE]]
    BY DEF Marked
  <2>. QED BY <1>1, <2>1, ObjectFacts, FieldFacts, Zenon
<1>3. mmObject'[fd] = o /\ \A f \in Fd \ {fd} : mmObject'[f] = mmObject[f]
  BY <1>1, <1>2
<1>4. OneInv(fd)'
  <2>1. OneInv(fd)
    BY DEF ReadOnInv
  <2>. QED BY <1>2, <1>3, <2>1 DEF OneInv, OneOf
<1>5. \A f \in Fd \ {fd} : (reading' = f) <=> (reading = f)
  BY BoundFacts
<1>6. peer'[fd] = None => wire'[fd] = <<>>
  BY DEF ReadOnInv, WireInv
<1>. QED BY <1>3, <1>4, <1>5, <1>6, OneStep

LEMMA WriteReadOn ==
  ASSUME IInv, ReadOnInv, NEW fd \in Fd, NEW kind \in Kind, Write(fd, kind) PROVE ReadOnInv'
<1>1. /\ peer[fd] \in Peer /\ wire[fd] \in Seq(Unit) /\ peer[fd] # None /\ ~peer[fd].left
      /\ peer \in [Fd -> Peer \cup {None}] /\ wire \in [Fd -> Seq(Unit)]
  BY DEF Write, IInv, TypeOK, PeersOK
<1>2. peer[fd].next \in 0 .. MaxMessage
  <2>1. peer[fd].next \in 0 .. MaxMessage + 1
    BY <1>1, PeerFacts, Zenon
  <2>2. peer[fd].next <= MaxMessage
    BY DEF Write
  <2>. QED BY <2>1, <2>2, BoundFacts
<1>. DEFINE k == peer[fd].next
            q == [peer[fd] EXCEPT !.next = peer[fd].next + 1, !.kinds[peer[fd].next] = kind]
            u == << <<k, 1>>, <<k, 2>> >>
<1>3. q.left = peer[fd].left /\ q.next = k + 1 /\ q \in Peer
  <2>1. peer[fd].next <= MaxMessage
    BY <1>2, BoundFacts
  <2>2. q \in Peer
    BY <1>1, <2>1, PeerFacts, Zenon
  <2>. QED BY <1>1, <2>2, Zenon DEF Peer
<1>4. /\ peer' = [peer EXCEPT ![fd] = q] /\ wire' = [wire EXCEPT ![fd] = wire[fd] \o u]
      /\ UNCHANGED <<mbTCPStream, listening, mmObject, mvRemoveObject, reading, taken,
                     session, lost, told, cut, peers>>
  BY Zenon DEF Write
<1>5. PICK more : more = wire[fd] \o u
  OBVIOUS
<1>. HIDE DEF q
<1>6. /\ peer'[fd] = q /\ wire'[fd] = more /\ q # None
      /\ \A f \in Fd \ {fd} : peer'[f] = peer[f] /\ wire'[f] = wire[f]
  BY <1>1, <1>3, <1>4, <1>5, BoundFacts
<1>7. ASSUME mmObject[fd] # None,
             Fine(mmObject[fd].buff, mmObject[fd].ready, wire[fd], peer[fd].left, k,
                  told[fd].messages)
      PROVE  Fine(mmObject[fd].buff, mmObject[fd].ready, more, q.left, q.next, told[fd].messages)
  <2>1. mmObject[fd].buff \in Seq(Unit)
    BY <1>7, StateFacts, ObjectFacts, Zenon
  <2>2. At(mmObject[fd].ready, told[fd].messages) \in Nat
    <3>1. told[fd].messages \in Seq(0 .. MaxMessage)
      BY StateFacts
    <3>. QED BY <3>1, AtFacts
  <2>3. /\ Stream(At(mmObject[fd].ready, told[fd].messages), mmObject[fd].buff, wire[fd])
        /\ 2 * k = At(mmObject[fd].ready, told[fd].messages) + Len(mmObject[fd].buff) + Len(wire[fd])
        /\ told[fd].messages = [i \in 1 .. Len(told[fd].messages) |-> i]
        /\ mmObject[fd].ready \/ told[fd].messages = <<>>
    BY <1>1, <1>7 DEF Fine
  <2>4. /\ Stream(At(mmObject[fd].ready, told[fd].messages), mmObject[fd].buff, more)
        /\ 2 * (k + 1) = At(mmObject[fd].ready, told[fd].messages) + Len(mmObject[fd].buff) + Len(more)
    <3>. DEFINE s == At(mmObject[fd].ready, told[fd].messages)
                b == mmObject[fd].buff
    <3>1. /\ s \in Nat /\ b \in Seq(Unit) /\ wire[fd] \in Seq(Unit) /\ k \in 0 .. MaxMessage
          /\ Stream(s, b, wire[fd]) /\ 2 * k = s + Len(b) + Len(wire[fd])
          /\ more = wire[fd] \o Pair(k)
      BY <1>1, <1>2, <1>5, <2>1, <2>2, <2>3, Zenon DEF Pair
    <3>. HIDE DEF s, b, k
    <3>2. Stream(s, b, more) /\ 2 * (k + 1) = s + Len(b) + Len(more)
      BY <3>1, StreamWrite
    <3>. QED BY <3>2, Zenon DEF s, b
  <2>. QED BY <1>3, <2>3, <2>4, Zenon DEF Fine
<1>. HIDE DEF u
<1>8. OneInv(fd)'
  <2>1. OneInv(fd)
    BY DEF ReadOnInv
  <2>2. /\ mmObject'[fd] = mmObject[fd] /\ told'[fd] = told[fd] /\ cut'[fd] = cut[fd]
        /\ reading' = reading
    BY <1>4
  <2>. QED BY <1>6, <1>7, <2>1, <2>2, Zenon DEF OneInv, OneOf
<1>9. \A f \in Fd \ {fd} :
        /\ mmObject'[f] = mmObject[f] /\ told'[f].messages = told[f].messages /\ cut'[f] = cut[f]
        /\ (reading' = f) <=> (reading = f)
  BY <1>4
<1>. QED BY <1>6, <1>8, <1>9, OneStep

LEMMA LeaveReadOn ==
  ASSUME IInv, ReadOnInv, NEW fd \in Fd, NEW n \in Nat, Leave(fd, n) PROVE ReadOnInv'
<1>1. /\ peer[fd] \in Peer /\ wire[fd] \in Seq(Unit) /\ peer[fd] # None
      /\ peer \in [Fd -> Peer \cup {None}] /\ wire \in [Fd -> Seq(Unit)]
  BY DEF Leave, IInv, TypeOK, PeersOK
<1>. DEFINE q == [peer[fd] EXCEPT !.left = TRUE]
<1>2. q.left = TRUE /\ q \in Peer
  <2>1. q \in Peer
    BY <1>1, PeerFacts, Zenon
  <2>. QED BY <1>1, <2>1, Zenon DEF Peer
<1>3. /\ peer' = [peer EXCEPT ![fd] = q] /\ wire' = [wire EXCEPT ![fd] = SubSeq(wire[fd], 1, n)]
      /\ UNCHANGED <<mbTCPStream, listening, mmObject, mvRemoveObject, reading, taken,
                     session, lost, told, cut, peers>>
  BY Zenon DEF Leave
<1>4. n \in 0 .. Len(wire[fd])
  BY <1>1, LenProperties DEF Leave
<1>5. PICK w : w = SubSeq(wire[fd], 1, n)
  OBVIOUS
<1>. HIDE DEF q
<1>6. /\ peer'[fd] = q /\ wire'[fd] = w /\ q # None
      /\ \A f \in Fd \ {fd} : peer'[f] = peer[f] /\ wire'[f] = wire[f]
  BY <1>1, <1>2, <1>3, <1>5, BoundFacts
<1>7. ASSUME mmObject[fd] # None,
             Fine(mmObject[fd].buff, mmObject[fd].ready, wire[fd], peer[fd].left, peer[fd].next,
                  told[fd].messages)
      PROVE  Fine(mmObject[fd].buff, mmObject[fd].ready, w, q.left, q.next, told[fd].messages)
  <2>1. mmObject[fd].buff \in Seq(Unit)
    BY <1>7, StateFacts, ObjectFacts, Zenon
  <2>2. At(mmObject[fd].ready, told[fd].messages) \in Nat
    <3>1. told[fd].messages \in Seq(0 .. MaxMessage)
      BY StateFacts
    <3>. QED BY <3>1, AtFacts
  <2>3. /\ Stream(At(mmObject[fd].ready, told[fd].messages), mmObject[fd].buff, wire[fd])
        /\ told[fd].messages = [i \in 1 .. Len(told[fd].messages) |-> i]
        /\ mmObject[fd].ready \/ told[fd].messages = <<>>
    BY <1>7 DEF Fine
  <2>4. Stream(At(mmObject[fd].ready, told[fd].messages), mmObject[fd].buff, w)
    BY <1>1, <1>4, <1>5, <2>1, <2>2, <2>3, StreamLeave, Zenon
  <2>. QED BY <1>2, <2>3, <2>4, Zenon DEF Fine
<1>8. OneInv(fd)'
  <2>1. OneInv(fd)
    BY DEF ReadOnInv
  <2>2. /\ mmObject'[fd] = mmObject[fd] /\ told'[fd] = told[fd] /\ cut'[fd] = cut[fd]
        /\ reading' = reading
    BY <1>3
  <2>. QED BY <1>6, <1>7, <2>1, <2>2, Zenon DEF OneInv, OneOf
<1>9. \A f \in Fd \ {fd} :
        /\ mmObject'[f] = mmObject[f] /\ told'[f].messages = told[f].messages /\ cut'[f] = cut[f]
        /\ (reading' = f) <=> (reading = f)
  BY <1>3
<1>. QED BY <1>6, <1>8, <1>9, OneStep

-----------------------------------------------------------------------------
(* What reading does to the stream.                                        *)

LEMMA FineRead ==
  ASSUME NEW buff \in Seq(Unit), NEW ready, NEW units \in Seq(Unit), NEW left, NEW next \in Nat,
         NEW messages \in Seq(0 .. MaxMessage), Fine(buff, ready, units, left, next, messages),
         NEW n \in 0 .. Len(units)
  PROVE  Fine(buff \o SubSeq(units, 1, n), ready, SubSeq(units, n + 1, Len(units)), left, next,
              messages)
<1>1. PICK start \in Nat : start = At(ready, messages)
  BY AtFacts, Zenon
<1>2. PICK b, w : b = buff \o SubSeq(units, 1, n) /\ w = SubSeq(units, n + 1, Len(units))
  OBVIOUS
<1>3. Stream(start, buff, units)
  BY <1>1, Zenon DEF Fine
<1>4. Stream(start, b, w) /\ Len(b) + Len(w) = Len(buff) + Len(units)
  BY <1>2, <1>3, StreamRead, Zenon
<1>5. Len(b) \in Nat /\ Len(w) \in Nat /\ Len(buff) \in Nat /\ Len(units) \in Nat
  <2>1. b \in Seq(Unit) /\ w \in Seq(Unit)
    <3>1. SubSeq(units, 1, n) \in Seq(Unit) /\ w \in Seq(Unit)
      BY <1>2, CutFacts, Zenon
    <3>. QED BY <1>2, <3>1, JoinFacts, Zenon
  <2>. QED BY <2>1, LenProperties, Zenon
<1>6. start + Len(b) + Len(w) = start + Len(buff) + Len(units)
  <2>1. PICK p, q, r, s \in Nat : p = Len(b) /\ q = Len(w) /\ r = Len(buff) /\ s = Len(units)
    BY <1>5
  <2>2. p + q = r + s
    BY <1>4, <2>1, Zenon
  <2>3. start + p + q = start + r + s
    BY <2>2
  <2>. QED BY <2>1, <2>3, Zenon
<1>7. Fine(b, ready, w, left, next, messages)
  BY <1>1, <1>4, <1>6, Zenon DEF Fine
<1>. QED BY <1>2, <1>7, Zenon

(* The whole message at the front is the one behind those told.            *)
LEMMA FineTold ==
  ASSUME NEW buff \in Seq(Unit), NEW ready, ready, NEW units \in Seq(Unit), NEW left,
         NEW next \in Nat, NEW messages \in Seq(0 .. MaxMessage),
         Fine(buff, ready, units, left, next, messages), Whole(buff)
  PROVE  Fine(Rest(buff), ready, units, left, next, Append(messages, buff[1][1]))
<1>1. PICK n \in Nat : n = Len(messages)
  BY LenProperties
<1>2. At(ready, messages) = 2 * n + 2
  BY <1>1 DEF At
<1>3. Stream(2 * n + 2, buff, units) /\ 2 * n + 2 \in Nat
  <2>1. Stream(2 * n + 2, buff, units)
    BY <1>2, Zenon DEF Fine
  <2>. QED BY <2>1
<1>4. /\ Stream((2 * n + 2) + 2, Rest(buff), units) /\ Len(Rest(buff)) = Len(buff) - 2
      /\ Num(buff[1]) = (2 * n + 2) + 1
  BY <1>3, StreamRest DEF Whole
<1>5. PICK k \in 0 .. MaxMessage : buff[1][1] = k /\ Num(buff[1]) = 2 * k + 1
  <2>1. buff[1][1] \in 0 .. MaxMessage
    BY RestFacts
  <2>. QED BY <2>1 DEF Num, Whole
<1>6. k = n + 1
  BY <1>4, <1>5, BoundFacts
<1>7. /\ Append(messages, k) \in Seq(0 .. MaxMessage) /\ Len(Append(messages, k)) = n + 1
      /\ \A i \in 1 .. n : Append(messages, k)[i] = messages[i]
      /\ Append(messages, k)[n + 1] = k
  BY <1>1, AppendProperties
<1>8. \A i \in 1 .. n : messages[i] = i
  BY <1>1 DEF Fine
<1>9. Append(messages, k) = [i \in 1 .. Len(Append(messages, k)) |-> i]
  <2>1. Append(messages, k) \in [1 .. n + 1 -> 0 .. MaxMessage]
    BY <1>7, LenProperties, Zenon
  <2>2. Append(messages, k) = [i \in 1 .. n + 1 |-> Append(messages, k)[i]]
    BY <2>1, Zenon
  <2>3. \A i \in 1 .. n + 1 : Append(messages, k)[i] = i
    BY <1>6, <1>7, <1>8
  <2>. QED BY <1>7, <2>2, <2>3, Zenon
<1>10. At(ready, Append(messages, k)) = (2 * n + 2) + 2
  BY <1>7 DEF At
<1>11. left \/ 2 * next = (2 * n + 2) + 2 + Len(Rest(buff)) + Len(units)
  <2>1. left \/ 2 * next = (2 * n + 2) + Len(buff) + Len(units)
    BY <1>2, Zenon DEF Fine
  <2>2. Len(buff) \in Nat /\ Len(units) \in Nat
    BY LenProperties
  <2>3. (2 * n + 2) + 2 + (Len(buff) - 2) + Len(units) = (2 * n + 2) + Len(buff) + Len(units)
    BY <2>2
  <2>. QED BY <1>4, <2>1, <2>3, Zenon
<1>. QED BY <1>4, <1>5, <1>9, <1>10, <1>11, Zenon DEF Fine

LEMMA FineReady ==
  ASSUME NEW buff \in Seq(Unit), NEW ready, ~ready, NEW after, after, NEW units \in Seq(Unit),
         NEW left, NEW next \in Nat, NEW messages \in Seq(0 .. MaxMessage),
         Fine(buff, ready, units, left, next, messages), Whole(buff)
  PROVE  Fine(Rest(buff), after, units, left, next, messages)
<1>1. messages = <<>> /\ At(ready, messages) = 0 /\ At(after, messages) = 2
  BY DEF Fine, At
<1>2. Stream(0, buff, units) /\ Len(buff) >= 2
  BY <1>1 DEF Fine, Whole
<1>3. Stream(0 + 2, Rest(buff), units) /\ Len(Rest(buff)) = Len(buff) - 2
  BY <1>2, StreamRest
<1>4. left \/ 2 * next = 2 + Len(Rest(buff)) + Len(units)
  <2>1. left \/ 2 * next = 0 + Len(buff) + Len(units)
    BY <1>1, Zenon DEF Fine
  <2>2. Len(buff) \in Nat /\ Len(units) \in Nat
    BY LenProperties
  <2>3. 2 + (Len(buff) - 2) + Len(units) = 0 + Len(buff) + Len(units)
    BY <2>2
  <2>. QED BY <1>3, <2>1, <2>3, Zenon
<1>5. Stream(2, Rest(buff), units)
  BY <1>3
<1>6. messages = [i \in 1 .. Len(messages) |-> i]
  BY DEF Fine
<1>. QED BY <1>1, <1>4, <1>5, <1>6, Zenon DEF Fine

LEMMA FineNew == Fine(<<>>, ~mbTCPStream, <<>>, FALSE, First, <<>>)
<1>1. Len(<<>>) = 0 /\ <<>> = [i \in 1 .. Len(<<>>) |-> i]
  OBVIOUS
<1>2. At(~mbTCPStream, <<>>) = 2 * First /\ First \in Nat
  BY <1>1 DEF At, First
<1>3. Stream(2 * First, <<>>, <<>>)
  BY <1>1 DEF Stream
<1>4. 2 * First = 2 * First + Len(<<>>) + Len(<<>>)
  BY <1>1, <1>2
<1>. QED BY <1>1, <1>2, <1>3, <1>4, Zenon DEF Fine

-----------------------------------------------------------------------------
(* Reading. *)

LEMMA OneFacts ==
  ASSUME IInv, ReadOnInv, NEW fd \in Fd, mmObject[fd] # None
  PROVE  /\ mmObject[fd] \in Object /\ mmObject[fd].buff \in Seq(Unit) /\ wire[fd] \in Seq(Unit)
         /\ told[fd].messages \in Seq(0 .. MaxMessage) /\ peer[fd] \in Peer
         /\ peer[fd].next \in Nat /\ peer[fd] # None
         /\ OneOf(mmObject[fd].buff, mmObject[fd].ready, mmObject[fd].bNeedRemove, wire[fd],
                  peer[fd].left, peer[fd].next, told[fd].messages, cut[fd], reading = fd)
<1>1. mmObject[fd] \in Object /\ wire[fd] \in Seq(Unit) /\ told[fd].messages \in Seq(0 .. MaxMessage)
  BY StateFacts
<1>2. mmObject[fd].buff \in Seq(Unit)
  BY <1>1, ObjectFacts, Zenon
<1>3. peer[fd] \in Peer /\ peer[fd] # None
  BY StateFacts, BoundFacts DEF IInv, SockInv, MarkedOK
<1>4. peer[fd].next \in Nat
  <2>1. peer[fd].next \in 0 .. MaxMessage + 1
    BY <1>3, PeerFacts, Zenon
  <2>. QED BY <2>1, BoundFacts
<1>. QED BY <1>1, <1>2, <1>3, <1>4 DEF ReadOnInv, OneInv

(* The object of one descriptor changes, and what was told of it.          *)
LEMMA ReadingStep ==
  ASSUME IInv, ReadOnInv, NEW fd \in Fd, mmObject[fd] # None,
         NEW o \in Object, mmObject' = [mmObject EXCEPT ![fd] = o],
         NEW w \in Seq(Unit), wire' = [wire EXCEPT ![fd] = w], UNCHANGED peer,
         NEW c, cut' = [cut EXCEPT ![fd] = c],
         \A f \in Fd \ {fd} : told'[f].messages = told[f].messages,
         {reading, reading'} \subseteq {fd, None},
         c \/ Fine(o.buff, o.ready, w, peer[fd].left, peer[fd].next, told'[fd].messages),
         reading' = fd \/ ~o.ready \/ o.bNeedRemove \/ ~Whole(o.buff)
  PROVE  ReadOnInv'
<1>1. /\ mmObject'[fd] = o /\ o # None /\ wire'[fd] = w /\ cut'[fd] = c
      /\ peer'[fd] = peer[fd] /\ peer[fd] # None
      /\ \A f \in Fd \ {fd} : mmObject'[f] = mmObject[f] /\ wire'[f] = wire[f]
                              /\ peer'[f] = peer[f] /\ cut'[f] = cut[f]
  BY OneFacts, StateFacts, BoundFacts
<1>2. OneInv(fd)'
  BY <1>1, Zenon DEF OneInv, OneOf
<1>3. \A f \in Fd \ {fd} : (reading' = f) <=> (reading = f)
  BY BoundFacts
<1>4. peer'[fd] = None => wire'[fd] = <<>>
  BY <1>1
<1>. QED BY <1>1, <1>2, <1>3, <1>4, OneStep

LEMMA ReadCbReadOn ==
  ASSUME IInv, ReadOnInv, NEW fd \in Fd, NEW n \in Nat, ReadCb(fd, n) PROVE ReadOnInv'
<1>1. mmObject[fd] # None /\ reading = None /\ reading' = fd
  BY DEF ReadCb, Readable
<1>2. wire[fd] \in Seq(Unit) /\ n \in 0 .. Len(wire[fd]) /\ mmObject[fd] \in Object
      /\ mmObject[fd].buff \in Seq(Unit)
  BY <1>1, OneFacts DEF ReadCb
<1>3. PICK w \in Seq(Unit) : w = SubSeq(wire[fd], n + 1, Len(wire[fd]))
  BY <1>2, CutFacts, Zenon
<1>4. PICK b \in Seq(Unit) : b = mmObject[fd].buff \o SubSeq(wire[fd], 1, n)
  <2>1. SubSeq(wire[fd], 1, n) \in Seq(Unit)
    BY <1>2, CutFacts, Zenon
  <2>. QED BY <1>2, <2>1, JoinFacts, Zenon
<1>5. PICK o \in Object : /\ o = [mmObject[fd] EXCEPT !.buff = b] /\ o.buff = b
                          /\ o.ready = mmObject[fd].ready
                          /\ o.bNeedRemove = mmObject[fd].bNeedRemove
  BY <1>2, <1>4, NewBuff, Zenon
<1>6. /\ mmObject' = [mmObject EXCEPT ![fd] = o] /\ wire' = [wire EXCEPT ![fd] = w]
      /\ UNCHANGED <<peer, told, cut>>
  BY <1>3, <1>4, <1>5, Zenon DEF ReadCb
<1>7. cut[fd] \/ Fine(b, o.ready, w, peer[fd].left, peer[fd].next, told[fd].messages)
  <2>1. cut[fd] \/ Fine(mmObject[fd].buff, mmObject[fd].ready, wire[fd], peer[fd].left,
                        peer[fd].next, told[fd].messages)
    BY <1>1, OneFacts, Zenon DEF OneOf
  <2>2. told[fd].messages \in Seq(0 .. MaxMessage) /\ peer[fd].next \in Nat
    BY <1>1, OneFacts
  <2>3. cut[fd] \/ Fine(mmObject[fd].buff \o SubSeq(wire[fd], 1, n), mmObject[fd].ready,
                       SubSeq(wire[fd], n + 1, Len(wire[fd])), peer[fd].left, peer[fd].next,
                       told[fd].messages)
    BY <1>2, <2>1, <2>2, FineRead, Zenon
  <2>. QED BY <1>3, <1>4, <1>5, <2>3, Zenon
<1>8. cut[fd] \in BOOLEAN /\ cut' = [cut EXCEPT ![fd] = cut[fd]]
  BY <1>6, StateFacts
<1>9. /\ cut[fd] \/ Fine(o.buff, o.ready, w, peer[fd].left, peer[fd].next, told'[fd].messages)
      /\ reading' = fd \/ ~o.ready \/ o.bNeedRemove \/ ~Whole(o.buff)
  BY <1>1, <1>5, <1>6, <1>7, Zenon
<1>10. \A f \in Fd \ {fd} : told'[f].messages = told[f].messages
  BY <1>6
<1>11. UNCHANGED peer
  BY <1>6
<1>r. {reading, reading'} \subseteq {fd, None}
  BY <1>1
<1>. QED BY <1>1, <1>r, <1>6, <1>8, <1>9, <1>10, <1>11, ReadingStep

LEMMA DispatchReadOn == IInv /\ ReadOnInv /\ Dispatch => ReadOnInv'
<1>. SUFFICES ASSUME IInv, ReadOnInv, Dispatch PROVE ReadOnInv'
  OBVIOUS
<1>1. PICK fd \in Fd : fd = reading /\ mmObject[fd] # None
  BY StateFacts, BoundFacts DEF Dispatch
<1>2. /\ mmObject[fd] \in Object /\ mmObject[fd].buff \in Seq(Unit) /\ Whole(mmObject[fd].buff)
      /\ mmObject[fd].ready
  BY <1>1, OneFacts DEF Dispatch, NextMessage
<1>o. mmObject[fd] \in Object
  BY <1>2
<1>3. PICK b \in Seq(Unit) : b = Rest(mmObject[fd].buff)
  BY <1>2, RestFacts
<1>4. PICK o \in Object : /\ o = [mmObject[fd] EXCEPT !.buff = b] /\ o.buff = b
                          /\ o.ready = mmObject[fd].ready
  BY <1>o, <1>3, NewBuff, Zenon
<1>5. /\ mmObject' = [mmObject EXCEPT ![fd] = o] /\ UNCHANGED <<wire, peer, cut, reading>>
      /\ told' = [told EXCEPT ![fd].messages = Append(@, mmObject[fd].buff[1][1])]
  BY <1>1, <1>3, <1>4, Zenon DEF Dispatch, OnReceiveNetPack
<1>6. /\ told'[fd].messages = Append(told[fd].messages, mmObject[fd].buff[1][1])
      /\ \A f \in Fd \ {fd} : told'[f].messages = told[f].messages
  BY <1>5, StateFacts
<1>7. cut[fd] \/ Fine(b, o.ready, wire[fd], peer[fd].left, peer[fd].next, told'[fd].messages)
  <2>1. cut[fd] \/ Fine(mmObject[fd].buff, mmObject[fd].ready, wire[fd], peer[fd].left,
                        peer[fd].next, told[fd].messages)
    BY <1>1, OneFacts, Zenon DEF OneOf
  <2>2. told[fd].messages \in Seq(0 .. MaxMessage) /\ peer[fd].next \in Nat
        /\ wire[fd] \in Seq(Unit)
    BY <1>1, OneFacts
  <2>3. cut[fd] \/ Fine(Rest(mmObject[fd].buff), mmObject[fd].ready, wire[fd], peer[fd].left,
                       peer[fd].next, Append(told[fd].messages, mmObject[fd].buff[1][1]))
    BY <1>2, <2>1, <2>2, FineTold, Zenon
  <2>. QED BY <1>3, <1>4, <1>6, <2>3, Zenon
<1>8. /\ cut[fd] \in BOOLEAN /\ cut' = [cut EXCEPT ![fd] = cut[fd]]
      /\ wire[fd] \in Seq(Unit) /\ wire' = [wire EXCEPT ![fd] = wire[fd]]
  BY <1>5, StateFacts
<1>9. /\ cut[fd] \/ Fine(o.buff, o.ready, wire[fd], peer[fd].left, peer[fd].next, told'[fd].messages)
      /\ reading' = fd \/ ~o.ready \/ o.bNeedRemove \/ ~Whole(o.buff)
  BY <1>1, <1>4, <1>5, <1>7, Zenon
<1>r. {reading, reading'} \subseteq {fd, None}
  BY <1>1, <1>5
<1>. QED BY <1>1, <1>r, <1>5, <1>6, <1>8, <1>9, ReadingStep

LEMMA HandShakeReadOn == IInv /\ ReadOnInv /\ HandShake => ReadOnInv'
<1>. SUFFICES ASSUME IInv, ReadOnInv, HandShake PROVE ReadOnInv'
  OBVIOUS
<1>1. PICK fd \in Fd : fd = reading /\ mmObject[fd] # None
  BY StateFacts, BoundFacts DEF HandShake
<1>2. /\ mmObject[fd] \in Object /\ mmObject[fd].buff \in Seq(Unit) /\ Whole(mmObject[fd].buff)
      /\ ~mmObject[fd].ready
  BY <1>1, OneFacts DEF HandShake, NextMessage
<1>o. mmObject[fd] \in Object
  BY <1>2
<1>3. PICK b \in Seq(Unit) : b = Rest(mmObject[fd].buff)
  BY <1>2, RestFacts
<1>4. PICK o \in Object : /\ o = [mmObject[fd] EXCEPT !.buff = b, !.ready = TRUE] /\ o.buff = b
                          /\ o.ready = TRUE
  <2>1. LET x == [mmObject[fd] EXCEPT !.buff = b, !.ready = TRUE]
        IN  x \in Object /\ x.buff = b /\ x.ready = TRUE
    BY <1>o, <1>3, ObjectFacts, FieldFacts, Zenon
  <2>. QED BY <2>1, Zenon
<1>5. mmObject' = [mmObject EXCEPT ![fd] = o] /\ UNCHANGED <<wire, peer, cut, reading, told>>
  BY <1>1, <1>3, <1>4, Zenon DEF HandShake
<1>7. cut[fd] \/ Fine(b, o.ready, wire[fd], peer[fd].left, peer[fd].next, told'[fd].messages)
  <2>1. cut[fd] \/ Fine(mmObject[fd].buff, mmObject[fd].ready, wire[fd], peer[fd].left,
                        peer[fd].next, told[fd].messages)
    BY <1>1, OneFacts, Zenon DEF OneOf
  <2>. QED BY <1>1, <1>2, <1>3, <1>4, <1>5, <2>1, OneFacts, FineReady, Zenon
<1>8. /\ cut[fd] \in BOOLEAN /\ cut' = [cut EXCEPT ![fd] = cut[fd]]
      /\ wire[fd] \in Seq(Unit) /\ wire' = [wire EXCEPT ![fd] = wire[fd]]
      /\ \A f \in Fd \ {fd} : told'[f].messages = told[f].messages
  BY <1>5, StateFacts
<1>9. /\ cut[fd] \/ Fine(o.buff, o.ready, wire[fd], peer[fd].left, peer[fd].next, told'[fd].messages)
      /\ reading' = fd \/ ~o.ready \/ o.bNeedRemove \/ ~Whole(o.buff)
  BY <1>1, <1>4, <1>5, <1>7, Zenon
<1>r. {reading, reading'} \subseteq {fd, None}
  BY <1>1, <1>5
<1>. QED BY <1>1, <1>r, <1>5, <1>8, <1>9, ReadingStep

(* What is thrown away was cut.                                            *)
LEMMA RefuseHandShakeReadOn == IInv /\ ReadOnInv /\ RefuseHandShake => ReadOnInv'
<1>. SUFFICES ASSUME IInv, ReadOnInv, RefuseHandShake PROVE ReadOnInv'
  OBVIOUS
<1>1. PICK fd \in Fd : fd = reading /\ mmObject[fd] # None
  BY StateFacts, BoundFacts DEF RefuseHandShake
<1>2. mmObject[fd] \in Object /\ ~mmObject[fd].ready
  BY <1>1, OneFacts DEF RefuseHandShake
<1>o. mmObject[fd] \in Object
  BY <1>2
<1>4. PICK o \in Object : o = [mmObject[fd] EXCEPT !.buff = <<>>] /\ o.ready = mmObject[fd].ready
  <2>1. <<>> \in Seq(Unit)
    BY EmptySeq
  <2>. QED BY <1>o, <2>1, NewBuff, Zenon
<1>5. /\ mmObject' = [mmObject EXCEPT ![fd] = o] /\ UNCHANGED <<wire, peer, told>>
      /\ cut' = [cut EXCEPT ![fd] = TRUE] /\ reading' = None
  BY <1>1, <1>4, Zenon DEF RefuseHandShake
<1>8. /\ TRUE \in BOOLEAN
      /\ wire[fd] \in Seq(Unit) /\ wire' = [wire EXCEPT ![fd] = wire[fd]]
      /\ \A f \in Fd \ {fd} : told'[f].messages = told[f].messages
  BY <1>5, StateFacts
<1>9. /\ TRUE \/ Fine(o.buff, o.ready, wire[fd], peer[fd].left, peer[fd].next, told'[fd].messages)
      /\ reading' = fd \/ ~o.ready \/ o.bNeedRemove \/ ~Whole(o.buff)
  BY <1>2, <1>4, Zenon
<1>r. {reading, reading'} \subseteq {fd, None}
  BY <1>1, <1>5
<1>. QED BY <1>1, <1>r, <1>5, <1>8, <1>9, ReadingStep

(* A read ends where no whole message is left.                             *)
LEMMA EndReadReadOn == IInv /\ ReadOnInv /\ EndRead => ReadOnInv'
<1>. SUFFICES ASSUME IInv, ReadOnInv, EndRead PROVE ReadOnInv'
  OBVIOUS
<1>1. PICK fd \in Fd : fd = reading /\ mmObject[fd] # None
  BY StateFacts, BoundFacts DEF EndRead
<1>2. /\ mmObject[fd] \in Object /\ mmObject[fd].buff \in Seq(Unit)
      /\ ~mmObject[fd].ready \/ ~Whole(mmObject[fd].buff)
  BY <1>1, OneFacts DEF EndRead, NextMessage, NoHandShake
<1>o. mmObject[fd] \in Object
  BY <1>2
<1>. DEFINE dropped == mbTCPStream /\ ~taken
<1>3. PICK b \in Seq(Unit) : b = IF dropped THEN <<>> ELSE mmObject[fd].buff
  BY <1>2, EmptySeq
<1>4. PICK o \in Object : /\ o = [mmObject[fd] EXCEPT !.buff = b] /\ o.buff = b
                          /\ o.ready = mmObject[fd].ready
  BY <1>o, NewBuff, Zenon
<1>5. PICK c : c = (cut[fd] \/ (dropped /\ mmObject[fd].buff # <<>>))
  BY Zenon
<1>6. /\ mmObject' = [mmObject EXCEPT ![fd] = o] /\ UNCHANGED <<wire, peer, told>>
      /\ cut' = [cut EXCEPT ![fd] = c] /\ reading' = None
  BY <1>1, <1>3, <1>4, <1>5, Zenon DEF EndRead
<1>. HIDE DEF dropped
<1>7. c \/ (b = mmObject[fd].buff /\ ~cut[fd])
  BY <1>3, <1>5, Zenon
<1>8. ~o.ready \/ ~Whole(b)
  <2>1. ~Whole(<<>>)
    BY DEF Whole
  <2>. QED BY <1>2, <1>3, <1>4, <2>1, Zenon
<1>9. cut[fd] \/ Fine(mmObject[fd].buff, mmObject[fd].ready, wire[fd], peer[fd].left,
                      peer[fd].next, told[fd].messages)
  BY <1>1, OneFacts, Zenon DEF OneOf
<1>10. /\ wire[fd] \in Seq(Unit) /\ wire' = [wire EXCEPT ![fd] = wire[fd]]
       /\ \A f \in Fd \ {fd} : told'[f].messages = told[f].messages
  BY <1>6, StateFacts
<1>11. /\ c \/ Fine(o.buff, o.ready, wire[fd], peer[fd].left, peer[fd].next, told'[fd].messages)
       /\ reading' = fd \/ ~o.ready \/ o.bNeedRemove \/ ~Whole(o.buff)
  BY <1>4, <1>6, <1>7, <1>8, <1>9, Zenon
<1>12. mmObject' = [mmObject EXCEPT ![fd] = o] /\ UNCHANGED peer /\ cut' = [cut EXCEPT ![fd] = c]
  BY <1>6
<1>r. {reading, reading'} \subseteq {fd, None}
  BY <1>1, <1>6
<1>. QED BY <1>1, <1>r, <1>10, <1>11, <1>12, ReadingStep

-----------------------------------------------------------------------------
(* Accepting and closing leave the other streams alone. *)

LEMMA ListenerReadOn ==
  ASSUME IInv, ReadOnInv, NEW fd \in Fd, Listener(fd) PROVE ReadOnInv'
<1>1. /\ reading = None /\ peer[fd] = None /\ UNCHANGED <<mbTCPStream, reading, wire>>
      /\ cut' = [cut EXCEPT ![fd] = FALSE]
  BY DEF Listener
<1>2. mmObject[fd] = None /\ wire[fd] = <<>>
  BY <1>1 DEF IInv, SockInv, MarkedOK, ReadOnInv, WireInv
<1>. DEFINE p == [id |-> peers + 1, left |-> FALSE, next |-> First,
                  kinds |-> [k \in 0 .. MaxMessage |-> "binary"]]
<1>3. peer' = [peer EXCEPT ![fd] = p] /\ p.left = FALSE /\ p.next = First
  BY Zenon DEF Listener
<1>. HIDE DEF p
<1>4. /\ peer'[fd] = p /\ wire'[fd] = <<>>
      /\ \A f \in Fd \ {fd} : /\ peer'[f] = peer[f] /\ wire'[f] = wire[f] /\ cut'[f] = cut[f]
                              /\ (reading' = f) <=> (reading = f)
  BY <1>1, <1>2, <1>3, StateFacts
<1>5. CASE Full
  <2>1. mmObject' = mmObject /\ told' = told
    BY <1>2, <1>5 DEF Listener
  <2>2. OneInv(fd)'
    BY <1>2, <2>1 DEF OneInv
  <2>. QED BY <1>4, <2>1, <2>2, OneStep
<1>6. CASE ~Full
  <2>. DEFINE o == [buff |-> <<>>, ready |-> ~mbTCPStream, bNeedRemove |-> FALSE]
  <2>1. mmObject' = [mmObject EXCEPT ![fd] = o] /\ told' = [told EXCEPT ![fd] = Untold]
    BY <1>2, <1>6 DEF Listener
  <2>2. o.buff = <<>> /\ o.ready = ~mbTCPStream
    BY Zenon
  <2>. HIDE DEF o
  <2>3. /\ mmObject'[fd] = o /\ told'[fd].messages = <<>>
        /\ \A f \in Fd \ {fd} : mmObject'[f] = mmObject[f] /\ told'[f].messages = told[f].messages
    BY <2>1, StateFacts DEF Untold
  <2>4. Fine(o.buff, o.ready, wire'[fd], peer'[fd].left, peer'[fd].next, told'[fd].messages)
    BY <1>3, <1>4, <2>2, <2>3, FineNew, Zenon
  <2>5. ~Whole(o.buff)
    <3>1. ~Whole(<<>>)
      BY DEF Whole
    <3>. QED BY <2>2, <3>1, Zenon
  <2>6. OneInv(fd)'
    BY <2>3, <2>4, <2>5, Zenon DEF OneInv, OneOf
  <2>7. peer'[fd] = None => wire'[fd] = <<>>
    BY <1>4
  <2>. QED BY <1>4, <2>3, <2>6, <2>7, OneStep
<1>. QED BY <1>5, <1>6

LEMMA CloseReadOn ==
  ASSUME ReadOnInv, NEW closed \in SUBSET Fd, Close(closed), UNCHANGED <<reading, told, cut>>
  PROVE  ReadOnInv'
<1>1. /\ \A fd \in closed : mmObject'[fd] = None /\ wire'[fd] = <<>>
      /\ \A fd \in Fd \ closed : /\ mmObject'[fd] = mmObject[fd] /\ peer'[fd] = peer[fd]
                                 /\ wire'[fd] = wire[fd]
  BY DEF Close
<1>2. ASSUME NEW fd \in Fd PROVE OneInv(fd)'
  <2>1. CASE fd \in closed
    BY <1>1, <2>1 DEF OneInv
  <2>2. CASE fd \notin closed
    BY <1>1, <2>2 DEF OneInv, ReadOnInv
  <2>. QED BY <2>1, <2>2
<1>3. WireInv'
  BY <1>1 DEF ReadOnInv, WireInv
<1>. QED BY <1>2, <1>3 DEF ReadOnInv

(* What only marks leaves the stream alone.                                *)
LEMMA MarksReadOn ==
  ASSUME IInv, ReadOnInv,
         OnError \/ \E fd \in Fd : CloseNetObject(fd) \/ Gone(fd)
  PROVE  ReadOnInv'
<1>1. ASSUME NEW fd \in Fd, OnSocketNetEvent(fd)
      PROVE  \A f \in Fd : told'[f].messages = told[f].messages
  BY <1>1, StateFacts DEF OnSocketNetEvent
<1>2. CASE OnError
  <2>1. reading \in Fd /\ mmObject[reading] # None /\ OnSocketNetEvent(reading)
    BY <1>2, StateFacts, BoundFacts DEF OnError
  <2>2. mmObject' = Marked(mmObject, reading) /\ UNCHANGED <<wire, peer, cut>> /\ reading' = None
    BY <1>2 DEF OnError
  <2>. QED BY <1>1, <2>1, <2>2, MarkReadOn
<1>3. ASSUME NEW fd \in Fd, CloseNetObject(fd) PROVE ReadOnInv'
  <2>1. /\ mmObject[fd] # None /\ mmObject' = Marked(mmObject, fd)
        /\ UNCHANGED <<wire, peer, cut>> /\ UNCHANGED told /\ reading' = reading
    BY <1>3 DEF CloseNetObject
  <2>. QED BY <2>1, MarkReadOn
<1>4. ASSUME NEW fd \in Fd, Gone(fd) PROVE ReadOnInv'
  <2>1. /\ mmObject[fd] # None /\ mmObject' = Marked(mmObject, fd) /\ OnSocketNetEvent(fd)
        /\ UNCHANGED <<wire, peer, cut>> /\ reading' = reading
    BY <1>4 DEF Gone
  <2>. QED BY <1>1, <2>1, MarkReadOn
<1>. QED BY <1>2, <1>3, <1>4

LEMMA InitReadOn == Init => ReadOnInv
BY DEF Init, ReadOnInv, OneInv, WireInv

LEMMA StepReadOn == IInv /\ ReadOnInv /\ [Next]_vars => ReadOnInv'
<1>. SUFFICES ASSUME IInv, ReadOnInv, [Next]_vars PROVE ReadOnInv'
  OBVIOUS
<1>1. CASE UNCHANGED vars
  BY <1>1 DEF vars, ReadOnInv, OneInv, WireInv
<1>2. CASE Next
  <2>1. \/ \E fd \in Fd, kind \in Kind : Write(fd, kind)
        \/ \E fd \in Fd, n \in 0 .. 2 * MaxMessage + 2 : Leave(fd, n) \/ ReadCb(fd, n)
        \/ \E fd \in Fd : CloseNetObject(fd) \/ Listener(fd) \/ Gone(fd)
        \/ Dispatch \/ HandShake \/ RefuseHandShake \/ OnError \/ TextFrame \/ EndRead
        \/ UpdateClose \/ Final
    BY <1>2, Zenon DEF Next
  <2>2. 0 .. 2 * MaxMessage + 2 \subseteq Nat
    BY BoundFacts
  <2>3. UpdateClose => ReadOnInv'
    <3>. SUFFICES ASSUME UpdateClose PROVE ReadOnInv'
      OBVIOUS
    <3>1. /\ Close(mvRemoveObject) /\ mvRemoveObject \in SUBSET Fd
          /\ UNCHANGED <<reading, told, cut>>
      BY DEF UpdateClose, IInv, TypeOK, ObjectsOK
    <3>. QED BY <3>1, CloseReadOn
  <2>4. Final => ReadOnInv'
    <3>. SUFFICES ASSUME Final PROVE ReadOnInv'
      OBVIOUS
    <3>1. Close(Open) /\ Open \in SUBSET Fd /\ UNCHANGED <<reading, told, cut>>
      BY DEF Final, CloseSocketAll, Open
    <3>. QED BY <3>1, CloseReadOn
  <2>6. TextFrame => ReadOnInv'
    <3>. SUFFICES ASSUME TextFrame PROVE ReadOnInv'
      OBVIOUS
    <3>1. Close(Open)
      BY DEF TextFrame
    <3>2. \A fd \in Fd : mmObject'[fd] = None
      BY <3>1 DEF Close, Open
    <3>3. \A fd \in Fd : OneInv(fd)'
      BY <3>2 DEF OneInv
    <3>4. WireInv'
      BY <3>1 DEF Close, ReadOnInv, WireInv
    <3>. QED BY <3>3, <3>4 DEF ReadOnInv
  <2>5. ASSUME OnError \/ \E fd \in Fd : CloseNetObject(fd) \/ Gone(fd) PROVE ReadOnInv'
    BY <2>5, MarksReadOn
  <2>. QED BY <2>1, <2>2, <2>3, <2>4, <2>5, <2>6, WriteReadOn, LeaveReadOn, ReadCbReadOn,
              DispatchReadOn, HandShakeReadOn, RefuseHandShakeReadOn, EndReadReadOn,
              ListenerReadOn, Zenon
<1>. QED BY <1>1, <1>2

LEMMA ToldAll == ReadOnInv => MessagesTold
<1>. SUFFICES ASSUME ReadOnInv PROVE ToldInOrder /\ NothingWaits
  BY DEF MessagesTold
<1>1. ASSUME NEW fd \in Open
      PROVE  OneOf(mmObject[fd].buff, mmObject[fd].ready, mmObject[fd].bNeedRemove, wire[fd],
                   peer[fd].left, peer[fd].next, told[fd].messages, cut[fd], reading = fd)
  BY DEF Open, ReadOnInv, OneInv
<1>2. ToldInOrder
  BY <1>1, Zenon DEF OneOf, Fine, ToldInOrder
<1>3. NothingWaits
  BY <1>1, Zenon DEF OneOf, NothingWaits
<1>. QED BY <1>2, <1>3

(* However a peer's messages are cut into reads, and whoever is closed     *)
(* between and during them: each message is taken once, in order, with the *)
(* read that completes it, until a text frame ends the process.            *)
THEOREM EachMessageOnce == Spec => []MessagesTold
<1>1. Spec => [](IInv /\ ReadOnInv)
  <2>1. Init => IInv /\ ReadOnInv
    BY InitIInv, InitReadOn
  <2>2. (IInv /\ ReadOnInv) /\ [Next]_vars => (IInv /\ ReadOnInv)'
    BY StepIInv, StepReadOn
  <2>. QED BY <2>1, <2>2, PTL DEF Spec
<1>. QED BY <1>1, ToldAll, PTL

=============================================================================
