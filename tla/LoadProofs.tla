----------------------------- MODULE LoadProofs -----------------------------
(***************************************************************************)
(* Proofs about LoadBalance, for any nodes, workloads and clock: the       *)
(* master's copies are true and never go back in time.                     *)
(***************************************************************************)
EXTENDS LoadBalance, SequenceTheorems, NaturalsInduction, WellFoundedInduction, TLAPS

(* What is under way from a node is no newer than its record, and what is  *)
(* as new is the record, unless the process started again in between.      *)
TrueOf(n, i) ==
  /\ i.time <= info[n].time
  /\ i.time = info[n].time => i = info[n] \/ info[n].load = 0

TrueInv ==
  \A n \in Node :
    /\ info[n].time <= clock
    /\ entry[n] # NoEntry => TrueOf(n, entry[n])
    /\ \A i \in 1 .. Len(wire[n]) : TrueOf(n, wire[n][i].info)
    /\ \A i \in 1 .. Len(late[n]) : TrueOf(n, late[n][i].info)

(* A registration is the first message of its connection, and nothing that *)
(* is read before it is newer.                                             *)
Newest(n, t) ==
  /\ entry[n].time <= t
  /\ \A i \in 1 .. Len(late[n]) : late[n][i].info.time <= t

WireInv ==
  \A n \in Node :
    /\ wire[n] # <<>> => linked[n]
    /\ linked[n] => up[n]
    /\ \A i \in 2 .. Len(wire[n]) : wire[n][i].kind = "report"
    /\ \A i \in 1 .. Len(wire[n]) :
         wire[n][i].kind = "register" => Newest(n, wire[n][i].info.time)

(* The same of a registration that an earlier connection still holds: then *)
(* the node has not connected again.                                       *)
LateInv ==
  \A n \in Node : \A i \in 1 .. Len(late[n]) :
    late[n][i].kind = "register" =>
      /\ entry[n].time <= late[n][i].info.time
      /\ \A j \in 1 .. i : late[n][j].info.time <= late[n][i].info.time
      /\ ~linked[n]

IInv == TypeOK /\ TrueInv /\ WireInv /\ LateInv

-----------------------------------------------------------------------------

LEMMA InfoOf ==
  ASSUME TypeOK, NEW n \in Node
  PROVE  /\ info[n] \in Info
         /\ \A i \in 1 .. Len(wire[n]) : wire[n][i].info \in Info /\ wire[n][i].info.time \in Nat
         /\ \A i \in 1 .. Len(late[n]) : late[n][i].info \in Info /\ late[n][i].info.time \in Nat
<1>1. wire[n] \in Seq(Message) /\ late[n] \in Seq(Message)
  BY DEF TypeOK
<1>2. \A i \in 1 .. Len(wire[n]) : wire[n][i] \in Message
  BY <1>1, ElementOfSeq
<1>3. \A i \in 1 .. Len(late[n]) : late[n][i] \in Message
  BY <1>1, ElementOfSeq
<1>4. \A m \in Message : m.info \in Info /\ m.info.time \in Nat
  BY ClockAssumption DEF Message, Info
<1>. QED BY <1>2, <1>3, <1>4 DEF TypeOK

LEMMA InitIInv == Init => IInv
<1>. SUFFICES ASSUME Init PROVE IInv
  OBVIOUS
<1>. USE DEF Init
<1>1. TypeOK
  BY ClockAssumption, LoadAssumption DEF TypeOK, Info, NoEntry
<1>2. TrueInv
  <2>. SUFFICES ASSUME NEW n \in Node PROVE
         /\ info[n].time <= clock
         /\ entry[n] # NoEntry => TrueOf(n, entry[n])
         /\ \A i \in 1 .. Len(wire[n]) : TrueOf(n, wire[n][i].info)
         /\ \A i \in 1 .. Len(late[n]) : TrueOf(n, late[n][i].info)
    BY DEF TrueInv
  <2>1. wire[n] = <<>> /\ late[n] = <<>> /\ entry[n] = NoEntry /\ info[n].time <= clock
    OBVIOUS
  <2>. QED BY <2>1
<1>3. WireInv /\ LateInv
  BY DEF WireInv, LateInv
<1>. QED BY <1>1, <1>2, <1>3 DEF IInv

LEMMA TickIInv == IInv /\ Tick => IInv'
<1>. SUFFICES ASSUME IInv, Tick PROVE IInv'
  OBVIOUS
<1>. USE DEF Tick
<1>1. TypeOK'
  BY ClockAssumption DEF IInv, TypeOK
<1>2. TrueInv'
  BY DEF IInv, TypeOK, TrueInv, TrueOf, Info
<1>3. WireInv' /\ LateInv'
  BY DEF IInv, WireInv, LateInv, Newest
<1>. QED BY <1>1, <1>2, <1>3 DEF IInv

LEMMA StartIInv == ASSUME IInv, NEW n \in Node, Start(n) PROVE IInv'
<1>. USE DEF Start
<1>1. TypeOK'
  BY LoadAssumption DEF IInv, TypeOK, Info
<1>2. TrueInv'
  <2>. SUFFICES ASSUME NEW m \in Node PROVE
         /\ info'[m].time <= clock
         /\ entry[m] # NoEntry => TrueOf(m, entry[m])'
         /\ \A i \in 1 .. Len(wire[m]) : TrueOf(m, wire[m][i].info)'
         /\ \A i \in 1 .. Len(late[m]) : TrueOf(m, late[m][i].info)'
    BY DEF TrueInv
  <2>1. CASE m = n
    <3>1. info'[m] = [time |-> clock, load |-> 0] /\ info[m].time <= clock
      BY <2>1 DEF IInv, TypeOK, TrueInv
    <3>2. \A i \in Info : i.time <= info[m].time => i.time <= clock
      BY <3>1 DEF Info, IInv, TypeOK
    <3>3. entry[m] # NoEntry => TrueOf(m, entry[m])'
      BY <3>1, <3>2 DEF IInv, TrueInv, TrueOf, TypeOK
    <3>4. ASSUME NEW i \in 1 .. Len(wire[m]) PROVE TrueOf(m, wire[m][i].info)'
      <4>1. wire[m][i] \in Message
        BY DEF IInv, TypeOK
      <4>. QED BY <3>1, <3>2, <4>1 DEF IInv, TrueInv, TrueOf, Message
    <3>5. ASSUME NEW i \in 1 .. Len(late[m]) PROVE TrueOf(m, late[m][i].info)'
      <4>1. late[m][i] \in Message
        BY DEF IInv, TypeOK
      <4>. QED BY <3>1, <3>2, <4>1 DEF IInv, TrueInv, TrueOf, Message
    <3>6. info'[m].time <= clock
      BY <3>1, ClockAssumption DEF IInv, TypeOK
    <3>. QED BY <3>3, <3>4, <3>5, <3>6
  <2>2. CASE m # n
    BY <2>2 DEF IInv, TypeOK, TrueInv, TrueOf
  <2>. QED BY <2>1, <2>2
<1>3. WireInv' /\ LateInv'
  BY DEF IInv, TypeOK, WireInv, LateInv, Newest
<1>. QED BY <1>1, <1>2, <1>3 DEF IInv

LEMMA ConnectIInv == ASSUME IInv, NEW n \in Node, Connect(n) PROVE IInv'
<1>. DEFINE hello == [kind |-> "register", info |-> info[n]]
<1>. USE DEF Connect
<1>1. /\ info[n] \in Info
      /\ hello \in Message
      /\ wire' = [wire EXCEPT ![n] = <<hello>>]
  BY DEF IInv, TypeOK, Message
<1>2. TypeOK'
  BY <1>1 DEF IInv, TypeOK
<1>3. TrueInv'
  <2>1. TrueOf(n, info[n])
    BY <1>1 DEF TrueOf, Info
  <2>2. wire'[n] = <<hello>> /\ \A m \in Node \ {n} : wire'[m] = wire[m]
    BY <1>1 DEF IInv, TypeOK
  <2>. QED BY <1>1, <2>1, <2>2 DEF IInv, TypeOK, TrueInv, TrueOf
<1>4. \A i \in 1 .. Len(late[n]) : late[n][i].kind # "register"
  BY DEF Registers, IInv, TypeOK
<1>5. Newest(n, info[n].time)
  <2>1. entry[n] # NoEntry => entry[n].time <= info[n].time
    BY DEF IInv, TrueInv, TrueOf
  <2>2. NoEntry.time <= info[n].time
    BY <1>1, ClockAssumption DEF NoEntry, Info
  <2>3. \A i \in 1 .. Len(late[n]) : late[n][i].info.time <= info[n].time
    BY DEF IInv, TrueInv, TrueOf
  <2>. QED BY <2>1, <2>2, <2>3 DEF Newest
<1>6. WireInv'
  <2>. SUFFICES ASSUME NEW m \in Node PROVE
         (/\ wire[m] # <<>> => linked[m]
          /\ linked[m] => up[m]
          /\ \A i \in 2 .. Len(wire[m]) : wire[m][i].kind = "report"
          /\ \A i \in 1 .. Len(wire[m]) :
               wire[m][i].kind = "register" => Newest(m, wire[m][i].info.time))'
    BY DEF WireInv
  <2>1. CASE m = n
    <3>1. wire'[n] = <<hello>> /\ linked'[n]
      BY <1>1 DEF IInv, TypeOK
    <3>2. wire'[n][1] = hello /\ Len(wire'[n]) = 1
      BY <3>1
    <3>. QED BY <2>1, <3>1, <3>2, <1>5 DEF Newest
  <2>2. CASE m # n
    BY <2>2, <1>1 DEF IInv, TypeOK, WireInv, Newest
  <2>. QED BY <2>1, <2>2
<1>7. LateInv'
  BY <1>4 DEF IInv, TypeOK, LateInv
<1>. QED BY <1>2, <1>3, <1>6, <1>7 DEF IInv

LEMMA UpdateStateIInv == ASSUME IInv, NEW n \in Node, UpdateState(n) PROVE IInv'
<1>1. PICK load \in Load :
        /\ up[n]
        /\ info[n].time < clock
        /\ info' = [info EXCEPT ![n] = [time |-> clock, load |-> load]]
        /\ wire' = IF linked[n]
                   THEN [wire EXCEPT ![n] = Append(@, [kind |-> "report", info |-> info'[n]])]
                   ELSE wire
        /\ UNCHANGED <<clock, up, linked, late, entry>>
  BY DEF UpdateState, Stamp
<1>. DEFINE new == [time |-> clock, load |-> load]
            report == [kind |-> "report", info |-> new]
<1>2. /\ new \in Info
      /\ info'[n] = new
      /\ \A m \in Node \ {n} : info'[m] = info[m] /\ wire'[m] = wire[m]
      /\ wire'[n] = IF linked[n] THEN Append(wire[n], report) ELSE wire[n]
      /\ wire[n] \in Seq(Message)
      /\ report \in Message
  BY <1>1 DEF IInv, TypeOK, Message, Info
<1>3. TypeOK'
  BY <1>1, <1>2 DEF IInv, TypeOK
<1>4. \A i \in 1 .. Len(wire'[n]) :
        \/ i \in 1 .. Len(wire[n]) /\ wire'[n][i] = wire[n][i]
        \/ wire[n] = <<>> /\ i = 1 /\ wire'[n][i] = report
        \/ wire[n] # <<>> /\ i > 1 /\ wire'[n][i] = report
  BY <1>2
<1>5. TrueInv'
  <2>. SUFFICES ASSUME NEW m \in Node PROVE
         (/\ info[m].time <= clock
          /\ entry[m] # NoEntry => TrueOf(m, entry[m])
          /\ \A i \in 1 .. Len(wire[m]) : TrueOf(m, wire[m][i].info)
          /\ \A i \in 1 .. Len(late[m]) : TrueOf(m, late[m][i].info))'
    BY DEF TrueInv
  <2>1. CASE m = n
    <3>1. info'[n] = new /\ info[n].time < clock /\ new.time = clock /\ clock' = clock
      BY <1>1, <1>2
    <3>2. \A i \in Info : i.time <= info[n].time => i.time < clock
      BY <3>1 DEF Info, IInv, TypeOK
    <3>3. entry[n] # NoEntry => TrueOf(n, entry[n])'
      BY <1>1, <3>1, <3>2 DEF IInv, TrueInv, TrueOf, TypeOK, Info
    <3>4. ASSUME NEW i \in 1 .. Len(wire'[n]) PROVE TrueOf(n, wire[n][i].info)'
      <4>1. CASE wire'[n][i] = report
        BY <4>1, <3>1, ClockAssumption DEF TrueOf, IInv, TypeOK
      <4>2. CASE i \in 1 .. Len(wire[n]) /\ wire'[n][i] = wire[n][i]
        <5>1. wire[n][i].info \in Info
          BY <4>2, InfoOf DEF IInv
        <5>2. wire[n][i].info.time <= info[n].time
          BY <4>2 DEF IInv, TrueInv, TrueOf
        <5>3. wire[n][i].info.time < clock
          BY <5>1, <5>2, <3>2
        <5>. QED BY <4>2, <5>1, <5>3, <3>1 DEF TrueOf, Info, IInv, TypeOK
      <4>. QED BY <1>4, <4>1, <4>2
    <3>5. ASSUME NEW i \in 1 .. Len(late[n]) PROVE TrueOf(n, late[n][i].info)'
      <4>1. late[n][i].info \in Info
        BY InfoOf DEF IInv
      <4>2. late[n][i].info.time <= info[n].time
        BY DEF IInv, TrueInv, TrueOf
      <4>3. late[n][i].info.time < clock
        BY <4>1, <4>2, <3>2
      <4>. QED BY <1>1, <4>1, <4>3, <3>1 DEF TrueOf, Info, IInv, TypeOK
    <3>6. info'[n].time <= clock'
      BY <3>1, ClockAssumption DEF IInv, TypeOK
    <3>. QED BY <2>1, <1>1, <3>3, <3>4, <3>5, <3>6
  <2>2. CASE m # n
    BY <2>2, <1>1, <1>2 DEF IInv, TypeOK, TrueInv, TrueOf
  <2>. QED BY <2>1, <2>2
<1>6. WireInv'
  <2>. SUFFICES ASSUME NEW m \in Node PROVE
         (/\ wire[m] # <<>> => linked[m]
          /\ linked[m] => up[m]
          /\ \A i \in 2 .. Len(wire[m]) : wire[m][i].kind = "report"
          /\ \A i \in 1 .. Len(wire[m]) :
               wire[m][i].kind = "register" => Newest(m, wire[m][i].info.time))'
    BY DEF WireInv
  <2>1. CASE m = n
    <3>1. wire'[n] # <<>> => linked[n]
      BY <1>2 DEF IInv, WireInv
    <3>2. \A i \in 2 .. Len(wire'[n]) : wire'[n][i].kind = "report"
      BY <1>4 DEF IInv, WireInv
    <3>3. ASSUME NEW i \in 1 .. Len(wire'[n]), wire'[n][i].kind = "register"
          PROVE  Newest(n, wire[n][i].info.time)'
      <4>1. i \in 1 .. Len(wire[n]) /\ wire'[n][i] = wire[n][i]
        BY <1>4, <3>3
      <4>. QED BY <1>1, <3>3, <4>1 DEF IInv, WireInv, Newest
    <3>. QED BY <2>1, <1>1, <3>1, <3>2, <3>3 DEF IInv, WireInv
  <2>2. CASE m # n
    BY <2>2, <1>1, <1>2 DEF IInv, TypeOK, WireInv, Newest
  <2>. QED BY <2>1, <2>2
<1>7. LateInv'
  BY <1>1 DEF IInv, TypeOK, LateInv
<1>. QED BY <1>3, <1>5, <1>6, <1>7 DEF IInv

(* What an earlier connection may still hold.                              *)
LEMMA LinkEndsIInv ==
  ASSUME IInv, NEW n \in Node, LinkEnds(n), UNCHANGED <<clock, info, entry>>,
         up' \in [Node -> BOOLEAN], \A m \in Node \ {n} : up'[m] = up[m]
  PROVE  IInv'
<1>0. clock' = clock /\ info' = info /\ entry' = entry
  OBVIOUS
<1>1. PICK k \in 0 .. Len(wire[n]) : late' = [late EXCEPT ![n] = @ \o SubSeq(wire[n], 1, k)]
  BY DEF LinkEnds
<1>2. /\ wire[n] \in Seq(Message) /\ late[n] \in Seq(Message)
      /\ wire'[n] = <<>> /\ linked'[n] = FALSE
      /\ late'[n] = late[n] \o SubSeq(wire[n], 1, k)
      /\ \A m \in Node \ {n} : /\ wire'[m] = wire[m] /\ late'[m] = late[m]
                               /\ linked'[m] = linked[m]
  BY <1>1 DEF LinkEnds, IInv, TypeOK
<1>. DEFINE part == SubSeq(wire[n], 1, k)
<1>3. /\ part \in Seq(Message) /\ Len(part) = k
      /\ \A i \in 1 .. k : part[i] = wire[n][i]
  <2>1. Len(wire[n]) \in Nat /\ \A i \in 1 .. k : wire[n][i] \in Message
    BY <1>2, ElementOfSeq, LenProperties
  <2>. QED BY <2>1, SubSeqProperties
<1>. HIDE DEF part
<1>4. /\ Len(late[n]) \in Nat /\ Len(wire[n]) \in Nat
      /\ late'[n] \in Seq(Message)
      /\ Len(late'[n]) = Len(late[n]) + k
      /\ \A i \in 1 .. Len(late[n]) + k :
           late'[n][i] = IF i <= Len(late[n]) THEN late[n][i] ELSE part[i - Len(late[n])]
  <2>1. late'[n] = late[n] \o part
    BY <1>2 DEF part
  <2>2. /\ late[n] \o part \in Seq(Message)
        /\ Len(late[n] \o part) = Len(late[n]) + Len(part)
        /\ \A i \in 1 .. Len(late[n]) + Len(part) :
             (late[n] \o part)[i] = IF i <= Len(late[n]) THEN late[n][i] ELSE part[i - Len(late[n])]
    <3>1. late[n] \in Seq(Message) /\ part \in Seq(Message)
      BY <1>2, <1>3
    <3>. QED BY <3>1, ConcatProperties
  <2>3. Len(late[n]) \in Nat /\ Len(wire[n]) \in Nat
    BY <1>2, LenProperties
  <2>. QED BY <1>2, <1>3, <2>1, <2>2, <2>3
<1>5. /\ \A i \in 1 .. Len(late[n]) : i \in 1 .. Len(late'[n]) /\ late'[n][i] = late[n][i]
      /\ \A i \in 1 .. Len(late'[n]) : i > Len(late[n]) =>
           /\ i - Len(late[n]) \in 1 .. Len(wire[n])
           /\ late'[n][i] = wire[n][i - Len(late[n])]
  BY <1>3, <1>4
<1>9. TypeOK'
  <2>1. late' \in [Node -> Seq(Message)]
    BY <1>1, <1>4 DEF IInv, TypeOK
  <2>. QED BY <2>1 DEF IInv, TypeOK, LinkEnds
<1>6. TrueInv'
  <2>. SUFFICES ASSUME NEW m \in Node PROVE
         (/\ info[m].time <= clock
          /\ entry[m] # NoEntry => TrueOf(m, entry[m])
          /\ \A i \in 1 .. Len(wire[m]) : TrueOf(m, wire[m][i].info)
          /\ \A i \in 1 .. Len(late[m]) : TrueOf(m, late[m][i].info))'
    BY DEF TrueInv
  <2>1. CASE m = n
    <3>1. ASSUME NEW i \in 1 .. Len(late'[n]) PROVE TrueOf(n, late[n][i].info)'
      <4>1. TrueOf(n, late'[n][i].info)
        <5>1. CASE i <= Len(late[n])
          <6>1. i \in 1 .. Len(late[n]) /\ late'[n][i] = late[n][i]
            BY <5>1, <1>4, <1>5
          <6>. QED BY <6>1 DEF IInv, TrueInv
        <5>2. CASE i > Len(late[n])
          <6>1. /\ i - Len(late[n]) \in 1 .. Len(wire[n])
                /\ late'[n][i] = wire[n][i - Len(late[n])]
            BY <5>2, <1>5
          <6>. QED BY <6>1 DEF IInv, TrueInv
        <5>. QED BY <5>1, <5>2, <1>4
      <4>. QED BY <4>1, <1>0 DEF TrueOf
    <3>2. wire'[n] = <<>> /\ Len(<<>>) = 0
      BY <1>2, EmptySeq
    <3>. QED BY <2>1, <1>0, <3>1, <3>2 DEF IInv, TrueInv, TrueOf
  <2>2. CASE m # n
    <3>1. /\ info[m].time <= clock
          /\ entry[m] # NoEntry => TrueOf(m, entry[m])
          /\ \A i \in 1 .. Len(wire[m]) : TrueOf(m, wire[m][i].info)
          /\ \A i \in 1 .. Len(late[m]) : TrueOf(m, late[m][i].info)
      BY DEF IInv, TrueInv
    <3>2. wire'[m] = wire[m] /\ late'[m] = late[m]
      BY <2>2, <1>2
    <3>. QED BY <1>0, <3>1, <3>2 DEF TrueOf
  <2>. QED BY <2>1, <2>2
<1>7. WireInv'
  <2>. SUFFICES ASSUME NEW m \in Node PROVE
         (/\ wire[m] # <<>> => linked[m]
          /\ linked[m] => up[m]
          /\ \A i \in 2 .. Len(wire[m]) : wire[m][i].kind = "report"
          /\ \A i \in 1 .. Len(wire[m]) :
               wire[m][i].kind = "register" => Newest(m, wire[m][i].info.time))'
    BY DEF WireInv
  <2>1. CASE m = n
    BY <2>1, <1>2
  <2>2. CASE m # n
    BY <2>2, <1>0, <1>2 DEF IInv, TypeOK, WireInv, Newest
  <2>. QED BY <2>1, <2>2
<1>8. LateInv'
  <2>. SUFFICES ASSUME NEW m \in Node, NEW i \in 1 .. Len(late'[m]), late'[m][i].kind = "register"
                PROVE  /\ entry[m].time <= late'[m][i].info.time
                       /\ \A j \in 1 .. i : late'[m][j].info.time <= late'[m][i].info.time
                       /\ ~linked'[m]
    BY DEF LateInv
  <2>1. CASE m = n /\ i <= Len(late[n])
    <3>1. \A j \in 1 .. i : j \in 1 .. Len(late[n]) /\ late'[n][j] = late[n][j]
      BY <2>1, <1>4, <1>5
    <3>2. i \in 1 .. Len(late[n]) /\ late[n][i].kind = "register"
      BY <2>1, <3>1, <1>4
    <3>3. /\ entry[n].time <= late[n][i].info.time
          /\ \A j \in 1 .. i : late[n][j].info.time <= late[n][i].info.time
      BY <3>2 DEF IInv, LateInv
    <3>4. i \in 1 .. i
      BY <3>2, <1>4
    <3>5. late'[n][i] = late[n][i]
      BY <3>1, <3>4
    <3>6. \A j \in 1 .. i : late'[n][j].info.time <= late'[n][i].info.time
      BY <3>1, <3>3, <3>5
    <3>. QED BY <2>1, <1>0, <3>3, <3>5, <3>6, <1>2
  <2>2. CASE m = n /\ i > Len(late[n])
    <3>1. /\ 1 \in 1 .. Len(wire[n]) /\ wire[n][1].kind = "register"
          /\ late'[n][i] = wire[n][1] /\ i = Len(late[n]) + 1
      <4>1. /\ i - Len(late[n]) \in 1 .. Len(wire[n])
            /\ late'[n][i] = wire[n][i - Len(late[n])]
        BY <2>2, <1>4, <1>5
      <4>2. wire[n][i - Len(late[n])].kind = "register"
        BY <2>2, <4>1
      <4>3. i - Len(late[n]) = 1
        <5>1. \A x \in 2 .. Len(wire[n]) : wire[n][x].kind = "report"
          BY DEF IInv, WireInv
        <5>2. i - Len(late[n]) \notin 2 .. Len(wire[n])
          BY <4>2, <5>1
        <5>. QED BY <4>1, <5>2, <1>4
      <4>. QED BY <4>1, <4>2, <4>3, <1>4
    <3>2. Newest(n, wire[n][1].info.time)
      BY <3>1 DEF IInv, WireInv
    <3>3. \A j \in 1 .. Len(late[n]) : late'[n][j] = late[n][j]
      BY <1>4, <1>5
    <3>4. wire[n][1].info.time \in Nat
      BY <3>1, InfoOf DEF IInv
    <3>5. \A j \in 1 .. i : j \in 1 .. Len(late[n]) \/ j = i
      BY <3>1, <1>4
    <3>6. \A j \in 1 .. i : late'[n][j].info.time <= late'[n][i].info.time
      <4>. SUFFICES ASSUME NEW j \in 1 .. i PROVE late'[n][j].info.time <= late'[n][i].info.time
        OBVIOUS
      <4>1. CASE j \in 1 .. Len(late[n])
        BY <4>1, <3>1, <3>2, <3>3 DEF Newest
      <4>2. CASE j = i
        BY <4>2, <3>1, <3>4
      <4>. QED BY <4>1, <4>2, <3>5
    <3>7. entry[n].time <= late'[n][i].info.time
      BY <3>1, <3>2 DEF Newest
    <3>. QED BY <2>2, <1>0, <3>6, <3>7, <1>2
  <2>3. CASE m # n
    <3>1. late'[m] = late[m] /\ linked'[m] = linked[m] /\ entry'[m] = entry[m]
      BY <2>3, <1>0, <1>2
    <3>2. i \in 1 .. Len(late[m]) /\ late[m][i].kind = "register"
      BY <3>1
    <3>3. /\ entry[m].time <= late[m][i].info.time
          /\ \A j \in 1 .. i : late[m][j].info.time <= late[m][i].info.time
          /\ ~linked[m]
      BY <3>2 DEF IInv, LateInv
    <3>. QED BY <3>1, <3>3
  <2>4. m = n => i <= Len(late[n]) \/ i > Len(late[n])
    BY <1>4
  <2>. QED BY <2>1, <2>2, <2>3, <2>4, Zenon
<1>. QED BY <1>9, <1>6, <1>7, <1>8 DEF IInv

LEMMA LinkLostIInv == ASSUME IInv, NEW n \in Node, LinkLost(n) PROVE IInv'
BY LinkEndsIInv DEF LinkLost, IInv, TypeOK

LEMMA CrashIInv == ASSUME IInv, NEW n \in Node, Crash(n) PROVE IInv'
BY LinkEndsIInv DEF Crash, IInv, TypeOK

(* What the master reads next, and what stays behind it.                   *)
LEMMA ReadNext ==
  ASSUME NEW s \in Seq(Message), s # <<>>
  PROVE  /\ 1 \in 1 .. Len(s) /\ Head(s) = s[1] /\ s[1] \in Message
         /\ Tail(s) \in Seq(Message)
         /\ \A i \in 1 .. Len(Tail(s)) :
              i + 1 \in 2 .. Len(s) /\ i + 1 \in 1 .. Len(s) /\ Tail(s)[i] = s[i + 1]
OBVIOUS

LEMMA HandleEntry ==
  ASSUME TypeOK, NEW n \in Node, NEW m \in Message, Handle(n, m)
  PROVE  /\ entry' \in [Node -> Info \cup {NoEntry}]
         /\ \A k \in Node \ {n} : entry'[k] = entry[k]
         /\ entry'[n] = m.info \/ (m.kind = "report" /\ entry'[n] = entry[n])
         /\ m.kind = "report" => entry'[n] = entry[n] \/ ~(entry[n].time >= m.info.time)
<1>1. m.info \in Info /\ m.kind \in {"register", "report"}
  BY DEF Message
<1>2. CASE m.kind = "register"
  <2>1. entry' = [entry EXCEPT ![n] = m.info]
    BY <1>2 DEF Handle, Registered
  <2>. QED BY <2>1, <1>1, <1>2 DEF TypeOK
<1>3. CASE m.kind = "report"
  <2>1. entry' = IF entry[n].time >= m.info.time THEN entry ELSE [entry EXCEPT ![n] = m.info]
    BY <1>3 DEF Handle, Reported, Stale
  <2>. QED BY <2>1, <1>1, <1>3 DEF TypeOK
<1>. QED BY <1>1, <1>2, <1>3

LEMMA TimesOf ==
  ASSUME TypeOK, NEW n \in Node
  PROVE  entry[n].time \in Int /\ NoEntry.time = -1 /\ info[n].time \in Nat
<1>1. entry[n] \in Info \cup {NoEntry} /\ info[n] \in Info
  BY DEF TypeOK
<1>2. \A i \in Info : i.time \in Nat
  BY ClockAssumption DEF Info
<1>3. NoEntry.time = -1
  BY DEF NoEntry
<1>. QED BY <1>1, <1>2, <1>3

LEMMA OnMessageIInv == ASSUME IInv, NEW n \in Node, OnMessage(n) PROVE IInv'
<1>. DEFINE m == Head(wire[n])
<1>1. /\ wire[n] \in Seq(Message) /\ wire[n] # <<>>
      /\ Handle(n, m)
      /\ wire' = [wire EXCEPT ![n] = Tail(wire[n])]
      /\ clock' = clock /\ up' = up /\ linked' = linked /\ info' = info /\ late' = late
  BY DEF OnMessage, IInv, TypeOK
<1>2. /\ 1 \in 1 .. Len(wire[n]) /\ m = wire[n][1] /\ m \in Message
      /\ Tail(wire[n]) \in Seq(Message)
      /\ \A i \in 1 .. Len(Tail(wire[n])) :
           /\ i + 1 \in 2 .. Len(wire[n]) /\ i + 1 \in 1 .. Len(wire[n])
           /\ Tail(wire[n])[i] = wire[n][i + 1]
  BY <1>1, ReadNext
<1>3. /\ wire' \in [Node -> Seq(Message)]
      /\ wire'[n] = Tail(wire[n])
      /\ \A k \in Node \ {n} : wire'[k] = wire[k]
  BY <1>1, <1>2 DEF IInv, TypeOK
<1>4. /\ entry' \in [Node -> Info \cup {NoEntry}]
      /\ \A k \in Node \ {n} : entry'[k] = entry[k]
      /\ entry'[n] = m.info \/ entry'[n] = entry[n]
  <2>. HIDE DEF m
  <2>. QED BY <1>1, <1>2, HandleEntry DEF IInv
<1>5. /\ \A i \in 2 .. Len(wire[n]) : wire[n][i].kind = "report"
      /\ linked[n] /\ up[n]
  BY <1>1 DEF IInv, WireInv
<1>. HIDE DEF m
<1>6. TypeOK'
  BY <1>1, <1>3, <1>4 DEF IInv, TypeOK
<1>7. TrueInv'
  <2>. SUFFICES ASSUME NEW k \in Node PROVE
         (/\ info[k].time <= clock
          /\ entry[k] # NoEntry => TrueOf(k, entry[k])
          /\ \A i \in 1 .. Len(wire[k]) : TrueOf(k, wire[k][i].info)
          /\ \A i \in 1 .. Len(late[k]) : TrueOf(k, late[k][i].info))'
    BY DEF TrueInv
  <2>1. /\ info[k].time <= clock
        /\ entry[k] # NoEntry => TrueOf(k, entry[k])
        /\ \A i \in 1 .. Len(wire[k]) : TrueOf(k, wire[k][i].info)
        /\ \A i \in 1 .. Len(late[k]) : TrueOf(k, late[k][i].info)
    BY DEF IInv, TrueInv
  <2>2. CASE k = n
    <3>1. TrueOf(n, m.info)
      BY <2>1, <2>2, <1>2
    <3>2. entry'[n] # NoEntry => TrueOf(n, entry'[n])
      BY <2>1, <2>2, <3>1, <1>4
    <3>3. \A i \in 1 .. Len(wire'[n]) : TrueOf(n, wire'[n][i].info)
      BY <2>1, <2>2, <1>2, <1>3
    <3>. QED BY <2>1, <2>2, <3>2, <3>3, <1>1 DEF TrueOf
  <2>3. CASE k # n
    <3>1. wire'[k] = wire[k] /\ entry'[k] = entry[k]
      BY <2>3, <1>3, <1>4
    <3>. QED BY <2>1, <3>1, <1>1 DEF TrueOf
  <2>. QED BY <2>2, <2>3
<1>8. WireInv'
  <2>. SUFFICES ASSUME NEW k \in Node PROVE
         (/\ wire[k] # <<>> => linked[k]
          /\ linked[k] => up[k]
          /\ \A i \in 2 .. Len(wire[k]) : wire[k][i].kind = "report"
          /\ \A i \in 1 .. Len(wire[k]) :
               wire[k][i].kind = "register" => Newest(k, wire[k][i].info.time))'
    BY DEF WireInv
  <2>1. CASE k = n
    <3>1. \A i \in 1 .. Len(wire'[n]) : wire'[n][i].kind = "report"
      BY <1>2, <1>3, <1>5
    <3>. QED BY <2>1, <3>1, <1>1, <1>5
  <2>2. CASE k # n
    <3>1. wire'[k] = wire[k] /\ entry'[k] = entry[k]
      BY <2>2, <1>3, <1>4
    <3>. QED BY <3>1, <1>1 DEF IInv, WireInv, Newest
  <2>. QED BY <2>1, <2>2
<1>9. LateInv'
  <2>. SUFFICES ASSUME NEW k \in Node, NEW i \in 1 .. Len(late[k]), late[k][i].kind = "register"
                PROVE  /\ entry'[k].time <= late[k][i].info.time
                       /\ \A j \in 1 .. i : late[k][j].info.time <= late[k][i].info.time
                       /\ ~linked[k]
    BY <1>1 DEF LateInv
  <2>1. /\ entry[k].time <= late[k][i].info.time
        /\ \A j \in 1 .. i : late[k][j].info.time <= late[k][i].info.time
        /\ ~linked[k]
    BY DEF IInv, LateInv
  <2>2. k # n
    BY <2>1, <1>5
  <2>. QED BY <2>1, <2>2, <1>4
<1>. QED BY <1>6, <1>7, <1>8, <1>9 DEF IInv

LEMMA OnLateMessageIInv == ASSUME IInv, NEW n \in Node, OnLateMessage(n) PROVE IInv'
<1>. DEFINE m == Head(late[n])
<1>1. /\ late[n] \in Seq(Message) /\ late[n] # <<>>
      /\ Handle(n, m)
      /\ late' = [late EXCEPT ![n] = Tail(late[n])]
      /\ clock' = clock /\ up' = up /\ linked' = linked /\ info' = info /\ wire' = wire
  BY DEF OnLateMessage, IInv, TypeOK
<1>2. /\ 1 \in 1 .. Len(late[n]) /\ m = late[n][1] /\ m \in Message
      /\ Tail(late[n]) \in Seq(Message)
      /\ \A i \in 1 .. Len(Tail(late[n])) :
           /\ i + 1 \in 2 .. Len(late[n]) /\ i + 1 \in 1 .. Len(late[n])
           /\ Tail(late[n])[i] = late[n][i + 1]
  BY <1>1, ReadNext
<1>3. /\ late' \in [Node -> Seq(Message)]
      /\ late'[n] = Tail(late[n])
      /\ \A k \in Node \ {n} : late'[k] = late[k]
  BY <1>1, <1>2 DEF IInv, TypeOK
<1>4. /\ entry' \in [Node -> Info \cup {NoEntry}]
      /\ \A k \in Node \ {n} : entry'[k] = entry[k]
      /\ entry'[n] = m.info \/ entry'[n] = entry[n]
  <2>. HIDE DEF m
  <2>. QED BY <1>1, <1>2, HandleEntry DEF IInv
<1>5. \A i \in 1 .. Len(late'[n]) :
        /\ i + 1 \in 1 .. Len(late[n])
        /\ late'[n][i] = late[n][i + 1]
  BY <1>2, <1>3
<1>. HIDE DEF m
<1>6. TypeOK'
  BY <1>1, <1>3, <1>4 DEF IInv, TypeOK
<1>7. TrueInv'
  <2>. SUFFICES ASSUME NEW k \in Node PROVE
         (/\ info[k].time <= clock
          /\ entry[k] # NoEntry => TrueOf(k, entry[k])
          /\ \A i \in 1 .. Len(wire[k]) : TrueOf(k, wire[k][i].info)
          /\ \A i \in 1 .. Len(late[k]) : TrueOf(k, late[k][i].info))'
    BY DEF TrueInv
  <2>1. /\ info[k].time <= clock
        /\ entry[k] # NoEntry => TrueOf(k, entry[k])
        /\ \A i \in 1 .. Len(wire[k]) : TrueOf(k, wire[k][i].info)
        /\ \A i \in 1 .. Len(late[k]) : TrueOf(k, late[k][i].info)
    BY DEF IInv, TrueInv
  <2>2. CASE k = n
    <3>1. TrueOf(n, m.info)
      BY <2>1, <2>2, <1>2
    <3>2. entry'[n] # NoEntry => TrueOf(n, entry'[n])
      BY <2>1, <2>2, <3>1, <1>4
    <3>3. \A i \in 1 .. Len(late'[n]) : TrueOf(n, late'[n][i].info)
      BY <2>1, <2>2, <1>5
    <3>. QED BY <2>1, <2>2, <3>2, <3>3, <1>1 DEF TrueOf
  <2>3. CASE k # n
    <3>1. late'[k] = late[k] /\ entry'[k] = entry[k]
      BY <2>3, <1>3, <1>4
    <3>. QED BY <2>1, <3>1, <1>1 DEF TrueOf
  <2>. QED BY <2>2, <2>3
<1>8. WireInv'
  <2>. SUFFICES ASSUME NEW k \in Node, NEW i \in 1 .. Len(wire[k]), wire[k][i].kind = "register"
                PROVE  Newest(k, wire[k][i].info.time)'
    <3>1. \A k \in Node : /\ wire[k] # <<>> => linked[k]
                          /\ linked[k] => up[k]
                          /\ \A i \in 2 .. Len(wire[k]) : wire[k][i].kind = "report"
      BY DEF IInv, WireInv
    <3>. QED BY <3>1, <1>1 DEF WireInv
  <2>1. Newest(k, wire[k][i].info.time)
    BY DEF IInv, WireInv
  <2>2. CASE k = n
    <3>1. entry'[n].time <= wire[n][i].info.time
      BY <2>1, <2>2, <1>2, <1>4 DEF Newest
    <3>2. \A j \in 1 .. Len(late'[n]) : late'[n][j].info.time <= wire[n][i].info.time
      BY <2>1, <2>2, <1>5 DEF Newest
    <3>. QED BY <2>2, <3>1, <3>2, <1>1 DEF Newest
  <2>3. CASE k # n
    <3>1. late'[k] = late[k] /\ entry'[k] = entry[k]
      BY <2>3, <1>3, <1>4
    <3>. QED BY <2>1, <3>1, <1>1 DEF Newest
  <2>. QED BY <2>2, <2>3
<1>9. LateInv'
  <2>. SUFFICES ASSUME NEW k \in Node, NEW i \in 1 .. Len(late'[k]), late'[k][i].kind = "register"
                PROVE  /\ entry'[k].time <= late'[k][i].info.time
                       /\ \A j \in 1 .. i : late'[k][j].info.time <= late'[k][i].info.time
                       /\ ~linked[k]
    BY <1>1 DEF LateInv
  <2>1. CASE k = n
    <3>1. i + 1 \in 1 .. Len(late[n]) /\ late[n][i + 1].kind = "register"
          /\ late'[n][i] = late[n][i + 1]
      BY <2>1, <1>5
    <3>2. /\ entry[n].time <= late[n][i + 1].info.time
          /\ \A j \in 1 .. i + 1 : late[n][j].info.time <= late[n][i + 1].info.time
          /\ ~linked[n]
      BY <3>1 DEF IInv, LateInv
    <3>3. m.info.time <= late[n][i + 1].info.time
      BY <3>2, <1>2
    <3>4. entry'[n].time <= late[n][i + 1].info.time
      BY <3>2, <3>3, <1>4
    <3>5. \A j \in 1 .. i : late'[n][j].info.time <= late[n][i + 1].info.time
      <4>. SUFFICES ASSUME NEW j \in 1 .. i PROVE late'[n][j].info.time <= late[n][i + 1].info.time
        OBVIOUS
      <4>1. j \in 1 .. Len(late'[n]) /\ j + 1 \in 1 .. i + 1
        BY <2>1
      <4>2. late'[n][j] = late[n][j + 1]
        BY <4>1, <1>5
      <4>. QED BY <4>1, <4>2, <3>2
    <3>. QED BY <2>1, <3>1, <3>2, <3>4, <3>5
  <2>2. CASE k # n
    <3>1. late'[k] = late[k] /\ entry'[k] = entry[k]
      BY <2>2, <1>3, <1>4
    <3>. QED BY <3>1, <1>1 DEF IInv, LateInv
  <2>. QED BY <2>1, <2>2
<1>. QED BY <1>6, <1>7, <1>8, <1>9 DEF IInv

LEMMA MasterRestartsIInv == IInv /\ MasterRestarts => IInv'
<1>. SUFFICES ASSUME IInv, MasterRestarts PROVE IInv'
  OBVIOUS
<1>. USE DEF MasterRestarts
<1>1. TypeOK'
  BY DEF IInv, TypeOK
<1>2. TrueInv'
  <2>. SUFFICES ASSUME NEW n \in Node PROVE
         (/\ info[n].time <= clock
          /\ entry[n] # NoEntry => TrueOf(n, entry[n])
          /\ \A i \in 1 .. Len(wire[n]) : TrueOf(n, wire[n][i].info)
          /\ \A i \in 1 .. Len(late[n]) : TrueOf(n, late[n][i].info))'
    BY DEF TrueInv
  <2>1. wire'[n] = <<>> /\ late'[n] = <<>> /\ entry'[n] = NoEntry
    OBVIOUS
  <2>2. info'[n].time <= clock'
    BY DEF IInv, TrueInv
  <2>. QED BY <2>1, <2>2
<1>3. WireInv' /\ LateInv'
  BY DEF WireInv, LateInv
<1>. QED BY <1>1, <1>2, <1>3 DEF IInv

LEMMA NextIInv == IInv /\ [Next]_vars => IInv'
<1>. SUFFICES ASSUME IInv, [Next]_vars PROVE IInv'
  OBVIOUS
<1>1. CASE Next
  <2>1. \/ Tick
        \/ \E n \in Node : \/ Start(n) \/ Connect(n) \/ UpdateState(n) \/ LinkLost(n)
                           \/ Crash(n) \/ OnMessage(n) \/ OnLateMessage(n)
        \/ MasterRestarts
    BY <1>1, Zenon DEF Next
  <2>. QED BY <2>1, TickIInv, StartIInv, ConnectIInv, UpdateStateIInv, LinkLostIInv, CrashIInv,
              OnMessageIInv, OnLateMessageIInv, MasterRestartsIInv
<1>2. CASE UNCHANGED vars
  <2>1. /\ clock' = clock /\ up' = up /\ linked' = linked /\ info' = info
        /\ wire' = wire /\ late' = late /\ entry' = entry
    BY <1>2 DEF vars
  <2>. QED BY <2>1 DEF IInv, TypeOK, TrueInv, TrueOf, WireInv, Newest, LateInv
<1>. QED BY <1>1, <1>2

(* The inductive invariant: what is under way from a node, and what the    *)
(* master holds of it, is true of it or older; a registration is newer     *)
(* than all that is read before it.                                        *)
THEOREM Invariance == Spec => []IInv
BY InitIInv, NextIInv, PTL DEF Spec

LEMMA CopiesFit == IInv => CopyIsTrue
<1>. SUFFICES ASSUME IInv, NEW n \in Node
              PROVE  /\ entry[n].time <= info[n].time
                     /\ entry[n].time = info[n].time => entry[n] = info[n] \/ info[n].load = 0
  BY DEF IInv, CopyIsTrue
<1>1. CASE entry[n] = NoEntry
  BY <1>1, TimesOf DEF IInv
<1>2. CASE entry[n] # NoEntry
  BY <1>2 DEF IInv, TrueInv, TrueOf
<1>. QED BY <1>1, <1>2

(* Some node of those is the last in the order of the map.                 *)
LEMMA LastOf ==
  ASSUME NEW m \in Nat, NEW S, S \subseteq 1 .. m, S # {}
  PROVE  \E n \in S : \A o \in S : o <= n
<1>. DEFINE T == {k \in Nat : m - k \in S}
            R == {p \in Nat \X Nat : p[1] < p[2]}
<1>1. T \subseteq Nat /\ T # {}
  <2>1. PICK n : n \in S
    OBVIOUS
  <2>2. m - n \in Nat /\ m - (m - n) = n
    BY <2>1
  <2>. QED BY <2>1, <2>2
<1>2. PICK x \in T : \A y \in T : ~ (<<y, x>> \in R)
  <2>1. IsWellFoundedOn(R, Nat)
    BY NatLessThanWellFounded, SMT DEF OpToRel
  <2>. HIDE DEF R, T
  <2>. QED BY <1>1, <2>1, WFMin
<1>3. \A y \in Nat : y < x => <<y, x>> \in R
  BY <1>2
<1>4. x \in Nat /\ m - x \in S
  BY <1>2
<1>5. ASSUME NEW o \in S PROVE o <= m - x
  <2>1. o \in Nat /\ m - o \in T /\ m - o \in Nat
    BY DEF T
  <2>2. ~(m - o < x)
    BY <1>2, <1>3, <2>1
  <2>. QED BY <2>1, <2>2, <1>4
<1>. QED BY <1>4, <1>5

(* The walk over the map names a node whenever one may be named.           *)
LEMMA NamedNode ==
  ASSUME NEW type
  PROVE  LET named == {n \in DOMAIN OnGetNodeList : TypeOf[n] = type /\ entry[n].load < MaxInt}
         IN /\ named = {} => GetLoadBanlanceNode(type) = -1
            /\ named # {} => GetLoadBanlanceNode(type) \in named
<1>. DEFINE named == {n \in DOMAIN OnGetNodeList : TypeOf[n] = type /\ entry[n].load < MaxInt}
<1>1. named \subseteq 1 .. MaxInt /\ MaxInt \in Nat
  <2>1. MaxInt \in Nat
    BY SMT DEF MaxInt
  <2>. QED BY <2>1, NodeAssumption DEF OnGetNodeList
<1>2. GetLoadBanlanceNode(type)
        = IF named = {} THEN -1 ELSE CHOOSE n \in named : \A m \in named : m <= n
  BY DEF GetLoadBanlanceNode
<1>. HIDE DEF named
<1>3. named # {} => \E n \in named : \A m \in named : m <= n
  BY <1>1, LastOf
<1>4. (named = {} => GetLoadBanlanceNode(type) = -1)
      /\ (named # {} => GetLoadBanlanceNode(type) \in named)
  BY <1>2, <1>3
<1>. QED BY <1>4 DEF named

LEMMA AnswersFit == IInv => AnswersTrue
<1>. SUFFICES ASSUME IInv, NEW types \in SUBSET Type
              PROVE  /\ OnNReqMinWorkNodeInfo(types) \subseteq OnNReqAllNodesInfo
                     /\ \A answer \in OnNReqMinWorkNodeInfo(types) :
                          /\ TypeOf[answer[1]] \in types
                          /\ answer[2].time \in 0 .. info[answer[1]].time
                     /\ \A n \in DOMAIN OnGetNodeList :
                          TypeOf[n] \in types /\ OnGetNodeList[n].load # MaxInt =>
                            \E answer \in OnNReqMinWorkNodeInfo(types) :
                              TypeOf[answer[1]] = TypeOf[n]
  BY DEF AnswersTrue
<1>. DEFINE known == DOMAIN OnGetNodeList
<1>1. known = {n \in Node : entry[n] # NoEntry} /\ \A n \in known : OnGetNodeList[n] = entry[n]
  BY DEF OnGetNodeList
<1>2. \A n \in known : entry[n].time \in 0 .. info[n].time /\ entry[n].load \in Load
  <2>. SUFFICES ASSUME NEW n \in known
                PROVE  entry[n].time \in 0 .. info[n].time /\ entry[n].load \in Load
    OBVIOUS
  <2>1. n \in Node /\ entry[n] \in Info
    BY <1>1 DEF IInv, TypeOK
  <2>2. entry[n].time \in Nat /\ entry[n].load \in Load
    BY <2>1, ClockAssumption DEF Info
  <2>3. entry[n].time <= info[n].time
    BY <2>1, CopiesFit DEF CopyIsTrue
  <2>4. info[n].time \in Nat
    BY <2>1, TimesOf DEF IInv
  <2>. QED BY <2>2, <2>3, <2>4
<1>3. ASSUME NEW type \in types, GetLoadBanlanceNode(type) # -1
      PROVE  GetLoadBanlanceNode(type) \in known /\ TypeOf[GetLoadBanlanceNode(type)] = type
  BY <1>3, NamedNode
<1>4. ASSUME NEW n \in known, TypeOf[n] \in types, entry[n].load # MaxInt
      PROVE  GetLoadBanlanceNode(TypeOf[n]) \in known
             /\ TypeOf[GetLoadBanlanceNode(TypeOf[n])] = TypeOf[n]
  <2>1. entry[n].load < MaxInt
    <3>1. MaxInt \in Nat
      BY SMT DEF MaxInt
    <3>2. entry[n].load \in Load
      BY <1>2
    <3>3. entry[n].load \in -MaxInt .. MaxInt
      BY <3>2, LoadAssumption
    <3>. QED BY <1>4, <3>1, <3>3
  <2>. QED BY <2>1, NamedNode
<1>5. -1 \notin known
  BY <1>1, NodeAssumption
<1>. HIDE DEF known
<1>6. \A answer \in OnNReqMinWorkNodeInfo(types) :
        \E type \in types : /\ GetLoadBanlanceNode(type) # -1
                            /\ answer = <<GetLoadBanlanceNode(type), entry[GetLoadBanlanceNode(type)]>>
  BY DEF OnNReqMinWorkNodeInfo
<1>7. OnNReqMinWorkNodeInfo(types) \subseteq OnNReqAllNodesInfo
  BY <1>3, <1>6 DEF OnNReqAllNodesInfo, known
<1>8. ASSUME NEW answer \in OnNReqMinWorkNodeInfo(types)
      PROVE  /\ TypeOf[answer[1]] \in types
             /\ answer[2].time \in 0 .. info[answer[1]].time
  <2>1. PICK type \in types :
          /\ GetLoadBanlanceNode(type) # -1
          /\ answer = <<GetLoadBanlanceNode(type), entry[GetLoadBanlanceNode(type)]>>
    BY <1>6, <1>8
  <2>2. answer[1] \in known /\ TypeOf[answer[1]] = type /\ answer[2] = entry[answer[1]]
    BY <1>3, <2>1
  <2>. QED BY <1>2, <2>2
<1>9. ASSUME NEW n \in known, TypeOf[n] \in types, OnGetNodeList[n].load # MaxInt
      PROVE  \E answer \in OnNReqMinWorkNodeInfo(types) : TypeOf[answer[1]] = TypeOf[n]
  <2>. DEFINE id == GetLoadBanlanceNode(TypeOf[n])
  <2>1. id \in known /\ TypeOf[id] = TypeOf[n]
    BY <1>1, <1>4, <1>9
  <2>2. <<id, entry[id]>> \in OnNReqMinWorkNodeInfo(types)
    BY <1>5, <1>9, <2>1 DEF OnNReqMinWorkNodeInfo
  <2>. QED BY <2>1, <2>2
<1>. QED BY <1>7, <1>8, <1>9 DEF known

(* The copies of the master are never newer than the nodes themselves, and *)
(* one as new as the node's record is equal to it: set_update_time and the *)
(* comparison in OnNNtfNodeReport keep the late reports of an earlier      *)
(* connection or process from spoiling them.  What the master answers from *)
(* them is as true: a node is named of every type that has one to name.    *)
THEOREM CopiesStayTrue == Spec => []CopiesTrue
<1>1. IInv => CopiesTrue
  BY CopiesFit, AnswersFit DEF IInv, CopiesTrue
<1>. QED BY <1>1, Invariance, PTL

LEMMA HandleNotOlder ==
  ASSUME TypeOK, NEW n \in Node, NEW m \in Message, Handle(n, m),
         m.kind = "register" => entry[n].time <= m.info.time
  PROVE  \A k \in Node : entry'[k].time >= entry[k].time
<1>1. /\ \A k \in Node \ {n} : entry'[k] = entry[k]
      /\ entry'[n] = m.info \/ (m.kind = "report" /\ entry'[n] = entry[n])
      /\ m.kind = "report" => entry'[n] = entry[n] \/ ~(entry[n].time >= m.info.time)
  BY HandleEntry
<1>2. m.info.time \in Nat /\ m.kind \in {"register", "report"}
  BY ClockAssumption DEF Message, Info
<1>3. \A k \in Node : entry[k].time \in Int
  BY TimesOf
<1>. QED BY <1>1, <1>2, <1>3

(* The master's copy of a node never goes back in time: no step but the    *)
(* master's own restart replaces it by an older one.                       *)
THEOREM CopiesNeverOlder == Spec => NeverOlder
<1>. DEFINE Kept == \A n \in Node :
              entry[n] # NoEntry /\ entry'[n] # NoEntry => entry'[n].time >= entry[n].time
<1>1. IInv /\ Next => Kept
  <2>. SUFFICES ASSUME IInv, Next PROVE Kept
    OBVIOUS
  <2>0. \A n \in Node : entry[n].time \in Int
    BY TimesOf DEF IInv
  <2>1. CASE entry' = entry
    BY <2>1, <2>0
  <2>2. ASSUME NEW n \in Node, OnMessage(n) PROVE Kept
    <3>1. wire[n] \in Seq(Message) /\ wire[n] # <<>> /\ Handle(n, Head(wire[n]))
      BY <2>2 DEF OnMessage, IInv, TypeOK
    <3>2. 1 \in 1 .. Len(wire[n]) /\ Head(wire[n]) = wire[n][1] /\ Head(wire[n]) \in Message
      BY <3>1, ReadNext
    <3>3. Head(wire[n]).kind = "register" => entry[n].time <= Head(wire[n]).info.time
      BY <3>2 DEF IInv, WireInv, Newest
    <3>. QED BY <3>1, <3>2, <3>3, HandleNotOlder DEF IInv
  <2>3. ASSUME NEW n \in Node, OnLateMessage(n) PROVE Kept
    <3>1. late[n] \in Seq(Message) /\ late[n] # <<>> /\ Handle(n, Head(late[n]))
      BY <2>3 DEF OnLateMessage, IInv, TypeOK
    <3>2. 1 \in 1 .. Len(late[n]) /\ Head(late[n]) = late[n][1] /\ Head(late[n]) \in Message
      BY <3>1, ReadNext
    <3>3. Head(late[n]).kind = "register" => entry[n].time <= Head(late[n]).info.time
      BY <3>2 DEF IInv, LateInv
    <3>. QED BY <3>1, <3>2, <3>3, HandleNotOlder DEF IInv
  <2>4. CASE MasterRestarts
    BY <2>4 DEF MasterRestarts
  <2>5. \/ entry' = entry
        \/ \E n \in Node : OnMessage(n) \/ OnLateMessage(n)
        \/ MasterRestarts
    BY Zenon DEF Next, Tick, Start, Connect, UpdateState, LinkLost, Crash
  <2>. QED BY <2>1, <2>2, <2>3, <2>4, <2>5
<1>2. IInv /\ [Next]_vars => [Kept]_vars
  BY <1>1
<1>. QED BY <1>2, Invariance, PTL DEF Spec, NeverOlder

=============================================================================
