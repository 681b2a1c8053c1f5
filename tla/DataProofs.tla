----------------------------- MODULE DataProofs -----------------------------
(***************************************************************************)
(* Proofs about Data, for records of any size and any depth of nested      *)
(* changes: the hook that is told first is never wrong, the hook that is   *)
(* told last hears the last value and catches up with the rows, and the    *)
(* record is a Table.                                                      *)
(***************************************************************************)
EXTENDS Data, SequenceTheorems, WellFoundedInduction, TLAPS

-----------------------------------------------------------------------------
(* The first and the last of a set of rows exist.                          *)

LEMMA Least ==
  ASSUME NEW S, S \subseteq Nat, S # {}
  PROVE  \E m \in S : \A k \in S : m <= k
<1>. DEFINE R == OpToRel(<, Nat)
<1>1. IsWellFoundedOn(R, Nat)
  BY NatLessThanWellFounded
<1>2. \A x, y \in Nat : <<x, y>> \in R <=> x < y
  BY DEF OpToRel
<1>. HIDE DEF R
<1>3. PICK m \in S : \A y \in S : ~ (<<y, m>> \in R)
  BY <1>1, WFMin
<1>4. \A k \in S : ~(k < m) /\ k \in Nat /\ m \in Nat
  BY <1>2, <1>3
<1>. QED BY <1>4

LEMMA Greatest ==
  ASSUME NEW n \in Nat, NEW S, S \subseteq 0 .. n, S # {}
  PROVE  \E m \in S : \A k \in S : k <= m
<1>. DEFINE U == {n - k : k \in S}
<1>0. \A k \in S : k \in Nat /\ n - k \in Nat
  OBVIOUS
<1>1. U \subseteq Nat /\ U # {}
  BY <1>0
<1>2. PICK m \in U : \A k \in U : m <= k
  <2>. HIDE DEF U
  <2>. QED BY <1>1, Least
<1>3. PICK t \in S : m = n - t
  OBVIOUS
<1>4. \A k \in S : n - t <= n - k
  BY <1>2, <1>3
<1>. QED BY <1>4, <1>0

LEMMA FreeRowThere == ASSUME TypeOK, used # Row PROVE FreeRow \in Row \ used
<1>. DEFINE S == Row \ used
<1>1. S \subseteq Nat
  BY SizeAssumption DEF Row
<1>3. S # {}
  BY DEF TypeOK
<1>2. \E m \in S : \A k \in S : m <= k
  <2>. HIDE DEF S
  <2>. QED BY <1>1, <1>3, Least
<1>. QED BY <1>2 DEF FreeRow

LEMMA LastRowThere == ASSUME NEW S, S \subseteq Row, S # {} PROVE LastRow(S) \in S
<1>1. MaxRow - 1 \in Nat /\ S \subseteq 0 .. MaxRow - 1
  BY SizeAssumption DEF Row
<1>2. \E m \in S : \A k \in S : k <= m
  BY <1>1, Greatest
<1>. QED BY <1>2 DEF LastRow

-----------------------------------------------------------------------------
(* Types. *)

LEMMA SizeFacts ==
  /\ Row \subseteq Nat /\ 0 \in Row /\ 1 \in Col /\ Zero \in Tuple
  /\ 0 \in Value /\ NoRow \notin Tuple
BY SizeAssumption, ValueAssumption, NoRowAssumption DEF Row, Col, Zero, Tuple

LEMMA ToldType ==
  ASSUME NEW event \in Event, NEW r \in Row PROVE Told(event, r) \in Call
BY SizeFacts DEF Told, Call

LEMMA ToldMoreType ==
  ASSUME NEW r \in Row PROVE [Told("Del", r) EXCEPT !.more = TRUE] \in Call
BY SizeFacts DEF Told, Call, Event

LEMMA Push ==
  ASSUME NEW e \in Call, NEW s \in Seq(Call)
  PROVE  /\ <<e>> \o s \in Seq(Call)
         /\ Len(<<e>> \o s) = Len(s) + 1
         /\ Len(s) \in Nat
         /\ (<<e>> \o s)[1] = e
         /\ \A i \in 1 .. Len(s) : (<<e>> \o s)[i + 1] = s[i]
OBVIOUS

LEMMA Pop ==
  ASSUME NEW s \in Seq(Call), s # <<>>
  PROVE  /\ Head(s) \in Call /\ Head(s) = s[1] /\ 1 \in 1 .. Len(s)
         /\ Tail(s) \in Seq(Call)
         /\ Len(Tail(s)) = Len(s) - 1
         /\ Len(s) \in Nat
         /\ \A i \in 1 .. Len(Tail(s)) : i + 1 \in 1 .. Len(s) /\ Tail(s)[i] = s[i + 1]
OBVIOUS

(* What waits under a new change is what was under way.                    *)
SameEvents(s, t) ==
  /\ Len(s) = Len(t)
  /\ \A i \in 1 .. Len(s) : s[i].event = t[i].event /\ s[i].value = t[i].value

LEMMA WaitingType ==
  ASSUME TypeOK, MayCall
  PROVE  /\ Waiting \in Seq(Call)
         /\ Len(Waiting) < MaxDepth
         /\ SameEvents(Waiting, calls)
<1>1. calls \in Seq(Call) /\ Len(calls) <= MaxDepth /\ MaxDepth > 0
  BY BoundAssumption DEF TypeOK
<1>2. CASE calls = <<>>
  <2>1. Waiting = <<>> /\ Len(Waiting) = 0 /\ Len(calls) = 0
    BY <1>2 DEF Waiting
  <2>. QED BY <1>1, <1>2, <2>1 DEF SameEvents
<1>3. CASE calls # <<>>
  <2>. DEFINE h == [Head(calls) EXCEPT !.at = "last"]
  <2>1. Head(calls) \in Call /\ Tail(calls) \in Seq(Call)
    BY <1>1, <1>3, Pop
  <2>2. h \in Call /\ h.event = calls[1].event /\ h.value = calls[1].value
    BY <2>1, <1>1, <1>3, Pop DEF Call
  <2>3. Waiting = <<h>> \o Tail(calls)
    BY <1>3 DEF Waiting
  <2>. HIDE DEF h
  <2>4. /\ Waiting \in Seq(Call) /\ Len(Waiting) = Len(Tail(calls)) + 1
        /\ Waiting[1] = h
        /\ \A i \in 1 .. Len(Tail(calls)) : Waiting[i + 1] = Tail(calls)[i]
    BY <2>1, <2>2, <2>3, Push
  <2>5. /\ Len(Tail(calls)) = Len(calls) - 1 /\ Len(calls) \in Nat
        /\ \A i \in 1 .. Len(Tail(calls)) : Tail(calls)[i] = calls[i + 1]
    BY <1>1, <1>3, Pop
  <2>6. ASSUME NEW i \in 1 .. Len(Waiting)
        PROVE  Waiting[i].event = calls[i].event /\ Waiting[i].value = calls[i].value
    <3>1. CASE i = 1
      BY <3>1, <2>2, <2>4
    <3>2. CASE i > 1
      <4>1. i - 1 \in 1 .. Len(Tail(calls)) /\ (i - 1) + 1 = i
        BY <3>2, <2>4, <2>5
      <4>2. Waiting[i] = calls[i]
        BY <4>1, <2>4, <2>5
      <4>. QED BY <4>2
    <3>. QED BY <3>1, <3>2
  <2>7. Len(Waiting) = Len(calls)
    BY <2>4, <2>5
  <2>8. Len(Waiting) < MaxDepth
    BY <1>3, <2>7 DEF MayCall
  <2>. QED BY <2>4, <2>6, <2>7, <2>8 DEF SameEvents
<1>. QED BY <1>2, <1>3

Copy == [Row -> Tuple \cup {NoRow}]

LEMMA LearnType ==
  ASSUME NEW copy \in Copy, NEW e \in Call,
         used' \subseteq Row, mtRecordVec' \in [Row -> Tuple]
  PROVE  Learn(copy, e) \in Copy
<1>1. e.row \in Row /\ e.col \in Col /\ e.memory \in Row
  BY DEF Call
<1>2. CASE e.event = "Add"
  <2>1. Learn(copy, e) = [copy EXCEPT ![e.row] = IF e.row \in used' THEN mtRecordVec'[e.row] ELSE NoRow]
    BY <1>2 DEF Learn
  <2>. QED BY <2>1, <1>1 DEF Copy
<1>3. CASE e.event = "Update"
  <2>1. CASE copy[e.row] = NoRow
    BY <1>3, <2>1 DEF Learn
  <2>2. CASE copy[e.row] # NoRow
    <3>. DEFINE row == [copy[e.row] EXCEPT ![e.col] = mtRecordVec'[e.memory][e.col]]
    <3>1. Learn(copy, e) = [copy EXCEPT ![e.row] = row]
      BY <1>3, <2>2 DEF Learn
    <3>2. copy[e.row] \in Tuple /\ mtRecordVec'[e.memory] \in Tuple
      BY <2>2, <1>1 DEF Copy
    <3>3. row \in Tuple
      BY <3>2, <1>1 DEF Tuple
    <3>. QED BY <3>1, <3>3, <1>1 DEF Copy
  <2>. QED BY <2>1, <2>2
<1>4. CASE e.event = "AfterDel"
  <2>1. Learn(copy, e) = [copy EXCEPT ![e.row] = NoRow]
    BY <1>4 DEF Learn
  <2>. QED BY <2>1, <1>1 DEF Copy
<1>5. CASE e.event = "Swap"
  <2>1. Learn(copy, e) = [copy EXCEPT ![e.row] = copy[e.memory], ![e.memory] = copy[e.row]]
    BY <1>5 DEF Learn
  <2>. QED BY <2>1, <1>1 DEF Copy
<1>6. CASE e.event \notin {"Add", "Update", "AfterDel", "Swap"}
  BY <1>6 DEF Learn
<1>. QED BY <1>2, <1>3, <1>4, <1>5, <1>6

-----------------------------------------------------------------------------
(* What each change does to the rows and tells, given that the first       *)
(* hook's copy was right before.                                           *)

Exact == shown["first"] = Rows

(* The record step of Table, and the copy kept up with it.                 *)
Follows == Exact' /\ [T!Next]_Rows

LEMMA RowsTypes ==
  ASSUME TypeOK
  PROVE  /\ Rows \in Copy
         /\ \A r \in Row : /\ Rows[r] = IF r \in used THEN mtRecordVec[r] ELSE NoRow
                           /\ Rows[r] # NoRow <=> r \in used
                           /\ mtRecordVec[r] \in Tuple
         /\ used \subseteq Row /\ mtRecordVec \in [Row -> Tuple]
BY SizeFacts DEF TypeOK, Rows, Copy

LEMMA RowsNext == Rows' = [r \in Row |-> IF r \in used' THEN mtRecordVec'[r] ELSE NoRow]
BY DEF Rows

LEMMA AddRowFollows ==
  ASSUME TypeOK, Exact, NEW r \in Row, NEW t \in Tuple, AddRow(r, t)
  PROVE  /\ Follows /\ used' \subseteq Row /\ mtRecordVec' \in [Row -> Tuple]
<1>1. /\ used' = used \cup {r} /\ mtRecordVec' = [mtRecordVec EXCEPT ![r] = t]
      /\ shown' = [first |-> Learn(shown["first"], Told("Add", r)),
                   last |-> IF crossed' THEN NoRows ELSE shown["last"]]
  BY DEF AddRow, Raise
<1>2. mtRecordVec \in [Row -> Tuple] /\ used \subseteq Row
  BY DEF TypeOK
<1>3. Rows' = [Rows EXCEPT ![r] = t]
  BY <1>1, <1>2, RowsNext DEF Rows
<1>4. Learn(shown["first"], Told("Add", r)) = [Rows EXCEPT ![r] = t]
  BY <1>1, <1>2 DEF Learn, Told, Exact
<1>5. T!Put(r, t)
  BY <1>3 DEF T!Put
<1>6. T!Next
  BY <1>5 DEF T!Next, Tuple
<1>. QED BY <1>1, <1>2, <1>3, <1>4, <1>6 DEF Follows, Exact

(* A change of one cell, told as an Update.                                *)
LEMMA CellFollows ==
  ASSUME TypeOK, Exact, NEW r \in Row, NEW c \in Col, NEW v \in Value,
         NEW e, e.event = "Update", e.row = r, e.col = c, e.memory = r,
         mtRecordVec' = [mtRecordVec EXCEPT ![r] = [@ EXCEPT ![c] = v]],
         used' = used, shown'["first"] = Learn(shown["first"], e)
  PROVE  /\ Follows /\ used' \subseteq Row /\ mtRecordVec' \in [Row -> Tuple]
<1>1. mtRecordVec \in [Row -> Tuple] /\ used \subseteq Row
  BY DEF TypeOK
<1>2. /\ mtRecordVec[r] \in Tuple /\ [mtRecordVec[r] EXCEPT ![c] = v] \in Tuple
  BY <1>1 DEF Tuple
<1>3. /\ mtRecordVec' = [mtRecordVec EXCEPT ![r] = [mtRecordVec[r] EXCEPT ![c] = v]]
      /\ mtRecordVec' \in [Row -> Tuple]
      /\ mtRecordVec'[r] = [mtRecordVec[r] EXCEPT ![c] = v]
      /\ mtRecordVec'[r][c] = v
  BY <1>1, <1>2 DEF Tuple
<1>4. CASE r \in used
  <2>1. Rows[r] = mtRecordVec[r] /\ Rows[r] # NoRow
    BY <1>4, RowsTypes
  <2>2. Rows' = [Rows EXCEPT ![r] = [Rows[r] EXCEPT ![c] = v]]
    BY <1>1, <1>3, <1>4, <2>1, RowsNext DEF Rows
  <2>3. Learn(shown["first"], e) = [Rows EXCEPT ![r] = [Rows[r] EXCEPT ![c] = v]]
    BY <2>1, <1>3 DEF Learn, Exact
  <2>4. T!Change(r, c, v)
    BY <2>1, <2>2 DEF T!Change
  <2>5. T!Next
    BY <2>4 DEF T!Next
  <2>. QED BY <1>1, <1>3, <2>2, <2>3, <2>5 DEF Follows, Exact
<1>5. CASE r \notin used
  <2>1. Rows[r] = NoRow
    BY <1>5, RowsTypes
  <2>2. Rows' = Rows
    BY <1>1, <1>3, <1>5, RowsNext DEF Rows
  <2>3. Learn(shown["first"], e) = Rows
    BY <2>1 DEF Learn, Exact
  <2>. QED BY <1>1, <1>3, <2>2, <2>3 DEF Follows, Exact
<1>. QED BY <1>4, <1>5

LEMMA WriteFollows ==
  ASSUME TypeOK, Exact, NEW r \in Row, NEW c \in Col, NEW v \in Value, Write(r, c, v)
  PROVE  /\ Follows /\ used' \subseteq Row /\ mtRecordVec' \in [Row -> Tuple]
<1>. DEFINE e == [Told("Update", r) EXCEPT !.col = c]
<1>1. /\ mtRecordVec' = [mtRecordVec EXCEPT ![r] = [@ EXCEPT ![c] = v]]
      /\ used' = used /\ shown'["first"] = Learn(shown["first"], e)
  BY DEF Write, Raise
<1>2. e.event = "Update" /\ e.row = r /\ e.col = c /\ e.memory = r
  BY DEF Told
<1>. HIDE DEF e
<1>. QED BY <1>1, <1>2, CellFollows

LEMMA SetRowFollows ==
  ASSUME TypeOK, Exact, NEW r \in Row, NEW t \in Tuple, SetRow(r, t)
  PROVE  /\ Follows /\ used' \subseteq Row /\ mtRecordVec' \in [Row -> Tuple]
<1>. DEFINE e == [Told("Update", r) EXCEPT !.tuple = t, !.more = TRUE]
<1>1. /\ mtRecordVec' = [mtRecordVec EXCEPT ![r] = [@ EXCEPT ![1] = t[1]]]
      /\ used' = used /\ shown'["first"] = Learn(shown["first"], e)
  BY DEF SetRow, Raise
<1>2. e.event = "Update" /\ e.row = r /\ e.col = 1 /\ e.memory = r
  BY DEF Told
<1>3. 1 \in Col /\ t[1] \in Value
  BY SizeFacts DEF Tuple
<1>. HIDE DEF e
<1>. QED BY <1>1, <1>2, <1>3, CellFollows

LEMMA NextColumnFollows ==
  ASSUME TypeOK, Exact, NextColumn
  PROVE  /\ Follows /\ used' \subseteq Row /\ mtRecordVec' \in [Row -> Tuple]
<1>. DEFINE e == Head(calls)
            c == e.col + 1
            e2 == [e EXCEPT !.col = c, !.memory = e.row, !.at = "script"]
<1>1. /\ mtRecordVec' = [mtRecordVec EXCEPT ![e.row] = [@ EXCEPT ![c] = e.tuple[c]]]
      /\ used' = used /\ shown'["first"] = Learn(shown["first"], e2)
      /\ calls # <<>> /\ e.event = "Update" /\ ~Ends(e)
  BY DEF NextColumn, TellBoth
<1>2. e \in Call
  BY <1>1, Pop DEF TypeOK
<1>3. e2.event = "Update" /\ e2.row = e.row /\ e2.col = c /\ e2.memory = e.row
  BY <1>1, <1>2 DEF Call
<1>4. e.row \in Row /\ e.col \in Col /\ e.tuple \in Tuple /\ e.col # MaxCol
  BY <1>1, <1>2 DEF Call, Ends
<1>5. c \in Col /\ e.tuple[c] \in Value
  BY <1>4, SizeAssumption DEF Col, Tuple
<1>. HIDE DEF e, c, e2
<1>. QED BY <1>1, <1>3, <1>4, <1>5, CellFollows

LEMMA SwapFollows ==
  ASSUME TypeOK, Exact, NEW r1 \in Row, NEW r2 \in Row, SwapRowInfo(r1, r2)
  PROVE  /\ Follows /\ used' \subseteq Row /\ mtRecordVec' \in [Row -> Tuple]
<1>. DEFINE e == [Told("Swap", r1) EXCEPT !.memory = r2]
<1>1. /\ r1 \in used
      /\ mtRecordVec' = [mtRecordVec EXCEPT ![r1] = mtRecordVec[r2], ![r2] = mtRecordVec[r1]]
      /\ used' = SwapUsed(r1, r2)
      /\ shown'["first"] = Learn(shown["first"], e)
  BY DEF SwapRowInfo, Raise
<1>2. mtRecordVec \in [Row -> Tuple] /\ used \subseteq Row
  BY DEF TypeOK
<1>3. /\ mtRecordVec' \in [Row -> Tuple] /\ used' \subseteq Row
      /\ \A r \in Row : r \in used' <=> IF r = r1 THEN r2 \in used ELSE IF r = r2 THEN r1 \in used ELSE r \in used
      /\ \A r \in Row : mtRecordVec'[r] = IF r = r2 THEN mtRecordVec[r1] ELSE IF r = r1 THEN mtRecordVec[r2] ELSE mtRecordVec[r]
  BY <1>1, <1>2 DEF SwapUsed
<1>4. Rows[r1] # NoRow
  BY <1>1, RowsTypes
<1>5. Rows' = [Rows EXCEPT ![r1] = Rows[r2], ![r2] = Rows[r1]]
  BY <1>3, RowsNext DEF Rows
<1>6. Learn(shown["first"], e) = [Rows EXCEPT ![r1] = Rows[r2], ![r2] = Rows[r1]]
  <2>1. e.event = "Swap" /\ e.row = r1 /\ e.memory = r2
    BY DEF Told
  <2>. HIDE DEF e
  <2>. QED BY <2>1 DEF Learn, Exact
<1>7. T!Exchange(r1, r2)
  BY <1>4, <1>5 DEF T!Exchange
<1>8. T!Next
  BY <1>7 DEF T!Next
<1>. QED BY <1>1, <1>3, <1>5, <1>6, <1>8 DEF Follows, Exact

LEMMA DropRowFollows ==
  ASSUME TypeOK, Exact, DropRow
  PROVE  /\ Follows /\ used' \subseteq Row /\ mtRecordVec' \in [Row -> Tuple]
<1>. DEFINE e == Head(calls)
            e2 == [e EXCEPT !.event = "AfterDel", !.at = "script"]
<1>1. /\ used' = used \ {e.row} /\ mtRecordVec' = mtRecordVec
      /\ shown'["first"] = Learn(shown["first"], e2)
      /\ calls # <<>> /\ e.event = "Del"
  BY DEF DropRow, TellBoth
<1>2. e \in Call
  BY <1>1, Pop DEF TypeOK
<1>3. e2.event = "AfterDel" /\ e2.row = e.row /\ e.row \in Row
  BY <1>1, <1>2 DEF Call
<1>4. mtRecordVec \in [Row -> Tuple] /\ used \subseteq Row
  BY DEF TypeOK
<1>. HIDE DEF e, e2
<1>5. Rows' = [Rows EXCEPT ![e.row] = NoRow]
  BY <1>1, <1>3, <1>4, RowsNext DEF Rows
<1>6. Learn(shown["first"], e2) = [Rows EXCEPT ![e.row] = NoRow]
  BY <1>3 DEF Learn, Exact
<1>7. [T!Next]_Rows
  <2>1. CASE e.row \in used
    <3>1. T!Drop(e.row)
      BY <2>1, <1>3, <1>5, RowsTypes DEF T!Drop
    <3>. QED BY <3>1, <1>3 DEF T!Next
  <2>2. CASE e.row \notin used
    <3>1. Rows' = Rows
      BY <2>2, <1>3, <1>5 DEF Rows
    <3>. QED BY <3>1
  <2>. QED BY <2>1, <2>2
<1>. QED BY <1>1, <1>4, <1>5, <1>6, <1>7 DEF Follows, Exact

(* Del tells nothing yet, and the events of the property are none of a row.*)
LEMMA StaysFollows ==
  ASSUME TypeOK, Exact, used' = used, mtRecordVec' = mtRecordVec,
         shown'["first"] = shown["first"]
  PROVE  /\ Follows /\ used' \subseteq Row /\ mtRecordVec' \in [Row -> Tuple]
<1>1. Rows' = Rows
  BY DEF Rows
<1>. QED BY <1>1 DEF Follows, Exact, TypeOK

LEMMA Steps ==
  ASSUME TypeOK, Next
  PROVE  \/ /\ \/ \E r \in Row, t \in Tuple : AddRow(r, t) \/ SetRow(r, t)
               \/ \E r \in Row, c \in Col, v \in Value : Write(r, c, v)
               \/ \E r \in Row : Remove(r)
               \/ \E r1, r2 \in Row : SwapRowInfo(r1, r2)
               \/ \E v \in Value : SetProperty(v) \/ LoadProperty(v)
               \/ Clear \/ Return \/ DropRow \/ NextRow \/ NextColumn
            /\ holder' = holder
         \/ Release
<1>1. CASE ChangeRecord /\ holder' = holder
  <2>1. ASSUME NEW t \in Tuple, AddFreeRow(t) PROVE \E r \in Row : AddRow(r, t)
    BY <2>1, FreeRowThere DEF AddFreeRow
  <2>2. ASSUME NEW r \in Row, NEW c \in Col, NEW v \in Value, SetCell(r, c, v) PROVE Write(r, c, v)
    BY <2>2 DEF SetCell, SetScalar, SetVector
  <2>3. \/ \E r \in Row, t \in Tuple : AddRow(r, t) \/ SetRow(r, t)
        \/ \E t \in Tuple : AddFreeRow(t)
        \/ \E r \in Row, c \in Col, v \in Value : SetCell(r, c, v)
        \/ \E r \in Row : Remove(r)
        \/ \E r1, r2 \in Row : SwapRowInfo(r1, r2)
        \/ Clear
    BY <1>1, Zenon DEF ChangeRecord, ScriptAddRow, ManagerSetRecord, ObjectSetRecord, ScriptSetRecord,
       WorldSetRecord, SceneSetRecord, ScriptRemRow, WorldClearRecord, SceneClearRecord
  <2>. QED BY <1>1, <2>1, <2>2, <2>3
<1>2. CASE ChangeProperty /\ holder' = holder
  BY <1>2 DEF ChangeProperty, ManagerSetProperty, ObjectSetProperty, ScriptSetProperty,
     WorldSetProperty, SceneSetProperty
<1>3. CASE Continue /\ holder' = holder
  BY <1>3 DEF Continue
<1>4. CASE Release
  BY <1>4
<1>. QED BY <1>1, <1>2, <1>3, <1>4 DEF Next

LEMMA NextFollows ==
  ASSUME TypeOK, Exact, Next
  PROVE  /\ Follows /\ used' \subseteq Row /\ mtRecordVec' \in [Row -> Tuple]
<1>1. ASSUME \/ \E r \in Row : Remove(r)
             \/ Clear
             \/ \E v \in Value : SetProperty(v) \/ LoadProperty(v)
             \/ Return \/ NextRow \/ Release
      PROVE  used' = used /\ mtRecordVec' = mtRecordVec /\ shown'["first"] = shown["first"]
  <2>1. ASSUME NEW r \in Row, Remove(r)
        PROVE  used' = used /\ mtRecordVec' = mtRecordVec /\ shown'["first"] = shown["first"]
    BY <2>1 DEF Remove, Raise, Learn, Told
  <2>2. CASE Clear
    BY <2>2 DEF Clear, Raise, Learn, Told
  <2>3. ASSUME NEW v \in Value, SetProperty(v) \/ LoadProperty(v)
        PROVE  used' = used /\ mtRecordVec' = mtRecordVec /\ shown'["first"] = shown["first"]
    BY <2>3 DEF SetProperty, LoadProperty, recordVars
  <2>4. CASE Return
    BY <2>4 DEF Return, TellLast, TypeOK, Hook
  <2>5. CASE NextRow
    BY <2>5 DEF NextRow, TypeOK, Hook
  <2>6. CASE Release
    BY <2>6 DEF Release, recordVars
  <2>. QED BY <1>1, <2>1, <2>2, <2>3, <2>4, <2>5, <2>6
<1>. QED BY <1>1, Steps, AddRowFollows, SetRowFollows, WriteFollows, SwapFollows, DropRowFollows,
            NextColumnFollows, StaysFollows

-----------------------------------------------------------------------------
(* The types of what is told. *)

LEMMA RaiseType ==
  ASSUME TypeOK, NEW e \in Call, NEW below \in Seq(Call), Len(below) < MaxDepth,
         used' \subseteq Row, mtRecordVec' \in [Row -> Tuple], holder' = holder,
         Raise(e, below)
  PROVE  TypeOK'
<1>1. /\ calls' = <<e>> \o below
      /\ crossed' = (crossed \/ Crosses(e))
      /\ shown' = [first |-> Learn(shown["first"], e),
                   last |-> IF crossed' THEN NoRows ELSE shown["last"]]
      /\ mxData' = mxData /\ known' = known /\ overtaken' = overtaken
  BY DEF Raise, propertyVars
<1>2. shown["first"] \in Copy /\ shown["last"] \in Copy
  BY DEF TypeOK, Hook, Copy
<1>3. Learn(shown["first"], e) \in Copy /\ NoRows \in Copy
  BY <1>2, LearnType DEF Copy, NoRows
<1>4. shown' \in [Hook -> Copy]
  BY <1>1, <1>2, <1>3 DEF Hook
<1>5. calls' \in Seq(Call) /\ Len(calls') <= MaxDepth
  BY <1>1, Push, BoundAssumption
<1>6. crossed' \in BOOLEAN
  BY <1>1 DEF Crosses, TypeOK
<1>. QED BY <1>1, <1>4, <1>5, <1>6 DEF TypeOK, Copy

(* The head of what is under way is replaced by the next event.            *)
LEMMA ToldBothType ==
  ASSUME TypeOK, calls # <<>>, NEW e2 \in Call,
         used' \subseteq Row, mtRecordVec' \in [Row -> Tuple], TellBoth(Head(calls), e2)
  PROVE  shown' \in [Hook -> Copy]
<1>1. Head(calls) \in Call
  BY Pop DEF TypeOK
<1>2. shown["first"] \in Copy /\ shown["last"] \in Copy
  BY DEF TypeOK, Hook, Copy
<1>3. Learn(shown["first"], e2) \in Copy /\ LearnLast(Head(calls)) \in Copy
  BY <1>1, <1>2, LearnType DEF LearnLast
<1>. QED BY <1>3 DEF TellBoth, Hook

LEMMA BothType ==
  ASSUME TypeOK, calls # <<>>, NEW e2 \in Call,
         used' \subseteq Row, mtRecordVec' \in [Row -> Tuple], holder' = holder,
         shown' \in [Hook -> Copy], crossed' \in BOOLEAN, calls' = <<e2>> \o Tail(calls),
         UNCHANGED propertyVars
  PROVE  TypeOK'
<1>1. Head(calls) \in Call /\ Tail(calls) \in Seq(Call) /\ Len(Tail(calls)) = Len(calls) - 1
      /\ Len(calls) \in Nat
  BY Pop DEF TypeOK
<1>2. calls' \in Seq(Call) /\ Len(calls') = Len(calls)
  BY <1>1, Push
<1>. QED BY <1>2 DEF TypeOK, Copy, propertyVars

LEMMA SwappedType ==
  ASSUME NEW s \in Seq(Call), NEW r1 \in Row, NEW r2 \in Row
  PROVE  LET t == [i \in DOMAIN s |-> Swapped(s[i], r1, r2)]
         IN t \in Seq(Call) /\ SameEvents(t, s)
<1>. DEFINE t == [i \in DOMAIN s |-> Swapped(s[i], r1, r2)]
<1>1. ASSUME NEW e \in Call
      PROVE  /\ Swapped(e, r1, r2) \in Call
             /\ Swapped(e, r1, r2).event = e.event /\ Swapped(e, r1, r2).value = e.value
  <2>1. CASE e.event = "Update" /\ e.memory = r1
    BY <2>1 DEF Swapped, Call
  <2>2. CASE e.event = "Update" /\ e.memory = r2 /\ e.memory # r1
    BY <2>2 DEF Swapped, Call
  <2>3. CASE ~(e.event = "Update" /\ e.memory \in {r1, r2})
    BY <2>3 DEF Swapped
  <2>. QED BY <2>1, <2>2, <2>3
<1>2. /\ DOMAIN s = 1 .. Len(s) /\ Len(s) \in Nat
      /\ \A i \in 1 .. Len(s) : s[i] \in Call
  OBVIOUS
<1>3. /\ DOMAIN t = 1 .. Len(s)
      /\ \A i \in 1 .. Len(s) : /\ t[i] \in Call
                                /\ t[i].event = s[i].event /\ t[i].value = s[i].value
  BY <1>1, <1>2
<1>4. t = [i \in 1 .. Len(s) |-> t[i]]
  BY <1>2
<1>. HIDE DEF t
<1>5. t \in [1 .. Len(s) -> Call]
  BY <1>3, <1>4
<1>6. t \in Seq(Call) /\ Len(t) = Len(s)
  BY <1>2, <1>5
<1>. QED BY <1>3, <1>6 DEF SameEvents, t

LEMMA PropertyType ==
  ASSUME TypeOK, NEW v \in Value, SetProperty(v) \/ LoadProperty(v), holder' = holder
  PROVE  /\ TypeOK'
         /\ \E e \in Call : /\ calls' = <<e>> \o Waiting
                            /\ e.event \in {"Set", "Load"} /\ e.value = v
<1>1. MayCall /\ mxData' = v /\ known' = [known EXCEPT !["first"] = v]
      /\ overtaken' \in BOOLEAN
      /\ used' = used /\ mtRecordVec' = mtRecordVec /\ shown' = shown /\ crossed' = crossed
  BY DEF SetProperty, LoadProperty, recordVars, TypeOK
<1>2. PICK e \in Call : /\ calls' = <<e>> \o Waiting
                        /\ e.event \in {"Set", "Load"} /\ e.value = v
  <2>1. /\ [Told("Set", 0) EXCEPT !.value = v] \in Call
        /\ [Told("Load", 0) EXCEPT !.value = v] \in Call
    BY SizeFacts, ToldType DEF Call, Told, Event
  <2>2. /\ [Told("Set", 0) EXCEPT !.value = v].event = "Set"
        /\ [Told("Set", 0) EXCEPT !.value = v].value = v
        /\ [Told("Load", 0) EXCEPT !.value = v].event = "Load"
        /\ [Told("Load", 0) EXCEPT !.value = v].value = v
    BY DEF Told
  <2>3. \/ calls' = <<[Told("Set", 0) EXCEPT !.value = v]>> \o Waiting
        \/ calls' = <<[Told("Load", 0) EXCEPT !.value = v]>> \o Waiting
    BY DEF SetProperty, LoadProperty
  <2>. QED BY <2>1, <2>2, <2>3
<1>3. Waiting \in Seq(Call) /\ Len(Waiting) < MaxDepth
  BY <1>1, WaitingType
<1>4. calls' \in Seq(Call) /\ Len(calls') <= MaxDepth
  BY <1>2, <1>3, Push, BoundAssumption
<1>5. known' \in [Hook -> Value]
  BY <1>1 DEF TypeOK
<1>6. TypeOK'
  BY <1>1, <1>4, <1>5 DEF TypeOK
<1>. QED BY <1>2, <1>6

LEMMA ReturnType == ASSUME TypeOK, Return, holder' = holder PROVE TypeOK'
<1>1. /\ calls # <<>> /\ calls' = Tail(calls)
      /\ used' = used /\ mtRecordVec' = mtRecordVec /\ crossed' = crossed
      /\ mxData' = mxData /\ overtaken' = overtaken
      /\ TellLast(Head(calls))
  BY DEF Return
<1>2. Head(calls) \in Call /\ Tail(calls) \in Seq(Call) /\ Len(Tail(calls)) = Len(calls) - 1
      /\ Len(calls) \in Nat
  BY <1>1, Pop DEF TypeOK
<1>3. shown["last"] \in Copy
  BY DEF TypeOK, Hook, Copy
<1>4. LearnLast(Head(calls)) \in Copy
  BY <1>1, <1>2, <1>3, LearnType DEF LearnLast, TypeOK
<1>5. shown' \in [Hook -> Copy]
  BY <1>1, <1>4 DEF TellLast, TypeOK, Copy
<1>6. GetProperty \in Value /\ Head(calls).value \in Value
  BY <1>2, SizeFacts DEF GetProperty, TypeOK, Call
<1>7. known' \in [Hook -> Value]
  <2>1. \/ known' = [known EXCEPT !["last"] = GetProperty]
        \/ known' = [known EXCEPT !["last"] = Head(calls).value]
        \/ known' = known
    BY <1>1 DEF TellLast
  <2>. QED BY <2>1, <1>6 DEF TypeOK
<1>8. calls' \in Seq(Call) /\ Len(calls') <= MaxDepth
  BY <1>1, <1>2, BoundAssumption DEF TypeOK
<1>. QED BY <1>1, <1>5, <1>7, <1>8 DEF TypeOK, Copy

LEMMA NextType == ASSUME TypeOK, Exact, Next PROVE TypeOK'
<1>0. used' \subseteq Row /\ mtRecordVec' \in [Row -> Tuple]
  BY NextFollows
<1>1. ASSUME NEW r \in Row, NEW t \in Tuple, AddRow(r, t), holder' = holder PROVE TypeOK'
  <2>1. MayCall /\ Raise(Told("Add", r), Waiting)
    BY <1>1 DEF AddRow
  <2>. QED BY <2>1, <1>0, <1>1, RaiseType, WaitingType, ToldType DEF Event
<1>2. ASSUME NEW r \in Row, NEW t \in Tuple, SetRow(r, t), holder' = holder PROVE TypeOK'
  <2>. DEFINE e == [Told("Update", r) EXCEPT !.tuple = t, !.more = TRUE]
  <2>1. MayCall /\ Raise(e, Waiting)
    BY <1>2 DEF SetRow
  <2>2. e \in Call
    BY SizeFacts DEF Told, Event, Call
  <2>. HIDE DEF e
  <2>. QED BY <2>1, <2>2, <1>0, <1>2, RaiseType, WaitingType
<1>3. ASSUME NEW r \in Row, NEW c \in Col, NEW v \in Value, Write(r, c, v), holder' = holder
      PROVE  TypeOK'
  <2>. DEFINE e == [Told("Update", r) EXCEPT !.col = c]
  <2>1. MayCall /\ Raise(e, Waiting)
    BY <1>3 DEF Write
  <2>2. e \in Call
    BY ToldType DEF Event, Call
  <2>. HIDE DEF e
  <2>. QED BY <2>1, <2>2, <1>0, <1>3, RaiseType, WaitingType
<1>4. ASSUME NEW r \in Row, Remove(r), holder' = holder PROVE TypeOK'
  <2>1. MayCall /\ Raise(Told("Del", r), Waiting)
    BY <1>4 DEF Remove
  <2>. QED BY <2>1, <1>0, <1>4, RaiseType, WaitingType, ToldType DEF Event
<1>5. ASSUME Clear, holder' = holder PROVE TypeOK'
  <2>. DEFINE e == [Told("Del", LastRow(used)) EXCEPT !.more = TRUE]
  <2>1. MayCall /\ used # {} /\ Raise(e, Waiting)
    BY <1>5 DEF Clear
  <2>2. LastRow(used) \in Row
    BY <2>1, LastRowThere DEF TypeOK
  <2>3. e \in Call
    <3>1. PICK r \in Row : r = LastRow(used)
      BY <2>2
    <3>2. [Told("Del", r) EXCEPT !.more = TRUE] \in Call
      BY ToldMoreType
    <3>. QED BY <3>1, <3>2
  <2>. HIDE DEF e
  <2>. QED BY <2>1, <2>3, <1>0, <1>5, RaiseType, WaitingType
<1>6. ASSUME NEW r1 \in Row, NEW r2 \in Row, SwapRowInfo(r1, r2), holder' = holder PROVE TypeOK'
  <2>. DEFINE e == [Told("Swap", r1) EXCEPT !.memory = r2]
              below == [i \in DOMAIN Waiting |-> Swapped(Waiting[i], r1, r2)]
  <2>1. MayCall /\ Raise(e, below)
    BY <1>6 DEF SwapRowInfo
  <2>2. e \in Call
    BY ToldType DEF Event, Call
  <2>3. Waiting \in Seq(Call) /\ Len(Waiting) < MaxDepth
    BY <2>1, WaitingType
  <2>4. below \in Seq(Call) /\ Len(below) = Len(Waiting)
    BY <2>3, SwappedType DEF SameEvents
  <2>. HIDE DEF e, below
  <2>. QED BY <2>1, <2>2, <2>3, <2>4, <1>0, <1>6, RaiseType
<1>7. ASSUME DropRow, holder' = holder PROVE TypeOK'
  <2>. DEFINE e2 == [Head(calls) EXCEPT !.event = "AfterDel", !.at = "script"]
  <2>1. /\ calls # <<>> /\ TellBoth(Head(calls), e2) /\ calls' = <<e2>> \o Tail(calls)
        /\ UNCHANGED <<crossed, propertyVars>>
    BY <1>7 DEF DropRow
  <2>2. e2 \in Call
    BY <2>1, Pop DEF TypeOK, Call, Event
  <2>. HIDE DEF e2
  <2>. QED BY <2>1, <2>2, <1>0, <1>7, ToldBothType, BothType DEF TypeOK
<1>8. ASSUME NextRow, holder' = holder PROVE TypeOK'
  <2>. DEFINE rows == LowerRows(Head(calls).row)
              e2 == [Told("Del", LastRow(rows)) EXCEPT !.more = TRUE]
  <2>1. /\ calls # <<>> /\ calls' = <<e2>> \o Tail(calls) /\ UNCHANGED propertyVars
        /\ crossed' = (crossed \/ Crosses(e2))
        /\ shown' = [shown EXCEPT !["last"] = IF crossed' THEN NoRows ELSE Learn(shown["last"], Head(calls))]
        /\ Head(calls).event = "AfterDel" /\ ~Ends(Head(calls))
    BY <1>8 DEF NextRow
  <2>2. rows # {} /\ rows \subseteq Row
    BY <2>1 DEF Ends, LowerRows, TypeOK
  <2>3. LastRow(rows) \in Row
    <3>. HIDE DEF rows
    <3>. QED BY <2>2, LastRowThere
  <2>4. e2 \in Call
    <3>. HIDE DEF rows
    <3>. QED BY <2>3, ToldMoreType
  <2>. HIDE DEF e2
  <2>5. Learn(shown["last"], Head(calls)) \in Copy /\ NoRows \in Copy
    <3>1. Head(calls) \in Call /\ shown["last"] \in Copy
      BY <2>1, Pop DEF TypeOK, Hook, Copy
    <3>. QED BY <3>1, <1>0, LearnType DEF NoRows, Copy
  <2>6. shown' \in [Hook -> Copy] /\ crossed' \in BOOLEAN
    BY <2>1, <2>5 DEF TypeOK, Hook, Copy, Crosses
  <2>. QED BY <2>1, <2>4, <2>6, <1>0, <1>8, BothType
<1>9. ASSUME NextColumn, holder' = holder PROVE TypeOK'
  <2>. DEFINE e == Head(calls)
              e2 == [e EXCEPT !.col = e.col + 1, !.memory = e.row, !.at = "script"]
  <2>1. /\ calls # <<>> /\ TellBoth(Head(calls), e2) /\ calls' = <<e2>> \o Tail(calls)
        /\ UNCHANGED <<crossed, propertyVars>>
        /\ e.event = "Update" /\ ~Ends(e)
    BY <1>9 DEF NextColumn
  <2>2. e \in Call
    BY <2>1, Pop DEF TypeOK
  <2>3. e.col + 1 \in Col
    BY <2>1, <2>2, SizeAssumption DEF Ends, Call, Col
  <2>4. e2 \in Call
    <3>. HIDE DEF e
    <3>. QED BY <2>2, <2>3 DEF Call
  <2>. HIDE DEF e2
  <2>. QED BY <2>1, <2>4, <1>0, <1>9, ToldBothType, BothType DEF TypeOK
<1>10. ASSUME Release PROVE TypeOK'
  BY <1>10 DEF Release, TypeOK, recordVars, propertyVars
<1>. QED BY Steps, <1>1, <1>2, <1>3, <1>4, <1>5, <1>6, <1>7, <1>8, <1>9, <1>10,
            PropertyType, ReturnType

-----------------------------------------------------------------------------
(* The hook that is told last. *)

(* While no setter was overtaken by a Load, the last value is what "last"  *)
(* knows or what it still waits for.                                       *)
Heard(s) ==
  /\ \A i \in 1 .. Len(s) : s[i].event = "Load" => s[i].value = GetProperty
  /\ known["last"] = GetProperty \/ \E i \in 1 .. Len(s) : s[i].event \in {"Set", "Load"}

LastInv == overtaken \/ Heard(calls)

(* An event of a row changes nothing of it.                                *)
LEMMA LastPush ==
  ASSUME TypeOK, LastInv, NEW e \in Call, NEW below \in Seq(Call), SameEvents(below, calls),
         e.event \notin {"Set", "Load"}, calls' = <<e>> \o below, UNCHANGED propertyVars
  PROVE  LastInv'
<1>1. mxData' = mxData /\ known' = known /\ overtaken' = overtaken /\ GetProperty' = GetProperty
  BY DEF propertyVars, GetProperty
<1>2. /\ Len(calls') = Len(below) + 1 /\ Len(below) \in Nat /\ calls'[1] = e
      /\ \A i \in 1 .. Len(below) : calls'[i + 1] = below[i]
  BY Push
<1>3. /\ Len(below) = Len(calls)
      /\ \A i \in 1 .. Len(below) : below[i].event = calls[i].event /\ below[i].value = calls[i].value
  BY DEF SameEvents
<1>4. \A i \in 1 .. Len(calls') : \/ calls'[i].event \notin {"Set", "Load"}
                                  \/ /\ i - 1 \in 1 .. Len(calls)
                                     /\ calls'[i].event = calls[i - 1].event
                                     /\ calls'[i].value = calls[i - 1].value
  <2>. SUFFICES ASSUME NEW i \in 1 .. Len(calls'), i # 1
                PROVE  /\ i - 1 \in 1 .. Len(calls)
                       /\ calls'[i].event = calls[i - 1].event
                       /\ calls'[i].value = calls[i - 1].value
    BY <1>2
  <2>1. i - 1 \in 1 .. Len(below) /\ (i - 1) + 1 = i
    BY <1>2
  <2>2. calls'[i] = below[i - 1]
    BY <2>1, <1>2
  <2>. QED BY <2>1, <2>2, <1>3
<1>5. \A i \in 1 .. Len(calls) : i + 1 \in 1 .. Len(calls') /\ calls'[i + 1].event = calls[i].event
  BY <1>2, <1>3
<1>6. Heard(calls) => Heard(calls)'
  <2>. SUFFICES ASSUME Heard(calls) PROVE Heard(calls)'
    OBVIOUS
  <2>1. \A i \in 1 .. Len(calls') : calls'[i].event = "Load" => calls'[i].value = GetProperty
    BY <1>4 DEF Heard
  <2>2. known["last"] = GetProperty \/ \E i \in 1 .. Len(calls') : calls'[i].event \in {"Set", "Load"}
    BY <1>5 DEF Heard
  <2>. QED BY <1>1, <2>1, <2>2 DEF Heard
<1>. QED BY <1>1, <1>6 DEF LastInv

LEMMA LastReplace ==
  ASSUME TypeOK, LastInv, calls # <<>>, Head(calls).event \notin {"Set", "Load"},
         NEW e2 \in Call, e2.event \notin {"Set", "Load"},
         calls' = <<e2>> \o Tail(calls), UNCHANGED propertyVars
  PROVE  LastInv'
<1>1. mxData' = mxData /\ known' = known /\ overtaken' = overtaken /\ GetProperty' = GetProperty
  BY DEF propertyVars, GetProperty
<1>2. /\ Head(calls) = calls[1] /\ Tail(calls) \in Seq(Call) /\ Len(Tail(calls)) = Len(calls) - 1
      /\ Len(calls) \in Nat
      /\ \A i \in 1 .. Len(Tail(calls)) : i + 1 \in 1 .. Len(calls) /\ Tail(calls)[i] = calls[i + 1]
  BY Pop DEF TypeOK
<1>3. /\ Len(calls') = Len(calls) /\ calls'[1] = e2
      /\ \A i \in 1 .. Len(Tail(calls)) : calls'[i + 1] = Tail(calls)[i]
  BY <1>2, Push
<1>4. \A i \in 1 .. Len(calls) : i = 1 \/ calls'[i] = calls[i]
  <2>. SUFFICES ASSUME NEW i \in 1 .. Len(calls), i # 1 PROVE calls'[i] = calls[i]
    OBVIOUS
  <2>1. i - 1 \in 1 .. Len(Tail(calls)) /\ (i - 1) + 1 = i
    BY <1>2
  <2>. QED BY <2>1, <1>2, <1>3
<1>5. Heard(calls) => Heard(calls)'
  <2>. SUFFICES ASSUME Heard(calls) PROVE Heard(calls)'
    OBVIOUS
  <2>1. \A i \in 1 .. Len(calls') : calls'[i].event = "Load" => calls'[i].value = GetProperty
    BY <1>3, <1>4 DEF Heard
  <2>2. known["last"] = GetProperty \/ \E i \in 1 .. Len(calls') : calls'[i].event \in {"Set", "Load"}
    BY <1>2, <1>3, <1>4 DEF Heard
  <2>. QED BY <1>1, <2>1, <2>2 DEF Heard
<1>. QED BY <1>1, <1>5 DEF LastInv

LEMMA LastProperty ==
  ASSUME TypeOK, LastInv, NEW v \in Value, SetProperty(v) \/ LoadProperty(v), holder' = holder
  PROVE  LastInv'
<1>1. /\ MayCall /\ mxData' = v
      /\ overtaken' = (overtaken \/ \E i \in DOMAIN calls : calls[i].event = "Load")
  BY DEF SetProperty, LoadProperty
<1>2. GetProperty' = v
  BY <1>1, ValueAssumption DEF GetProperty
<1>3. PICK e \in Call : /\ calls' = <<e>> \o Waiting
                        /\ e.event \in {"Set", "Load"} /\ e.value = v
  BY PropertyType
<1>4. Waiting \in Seq(Call) /\ SameEvents(Waiting, calls)
  BY <1>1, WaitingType
<1>5. /\ Len(calls') = Len(Waiting) + 1 /\ Len(Waiting) \in Nat /\ calls'[1] = e
      /\ \A i \in 1 .. Len(Waiting) : calls'[i + 1] = Waiting[i]
  BY <1>3, <1>4, Push
<1>6. CASE \E i \in DOMAIN calls : calls[i].event = "Load"
  BY <1>1, <1>6 DEF LastInv
<1>7. CASE \A i \in DOMAIN calls : calls[i].event # "Load"
  <2>1. DOMAIN calls = 1 .. Len(calls)
    BY DEF TypeOK
  <2>2. \A i \in 1 .. Len(Waiting) : Waiting[i].event # "Load"
    BY <1>4, <1>7, <2>1 DEF SameEvents
  <2>3. ASSUME NEW i \in 1 .. Len(calls'), calls'[i].event = "Load"
        PROVE  calls'[i].value = v
    <3>1. CASE i = 1
      BY <3>1, <1>3, <1>5
    <3>2. CASE i # 1
      <4>1. i - 1 \in 1 .. Len(Waiting) /\ (i - 1) + 1 = i
        BY <3>2, <1>5
      <4>. QED BY <4>1, <1>5, <2>2, <2>3
    <3>. QED BY <3>1, <3>2
  <2>4. 1 \in 1 .. Len(calls') /\ calls'[1].event \in {"Set", "Load"}
    BY <1>3, <1>5
  <2>. QED BY <2>3, <2>4, <1>2 DEF LastInv, Heard
<1>. QED BY <1>6, <1>7

LEMMA LastReturn == ASSUME TypeOK, LastInv, Return PROVE LastInv'
<1>. DEFINE e == Head(calls)
<1>1. /\ calls # <<>> /\ calls' = Tail(calls)
      /\ mxData' = mxData /\ overtaken' = overtaken /\ GetProperty' = GetProperty
      /\ known' = CASE e.event = "Set" -> [known EXCEPT !["last"] = GetProperty]
                    [] e.event = "Load" -> [known EXCEPT !["last"] = e.value]
                    [] OTHER -> known
  BY DEF Return, TellLast, GetProperty
<1>2. /\ e = calls[1] /\ 1 \in 1 .. Len(calls) /\ Len(calls') = Len(calls) - 1 /\ Len(calls) \in Nat
      /\ \A i \in 1 .. Len(calls') : i + 1 \in 1 .. Len(calls) /\ calls'[i] = calls[i + 1]
  BY <1>1, Pop DEF TypeOK
<1>3. known \in [Hook -> Value] /\ "last" \in Hook
  BY DEF TypeOK, Hook
<1>. HIDE DEF e
<1>4. CASE Heard(calls)
  <2>1. \A i \in 1 .. Len(calls') : calls'[i].event = "Load" => calls'[i].value = GetProperty
    BY <1>2, <1>4 DEF Heard
  <2>2. CASE e.event \in {"Set", "Load"}
    <3>1. e.event = "Load" => e.value = GetProperty
      BY <1>2, <1>4 DEF Heard
    <3>2. known'["last"] = GetProperty
      BY <1>1, <1>3, <2>2, <3>1
    <3>. QED BY <1>1, <2>1, <3>2 DEF LastInv, Heard
  <2>3. CASE e.event \notin {"Set", "Load"}
    <3>1. known' = known
      BY <1>1, <2>3
    <3>2. ASSUME NEW i \in 1 .. Len(calls), calls[i].event \in {"Set", "Load"}
          PROVE  \E j \in 1 .. Len(calls') : calls'[j].event \in {"Set", "Load"}
      <4>1. i # 1
        BY <3>2, <2>3, <1>2
      <4>2. i - 1 \in 1 .. Len(calls') /\ (i - 1) + 1 = i
        BY <4>1, <1>2
      <4>3. calls'[i - 1] = calls[i]
        BY <4>2, <1>2
      <4>. QED BY <3>2, <4>2, <4>3
    <3>3. known["last"] = GetProperty \/ \E j \in 1 .. Len(calls') : calls'[j].event \in {"Set", "Load"}
      BY <1>4, <3>2 DEF Heard
    <3>. QED BY <1>1, <2>1, <3>1, <3>3 DEF LastInv, Heard
  <2>. QED BY <2>2, <2>3
<1>5. CASE overtaken
  BY <1>1, <1>5 DEF LastInv
<1>. QED BY <1>4, <1>5 DEF LastInv

LEMMA LastNext == ASSUME TypeOK, LastInv, Next PROVE LastInv'
<1>1. ASSUME NEW r \in Row, NEW t \in Tuple, AddRow(r, t) PROVE LastInv'
  <2>1. MayCall /\ calls' = <<Told("Add", r)>> \o Waiting /\ UNCHANGED propertyVars
    BY <1>1 DEF AddRow, Raise
  <2>2. Told("Add", r) \in Call /\ Told("Add", r).event \notin {"Set", "Load"}
    BY ToldType DEF Event, Told
  <2>. QED BY <2>1, <2>2, LastPush, WaitingType
<1>2. ASSUME NEW r \in Row, NEW t \in Tuple, SetRow(r, t) PROVE LastInv'
  <2>. DEFINE e == [Told("Update", r) EXCEPT !.tuple = t, !.more = TRUE]
  <2>1. MayCall /\ calls' = <<e>> \o Waiting /\ UNCHANGED propertyVars
    BY <1>2 DEF SetRow, Raise
  <2>2. e \in Call /\ e.event \notin {"Set", "Load"}
    BY SizeFacts DEF Told, Event, Call
  <2>. HIDE DEF e
  <2>. QED BY <2>1, <2>2, LastPush, WaitingType
<1>3. ASSUME NEW r \in Row, NEW c \in Col, NEW v \in Value, Write(r, c, v) PROVE LastInv'
  <2>. DEFINE e == [Told("Update", r) EXCEPT !.col = c]
  <2>1. MayCall /\ calls' = <<e>> \o Waiting /\ UNCHANGED propertyVars
    BY <1>3 DEF Write, Raise
  <2>2. e \in Call /\ e.event \notin {"Set", "Load"}
    BY SizeFacts DEF Told, Event, Call
  <2>. HIDE DEF e
  <2>. QED BY <2>1, <2>2, LastPush, WaitingType
<1>4. ASSUME NEW r \in Row, Remove(r) PROVE LastInv'
  <2>1. MayCall /\ calls' = <<Told("Del", r)>> \o Waiting /\ UNCHANGED propertyVars
    BY <1>4 DEF Remove, Raise
  <2>2. Told("Del", r) \in Call /\ Told("Del", r).event \notin {"Set", "Load"}
    BY ToldType DEF Event, Told
  <2>. QED BY <2>1, <2>2, LastPush, WaitingType
<1>5. ASSUME Clear PROVE LastInv'
  <2>1. MayCall /\ used # {} /\ UNCHANGED propertyVars
        /\ calls' = <<[Told("Del", LastRow(used)) EXCEPT !.more = TRUE]>> \o Waiting
    BY <1>5 DEF Clear, Raise
  <2>2. LastRow(used) \in Row
    BY <2>1, LastRowThere DEF TypeOK
  <2>3. PICK r \in Row : calls' = <<[Told("Del", r) EXCEPT !.more = TRUE]>> \o Waiting
    BY <2>1, <2>2
  <2>. DEFINE e == [Told("Del", r) EXCEPT !.more = TRUE]
  <2>4. e \in Call /\ e.event \notin {"Set", "Load"}
    BY ToldMoreType DEF Told
  <2>. HIDE DEF e
  <2>5. calls' = <<e>> \o Waiting
    BY <2>3 DEF e
  <2>. QED BY <2>1, <2>4, <2>5, LastPush, WaitingType
<1>6. ASSUME NEW r1 \in Row, NEW r2 \in Row, SwapRowInfo(r1, r2) PROVE LastInv'
  <2>. DEFINE e == [Told("Swap", r1) EXCEPT !.memory = r2]
              below == [i \in DOMAIN Waiting |-> Swapped(Waiting[i], r1, r2)]
  <2>1. MayCall /\ calls' = <<e>> \o below /\ UNCHANGED propertyVars
    BY <1>6 DEF SwapRowInfo, Raise
  <2>2. e \in Call /\ e.event \notin {"Set", "Load"}
    BY SizeFacts DEF Told, Event, Call
  <2>3. Waiting \in Seq(Call) /\ SameEvents(Waiting, calls)
    BY <2>1, WaitingType
  <2>4. below \in Seq(Call) /\ SameEvents(below, Waiting)
    BY <2>3, SwappedType
  <2>. HIDE DEF e, below
  <2>5. SameEvents(below, calls)
    BY <2>3, <2>4 DEF SameEvents
  <2>. QED BY <2>1, <2>2, <2>4, <2>5, LastPush
<1>7. ASSUME DropRow PROVE LastInv'
  <2>. DEFINE e2 == [Head(calls) EXCEPT !.event = "AfterDel", !.at = "script"]
  <2>1. /\ calls # <<>> /\ calls' = <<e2>> \o Tail(calls)
        /\ UNCHANGED propertyVars /\ Head(calls).event = "Del"
    BY <1>7 DEF DropRow
  <2>2. Head(calls) \in Call
    BY <2>1, Pop DEF TypeOK
  <2>3. e2 \in Call /\ e2.event \notin {"Set", "Load"}
    BY <2>2 DEF Call, Event
  <2>. HIDE DEF e2
  <2>. QED BY <2>1, <2>3, LastReplace
<1>8. ASSUME NextRow PROVE LastInv'
  <2>. DEFINE rows == LowerRows(Head(calls).row)
  <2>1. /\ calls # <<>> /\ calls' = <<[Told("Del", LastRow(rows)) EXCEPT !.more = TRUE]>> \o Tail(calls)
        /\ UNCHANGED propertyVars
        /\ Head(calls).event = "AfterDel" /\ ~Ends(Head(calls))
    BY <1>8 DEF NextRow
  <2>2. rows # {} /\ rows \subseteq Row
    BY <2>1 DEF Ends, LowerRows, TypeOK
  <2>3. LastRow(rows) \in Row
    <3>. HIDE DEF rows
    <3>. QED BY <2>2, LastRowThere
  <2>4. PICK r \in Row : calls' = <<[Told("Del", r) EXCEPT !.more = TRUE]>> \o Tail(calls)
    BY <2>1, <2>3
  <2>. DEFINE e2 == [Told("Del", r) EXCEPT !.more = TRUE]
  <2>5. e2 \in Call /\ e2.event \notin {"Set", "Load"}
    BY ToldMoreType DEF Told
  <2>. HIDE DEF e2
  <2>6. calls' = <<e2>> \o Tail(calls)
    BY <2>4 DEF e2
  <2>. QED BY <2>1, <2>5, <2>6, LastReplace
<1>9. ASSUME NextColumn PROVE LastInv'
  <2>. DEFINE e == Head(calls)
              e2 == [e EXCEPT !.col = e.col + 1, !.memory = e.row, !.at = "script"]
  <2>1. /\ calls # <<>> /\ calls' = <<e2>> \o Tail(calls)
        /\ UNCHANGED propertyVars
        /\ e.event = "Update" /\ ~Ends(e)
    BY <1>9 DEF NextColumn
  <2>2. e \in Call
    BY <2>1, Pop DEF TypeOK
  <2>3. e.col + 1 \in Col
    BY <2>1, <2>2, SizeAssumption DEF Ends, Call, Col
  <2>4. e2 \in Call /\ e2.event \notin {"Set", "Load"}
    <3>. HIDE DEF e
    <3>. QED BY <2>1, <2>2, <2>3 DEF Call
  <2>. HIDE DEF e2
  <2>. QED BY <2>1, <2>4, LastReplace
<1>10. ASSUME Release PROVE LastInv'
  BY <1>10 DEF Release, propertyVars, LastInv, Heard, GetProperty
<1>. QED BY Steps, <1>1, <1>2, <1>3, <1>4, <1>5, <1>6, <1>7, <1>8, <1>9, <1>10,
            LastProperty, LastReturn

-----------------------------------------------------------------------------
(* The rows the hook that is told last knows.  A note is what matters of a *)
(* change under way to a copy of the rows.                                 *)

Note == [event : Event, row : Row, col : Col, memory : Row]
NoteOf(e) == [event |-> e.event, row |-> e.row, col |-> e.col, memory |-> e.memory]
Notes(s) == [i \in 1 .. Len(s) |-> NoteOf(s[i])]
Among(q) == {q[i] : i \in 1 .. Len(q)}

(* Two changes of which one is a swap of a row that the other is about: the*)
(* one under the other, in a copy that was not given up, is a Del at most. *)
Clash(e, g) ==
  /\ e.event \notin {"Set", "Load"} /\ g.event \notin {"Del", "Set", "Load"}
  /\ RowsOf(g) \cap RowsOf(e) # {}
  /\ "Swap" \in {e.event, g.event}

Apart(q) == \A i, j \in 1 .. Len(q) : i < j => ~Clash(q[i], q[j])

Waits(S, event, r) == \E g \in S : g.event = event /\ g.row = r
CellWaits(S, r, c) == \E g \in S : g.event = "Update" /\ g.row = r /\ g.col = c
SwapWaits(S, r) == \E g \in S : g.event = "Swap" /\ r \in RowsOf(g)

(* What of a row the copy does not show yet, it is still to be told.       *)
Caught(copy, rows, S, r) ==
  \/ Waits(S, "Add", r)
  \/ rows[r] = NoRow /\ (copy[r] = NoRow \/ Waits(S, "AfterDel", r))
  \/ /\ rows[r] # NoRow /\ copy[r] # NoRow
     /\ \A c \in Col : copy[r][c] = rows[r][c] \/ CellWaits(S, r, c)

Fits(copy, rows, S) ==
  /\ \A g \in S : g.event = "Update" => g.memory = g.row
  /\ \A g \in S : g.event = "AfterDel" => rows[g.row] = NoRow
  /\ \A g \in S : g.event = "Swap" => copy[g.row] = rows[g.memory] /\ copy[g.memory] = rows[g.row]
  /\ \A r \in Row : SwapWaits(S, r) \/ Caught(copy, rows, S, r)

Good(copy, rows, q) == Apart(q) /\ Fits(copy, rows, Among(q))

CopyInv == crossed \/ Good(shown["last"], Rows, Notes(calls))

LEMMA NoteOn ==
  ASSUME NEW e \in Note, NEW q \in Seq(Note)
  PROVE  /\ <<e>> \o q \in Seq(Note)
         /\ Among(<<e>> \o q) = {e} \cup Among(q)
         /\ Among(q) \subseteq Note
         /\ Apart(<<e>> \o q) <=> Apart(q) /\ \A g \in Among(q) : ~Clash(e, g)
<1>. DEFINE p == <<e>> \o q
<1>1. /\ p \in Seq(Note) /\ Len(p) = Len(q) + 1 /\ Len(q) \in Nat /\ p[1] = e
      /\ \A i \in 1 .. Len(q) : p[i + 1] = q[i] /\ q[i] \in Note
  OBVIOUS
<1>. HIDE DEF p
<1>2. /\ 1 \in 1 .. Len(p)
      /\ \A i \in 1 .. Len(q) : i + 1 \in 1 .. Len(p) /\ i + 1 > 1
      /\ \A i \in 1 .. Len(p) : i # 1 => /\ i - 1 \in 1 .. Len(q) /\ (i - 1) + 1 = i
                                         /\ p[i] = q[i - 1]
  <2>1. \A i \in 1 .. Len(p) : i # 1 => i - 1 \in 1 .. Len(q) /\ (i - 1) + 1 = i
    BY <1>1
  <2>. QED BY <1>1, <2>1
<1>3. Among(p) = {e} \cup Among(q)
  <2>1. \A g \in Among(p) : g = e \/ g \in Among(q)
    BY <1>1, <1>2 DEF Among
  <2>2. e \in Among(p)
    BY <1>1, <1>2 DEF Among
  <2>3. \A g \in Among(q) : g \in Among(p)
    BY <1>1, <1>2 DEF Among
  <2>. QED BY <2>1, <2>2, <2>3
<1>4. Apart(p) => Apart(q)
  <2>. SUFFICES ASSUME Apart(p), NEW i \in 1 .. Len(q), NEW j \in 1 .. Len(q), i < j
                PROVE  ~Clash(q[i], q[j])
    BY DEF Apart
  <2>1. i + 1 \in 1 .. Len(p) /\ j + 1 \in 1 .. Len(p) /\ i + 1 < j + 1
    BY <1>2
  <2>. QED BY <2>1, <1>1 DEF Apart
<1>5. Apart(p) => \A g \in Among(q) : ~Clash(e, g)
  <2>. SUFFICES ASSUME Apart(p), NEW i \in 1 .. Len(q) PROVE ~Clash(e, q[i])
    BY DEF Among
  <2>. QED BY <1>1, <1>2 DEF Apart
<1>6. ASSUME Apart(q), \A g \in Among(q) : ~Clash(e, g) PROVE Apart(p)
  <2>. SUFFICES ASSUME NEW i \in 1 .. Len(p), NEW j \in 1 .. Len(p), i < j PROVE ~Clash(p[i], p[j])
    BY DEF Apart
  <2>1. j # 1 /\ j - 1 \in 1 .. Len(q) /\ p[j] = q[j - 1]
    BY <1>1, <1>2
  <2>2. CASE i = 1
    BY <2>1, <2>2, <1>1, <1>6 DEF Among
  <2>3. CASE i # 1
    <3>1. i - 1 \in 1 .. Len(q) /\ p[i] = q[i - 1] /\ i - 1 < j - 1
      BY <2>3, <1>1, <1>2
    <3>. QED BY <3>1, <2>1, <1>6 DEF Apart
  <2>. QED BY <2>2, <2>3
<1>7. Among(q) \subseteq Note
  BY <1>1 DEF Among
<1>. QED BY <1>1, <1>3, <1>4, <1>5, <1>6, <1>7 DEF p

LEMMA NotesPush ==
  ASSUME NEW e \in Call, NEW s \in Seq(Call)
  PROVE  /\ NoteOf(e) \in Note /\ Notes(s) \in Seq(Note)
         /\ Notes(<<e>> \o s) = <<NoteOf(e)>> \o Notes(s)
<1>0. ASSUME NEW k \in Call PROVE NoteOf(k) \in Note
  BY DEF Call, Note, NoteOf
<1>1. /\ Len(s) \in Nat /\ \A i \in 1 .. Len(s) : s[i] \in Call
      /\ Len(<<e>> \o s) = Len(s) + 1 /\ (<<e>> \o s)[1] = e
      /\ \A i \in 1 .. Len(s) : (<<e>> \o s)[i + 1] = s[i]
  OBVIOUS
<1>2. Notes(s) \in Seq(Note) /\ Len(Notes(s)) = Len(s) /\ \A i \in 1 .. Len(s) : Notes(s)[i] = NoteOf(s[i])
  <2>1. \A i \in 1 .. Len(s) : NoteOf(s[i]) \in Note
    BY <1>0, <1>1
  <2>. QED BY <2>1, <1>1 DEF Notes
<1>. DEFINE p == <<NoteOf(e)>> \o Notes(s)
            t == <<e>> \o s
<1>3. /\ p \in Seq(Note) /\ Len(p) = Len(s) + 1 /\ p[1] = NoteOf(e)
      /\ \A i \in 1 .. Len(s) : p[i + 1] = NoteOf(s[i])
  <2>1. NoteOf(e) \in Note
    BY <1>0
  <2>2. ASSUME NEW k \in Note, NEW q \in Seq(Note)
        PROVE  /\ <<k>> \o q \in Seq(Note) /\ Len(<<k>> \o q) = Len(q) + 1 /\ (<<k>> \o q)[1] = k
               /\ \A i \in 1 .. Len(q) : (<<k>> \o q)[i + 1] = q[i]
    OBVIOUS
  <2>. QED BY <2>1, <2>2, <1>2
<1>4. Len(t) = Len(s) + 1 /\ t[1] = e /\ \A i \in 1 .. Len(s) : t[i + 1] = s[i]
  BY <1>1
<1>. HIDE DEF p, t
<1>5. Notes(t) = p
  <2>1. p = [i \in 1 .. Len(p) |-> p[i]]
    BY <1>3
  <2>2. ASSUME NEW i \in 1 .. Len(t) PROVE NoteOf(t[i]) = p[i]
    <3>1. CASE i = 1
      BY <3>1, <1>3, <1>4
    <3>2. CASE i # 1
      <4>1. i - 1 \in 1 .. Len(s) /\ (i - 1) + 1 = i
        BY <3>2, <1>1, <1>4
      <4>2. p[i] = NoteOf(s[i - 1]) /\ t[i] = s[i - 1]
        BY <4>1, <1>3, <1>4
      <4>. QED BY <4>2
    <3>. QED BY <3>1, <3>2
  <2>. QED BY <2>1, <2>2, <1>3, <1>4 DEF Notes
<1>. QED BY <1>0, <1>2, <1>5 DEF p, t

LEMMA NotesHead ==
  ASSUME TypeOK, calls # <<>>
  PROVE  /\ Notes(calls) = <<NoteOf(Head(calls))>> \o Notes(Tail(calls))
         /\ NoteOf(Head(calls)) \in Note /\ Notes(Tail(calls)) \in Seq(Note)
<1>1. Head(calls) \in Call /\ Tail(calls) \in Seq(Call) /\ calls \in Seq(Call)
  BY Pop DEF TypeOK
<1>2. calls = <<Head(calls)>> \o Tail(calls)
  BY <1>1
<1>. QED BY <1>1, <1>2, NotesPush

LEMMA NotesWaiting ==
  ASSUME TypeOK, MayCall
  PROVE  Notes(Waiting) = Notes(calls) /\ Notes(calls) \in Seq(Note)
<1>1. CASE calls = <<>>
  BY <1>1 DEF Waiting, Notes
<1>2. CASE calls # <<>>
  <2>. DEFINE h == [Head(calls) EXCEPT !.at = "last"]
  <2>1. Head(calls) \in Call /\ Tail(calls) \in Seq(Call) /\ calls \in Seq(Call)
    BY <1>2, Pop DEF TypeOK
  <2>2. h \in Call /\ NoteOf(h) = NoteOf(Head(calls))
    BY <2>1 DEF Call, NoteOf
  <2>3. Waiting = <<h>> \o Tail(calls)
    BY <1>2 DEF Waiting
  <2>. HIDE DEF h
  <2>4. Notes(Waiting) = <<NoteOf(h)>> \o Notes(Tail(calls))
    BY <2>1, <2>2, <2>3, NotesPush
  <2>5. <<NoteOf(h)>> \o Notes(Tail(calls)) \in Seq(Note)
    BY <2>1, <2>2, NotesPush, NoteOn
  <2>. QED BY <1>2, <2>2, <2>4, <2>5, NotesHead
<1>. QED BY <1>1, <1>2

LEMMA NoteFacts ==
  ASSUME NEW e \in Note
  PROVE  /\ e.event \in Event /\ e.row \in Row /\ e.col \in Col /\ e.memory \in Row
         /\ e.row \in RowsOf(e)
         /\ e.event = "Swap" => RowsOf(e) = {e.row, e.memory}
         /\ e.event # "Swap" => RowsOf(e) = {e.row}
BY DEF Note, RowsOf

(* A row that the copy shows as it is needs nothing more.                  *)
LEMMA ShownCaught ==
  ASSUME NEW copy, NEW rows, NEW S, NEW r \in Row, copy[r] = rows[r]
  PROVE  Caught(copy, rows, S, r)
BY DEF Caught

(* And a row that nothing is still to be told about is shown as it is.     *)
LEMMA CaughtShown ==
  ASSUME NEW copy \in Copy, NEW rows \in Copy, NEW S, NEW r \in Row, Caught(copy, rows, S, r),
         \A g \in S : g.event \notin {"Del", "Set", "Load"} => g.row # r
  PROVE  copy[r] = rows[r]
<1>1. ~Waits(S, "Add", r) /\ ~Waits(S, "AfterDel", r) /\ \A c \in Col : ~CellWaits(S, r, c)
  BY DEF Waits, CellWaits
<1>2. CASE rows[r] = NoRow
  BY <1>1, <1>2 DEF Caught
<1>3. CASE rows[r] # NoRow
  <2>1. copy[r] # NoRow /\ \A c \in Col : copy[r][c] = rows[r][c]
    BY <1>1, <1>3 DEF Caught
  <2>2. copy[r] \in Tuple /\ rows[r] \in Tuple
    BY <2>1, <1>3 DEF Copy
  <2>. QED BY <2>1, <2>2 DEF Tuple
<1>. QED BY <1>2, <1>3

(* Nothing about the row is different, so it is as before.                 *)
LEMMA CaughtSame ==
  ASSUME NEW copy, NEW rows, NEW S, NEW r \in Row, Caught(copy, rows, S, r),
         NEW copy2, NEW rows2, NEW S2, copy2[r] = copy[r], rows2[r] = rows[r],
         \A g \in S : g.event \in {"Add", "Update", "AfterDel"} /\ g.row = r => g \in S2
  PROVE  Caught(copy2, rows2, S2, r)
<1>1. /\ Waits(S, "Add", r) => Waits(S2, "Add", r)
      /\ Waits(S, "AfterDel", r) => Waits(S2, "AfterDel", r)
      /\ \A c \in Col : CellWaits(S, r, c) => CellWaits(S2, r, c)
  BY DEF Waits, CellWaits
<1>. QED BY <1>1 DEF Caught

(* What the changes of one row leave of the others.                        *)
LEMMA SwapSame ==
  ASSUME NEW e \in Note, NEW g \in Note, g.event = "Swap", ~Clash(e, g),
         e.event \notin {"Set", "Load"}
  PROVE  g.row \notin RowsOf(e) /\ g.memory \notin RowsOf(e)
BY NoteFacts DEF Clash

LEMMA PushNothing ==
  ASSUME NEW copy, NEW rows, NEW S \in SUBSET Note, Fits(copy, rows, S),
         NEW e \in Note, e.event \in {"Del", "Set", "Load"}
  PROVE  Fits(copy, rows, {e} \cup S)
<1>1. ASSUME NEW r \in Row
      PROVE  SwapWaits({e} \cup S, r) \/ Caught(copy, rows, {e} \cup S, r)
  <2>1. CASE SwapWaits(S, r)
    BY <2>1 DEF SwapWaits
  <2>2. CASE Caught(copy, rows, S, r)
    BY <2>2, CaughtSame
  <2>. QED BY <2>1, <2>2 DEF Fits
<1>. QED BY <1>1 DEF Fits

LEMMA PushAdd ==
  ASSUME NEW copy \in Copy, NEW rows \in Copy, NEW S \in SUBSET Note, Fits(copy, rows, S),
         NEW e \in Note, e.event = "Add", \A g \in S : ~Clash(e, g),
         ~Waits(S, "AfterDel", e.row),
         NEW rows2 \in Copy, \A r \in Row : r # e.row => rows2[r] = rows[r]
  PROVE  Fits(copy, rows2, {e} \cup S)
<1>1. ASSUME NEW r \in Row
      PROVE  SwapWaits({e} \cup S, r) \/ Caught(copy, rows2, {e} \cup S, r)
  <2>1. CASE r = e.row
    BY <2>1 DEF Caught, Waits
  <2>2. CASE r # e.row /\ SwapWaits(S, r)
    BY <2>2 DEF SwapWaits
  <2>3. CASE r # e.row /\ Caught(copy, rows, S, r)
    BY <2>3, CaughtSame
  <2>. QED BY <2>1, <2>2, <2>3 DEF Fits
<1>2. ASSUME NEW g \in S, g.event = "Swap"
      PROVE  copy[g.row] = rows2[g.memory] /\ copy[g.memory] = rows2[g.row]
  <2>1. g.row # e.row /\ g.memory # e.row /\ g.row \in Row /\ g.memory \in Row
    BY <1>2, SwapSame, NoteFacts
  <2>. QED BY <1>2, <2>1 DEF Fits
<1>3. ASSUME NEW g \in S, g.event = "AfterDel" PROVE rows2[g.row] = NoRow
  <2>1. g.row # e.row /\ g.row \in Row
    BY <1>3, NoteFacts DEF Waits
  <2>. QED BY <1>3, <2>1 DEF Fits
<1>. QED BY <1>1, <1>2, <1>3 DEF Fits

LEMMA PushUpdate ==
  ASSUME NEW copy \in Copy, NEW rows \in Copy, NEW S \in SUBSET Note, Fits(copy, rows, S),
         NEW e \in Note, e.event = "Update", e.memory = e.row, \A g \in S : ~Clash(e, g),
         NEW v \in Value, NEW rows2 \in Copy,
         rows2 = IF rows[e.row] = NoRow THEN rows
                 ELSE [rows EXCEPT ![e.row] = [rows[e.row] EXCEPT ![e.col] = v]]
  PROVE  Fits(copy, rows2, {e} \cup S)
<1>0. e.row \in Row /\ e.col \in Col
  BY NoteFacts
<1>1. \A r \in Row : /\ r # e.row => rows2[r] = rows[r]
                     /\ rows[r] = NoRow <=> rows2[r] = NoRow
  <2>1. CASE rows[e.row] = NoRow
    BY <2>1
  <2>2. CASE rows[e.row] # NoRow
    <3>1. rows[e.row] \in Tuple
      BY <1>0, <2>2 DEF Copy
    <3>2. [rows[e.row] EXCEPT ![e.col] = v] \in Tuple
      BY <3>1, <1>0 DEF Tuple
    <3>. QED BY <3>2, <1>0, <2>2, SizeFacts DEF Copy
  <2>. QED BY <2>1, <2>2
<1>2. ASSUME NEW r \in Row
      PROVE  SwapWaits({e} \cup S, r) \/ Caught(copy, rows2, {e} \cup S, r)
  <2>1. CASE SwapWaits(S, r)
    BY <2>1 DEF SwapWaits
  <2>2. CASE r # e.row /\ Caught(copy, rows, S, r)
    BY <2>2, <1>1, CaughtSame
  <2>3. CASE r = e.row /\ rows[r] = NoRow /\ Caught(copy, rows, S, r)
    BY <2>3, CaughtSame
  <2>4. CASE r = e.row /\ rows[r] # NoRow /\ Caught(copy, rows, S, r)
    <3>1. CASE Waits(S, "Add", r)
      BY <3>1 DEF Caught, Waits
    <3>2. CASE copy[r] # NoRow /\ \A c \in Col : copy[r][c] = rows[r][c] \/ CellWaits(S, r, c)
      <4>1. rows2[r] = [rows[r] EXCEPT ![e.col] = v] /\ rows[r] \in Tuple
        BY <2>4 DEF Copy
      <4>2. ASSUME NEW c \in Col PROVE copy[r][c] = rows2[r][c] \/ CellWaits({e} \cup S, r, c)
        <5>1. CASE c = e.col
          BY <5>1, <2>4 DEF CellWaits
        <5>2. CASE c # e.col
          <6>1. rows2[r][c] = rows[r][c]
            BY <4>1, <5>2 DEF Tuple
          <6>. QED BY <6>1, <3>2 DEF CellWaits
        <5>. QED BY <5>1, <5>2
      <4>. QED BY <4>2, <3>2, <2>4, <1>1 DEF Caught
    <3>. QED BY <2>4, <3>1, <3>2 DEF Caught
  <2>. QED BY <2>1, <2>2, <2>3, <2>4 DEF Fits
<1>3. ASSUME NEW g \in S, g.event = "Swap"
      PROVE  copy[g.row] = rows2[g.memory] /\ copy[g.memory] = rows2[g.row]
  <2>1. g.row # e.row /\ g.memory # e.row /\ g.row \in Row /\ g.memory \in Row
    BY <1>3, SwapSame, NoteFacts
  <2>. QED BY <1>1, <1>3, <2>1 DEF Fits
<1>4. ASSUME NEW g \in S, g.event = "AfterDel" PROVE rows2[g.row] = NoRow
  BY <1>1, <1>4, NoteFacts DEF Fits
<1>5. \A g \in {e} \cup S : g.event = "Update" => g.memory = g.row
  BY DEF Fits
<1>. QED BY <1>2, <1>3, <1>4, <1>5 DEF Fits

LEMMA PushSwap ==
  ASSUME NEW copy \in Copy, NEW rows \in Copy, NEW S \in SUBSET Note, Fits(copy, rows, S),
         NEW e \in Note, e.event = "Swap", \A g \in S : ~Clash(e, g),
         NEW rows2, rows2 = [rows EXCEPT ![e.row] = rows[e.memory], ![e.memory] = rows[e.row]]
  PROVE  Fits(copy, rows2, {e} \cup S)
<1>0. e.row \in Row /\ e.memory \in Row /\ RowsOf(e) = {e.row, e.memory}
  BY NoteFacts
<1>1. /\ \A r \in Row : r \notin RowsOf(e) => rows2[r] = rows[r]
      /\ rows2[e.row] = rows[e.memory] /\ rows2[e.memory] = rows[e.row]
  BY <1>0 DEF Copy
<1>2. ASSUME NEW r \in RowsOf(e), NEW g \in S, g.event \notin {"Del", "Set", "Load"}
      PROVE  r \notin RowsOf(g)
  BY <1>2 DEF Clash
<1>3. ASSUME NEW r \in RowsOf(e) PROVE copy[r] = rows[r]
  <2>1. r \in Row /\ ~SwapWaits(S, r)
    BY <1>0, <1>2 DEF SwapWaits
  <2>2. \A g \in S : g.event \notin {"Del", "Set", "Load"} => g.row # r
    BY <1>2, NoteFacts
  <2>. QED BY <2>1, <2>2, CaughtShown DEF Fits
<1>4. ASSUME NEW r \in Row
      PROVE  SwapWaits({e} \cup S, r) \/ Caught(copy, rows2, {e} \cup S, r)
  <2>1. CASE SwapWaits(S, r) \/ r \in RowsOf(e)
    BY <2>1 DEF SwapWaits
  <2>2. CASE r \notin RowsOf(e) /\ Caught(copy, rows, S, r)
    BY <2>2, <1>1, CaughtSame
  <2>. QED BY <2>1, <2>2 DEF Fits
<1>5. ASSUME NEW g \in {e} \cup S, g.event = "Swap"
      PROVE  copy[g.row] = rows2[g.memory] /\ copy[g.memory] = rows2[g.row]
  <2>1. CASE g = e
    BY <2>1, <1>0, <1>1, <1>3
  <2>2. CASE g \in S
    <3>1. g.row \notin RowsOf(e) /\ g.memory \notin RowsOf(e) /\ g.row \in Row /\ g.memory \in Row
      BY <1>5, <2>2, SwapSame, NoteFacts
    <3>. QED BY <1>1, <1>5, <2>2, <3>1 DEF Fits
  <2>. QED BY <2>1, <2>2
<1>6. ASSUME NEW g \in S, g.event = "AfterDel" PROVE rows2[g.row] = NoRow
  <2>1. g.row \notin RowsOf(e) /\ g.row \in Row
    BY <1>2, <1>6, NoteFacts
  <2>. QED BY <1>1, <1>6, <2>1 DEF Fits
<1>. QED BY <1>4, <1>5, <1>6 DEF Fits

(* The row goes between Del and AfterDel.                                  *)
LEMMA DropNote ==
  ASSUME NEW copy \in Copy, NEW rows \in Copy, NEW S \in SUBSET Note,
         NEW e \in Note, e.event = "Del", Fits(copy, rows, {e} \cup S), \A g \in S : ~Clash(e, g),
         NEW e2 \in Note, e2.event = "AfterDel", e2.row = e.row
  PROVE  Fits(copy, [rows EXCEPT ![e.row] = NoRow], {e2} \cup S)
<1>. DEFINE rows2 == [rows EXCEPT ![e.row] = NoRow]
<1>0. e.row \in Row
  BY NoteFacts
<1>1. rows2[e.row] = NoRow /\ \A r \in Row : r # e.row => rows2[r] = rows[r]
  BY <1>0 DEF Copy
<1>. HIDE DEF rows2
<1>2. ASSUME NEW r \in Row
      PROVE  SwapWaits({e2} \cup S, r) \/ Caught(copy, rows2, {e2} \cup S, r)
  <2>1. CASE r = e.row
    BY <2>1, <1>1 DEF Caught, Waits
  <2>2. CASE r # e.row /\ SwapWaits({e} \cup S, r)
    BY <2>2 DEF SwapWaits
  <2>3. CASE r # e.row /\ Caught(copy, rows, {e} \cup S, r)
    BY <2>3, <1>1, CaughtSame
  <2>. QED BY <2>1, <2>2, <2>3 DEF Fits
<1>3. ASSUME NEW g \in S, g.event = "Swap"
      PROVE  copy[g.row] = rows2[g.memory] /\ copy[g.memory] = rows2[g.row]
  <2>1. g.row # e.row /\ g.memory # e.row /\ g.row \in Row /\ g.memory \in Row
    BY <1>3, SwapSame, NoteFacts
  <2>. QED BY <1>1, <1>3, <2>1 DEF Fits
<1>4. ASSUME NEW g \in {e2} \cup S, g.event = "AfterDel" PROVE rows2[g.row] = NoRow
  BY <1>0, <1>1, <1>4, NoteFacts DEF Fits
<1>. QED BY <1>2, <1>3, <1>4 DEF Fits, rows2

(* The hook is told: what it learns is what it waited for.                 *)
Learns(copy, rows, e, copy2) ==
  CASE e.event = "Add" -> copy2 = [copy EXCEPT ![e.row] = rows[e.row]]
    [] e.event = "Update" ->
         \/ copy[e.row] = NoRow /\ copy2 = copy
         \/ \E v \in Value :
              /\ copy[e.row] # NoRow
              /\ copy2 = [copy EXCEPT ![e.row] = [copy[e.row] EXCEPT ![e.col] = v]]
              /\ rows[e.row] # NoRow => v = rows[e.row][e.col]
    [] e.event = "AfterDel" -> copy2 = [copy EXCEPT ![e.row] = NoRow]
    [] e.event = "Swap" -> copy2 = [copy EXCEPT ![e.row] = copy[e.memory], ![e.memory] = copy[e.row]]
    [] OTHER -> copy2 = copy

LEMMA TellNote ==
  ASSUME NEW copy \in Copy, NEW rows \in Copy, NEW S \in SUBSET Note,
         NEW e \in Note, e.event # "Del", Fits(copy, rows, {e} \cup S), \A g \in S : ~Clash(e, g),
         NEW copy2, Learns(copy, rows, e, copy2)
  PROVE  Fits(copy2, rows, S)
<1>0. e.row \in Row /\ e.col \in Col /\ e.memory \in Row
  BY NoteFacts
<1>1. CASE e.event \in {"Set", "Load"}
  <2>1. copy2 = copy
    BY <1>1 DEF Learns
  <2>2. ASSUME NEW r \in Row PROVE SwapWaits(S, r) \/ Caught(copy, rows, S, r)
    <3>1. CASE SwapWaits({e} \cup S, r)
      BY <3>1, <1>1 DEF SwapWaits
    <3>2. CASE Caught(copy, rows, {e} \cup S, r)
      BY <3>2, <1>1, CaughtSame
    <3>. QED BY <3>1, <3>2 DEF Fits
  <2>. QED BY <2>1, <2>2 DEF Fits
<1>2. CASE e.event \notin {"Set", "Load"}
  <2>1. \A r \in Row : r \notin RowsOf(e) => copy2[r] = copy[r]
    <3>1. CASE e.event = "Swap"
      BY <3>1, <1>0, NoteFacts DEF Learns, Copy
    <3>2. CASE e.event # "Swap"
      <4>1. \A r \in Row : r # e.row => copy2[r] = copy[r]
        <5>1. CASE e.event = "Add"
          BY <5>1, <1>0 DEF Learns, Copy
        <5>2. CASE e.event = "Update"
          BY <5>2, <1>0 DEF Learns, Copy
        <5>3. CASE e.event = "AfterDel"
          BY <5>3, <1>0 DEF Learns, Copy
        <5>. QED BY <5>1, <5>2, <5>3, <3>2, <1>2, NoteFacts DEF Event
      <4>. QED BY <4>1, <3>2, NoteFacts
    <3>. QED BY <3>1, <3>2
  <2>2. ASSUME NEW r \in Row, r \notin RowsOf(e) PROVE SwapWaits(S, r) \/ Caught(copy2, rows, S, r)
    <3>1. CASE SwapWaits({e} \cup S, r)
      BY <3>1, <2>2 DEF SwapWaits
    <3>2. CASE Caught(copy, rows, {e} \cup S, r)
      <4>1. r # e.row /\ copy2[r] = copy[r]
        BY <2>1, <2>2, NoteFacts
      <4>. QED BY <3>2, <4>1, CaughtSame
    <3>. QED BY <3>1, <3>2 DEF Fits
  <2>3. ASSUME NEW r \in RowsOf(e) PROVE Caught(copy2, rows, S, r)
    <3>0. r \in Row
      BY <1>0, NoteFacts
    <3>1. CASE e.event = "Add"
      <4>1. r = e.row /\ copy2[r] = rows[r]
        BY <3>1, <1>0, NoteFacts DEF Learns, Copy
      <4>. QED BY <4>1, <3>0, ShownCaught
    <3>2. CASE e.event = "AfterDel"
      <4>1. r = e.row /\ copy2[r] = NoRow
        BY <3>2, <1>0, NoteFacts DEF Learns, Copy
      <4>2. rows[r] = NoRow
        BY <3>2, <4>1 DEF Fits
      <4>. QED BY <4>1, <4>2 DEF Caught
    <3>3. CASE e.event = "Swap"
      <4>1. /\ copy2[e.row] = copy[e.memory] /\ copy2[e.memory] = copy[e.row]
            /\ r \in {e.row, e.memory}
        BY <3>3, <1>0, NoteFacts DEF Learns, Copy
      <4>2. copy[e.row] = rows[e.memory] /\ copy[e.memory] = rows[e.row]
        BY <3>3 DEF Fits
      <4>. QED BY <4>1, <4>2, <3>0, ShownCaught
    <3>4. CASE e.event = "Update"
      <4>0. r = e.row
        BY <3>4, NoteFacts
      <4>1. ~SwapWaits({e} \cup S, r)
        <5>1. ~SwapWaits(S, r)
          BY <3>4, <4>0, SwapSame, NoteFacts DEF SwapWaits
        <5>. QED BY <5>1, <3>4 DEF SwapWaits
      <4>2. Caught(copy, rows, {e} \cup S, r)
        BY <4>1, <3>0 DEF Fits
      <4>3. /\ Waits({e} \cup S, "Add", r) => Waits(S, "Add", r)
            /\ Waits({e} \cup S, "AfterDel", r) => Waits(S, "AfterDel", r)
            /\ \A c \in Col : CellWaits({e} \cup S, r, c) => CellWaits(S, r, c) \/ c = e.col
        BY <3>4 DEF Waits, CellWaits
      <4>4. CASE copy[r] = NoRow
        <5>1. copy2 = copy
          BY <3>4, <4>0, <4>4 DEF Learns
        <5>. QED BY <4>2, <4>3, <4>4, <5>1 DEF Caught
      <4>5. CASE copy[r] # NoRow
        <5>1. PICK v \in Value : /\ copy2 = [copy EXCEPT ![r] = [copy[r] EXCEPT ![e.col] = v]]
                                 /\ rows[r] # NoRow => v = rows[r][e.col]
          BY <3>4, <4>0, <4>5 DEF Learns
        <5>2. copy[r] \in Tuple
          BY <3>0, <4>5 DEF Copy
        <5>3. copy2[r] = [copy[r] EXCEPT ![e.col] = v]
          BY <5>1, <3>0 DEF Copy
        <5>4. /\ copy2[r][e.col] = v /\ \A c \in Col : c # e.col => copy2[r][c] = copy[r][c]
          BY <5>2, <5>3, <1>0 DEF Tuple
        <5>5. copy2[r] # NoRow
          <6>1. copy2[r] \in Tuple
            BY <5>2, <5>3, <1>0 DEF Tuple
          <6>. QED BY <6>1, SizeFacts
        <5>. QED BY <4>2, <4>3, <4>5, <5>1, <5>4, <5>5 DEF Caught
      <4>. QED BY <4>4, <4>5
    <3>. QED BY <3>1, <3>2, <3>3, <3>4, <1>2, NoteFacts DEF Event
  <2>4. ASSUME NEW g \in S, g.event = "Swap"
        PROVE  copy2[g.row] = rows[g.memory] /\ copy2[g.memory] = rows[g.row]
    <3>1. g.row \notin RowsOf(e) /\ g.memory \notin RowsOf(e) /\ g.row \in Row /\ g.memory \in Row
      BY <1>2, <2>4, SwapSame, NoteFacts
    <3>. QED BY <2>1, <2>4, <3>1 DEF Fits
  <2>. QED BY <2>2, <2>3, <2>4 DEF Fits
<1>. QED BY <1>1, <1>2

(* The steps of the program on the notes.                                  *)
LEMMA GoodParts ==
  ASSUME NEW copy, NEW rows, NEW e \in Note, NEW q \in Seq(Note)
  PROVE  Good(copy, rows, <<e>> \o q) <=>
           /\ Apart(q) /\ \A g \in Among(q) : ~Clash(e, g)
           /\ Fits(copy, rows, {e} \cup Among(q))
BY NoteOn DEF Good

LEMMA CallNote ==
  ASSUME NEW e \in Call
  PROVE  /\ NoteOf(e) \in Note /\ NoteOf(e).event = e.event /\ NoteOf(e).row = e.row
         /\ NoteOf(e).col = e.col /\ NoteOf(e).memory = e.memory
         /\ RowsOf(NoteOf(e)) = RowsOf(e)
BY DEF Call, Note, NoteOf, RowsOf

LEMMA NotesOf ==
  ASSUME NEW s \in Seq(Call)
  PROVE  Among(Notes(s)) = {NoteOf(s[i]) : i \in 1 .. Len(s)}
<1>1. Len(s) \in Nat /\ \A i \in 1 .. Len(s) : NoteOf(s[i]) \in Note
  <2>1. \A i \in 1 .. Len(s) : s[i] \in Call
    OBVIOUS
  <2>. QED BY <2>1, CallNote
<1>2. Len(Notes(s)) = Len(s) /\ \A i \in 1 .. Len(s) : Notes(s)[i] = NoteOf(s[i])
  BY <1>1 DEF Notes
<1>. QED BY <1>2 DEF Among

LEMMA NotSwapped ==
  ASSUME NEW g, NEW r1, NEW r2, ~(g.event = "Update" /\ g.memory \in {r1, r2})
  PROVE  Swapped(g, r1, r2) = g
BY DEF Swapped

LEMMA NotCrossed ==
  ASSUME TypeOK, NEW e \in Call, ~Crosses(e)
  PROVE  /\ \A g \in Among(Notes(calls)) : ~Clash(NoteOf(e), g)
         /\ e.event = "Add" => ~Waits(Among(Notes(calls)), "AfterDel", e.row)
<1>1. calls \in Seq(Call) /\ DOMAIN calls = 1 .. Len(calls) /\ \A i \in 1 .. Len(calls) : calls[i] \in Call
  BY DEF TypeOK
<1>2. Among(Notes(calls)) = {NoteOf(calls[i]) : i \in 1 .. Len(calls)}
  BY <1>1, NotesOf
<1>3. ASSUME NEW i \in 1 .. Len(calls)
      PROVE  /\ ~Clash(NoteOf(e), NoteOf(calls[i]))
             /\ e.event = "Add" => ~(NoteOf(calls[i]).event = "AfterDel" /\ NoteOf(calls[i]).row = e.row)
  <2>. DEFINE g == calls[i]
  <2>1. g \in Call /\ \/ g.event \in {"Del", "Set", "Load"}
                      \/ RowsOf(g) \cap RowsOf(e) = {}
                      \/ ~(e.event = "Add" /\ g.event = "AfterDel") /\ "Swap" \notin {e.event, g.event}
    BY <1>1 DEF Crosses
  <2>. HIDE DEF g
  <2>2. ~Clash(NoteOf(e), NoteOf(g))
    <3>1. /\ NoteOf(e).event = e.event /\ NoteOf(g).event = g.event
          /\ RowsOf(NoteOf(e)) = RowsOf(e) /\ RowsOf(NoteOf(g)) = RowsOf(g)
      BY <2>1, CallNote
    <3>. QED BY <2>1, <3>1 DEF Clash
  <2>3. ASSUME e.event = "Add", g.event = "AfterDel", g.row = e.row PROVE FALSE
    <3>1. e.row \in RowsOf(e) /\ e.row \in RowsOf(g)
      BY <2>3 DEF RowsOf
    <3>. QED BY <2>1, <2>3, <3>1
  <2>4. NoteOf(g).event = g.event /\ NoteOf(g).row = g.row
    BY <2>1, CallNote
  <2>5. /\ ~Clash(NoteOf(e), NoteOf(g))
        /\ e.event = "Add" => ~(NoteOf(g).event = "AfterDel" /\ NoteOf(g).row = e.row)
    BY <2>2, <2>3, <2>4
  <2>. QED BY <2>5 DEF g
<1>. QED BY <1>2, <1>3 DEF Waits

(* What Raise leaves of a copy that is not given up.                       *)
LEMMA RaiseQuiet ==
  ASSUME TypeOK, CopyInv, MayCall, NEW e \in Call, Raise(e, Waiting), ~crossed'
  PROVE  /\ shown'["last"] = shown["last"]
         /\ Good(shown["last"], Rows, Notes(calls))
         /\ Notes(calls') = <<NoteOf(e)>> \o Notes(calls) /\ Notes(calls) \in Seq(Note)
         /\ \A g \in Among(Notes(calls)) : ~Clash(NoteOf(e), g)
         /\ e.event = "Add" => ~Waits(Among(Notes(calls)), "AfterDel", e.row)
         /\ Among(Notes(calls)) \in SUBSET Note
<1>1. ~crossed /\ ~Crosses(e) /\ shown'["last"] = shown["last"] /\ calls' = <<e>> \o Waiting
  BY DEF Raise
<1>2. Waiting \in Seq(Call)
  BY WaitingType
<1>3. Notes(calls') = <<NoteOf(e)>> \o Notes(Waiting)
  BY <1>1, <1>2, NotesPush
<1>4. Notes(Waiting) = Notes(calls) /\ Notes(calls) \in Seq(Note)
  BY NotesWaiting
<1>5. Among(Notes(calls)) \in SUBSET Note
  BY <1>4, NoteOn, CallNote
<1>. QED BY <1>1, <1>3, <1>4, <1>5, NotCrossed DEF CopyInv

LEMMA CopyRaised ==
  ASSUME TypeOK, CopyInv, MayCall, NEW e \in Call, Raise(e, Waiting),
         ~crossed' => Fits(shown["last"], Rows', {NoteOf(e)} \cup Among(Notes(calls)))
  PROVE  CopyInv'
<1>. SUFFICES ASSUME ~crossed' PROVE Good(shown'["last"], Rows', Notes(calls'))
  BY DEF CopyInv
<1>1. NoteOf(e) \in Note /\ Good(shown["last"], Rows, Notes(calls))
  BY RaiseQuiet, CallNote
<1>2. Good(shown["last"], Rows', <<NoteOf(e)>> \o Notes(calls))
  <2>1. Apart(Notes(calls))
    BY <1>1 DEF Good
  <2>. QED BY <1>1, <2>1, RaiseQuiet, GoodParts
<1>. QED BY <1>2, RaiseQuiet

LEMMA CopyAdd ==
  ASSUME TypeOK, CopyInv, NEW r \in Row, NEW t \in Tuple, AddRow(r, t) PROVE CopyInv'
<1>. DEFINE e == Told("Add", r)
<1>1. MayCall /\ Raise(e, Waiting) /\ used' = used \cup {r}
      /\ mtRecordVec' = [mtRecordVec EXCEPT ![r] = t]
  BY DEF AddRow
<1>2. e \in Call /\ e.event = "Add" /\ e.row = r
  BY ToldType DEF Event, Told
<1>. HIDE DEF e
<1>3. Rows' = [Rows EXCEPT ![r] = t] /\ Rows \in Copy /\ Rows' \in Copy
  <2>1. Rows' = [Rows EXCEPT ![r] = t]
    BY <1>1, RowsNext DEF Rows, TypeOK
  <2>. QED BY <2>1, RowsTypes DEF Copy
<1>4. \A k \in Row : k # r => Rows'[k] = Rows[k]
  BY <1>3 DEF Copy
<1>5. shown["last"] \in Copy
  BY DEF TypeOK, Hook, Copy
<1>6. ASSUME ~crossed'
      PROVE  Fits(shown["last"], Rows', {NoteOf(e)} \cup Among(Notes(calls)))
  <2>1. NoteOf(e) \in Note /\ NoteOf(e).event = "Add" /\ NoteOf(e).row = r
    BY <1>2, CallNote
  <2>2. /\ Fits(shown["last"], Rows, Among(Notes(calls)))
        /\ Among(Notes(calls)) \in SUBSET Note
        /\ \A g \in Among(Notes(calls)) : ~Clash(NoteOf(e), g)
        /\ ~Waits(Among(Notes(calls)), "AfterDel", r)
    BY <1>1, <1>2, <1>6, RaiseQuiet DEF Good
  <2>. QED BY <1>3, <1>4, <1>5, <2>1, <2>2, PushAdd
<1>. QED BY <1>1, <1>2, <1>6, CopyRaised

(* A write to a cell, in the rows.                                         *)
Written(r, c, v) ==
  Rows' = IF Rows[r] = NoRow THEN Rows ELSE [Rows EXCEPT ![r] = [Rows[r] EXCEPT ![c] = v]]

LEMMA RowsWritten ==
  ASSUME TypeOK, NEW r \in Row, NEW c \in Col, NEW v \in Value,
         mtRecordVec' = [mtRecordVec EXCEPT ![r] = [@ EXCEPT ![c] = v]], used' = used
  PROVE  /\ Written(r, c, v)
         /\ Rows' \in Copy
         /\ mtRecordVec' \in [Row -> Tuple]
         /\ \A c2 \in Col : c2 # c => mtRecordVec'[r][c2] = mtRecordVec[r][c2]
<1>1. mtRecordVec \in [Row -> Tuple] /\ used \subseteq Row
  BY DEF TypeOK
<1>2. mtRecordVec[r] \in Tuple /\ [mtRecordVec[r] EXCEPT ![c] = v] \in Tuple
  BY <1>1 DEF Tuple
<1>3. /\ mtRecordVec' \in [Row -> Tuple]
      /\ mtRecordVec'[r] = [mtRecordVec[r] EXCEPT ![c] = v]
      /\ \A k \in Row : k # r => mtRecordVec'[k] = mtRecordVec[k]
  BY <1>1, <1>2
<1>4. \A c2 \in Col : c2 # c => mtRecordVec'[r][c2] = mtRecordVec[r][c2]
  BY <1>2, <1>3 DEF Tuple
<1>5. Rows' \in Copy
  BY <1>3, RowsNext DEF Copy
<1>6. Rows' = IF Rows[r] = NoRow THEN Rows ELSE [Rows EXCEPT ![r] = [Rows[r] EXCEPT ![c] = v]]
  <2>1. Rows \in Copy /\ \A k \in Row : Rows[k] = (IF k \in used THEN mtRecordVec[k] ELSE NoRow) /\ (Rows[k] # NoRow <=> k \in used)
    BY RowsTypes
  <2>2. CASE r \in used
    BY <1>3, <2>1, <2>2, RowsNext DEF Rows
  <2>3. CASE r \notin used
    BY <1>3, <2>1, <2>3, RowsNext DEF Rows
  <2>. QED BY <2>2, <2>3
<1>. QED BY <1>3, <1>4, <1>5, <1>6 DEF Written

LEMMA CopyUpdate ==
  ASSUME TypeOK, CopyInv, MayCall, NEW r \in Row, NEW c \in Col, NEW v \in Value,
         mtRecordVec' = [mtRecordVec EXCEPT ![r] = [@ EXCEPT ![c] = v]], used' = used,
         NEW e \in Call, e.event = "Update", e.row = r, e.col = c, e.memory = r,
         Raise(e, Waiting)
  PROVE  CopyInv'
<1>1. Written(r, c, v) /\ Rows' \in Copy /\ Rows \in Copy
  BY RowsWritten, RowsTypes
<1>2. shown["last"] \in Copy
  BY DEF TypeOK, Hook, Copy
<1>3. ASSUME ~crossed'
      PROVE  Fits(shown["last"], Rows', {NoteOf(e)} \cup Among(Notes(calls)))
  <2>1. /\ NoteOf(e) \in Note /\ NoteOf(e).event = "Update" /\ NoteOf(e).row = r
        /\ NoteOf(e).col = c /\ NoteOf(e).memory = r
    BY CallNote
  <2>2. /\ Fits(shown["last"], Rows, Among(Notes(calls)))
        /\ Among(Notes(calls)) \in SUBSET Note
        /\ \A g \in Among(Notes(calls)) : ~Clash(NoteOf(e), g)
    BY <1>3, RaiseQuiet DEF Good
  <2>. QED BY <1>1, <1>2, <2>1, <2>2, PushUpdate DEF Written
<1>. QED BY <1>3, CopyRaised

LEMMA CopyNothing ==
  ASSUME TypeOK, CopyInv, MayCall, used' = used, mtRecordVec' = mtRecordVec,
         NEW e \in Call, e.event = "Del", Raise(e, Waiting)
  PROVE  CopyInv'
<1>1. Rows' = Rows
  BY DEF Rows
<1>2. ASSUME ~crossed'
      PROVE  Fits(shown["last"], Rows', {NoteOf(e)} \cup Among(Notes(calls)))
  <2>1. NoteOf(e) \in Note /\ NoteOf(e).event = "Del"
    BY CallNote
  <2>2. /\ Fits(shown["last"], Rows, Among(Notes(calls)))
        /\ Among(Notes(calls)) \in SUBSET Note
    BY <1>2, RaiseQuiet DEF Good
  <2>. QED BY <1>1, <2>1, <2>2, PushNothing
<1>. QED BY <1>2, CopyRaised

(* A swap of rows that nothing waits for changes nothing of what waits.    *)
LEMMA SwapLeaves ==
  ASSUME TypeOK, CopyInv, MayCall, NEW r1 \in Row, NEW r2 \in Row, NEW e \in Call,
         e.event = "Swap", e.row = r1, e.memory = r2, ~Crosses(e), ~crossed
  PROVE  [i \in DOMAIN Waiting |-> Swapped(Waiting[i], r1, r2)] = Waiting
<1>1. Waiting \in Seq(Call) /\ Notes(Waiting) = Notes(calls)
  BY WaitingType, NotesWaiting
<1>2. \A g \in Among(Notes(Waiting)) : ~Clash(NoteOf(e), g)
  BY <1>1, NotCrossed
<1>3. \A g \in Among(Notes(Waiting)) : g.event = "Update" => g.memory = g.row
  BY <1>1 DEF CopyInv, Good, Fits
<1>4. DOMAIN Waiting = 1 .. Len(Waiting) /\ Waiting = [i \in 1 .. Len(Waiting) |-> Waiting[i]]
      /\ \A i \in 1 .. Len(Waiting) : Waiting[i] \in Call
  BY <1>1
<1>5. ASSUME NEW i \in 1 .. Len(Waiting) PROVE Swapped(Waiting[i], r1, r2) = Waiting[i]
  <2>. DEFINE g == Waiting[i]
  <2>1. NoteOf(g) \in Among(Notes(Waiting)) /\ g \in Call
    BY <1>1, <1>4, NotesOf
  <2>. HIDE DEF g
  <2>2. ASSUME g.event = "Update" PROVE Swapped(g, r1, r2) = g
    <3>1. /\ NoteOf(g).event = "Update" /\ NoteOf(g).memory = g.memory /\ NoteOf(g).row = g.row
          /\ RowsOf(NoteOf(g)) = RowsOf(g) /\ RowsOf(NoteOf(e)) = RowsOf(e) /\ NoteOf(e).event = "Swap"
      BY <2>1, <2>2, CallNote
    <3>2. g.memory = g.row /\ ~Clash(NoteOf(e), NoteOf(g))
      BY <1>2, <1>3, <2>1, <3>1
    <3>3. RowsOf(g) = {g.row} /\ RowsOf(e) = {r1, r2}
      BY <2>2 DEF RowsOf
    <3>4. g.memory \notin {r1, r2}
      BY <3>1, <3>2, <3>3 DEF Clash
    <3>. QED BY <3>4, NotSwapped
  <2>3. ASSUME g.event # "Update" PROVE Swapped(g, r1, r2) = g
    BY <2>3, NotSwapped
  <2>4. Swapped(g, r1, r2) = g
    BY <2>2, <2>3
  <2>. QED BY <2>4 DEF g
<1>. QED BY <1>4, <1>5

LEMMA CopySwap ==
  ASSUME TypeOK, CopyInv, NEW r1 \in Row, NEW r2 \in Row, SwapRowInfo(r1, r2) PROVE CopyInv'
<1>. DEFINE e == [Told("Swap", r1) EXCEPT !.memory = r2]
            below == [i \in DOMAIN Waiting |-> Swapped(Waiting[i], r1, r2)]
<1>1. /\ MayCall /\ r1 \in used
      /\ mtRecordVec' = [mtRecordVec EXCEPT ![r1] = mtRecordVec[r2], ![r2] = mtRecordVec[r1]]
      /\ used' = SwapUsed(r1, r2)
      /\ Raise(e, below)
  BY DEF SwapRowInfo
<1>2. e \in Call /\ e.event = "Swap" /\ e.row = r1 /\ e.memory = r2
  BY SizeFacts DEF Told, Event, Call
<1>. HIDE DEF e
<1>3. Rows' = [Rows EXCEPT ![r1] = Rows[r2], ![r2] = Rows[r1]] /\ Rows \in Copy
  <2>1. mtRecordVec \in [Row -> Tuple] /\ used \subseteq Row
    BY DEF TypeOK
  <2>2. /\ \A r \in Row : r \in used' <=> IF r = r1 THEN r2 \in used ELSE IF r = r2 THEN r1 \in used ELSE r \in used
        /\ \A r \in Row : mtRecordVec'[r] = IF r = r2 THEN mtRecordVec[r1] ELSE IF r = r1 THEN mtRecordVec[r2] ELSE mtRecordVec[r]
    BY <1>1, <2>1 DEF SwapUsed
  <2>3. Rows' = [Rows EXCEPT ![r1] = Rows[r2], ![r2] = Rows[r1]]
    BY <2>2, RowsNext DEF Rows
  <2>. QED BY <2>3, RowsTypes
<1>. SUFFICES ASSUME ~crossed' PROVE CopyInv'
  BY DEF CopyInv
<1>4. ~crossed /\ ~Crosses(e)
  BY <1>1 DEF Raise
<1>5. below = Waiting
  BY <1>1, <1>2, <1>4, SwapLeaves
<1>. HIDE DEF below
<1>6. Raise(e, Waiting)
  BY <1>1, <1>5
<1>7. Fits(shown["last"], Rows', {NoteOf(e)} \cup Among(Notes(calls)))
  <2>1. /\ NoteOf(e) \in Note /\ NoteOf(e).event = "Swap" /\ NoteOf(e).row = r1
        /\ NoteOf(e).memory = r2
    BY <1>2, CallNote
  <2>2. /\ Fits(shown["last"], Rows, Among(Notes(calls)))
        /\ Among(Notes(calls)) \in SUBSET Note
        /\ \A g \in Among(Notes(calls)) : ~Clash(NoteOf(e), g)
    BY <1>1, <1>2, <1>6, RaiseQuiet DEF Good
  <2>3. shown["last"] \in Copy
    BY DEF TypeOK, Hook, Copy
  <2>. QED BY <1>3, <2>1, <2>2, <2>3, PushSwap
<1>. QED BY <1>1, <1>2, <1>6, <1>7, CopyRaised

LEMMA CopyProperty ==
  ASSUME TypeOK, CopyInv, NEW v \in Value, SetProperty(v) \/ LoadProperty(v), holder' = holder
  PROVE  CopyInv'
<1>1. MayCall /\ shown' = shown /\ crossed' = crossed /\ Rows' = Rows
  BY DEF SetProperty, LoadProperty, recordVars, Rows
<1>2. PICK e \in Call : calls' = <<e>> \o Waiting /\ e.event \in {"Set", "Load"}
  BY PropertyType
<1>. SUFFICES ASSUME ~crossed PROVE Good(shown["last"], Rows, Notes(calls'))
  BY <1>1 DEF CopyInv
<1>3. /\ Notes(calls') = <<NoteOf(e)>> \o Notes(calls) /\ Notes(calls) \in Seq(Note)
      /\ NoteOf(e) \in Note /\ NoteOf(e).event \in {"Set", "Load"}
  BY <1>1, <1>2, WaitingType, NotesPush, NotesWaiting, CallNote
<1>4. Apart(Notes(calls)) /\ Fits(shown["last"], Rows, Among(Notes(calls)))
  BY DEF CopyInv, Good
<1>5. \A g \in Among(Notes(calls)) : ~Clash(NoteOf(e), g)
  BY <1>3 DEF Clash
<1>6. Fits(shown["last"], Rows, {NoteOf(e)} \cup Among(Notes(calls)))
  <2>1. Among(Notes(calls)) \in SUBSET Note
    BY <1>3, NoteOn
  <2>. QED BY <1>3, <1>4, <2>1, PushNothing
<1>. QED BY <1>3, <1>4, <1>5, <1>6, GoodParts

(* What is under way, taken apart.                                         *)
LEMMA HeadGood ==
  ASSUME TypeOK, CopyInv, calls # <<>>, ~crossed
  PROVE  LET e == NoteOf(Head(calls))
             q == Notes(Tail(calls))
         IN /\ e \in Note /\ q \in Seq(Note) /\ Among(q) \in SUBSET Note
            /\ Apart(q) /\ \A g \in Among(q) : ~Clash(e, g)
            /\ Fits(shown["last"], Rows, {e} \cup Among(q))
<1>1. /\ Notes(calls) = <<NoteOf(Head(calls))>> \o Notes(Tail(calls))
      /\ NoteOf(Head(calls)) \in Note /\ Notes(Tail(calls)) \in Seq(Note)
  BY NotesHead
<1>2. Good(shown["last"], Rows, <<NoteOf(Head(calls))>> \o Notes(Tail(calls)))
  BY <1>1 DEF CopyInv
<1>. QED BY <1>1, <1>2, GoodParts, NoteOn

LEMMA NextNotes ==
  ASSUME TypeOK, calls # <<>>, NEW e2 \in Call, calls' = <<e2>> \o Tail(calls)
  PROVE  Notes(calls') = <<NoteOf(e2)>> \o Notes(Tail(calls))
<1>1. Tail(calls) \in Seq(Call)
  BY Pop DEF TypeOK
<1>. QED BY <1>1, NotesPush

(* Learn is what Learns says, as long as the memory that the event refers  *)
(* to is that of its row.                                                  *)
LEMMA LearnLearns ==
  ASSUME TypeOK, NEW e \in Call, NEW copy \in Copy, used' = used,
         mtRecordVec' \in [Row -> Tuple], e.event = "Update" => e.memory = e.row,
         \/ mtRecordVec' = mtRecordVec
         \/ e.event = "Update" /\ mtRecordVec'[e.row][e.col] = mtRecordVec[e.row][e.col]
  PROVE  Learns(copy, Rows, NoteOf(e), Learn(copy, e))
<1>0. /\ NoteOf(e).event = e.event /\ NoteOf(e).row = e.row
      /\ NoteOf(e).col = e.col /\ NoteOf(e).memory = e.memory
      /\ e.row \in Row /\ e.col \in Col /\ e.memory \in Row
  BY CallNote, NoteFacts
<1>1. Rows[e.row] = IF e.row \in used THEN mtRecordVec[e.row] ELSE NoRow
  BY <1>0, RowsTypes
<1>2. CASE e.event = "Add"
  <2>1. Learn(copy, e) = [copy EXCEPT ![e.row] = IF e.row \in used' THEN mtRecordVec'[e.row] ELSE NoRow]
    BY <1>2 DEF Learn
  <2>2. Learn(copy, e) = [copy EXCEPT ![e.row] = Rows[e.row]]
    BY <2>1, <1>1, <1>2
  <2>. QED BY <2>2, <1>0, <1>2 DEF Learns
<1>3. CASE e.event = "Update"
  <2>1. CASE copy[e.row] = NoRow
    <3>1. Learn(copy, e) = copy
      BY <1>3, <2>1 DEF Learn
    <3>. QED BY <3>1, <2>1, <1>0, <1>3 DEF Learns
  <2>2. CASE copy[e.row] # NoRow
    <3>. DEFINE v == mtRecordVec'[e.row][e.col]
    <3>1. Learn(copy, e) = [copy EXCEPT ![e.row] = [copy[e.row] EXCEPT ![e.col] = v]]
      BY <1>3, <2>2 DEF Learn
    <3>2. v \in Value /\ v = mtRecordVec[e.row][e.col]
      <4>1. mtRecordVec'[e.row] \in Tuple
        BY <1>0
      <4>2. v \in Value
        BY <4>1, <1>0 DEF Tuple
      <4>. QED BY <4>2
    <3>3. Rows[e.row] # NoRow => v = Rows[e.row][e.col]
      BY <3>2, <1>1
    <3>. HIDE DEF v
    <3>. QED BY <3>1, <3>2, <3>3, <2>2, <1>0, <1>3 DEF Learns
  <2>. QED BY <2>1, <2>2
<1>4. CASE e.event = "AfterDel"
  <2>1. Learn(copy, e) = [copy EXCEPT ![e.row] = NoRow]
    BY <1>4 DEF Learn
  <2>. QED BY <2>1, <1>0, <1>4 DEF Learns
<1>5. CASE e.event = "Swap"
  <2>1. Learn(copy, e) = [copy EXCEPT ![e.row] = copy[e.memory], ![e.memory] = copy[e.row]]
    BY <1>5 DEF Learn
  <2>. QED BY <2>1, <1>0, <1>5 DEF Learns
<1>6. CASE e.event \notin {"Add", "Update", "AfterDel", "Swap"}
  <2>1. Learn(copy, e) = copy
    BY <1>6 DEF Learn
  <2>. QED BY <2>1, <1>0, <1>6 DEF Learns
<1>. QED BY <1>2, <1>3, <1>4, <1>5, <1>6

(* The innermost change tells "last" and is done with its event.           *)
LEMMA HeadTold ==
  ASSUME TypeOK, CopyInv, calls # <<>>, ~crossed, Head(calls).event # "Del",
         used' = used, mtRecordVec' \in [Row -> Tuple],
         LET e == Head(calls)
         IN \/ mtRecordVec' = mtRecordVec
            \/ e.event = "Update" /\ mtRecordVec'[e.row][e.col] = mtRecordVec[e.row][e.col]
  PROVE  /\ Learn(shown["last"], Head(calls)) \in Copy
         /\ Fits(Learn(shown["last"], Head(calls)), Rows, Among(Notes(Tail(calls))))
<1>. DEFINE e == Head(calls)
            S == Among(Notes(Tail(calls)))
<1>1. e \in Call
  BY Pop DEF TypeOK
<1>2. /\ NoteOf(e) \in Note /\ S \in SUBSET Note /\ \A g \in S : ~Clash(NoteOf(e), g)
      /\ Fits(shown["last"], Rows, {NoteOf(e)} \cup S)
  BY HeadGood
<1>3. shown["last"] \in Copy /\ Rows \in Copy
  BY RowsTypes DEF TypeOK, Hook, Copy
<1>. HIDE DEF e, S
<1>4. NoteOf(e).event = e.event /\ NoteOf(e).row = e.row /\ NoteOf(e).memory = e.memory
  BY <1>1, CallNote
<1>5. e.event = "Update" => e.memory = e.row
  BY <1>2, <1>4 DEF Fits
<1>6. Learns(shown["last"], Rows, NoteOf(e), Learn(shown["last"], e))
  BY <1>1, <1>3, <1>5, LearnLearns DEF e
<1>7. NoteOf(e).event # "Del"
  BY <1>4 DEF e
<1>8. Fits(Learn(shown["last"], e), Rows, S)
  BY <1>2, <1>3, <1>6, <1>7, TellNote
<1>9. Learn(shown["last"], e) \in Copy
  BY <1>1, <1>3, LearnType DEF TypeOK
<1>. QED BY <1>8, <1>9 DEF e, S

LEMMA CopyReturn == ASSUME TypeOK, CopyInv, Return PROVE CopyInv'
<1>1. /\ calls # <<>> /\ Ends(Head(calls)) /\ used' = used /\ mtRecordVec' = mtRecordVec
      /\ crossed' = crossed /\ calls' = Tail(calls) /\ Rows' = Rows
      /\ shown' = [shown EXCEPT !["last"] = LearnLast(Head(calls))]
  BY DEF Return, TellLast, Rows
<1>. SUFFICES ASSUME ~crossed PROVE CopyInv'
  BY <1>1 DEF CopyInv
<1>2. shown'["last"] = Learn(shown["last"], Head(calls))
  BY <1>1 DEF LearnLast, TypeOK, Hook
<1>3. Head(calls).event # "Del"
  BY <1>1 DEF Ends
<1>4. Fits(Learn(shown["last"], Head(calls)), Rows, Among(Notes(Tail(calls))))
  BY <1>1, <1>3, HeadTold DEF TypeOK
<1>5. Apart(Notes(Tail(calls)))
  BY <1>1, HeadGood
<1>6. Good(shown'["last"], Rows', Notes(calls'))
  BY <1>1, <1>2, <1>4, <1>5 DEF Good
<1>. QED BY <1>6 DEF CopyInv

LEMMA CopyDrop == ASSUME TypeOK, CopyInv, DropRow PROVE CopyInv'
<1>. DEFINE e == Head(calls)
            e2 == [e EXCEPT !.event = "AfterDel", !.at = "script"]
            q == Notes(Tail(calls))
<1>1. /\ calls # <<>> /\ e.event = "Del" /\ used' = used \ {e.row} /\ mtRecordVec' = mtRecordVec
      /\ crossed' = crossed /\ calls' = <<e2>> \o Tail(calls)
      /\ shown'["last"] = LearnLast(e)
  BY DEF DropRow, TellBoth
<1>. SUFFICES ASSUME ~crossed PROVE CopyInv'
  BY <1>1 DEF CopyInv
<1>2. e \in Call
  BY <1>1, Pop DEF TypeOK
<1>3. e2 \in Call /\ e2.event = "AfterDel" /\ e2.row = e.row /\ e.row \in Row
  BY <1>2 DEF Call, Event
<1>4. shown'["last"] = shown["last"]
  BY <1>1 DEF LearnLast, Learn
<1>5. Notes(calls') = <<NoteOf(e2)>> \o q
  <2>. HIDE DEF e2
  <2>. QED BY <1>1, <1>3, NextNotes
<1>6. /\ NoteOf(e) \in Note /\ q \in Seq(Note) /\ Among(q) \in SUBSET Note
      /\ Apart(q) /\ \A g \in Among(q) : ~Clash(NoteOf(e), g)
      /\ Fits(shown["last"], Rows, {NoteOf(e)} \cup Among(q))
  BY <1>1, HeadGood
<1>. HIDE DEF e, e2, q
<1>7. /\ NoteOf(e).event = "Del" /\ NoteOf(e).row = e.row
      /\ NoteOf(e2) \in Note /\ NoteOf(e2).event = "AfterDel" /\ NoteOf(e2).row = e.row
      /\ RowsOf(NoteOf(e)) = {e.row} /\ RowsOf(NoteOf(e2)) = {e.row}
  BY <1>1, <1>2, <1>3, CallNote, NoteFacts
<1>8. Rows' = [Rows EXCEPT ![e.row] = NoRow] /\ Rows \in Copy
  <2>1. Rows' = [Rows EXCEPT ![e.row] = NoRow]
    BY <1>1, <1>3, RowsNext DEF Rows, TypeOK
  <2>. QED BY <2>1, RowsTypes
<1>9. \A g \in Among(q) : ~Clash(NoteOf(e2), g)
  BY <1>6, <1>7 DEF Clash
<1>10. Fits(shown["last"], Rows', {NoteOf(e2)} \cup Among(q))
  <2>1. shown["last"] \in Copy
    BY DEF TypeOK, Hook, Copy
  <2>. QED BY <1>6, <1>7, <1>8, <2>1, DropNote
<1>11. Good(shown["last"], Rows', <<NoteOf(e2)>> \o q)
  BY <1>6, <1>7, <1>9, <1>10, GoodParts
<1>. QED BY <1>4, <1>5, <1>11 DEF CopyInv

LEMMA CopyNextRow == ASSUME TypeOK, CopyInv, NextRow PROVE CopyInv'
<1>. DEFINE e == Head(calls)
            rows == LowerRows(e.row)
            q == Notes(Tail(calls))
<1>1. /\ calls # <<>> /\ e.event = "AfterDel" /\ ~Ends(e) /\ used' = used /\ mtRecordVec' = mtRecordVec
      /\ crossed' = (crossed \/ Crosses([Told("Del", LastRow(rows)) EXCEPT !.more = TRUE]))
      /\ shown' = [shown EXCEPT !["last"] = IF crossed' THEN NoRows ELSE Learn(@, e)]
      /\ calls' = <<[Told("Del", LastRow(rows)) EXCEPT !.more = TRUE]>> \o Tail(calls)
  BY DEF NextRow
<1>2. PICK r \in Row : r = LastRow(rows)
  <2>1. rows # {} /\ rows \subseteq Row
    BY <1>1 DEF Ends, LowerRows, TypeOK
  <2>. HIDE DEF rows
  <2>. QED BY <2>1, LastRowThere
<1>. DEFINE e2 == [Told("Del", r) EXCEPT !.more = TRUE]
<1>3. e2 \in Call /\ e2.event = "Del"
  BY ToldMoreType DEF Told
<1>. SUFFICES ASSUME ~crossed' PROVE CopyInv'
  BY DEF CopyInv
<1>4. /\ ~crossed /\ ~Crosses(e2) /\ calls' = <<e2>> \o Tail(calls)
      /\ shown' = [shown EXCEPT !["last"] = Learn(shown["last"], e)]
  BY <1>1, <1>2
<1>. HIDE DEF e2, rows
<1>5. shown'["last"] = Learn(shown["last"], e)
  BY <1>4 DEF TypeOK, Hook
<1>6. Notes(calls') = <<NoteOf(e2)>> \o q /\ NoteOf(e2) \in Note /\ NoteOf(e2).event = "Del"
  BY <1>1, <1>3, <1>4, NextNotes, CallNote
<1>7. q \in Seq(Note) /\ Among(q) \in SUBSET Note /\ Apart(q)
      /\ Notes(calls) = <<NoteOf(e)>> \o q /\ NoteOf(e) \in Note
  BY <1>1, <1>4, HeadGood, NotesHead
<1>8. \A g \in Among(q) : ~Clash(NoteOf(e2), g)
  <2>1. Among(Notes(calls)) = {NoteOf(e)} \cup Among(q)
    BY <1>7, NoteOn
  <2>. QED BY <2>1, <1>3, <1>4, NotCrossed
<1>9. Fits(Learn(shown["last"], e), Rows, Among(q))
  BY <1>1, <1>4, HeadTold DEF TypeOK
<1>10. Fits(Learn(shown["last"], e), Rows, {NoteOf(e2)} \cup Among(q))
  BY <1>6, <1>7, <1>9, PushNothing
<1>11. Good(Learn(shown["last"], e), Rows, <<NoteOf(e2)>> \o q)
  BY <1>6, <1>7, <1>8, <1>10, GoodParts
<1>12. Rows' = Rows
  BY <1>1 DEF Rows
<1>. QED BY <1>5, <1>6, <1>11, <1>12 DEF CopyInv

LEMMA CopyNextColumn == ASSUME TypeOK, CopyInv, NextColumn PROVE CopyInv'
<1>. DEFINE e == Head(calls)
            c == e.col + 1
            e2 == [e EXCEPT !.col = c, !.memory = e.row, !.at = "script"]
            q == Notes(Tail(calls))
<1>1. /\ mtRecordVec' = [mtRecordVec EXCEPT ![e.row] = [@ EXCEPT ![c] = e.tuple[c]]]
      /\ used' = used /\ shown'["last"] = LearnLast(e) /\ crossed' = crossed
      /\ calls # <<>> /\ e.event = "Update" /\ ~Ends(e) /\ calls' = <<e2>> \o Tail(calls)
  BY DEF NextColumn, TellBoth
<1>. SUFFICES ASSUME ~crossed PROVE CopyInv'
  BY <1>1 DEF CopyInv
<1>2. e \in Call
  BY <1>1, Pop DEF TypeOK
<1>3. e.row \in Row /\ e.col \in Col /\ e.tuple \in Tuple /\ e.col # MaxCol
  BY <1>1, <1>2 DEF Call, Ends
<1>4. c \in Col /\ e.col # c /\ e.tuple[c] \in Value
  BY <1>3, SizeAssumption DEF Col, Tuple
<1>5. e2 \in Call /\ e2.event = "Update" /\ e2.row = e.row /\ e2.col = c /\ e2.memory = e.row
  <2>. HIDE DEF e, c
  <2>. QED BY <1>1, <1>2, <1>3, <1>4 DEF Call
<1>6. shown'["last"] = Learn(shown["last"], e)
  BY <1>1 DEF LearnLast
<1>. HIDE DEF e2, c
<1>7. Notes(calls') = <<NoteOf(e2)>> \o q
  BY <1>1, <1>5, NextNotes
<1>8. /\ NoteOf(e) \in Note /\ q \in Seq(Note) /\ Among(q) \in SUBSET Note
      /\ Apart(q) /\ \A g \in Among(q) : ~Clash(NoteOf(e), g)
  BY <1>1, HeadGood
<1>9. /\ Written(e.row, c, e.tuple[c]) /\ Rows' \in Copy /\ Rows \in Copy
      /\ mtRecordVec' \in [Row -> Tuple]
      /\ mtRecordVec'[e.row][e.col] = mtRecordVec[e.row][e.col]
  <2>. HIDE DEF e
  <2>1. PICK r \in Row, k \in Col, v \in Value : r = e.row /\ k = c /\ v = e.tuple[c]
    BY <1>3, <1>4
  <2>2. mtRecordVec' = [mtRecordVec EXCEPT ![r] = [@ EXCEPT ![k] = v]]
    BY <1>1, <2>1
  <2>3. /\ Written(r, k, v) /\ Rows' \in Copy /\ mtRecordVec' \in [Row -> Tuple]
        /\ \A c2 \in Col : c2 # k => mtRecordVec'[r][c2] = mtRecordVec[r][c2]
    BY <1>1, <2>2, RowsWritten
  <2>. QED BY <1>3, <1>4, <2>1, <2>3, RowsTypes
<1>10. /\ Learn(shown["last"], e) \in Copy
       /\ Fits(Learn(shown["last"], e), Rows, Among(q))
  BY <1>1, <1>9, HeadTold
<1>. HIDE DEF e, q
<1>11. /\ NoteOf(e).event = "Update" /\ RowsOf(NoteOf(e)) = {e.row}
       /\ NoteOf(e2) \in Note /\ NoteOf(e2).event = "Update" /\ NoteOf(e2).row = e.row
       /\ NoteOf(e2).col = c /\ NoteOf(e2).memory = e.row /\ RowsOf(NoteOf(e2)) = {e.row}
  BY <1>1, <1>2, <1>5, CallNote, NoteFacts
<1>12. \A g \in Among(q) : ~Clash(NoteOf(e2), g)
  BY <1>8, <1>11 DEF Clash
<1>13. Fits(Learn(shown["last"], e), Rows', {NoteOf(e2)} \cup Among(q))
  <2>. DEFINE copy == Learn(shown["last"], e)
  <2>1. copy \in Copy /\ Fits(copy, Rows, Among(q))
    BY <1>10
  <2>. HIDE DEF copy
  <2>2. Fits(copy, Rows', {NoteOf(e2)} \cup Among(q))
    BY <1>4, <1>8, <1>9, <1>11, <1>12, <2>1, PushUpdate DEF Written
  <2>. QED BY <2>2 DEF copy
<1>14. Good(Learn(shown["last"], e), Rows', <<NoteOf(e2)>> \o q)
  BY <1>8, <1>11, <1>12, <1>13, GoodParts
<1>. QED BY <1>6, <1>7, <1>14 DEF CopyInv

LEMMA CopyNext == ASSUME TypeOK, CopyInv, Next PROVE CopyInv'
<1>1. ASSUME NEW r \in Row, NEW t \in Tuple, SetRow(r, t) PROVE CopyInv'
  <2>. DEFINE e == [Told("Update", r) EXCEPT !.tuple = t, !.more = TRUE]
  <2>1. MayCall /\ Raise(e, Waiting) /\ used' = used
        /\ mtRecordVec' = [mtRecordVec EXCEPT ![r] = [@ EXCEPT ![1] = t[1]]]
    BY <1>1 DEF SetRow
  <2>2. e \in Call /\ e.event = "Update" /\ e.row = r /\ e.col = 1 /\ e.memory = r
    BY SizeFacts DEF Told, Event, Call
  <2>3. 1 \in Col /\ t[1] \in Value
    BY SizeFacts DEF Tuple
  <2>. HIDE DEF e
  <2>. QED BY <2>1, <2>2, <2>3, CopyUpdate
<1>2. ASSUME NEW r \in Row, NEW c \in Col, NEW v \in Value, Write(r, c, v) PROVE CopyInv'
  <2>. DEFINE e == [Told("Update", r) EXCEPT !.col = c]
  <2>1. MayCall /\ Raise(e, Waiting) /\ used' = used
        /\ mtRecordVec' = [mtRecordVec EXCEPT ![r] = [@ EXCEPT ![c] = v]]
    BY <1>2 DEF Write
  <2>2. e \in Call /\ e.event = "Update" /\ e.row = r /\ e.col = c /\ e.memory = r
    BY SizeFacts DEF Told, Event, Call
  <2>. HIDE DEF e
  <2>. QED BY <2>1, <2>2, CopyUpdate
<1>3. ASSUME NEW r \in Row, Remove(r) PROVE CopyInv'
  <2>1. MayCall /\ Raise(Told("Del", r), Waiting) /\ used' = used /\ mtRecordVec' = mtRecordVec
    BY <1>3 DEF Remove
  <2>2. Told("Del", r) \in Call /\ Told("Del", r).event = "Del"
    BY ToldType DEF Event, Told
  <2>. QED BY <2>1, <2>2, CopyNothing
<1>4. ASSUME Clear PROVE CopyInv'
  <2>1. MayCall /\ used # {} /\ used' = used /\ mtRecordVec' = mtRecordVec
        /\ Raise([Told("Del", LastRow(used)) EXCEPT !.more = TRUE], Waiting)
    BY <1>4 DEF Clear
  <2>2. PICK r \in Row : r = LastRow(used)
    BY <2>1, LastRowThere DEF TypeOK
  <2>. DEFINE e == [Told("Del", r) EXCEPT !.more = TRUE]
  <2>3. e \in Call /\ e.event = "Del"
    BY ToldMoreType DEF Told
  <2>4. Raise(e, Waiting)
    BY <2>1, <2>2
  <2>. HIDE DEF e
  <2>. QED BY <2>1, <2>3, <2>4, CopyNothing
<1>5. ASSUME Release PROVE CopyInv'
  BY <1>5 DEF Release, CopyInv, recordVars, Rows
<1>. QED BY Steps, <1>1, <1>2, <1>3, <1>4, <1>5, CopyAdd, CopySwap, CopyProperty, CopyReturn,
            CopyDrop, CopyNextRow, CopyNextColumn

(* When nothing is under way, nothing is still to be told.                 *)
LEMMA CopyCaughtUp == ASSUME TypeOK, CopyInv PROVE LastHookCatchesUp
<1>. SUFFICES ASSUME calls = <<>>, ~crossed PROVE shown["last"] = Rows
  BY DEF LastHookCatchesUp
<1>1. Among(Notes(calls)) = {}
  BY DEF Among, Notes
<1>2. shown["last"] \in Copy /\ Rows \in Copy
  BY RowsTypes DEF TypeOK, Hook, Copy
<1>3. \A r \in Row : Caught(shown["last"], Rows, {}, r)
  BY <1>1 DEF CopyInv, Good, Fits, SwapWaits
<1>4. \A r \in Row : shown["last"][r] = Rows[r]
  BY <1>2, <1>3, CaughtShown
<1>. QED BY <1>2, <1>4 DEF Copy

LEMMA CopyInit == ASSUME Init PROVE CopyInv
<1>1. shown["last"] = Rows /\ calls = <<>>
  BY DEF Init, Rows, Hook
<1>2. Among(Notes(calls)) = {} /\ Apart(Notes(calls))
  BY <1>1 DEF Among, Notes, Apart
<1>3. \A r \in Row : Caught(shown["last"], Rows, {}, r)
  BY <1>1, ShownCaught
<1>. QED BY <1>2, <1>3 DEF CopyInv, Good, Fits

-----------------------------------------------------------------------------
(* The theorems. *)

KnownFirst == known["first"] = GetProperty

IInv == TypeOK /\ Exact /\ KnownFirst /\ LastInv /\ CopyInv

LEMMA InitIInv == Init => IInv
<1>. SUFFICES ASSUME Init PROVE IInv
  OBVIOUS
<1>1. TypeOK
  BY SizeFacts, BoundAssumption DEF Init, TypeOK, Hook
<1>2. Exact
  BY DEF Init, Exact, Rows, Hook
<1>3. KnownFirst /\ LastInv
  BY DEF Init, KnownFirst, LastInv, Heard, GetProperty, Hook
<1>. QED BY <1>1, <1>2, <1>3, CopyInit DEF IInv

LEMMA KnownNext == ASSUME TypeOK, KnownFirst, Next PROVE KnownFirst'
<1>1. ASSUME NEW v \in Value, SetProperty(v) \/ LoadProperty(v) PROVE KnownFirst'
  <2>1. mxData' = v /\ known' = [known EXCEPT !["first"] = v]
    BY <1>1 DEF SetProperty, LoadProperty
  <2>. QED BY <2>1, ValueAssumption DEF KnownFirst, GetProperty, TypeOK, Hook
<1>2. ASSUME Return PROVE KnownFirst'
  <2>1. mxData' = mxData /\ known'["first"] = known["first"]
    BY <1>2 DEF Return, TellLast, TypeOK, Hook
  <2>. QED BY <2>1 DEF KnownFirst, GetProperty
<1>3. ASSUME UNCHANGED propertyVars PROVE KnownFirst'
  BY <1>3 DEF KnownFirst, GetProperty, propertyVars
<1>4. \/ \E v \in Value : SetProperty(v) \/ LoadProperty(v)
      \/ Return
      \/ UNCHANGED propertyVars
  BY Steps DEF AddRow, SetRow, Write, Remove, SwapRowInfo, Clear, DropRow, NextRow, NextColumn,
     Release, Raise
<1>. QED BY <1>1, <1>2, <1>3, <1>4

LEMMA NextIInv == IInv /\ [Next]_vars => IInv' /\ [T!Next]_Rows
<1>. SUFFICES ASSUME IInv, [Next]_vars PROVE IInv' /\ [T!Next]_Rows
  OBVIOUS
<1>1. CASE Next
  BY <1>1, NextType, NextFollows, KnownNext, LastNext, CopyNext DEF IInv, Follows
<1>2. CASE UNCHANGED vars
  <2>1. /\ holder' = holder /\ used' = used /\ mtRecordVec' = mtRecordVec /\ shown' = shown
        /\ crossed' = crossed /\ mxData' = mxData /\ known' = known /\ overtaken' = overtaken
        /\ calls' = calls
    BY <1>2 DEF vars
  <2>2. Rows' = Rows
    BY <2>1 DEF Rows
  <2>3. TypeOK' /\ KnownFirst' /\ LastInv'
    BY <2>1 DEF IInv, TypeOK, KnownFirst, LastInv, Heard, GetProperty
  <2>4. CopyInv'
    BY <2>1, <2>2 DEF IInv, CopyInv
  <2>. QED BY <2>1, <2>2, <2>3, <2>4 DEF IInv, Exact
<1>. QED BY <1>1, <1>2

(* The inductive invariant: the first hook's copy is what the queries show,*)
(* and the last hook's is explained by what is still to be told.           *)
THEOREM Invariance == Spec => []IInv
BY InitIInv, NextIInv, PTL DEF Spec

(* A hook that is told first can answer every query from what it was told: *)
(* no change of the record or the property goes without its event, none is *)
(* told wrong, and no query shows a removed row, in records of any size    *)
(* and changes nested to any depth.                                        *)
THEOREM FirstHookStaysExact == Spec => []FirstHookExact
<1>1. IInv => FirstHookExact
  <2>. SUFFICES ASSUME IInv PROVE FirstHookExact
    OBVIOUS
  <2>. DEFINE copy == shown["first"]
              there == {r \in Row : copy[r] # NoRow}
  <2>1. TypeOK /\ copy = Rows /\ known["first"] = GetProperty
    BY DEF IInv, Exact, KnownFirst
  <2>2. /\ used \subseteq Row
        /\ \A r \in Row : /\ copy[r] = IF r \in used THEN mtRecordVec[r] ELSE NoRow
                          /\ copy[r] # NoRow <=> r \in used
    BY <2>1, RowsTypes
  <2>3. there = used
    BY <2>2
  <2>4. \A r \in Row : QueryRow(r) = copy[r]
    BY <2>2 DEF QueryRow
  <2>5. \A r \in Row, c \in Col : GetCell(r, c) = IF r \in there THEN copy[r][c] ELSE 0
    BY <2>2, <2>3 DEF GetCell
  <2>6. \A c \in Col, v \in Value : FindRowByColValue(c, v) = {r \in there : copy[r][c] = v}
    <3>. SUFFICES ASSUME NEW c \in Col, NEW v \in Value
                  PROVE  FindRowByColValue(c, v) = {r \in there : copy[r][c] = v}
      OBVIOUS
    <3>1. FindRowByColValue(c, v) = {r \in Row : r \in used /\ GetCell(r, c) = v}
      BY DEF FindRowByColValue, FindScalar, FindVector
    <3>. QED BY <3>1, <2>2, <2>3, <2>5
  <2>7. ASSUME NEW c \in Col, NEW v \in Value
        PROVE  LET r == FindRow(c, v)
               IN IF r = -1 THEN \A r2 \in there : copy[r2][c] # v
                  ELSE r \in there /\ copy[r][c] = v /\ \A r2 \in there : copy[r2][c] = v => r <= r2
    <3>. DEFINE found == FindRowByColValue(c, v)
    <3>1. found = {r \in there : copy[r][c] = v} /\ found \subseteq Nat /\ -1 \notin found
      <4>1. found = {r \in there : copy[r][c] = v}
        BY <2>6
      <4>2. there \subseteq Nat
        BY SizeFacts
      <4>3. found \subseteq Nat
        BY <4>1, <4>2
      <4>. QED BY <4>1, <4>3
    <3>2. FindRow(c, v) = IF found = {} THEN -1 ELSE CHOOSE r \in found : \A r2 \in found : r <= r2
      BY DEF FindRow
    <3>. HIDE DEF found
    <3>3. CASE found = {}
      BY <3>1, <3>2, <3>3
    <3>4. CASE found # {}
      <4>1. \E m \in found : \A k \in found : m <= k
        BY <3>1, <3>4, Least
      <4>2. FindRow(c, v) \in found /\ \A k \in found : FindRow(c, v) <= k
        BY <3>2, <3>4, <4>1
      <4>. QED BY <3>1, <4>2
    <3>. QED BY <3>3, <3>4
  <2>8. holder = "object" => /\ ScriptGetProperty = known["first"]
                             /\ \A r \in there, c \in Col : ScriptGetCell(r, c) = copy[r][c]
    BY <2>1, <2>5 DEF ScriptGetProperty, WorldGetProperty, ObjectGetProperty, ManagerGetProperty,
       ScriptGetCell, WorldGetCell, ObjectGetCell, ManagerGetCell
  <2>9. holder = "group" => /\ SceneGetProperty = known["first"]
                            /\ \A r \in there, c \in Col : SceneGetCell(r, c) = copy[r][c]
    BY <2>1, <2>5 DEF SceneGetProperty, ManagerGetProperty, SceneGetCell
  <2>. HIDE DEF copy, there
  <2>. QED BY <2>1, <2>4, <2>5, <2>6, <2>7, <2>8, <2>9 DEF FirstHookExact, copy, there
<1>. QED BY <1>1, Invariance, PTL

(* When every change has returned, the hook that is told last knows the    *)
(* value of the property, unless a Load was overtaken: nested setters tell *)
(* it in the wrong order, but each hands out the value by reference.       *)
THEOREM LastHookHearsLast == Spec => []LastHearsLast
<1>1. IInv => LastHearsLast
  <2>1. ASSUME calls = <<>> PROVE Len(calls) = 0
    BY <2>1, EmptySeq
  <2>. QED BY <2>1 DEF IInv, LastInv, Heard, LastHearsLast
<1>. QED BY <1>1, Invariance, PTL

(* When every change has returned, the copy of the rows that the hook told *)
(* last keeps is the record, in records of any size and changes nested to  *)
(* any depth, unless the script put a row back under its AfterDel or       *)
(* crossed a swap with another event about its rows (and then the copy was *)
(* given up).                                                              *)
THEOREM LastHookIsCaughtUp == Spec => []LastHookCatchesUp
<1>1. IInv => LastHookCatchesUp
  BY CopyCaughtUp DEF IInv
<1>. QED BY <1>1, Invariance, PTL

(* The record implements Table: every step of Data is one of Table's on    *)
(* the rows that are there, or leaves them alone.                          *)
THEOREM RecordIsTable == Spec => TableSpec
<1>1. Init => T!Init
  BY DEF Init, T!Init, Rows
<1>. QED BY <1>1, Invariance, NextIInv, PTL DEF Spec, TableSpec, T!Spec

=============================================================================
