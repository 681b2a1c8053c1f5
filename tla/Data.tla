-------------------------------- MODULE Data ---------------------------------
(***************************************************************************)
(* The data of a game object or of a group of a scene: one Record and one  *)
(* Property, with the hooks that are told of every change.  WorldModule    *)
(* finds them by the id of an object, SceneModule by a scene and a group,  *)
(* both for one change or question at a time; who has a pointer to the     *)
(* object, the property or the record keeps it when the holder is gone.    *)
(* The six types of value differ in one thing, how two are compared.       *)
(*                                                                         *)
(* A hook runs inside the change it is told of, and may make changes       *)
(* itself, whose hooks run first.  Three hooks are modelled, in the order  *)
(* of registration: "first" keeps a copy from what it is told, the script  *)
(* makes up to one change, "last" keeps a copy too.                        *)
(*                                                                         *)
(* An Update event carries a reference to the new value, not a copy; so    *)
(* does the event of Property::SetInt and the other typed setters.  The    *)
(* event of Property::SetValue carries a copy.  Add and Cover carry the    *)
(* record itself, and a hook reads the row from it.                        *)
(***************************************************************************)
EXTENDS Integers, Sequences, FiniteSets

CONSTANTS
  MaxRow,          \* mnMaxRow
  MaxCol,          \* number of columns
  VectorCol,       \* the columns of type vector2 or vector3
  Value,           \* values of a cell and of the property
  Tolerance,       \* 1 for the exact types; more stands for 0.001 of float
  MaxDepth,        \* bound: changes under way at once
  NoRow,           \* a row that is not there
  NoData           \* a property without memory

Row == 0 .. MaxRow - 1
Col == 1 .. MaxCol
Tuple == [Col -> Value]
Hook == {"first", "last"}

ASSUME SizeAssumption == MaxRow \in Nat \ {0} /\ MaxCol \in Nat \ {0} /\ VectorCol \subseteq Col
ASSUME ValueAssumption == Value \subseteq Int /\ 0 \in Value /\ NoData \notin Value
ASSUME NoRowAssumption == NoRow \notin Tuple
ASSUME BoundAssumption == MaxDepth \in Nat \ {0} /\ Tolerance \in Nat \ {0}

VARIABLES
  holder,          \* who holds the data: an object, a group, or nobody any more
  used,            \* rows with mVecUsedState > 0
  mtRecordVec,     \* the memory of each row, also of one that is not used
  shown,           \* the copies of the rows the hooks keep
  crossed,         \* did the script cross an event that "last" waits for?
  mxData,          \* the property's value
  known,           \* the copies of it the hooks keep
  overtaken,       \* was the property changed under an event of SetValue?
  calls            \* changes under way, innermost first

recordVars == <<used, mtRecordVec, shown, crossed>>
propertyVars == <<mxData, known, overtaken>>
vars == <<holder, used, mtRecordVec, shown, crossed, mxData, known, overtaken, calls>>

Event == {"Add", "Update", "Del", "AfterDel", "Swap", "Set", "Load"}

(* A change whose event is being told: "memory" is the row whose memory    *)
(* the event refers to, or the other row of a swap; "more" says that it is *)
(* one of the events of SetRow (which writes "tuple") or Clear.            *)
Call ==
  [event : Event, row : Row, col : Col, memory : Row, tuple : Tuple, more : BOOLEAN,
   value : Value, at : {"script", "last"}]

Zero == [c \in Col |-> 0]
Told(event, row) ==
  [event |-> event, row |-> row, col |-> 1, memory |-> row, tuple |-> Zero, more |-> FALSE,
   value |-> 0, at |-> "script"]

TypeOK ==
  /\ holder \in {"object", "group", "nobody"}
  /\ used \subseteq Row
  /\ mtRecordVec \in [Row -> Tuple]
  /\ shown \in [Hook -> [Row -> Tuple \cup {NoRow}]]
  /\ crossed \in BOOLEAN
  /\ mxData \in Value \cup {NoData}
  /\ known \in [Hook -> Value]
  /\ overtaken \in BOOLEAN
  /\ calls \in Seq(Call)
  /\ Len(calls) <= MaxDepth

Init ==
  /\ holder \in {"object", "group"}
  /\ used = {}
  /\ mtRecordVec = [r \in Row |-> Zero]
  /\ shown = [h \in Hook |-> [r \in Row |-> NoRow]]
  /\ crossed = FALSE
  /\ mxData = NoData
  /\ known = [h \in Hook |-> 0]
  /\ overtaken = FALSE
  /\ calls = <<>>

-----------------------------------------------------------------------------
(* Queries. *)

Rows == [r \in Row |-> IF r \in used THEN mtRecordVec[r] ELSE NoRow]
NoRows == [r \in Row |-> NoRow]

GetCell(r, c) == IF r \in used THEN mtRecordVec[r][c] ELSE 0

(* A search for a value of another type than the column's finds nothing.   *)
FindUnchecked(c, v) == {r \in Row : mtRecordVec[r][c] = v}              \* mutant
FindScalar(c, v) ==
  IF c \in VectorCol THEN {} ELSE {r \in Row : r \in used /\ GetCell(r, c) = v}
FindVector(c, v) ==
  IF c \in VectorCol THEN {r \in Row : r \in used /\ GetCell(r, c) = v} ELSE {}
FindRowByColValue(c, v) == IF c \in VectorCol THEN FindVector(c, v) ELSE FindScalar(c, v)

(* The first of them; the code counts rows from 0 and answers -1 for none.  *)
FindRow(c, v) ==
  LET found == FindRowByColValue(c, v)
  IN IF found = {} THEN -1 ELSE CHOOSE r \in found : \A r2 \in found : r <= r2

QueryRow(r) == IF r \in used THEN mtRecordVec[r] ELSE NoRow

GetProperty == IF mxData = NoData THEN 0 ELSE mxData

(* By pointer to the object, and by name: whoever is not found has the      *)
(* value of nothing.                                                       *)
ManagerGetCell(r, c) == GetCell(r, c)
ManagerGetProperty == GetProperty
ObjectGetCell(r, c) == ManagerGetCell(r, c)
ObjectGetProperty == ManagerGetProperty
WorldGetProperty == IF holder = "object" THEN ObjectGetProperty ELSE 0
SceneGetProperty == IF holder = "group" THEN ManagerGetProperty ELSE 0
WorldGetCell(r, c) == IF holder = "object" THEN ObjectGetCell(r, c) ELSE 0
ScriptGetProperty == WorldGetProperty
ScriptGetCell(r, c) == WorldGetCell(r, c)
SceneGetCell(r, c) == IF holder = "group" THEN GetCell(r, c) ELSE 0

Same(v, w) == v - w < Tolerance /\ w - v < Tolerance
IsNullValue(v) == Same(v, 0)

-----------------------------------------------------------------------------
(* Telling the hooks (OnEventHandler). *)

(* A copy of the rows after an event: what a hook can learn from it.       *)
Learn(copy, e) ==
  CASE e.event = "Add" ->
         [copy EXCEPT ![e.row] = IF e.row \in used' THEN mtRecordVec'[e.row] ELSE NoRow]
    [] e.event = "Update" ->
         IF copy[e.row] = NoRow THEN copy
         ELSE [copy EXCEPT ![e.row] = [@ EXCEPT ![e.col] = mtRecordVec'[e.memory][e.col]]]
    [] e.event = "AfterDel" -> [copy EXCEPT ![e.row] = NoRow]
    [] e.event = "Swap" -> [copy EXCEPT ![e.row] = copy[e.memory], ![e.memory] = copy[e.row]]
    [] OTHER -> copy

(* What a hook told later can be misled by: a row that comes back before   *)
(* it has heard AfterDel, and a swap of rows told in the wrong order with  *)
(* another event about them.                                               *)
RowsOf(e) == IF e.event = "Swap" THEN {e.row, e.memory} ELSE {e.row}
Crosses(e) ==
  \E i \in DOMAIN calls :
    LET g == calls[i]
    IN /\ g.event \notin {"Del", "Set", "Load"}
       /\ RowsOf(g) \cap RowsOf(e) # {}
       /\ \/ e.event = "Add" /\ g.event = "AfterDel"
          \/ "Swap" \in {e.event, g.event}

(* Who may change something: the program, and the script while it is told. *)
MayCall ==
  calls # <<>> => Len(calls) < MaxDepth /\ Head(calls).at = "script"

Waiting ==
  IF calls = <<>> THEN <<>> ELSE <<[Head(calls) EXCEPT !.at = "last"]>> \o Tail(calls)

(* A copy that was misled is given up.                                     *)
LearnLast(e) == IF crossed THEN shown["last"] ELSE Learn(shown["last"], e)

(* A record event: "first" is told, then it is the script's turn.          *)
Raise(e, below) ==
  /\ calls' = <<e>> \o below
  /\ crossed' = (crossed \/ Crosses(e))
  /\ shown' = [first |-> Learn(shown["first"], e),
               last |-> IF crossed' THEN NoRows ELSE shown["last"]]
  /\ UNCHANGED propertyVars

-----------------------------------------------------------------------------
(* Record. *)

FreeRow == CHOOSE r \in Row \ used : \A r2 \in Row \ used : r <= r2

(* AddRow at a row, which may be in use (Cover).                           *)
AddRow(r, t) ==
  /\ MayCall
  /\ used' = used \cup {r}
  /\ mtRecordVec' = [mtRecordVec EXCEPT ![r] = t]
  /\ Raise(Told("Add", r), Waiting)

(* AddRow at -1: the first free row; a record that is full stays as it is. *)
AddFreeRow(t) ==
  /\ used # Row
  /\ AddRow(FreeRow, t)

(* A setter for another type than the column's is refused, and writing     *)
(* what is there already is no event.                                      *)
Write(r, c, v) ==
  /\ MayCall
  /\ r \in used
  /\ ~Same(v, mtRecordVec[r][c])
  /\ mtRecordVec' = [mtRecordVec EXCEPT ![r] = [@ EXCEPT ![c] = v]]
  /\ UNCHANGED used
  /\ Raise([Told("Update", r) EXCEPT !.col = c], Waiting)

SetScalar(r, c, v) == c \notin VectorCol /\ Write(r, c, v)
SetVector(r, c, v) == c \in VectorCol /\ Write(r, c, v)
SetCell(r, c, v) == SetScalar(r, c, v) \/ SetVector(r, c, v)

(* SetRow writes and tells column by column, also what does not change.    *)
SetRow(r, t) ==
  /\ MayCall
  /\ r \in used
  /\ mtRecordVec' = [mtRecordVec EXCEPT ![r] = [@ EXCEPT ![1] = t[1]]]
  /\ UNCHANGED used
  /\ Raise([Told("Update", r) EXCEPT !.tuple = t, !.more = TRUE], Waiting)

(* Remove tells Del while the row is still there.                          *)
Remove(r) ==
  /\ MayCall
  /\ r \in used
  /\ UNCHANGED <<used, mtRecordVec>>
  /\ Raise(Told("Del", r), Waiting)

(* Clear removes the rows one by one, from the last.                       *)
LastRow(rows) == CHOOSE r \in rows : \A r2 \in rows : r2 <= r

ClearAtOnce ==  \* mutant: all rows, one event
  /\ MayCall
  /\ used # {}
  /\ used' = {}
  /\ UNCHANGED mtRecordVec
  /\ Raise(Told("AfterDel", LastRow(used)), Waiting)

Clear ==
  /\ MayCall
  /\ used # {}
  /\ UNCHANGED <<used, mtRecordVec>>
  /\ Raise([Told("Del", LastRow(used)) EXCEPT !.more = TRUE], Waiting)

(* The memory changes its row, and an Update that refers to it with it.    *)
Swapped(e, r1, r2) ==
  CASE e.event = "Update" /\ e.memory = r1 -> [e EXCEPT !.memory = r2]
    [] e.event = "Update" /\ e.memory = r2 -> [e EXCEPT !.memory = r1]
    [] OTHER -> e

SwapMemoryOnly(r1, r2) == used                                          \* mutant
SwapUsed(r1, r2) ==
  {r \in Row : IF r = r1 THEN r2 \in used ELSE IF r = r2 THEN r1 \in used ELSE r \in used}

SwapRowInfo(r1, r2) ==
  /\ MayCall
  /\ r1 \in used
  /\ mtRecordVec' = [mtRecordVec EXCEPT ![r1] = mtRecordVec[r2], ![r2] = mtRecordVec[r1]]
  /\ used' = SwapUsed(r1, r2)
  /\ Raise([Told("Swap", r1) EXCEPT !.memory = r2],
           [i \in DOMAIN Waiting |-> Swapped(Waiting[i], r1, r2)])

-----------------------------------------------------------------------------
(* Property. *)

(* The typed setters: no event for what is the same already.               *)
SetProperty(v) ==
  /\ MayCall
  /\ ~Same(v, GetProperty)
  /\ mxData' = v
  /\ known' = [known EXCEPT !["first"] = v]
  /\ overtaken' = (overtaken \/ \E i \in DOMAIN calls : calls[i].event = "Load")
  /\ calls' = <<[Told("Set", 0) EXCEPT !.value = v]>> \o Waiting
  /\ UNCHANGED recordVars

LoadAlways(v) ==  \* mutant: a zero too, and no hook
  /\ MayCall
  /\ mxData' = v
  /\ UNCHANGED <<recordVars, known, overtaken, calls>>

(* SetValue, with what a configuration says: never a zero.                 *)
LoadProperty(v) ==
  /\ MayCall
  /\ ~IsNullValue(v)
  /\ mxData' = v
  /\ known' = [known EXCEPT !["first"] = v]
  /\ overtaken' = (overtaken \/ \E i \in DOMAIN calls : calls[i].event = "Load")
  /\ calls' = <<[Told("Load", 0) EXCEPT !.value = v]>> \o Waiting
  /\ UNCHANGED recordVars

-----------------------------------------------------------------------------
(* The script makes no change (any more) and "last" is told.  A setter     *)
(* returns, and so does what was the last event of SetRow, Remove, Clear.  *)

TellLast(e) ==
  /\ shown' = [shown EXCEPT !["last"] = LearnLast(e)]
  /\ known' = CASE e.event = "Set" -> [known EXCEPT !["last"] = GetProperty]
               [] e.event = "Load" -> [known EXCEPT !["last"] = e.value]
               [] OTHER -> known

TellBoth(e, e2) ==
  shown' = [first |-> Learn(shown["first"], e2), last |-> LearnLast(e)]

LowerRows(r) == {r2 \in used : r2 < r}

Ends(e) ==
  CASE e.event = "Del" -> FALSE
    [] e.event = "AfterDel" -> ~e.more \/ LowerRows(e.row) = {}
    [] e.event = "Update" -> ~e.more \/ e.col = MaxCol
    [] OTHER -> TRUE

Return ==
  /\ calls # <<>>
  /\ Ends(Head(calls))
  /\ UNCHANGED <<used, mtRecordVec, crossed, mxData, overtaken>>
  /\ TellLast(Head(calls))
  /\ calls' = Tail(calls)

(* Remove, between Del and AfterDel: whatever the row is by now, it goes.  *)
DropRow ==
  LET e == Head(calls)
      e2 == [e EXCEPT !.event = "AfterDel", !.at = "script"]
  IN /\ calls # <<>>
     /\ e.event = "Del"
     /\ used' = used \ {e.row}
     /\ UNCHANGED mtRecordVec
     /\ TellBoth(e, e2)
     /\ calls' = <<e2>> \o Tail(calls)
     /\ UNCHANGED <<crossed, propertyVars>>

(* Clear, from one row to the next that is in use; "first" learns nothing   *)
(* from a Del.                                                             *)
NextRow ==
  LET e == Head(calls)
      e2 == [Told("Del", LastRow(LowerRows(e.row))) EXCEPT !.more = TRUE]
  IN /\ calls # <<>>
     /\ e.event = "AfterDel" /\ ~Ends(e)
     /\ UNCHANGED <<used, mtRecordVec, propertyVars>>
     /\ crossed' = (crossed \/ Crosses(e2))
     /\ shown' = [shown EXCEPT !["last"] = IF crossed' THEN NoRows ELSE Learn(@, e)]
     /\ calls' = <<e2>> \o Tail(calls)

(* SetRow, from one column to the next, also if the row is gone by now.    *)
NextColumn ==
  LET e == Head(calls)
      c == e.col + 1
      e2 == [e EXCEPT !.col = c, !.memory = e.row, !.at = "script"]
  IN /\ calls # <<>>
     /\ e.event = "Update" /\ ~Ends(e)
     /\ mtRecordVec' = [mtRecordVec EXCEPT ![e.row] = [@ EXCEPT ![c] = e.tuple[c]]]
     /\ UNCHANGED used
     /\ TellBoth(e, e2)
     /\ calls' = <<e2>> \o Tail(calls)
     /\ UNCHANGED <<crossed, propertyVars>>

-----------------------------------------------------------------------------
(* The ways to a change: by a pointer to the manager of the records or of  *)
(* the properties or to the object, or by name through the scene or the    *)
(* world, whose changes are the script's too.                              *)

ManagerSetProperty(v) == SetProperty(v)
ObjectSetProperty(v) == holder # "group" /\ ManagerSetProperty(v)
WorldSetProperty(v) == holder = "object" /\ ObjectSetProperty(v)
ScriptSetProperty(v) == WorldSetProperty(v)
SceneSetProperty(v) == holder = "group" /\ ManagerSetProperty(v)

ManagerSetRecord(r, c, v) == SetCell(r, c, v)
ObjectSetRecord(r, c, v) == holder # "group" /\ ManagerSetRecord(r, c, v)
WorldSetRecord(r, c, v) == holder = "object" /\ ObjectSetRecord(r, c, v)
ScriptSetRecord(r, c, v) == WorldSetRecord(r, c, v)
SceneSetRecord(r, c, v) == holder = "group" /\ ManagerSetRecord(r, c, v)

(* By the name of the record: the caller keeps no pointer to it.           *)
ScriptAddRow(t) == holder = "object" /\ AddFreeRow(t)
ScriptRemRow(r) == holder = "object" /\ Remove(r)
WorldClearRecord == holder = "object" /\ Clear
SceneClearRecord == holder = "group" /\ Clear

(* DestroyObject, ReleaseGroupScene, also by the script.                   *)
Release ==
  /\ MayCall
  /\ holder' = "nobody"
  /\ UNCHANGED <<recordVars, propertyVars, calls>>

ChangeRecord ==
  \/ \E r \in Row, t \in Tuple : AddRow(r, t) \/ SetRow(r, t)
  \/ \E t \in Tuple : AddFreeRow(t) \/ ScriptAddRow(t)
  \/ \E r \in Row, c \in Col, v \in Value :
       \/ ManagerSetRecord(r, c, v) \/ ObjectSetRecord(r, c, v)
       \/ ScriptSetRecord(r, c, v) \/ SceneSetRecord(r, c, v)
  \/ \E r \in Row : Remove(r) \/ ScriptRemRow(r)
  \/ \E r1, r2 \in Row : SwapRowInfo(r1, r2)
  \/ Clear \/ WorldClearRecord \/ SceneClearRecord

ChangeProperty ==
  \E v \in Value :
    \/ ManagerSetProperty(v) \/ ObjectSetProperty(v)
    \/ ScriptSetProperty(v) \/ SceneSetProperty(v)
    \/ LoadProperty(v)

Continue == Return \/ DropRow \/ NextRow \/ NextColumn

Next ==
  \/ (ChangeRecord \/ ChangeProperty \/ Continue) /\ UNCHANGED holder
  \/ Release

Spec == Init /\ [][Next]_vars

-----------------------------------------------------------------------------
(* What must hold.                                                         *)

(* A hook that is told first can answer every query from what it was told, *)
(* at any moment, also in the middle of nested changes: no change of the   *)
(* record or the property goes without its event, none is told wrong, and  *)
(* no query shows what the memory of a removed row still holds.            *)
FirstHookExact ==
  LET copy == shown["first"]
      there == {r \in Row : copy[r] # NoRow}
  IN /\ TypeOK
     /\ \A r \in Row : QueryRow(r) = copy[r]
     /\ \A r \in Row, c \in Col : GetCell(r, c) = IF r \in there THEN copy[r][c] ELSE 0
     /\ \A c \in Col, v \in Value :
          FindRowByColValue(c, v) = {r \in there : copy[r][c] = v}
     /\ \A c \in Col, v \in Value :
          LET r == FindRow(c, v)
          IN IF r = -1 THEN \A r2 \in there : copy[r2][c] # v
             ELSE r \in there /\ copy[r][c] = v /\ \A r2 \in there : copy[r2][c] = v => r <= r2
     /\ known["first"] = GetProperty
     /\ holder = "object" => /\ ScriptGetProperty = known["first"]
                             /\ \A r \in there, c \in Col : ScriptGetCell(r, c) = copy[r][c]
     /\ holder = "group" => /\ SceneGetProperty = known["first"]
                            /\ \A r \in there, c \in Col : SceneGetCell(r, c) = copy[r][c]

(* A hook that is told after the script hears of nested changes before the *)
(* change they are nested in.  Its copy of the rows is right all the same  *)
(* when every call has returned, unless the script put a row back under    *)
(* its AfterDel, or swapped rows under another event about them, or        *)
(* changed them under the event of a swap.                                 *)
LastHookCatchesUp ==
  calls = <<>> => crossed \/ shown["last"] = Rows

(* For the property: a setter's event refers to the value, so the hook     *)
(* that is told last hears the last value, although the changes reach it   *)
(* in the wrong order.  Only SetValue, which copies, can leave it behind.  *)
LastHearsLast ==
  calls = <<>> => overtaken \/ known["last"] = GetProperty

(* The record is a Table: nothing else happens to its rows.                *)
T == INSTANCE Table WITH table <- Rows
TableSpec == T!Spec

=============================================================================
