------------------------------- MODULE Config -------------------------------
(***************************************************************************)
(* What the configuration files of the elements mean: ClassModule reads a  *)
(* tree of classes, each with a file that declares properties and records  *)
(* and may include further files; ElementModule reads for each class the   *)
(* rows of its instance file, one element per row.  Records are declared,  *)
(* inherited and copied as properties are, so only properties are here.    *)
(*                                                                         *)
(* These are functions of the files.  Process makes the steps: both modules*)
(* load in their Awake, class by class.                                    *)
(***************************************************************************)
EXTENDS Integers, Sequences, SequencesExt, FiniteSets

CONSTANTS
    Classes,     \* the classes of Root.xml, a sequence in document order
    ParentOf,    \* [class -> the class it is nested in, or NoClass]
    OwnFile,     \* [class -> its file]
    Includes,    \* the possible include lists: functions [file -> Seq(file)]
    Declares,    \* [file -> the properties it declares]
    Rows,        \* [class -> its instance file: Seq([id, given])]
    NoClass

ClassName == Range(Classes)
FileName  == DOMAIN Declares
Property  == UNION Range(Declares)

\* `given' is what the attributes of a row say: property :> value.  A file
\* that includes itself, over whatever other files, is read for ever.
ASSUME ConfigAssumption ==
    /\ \A i \in DOMAIN Classes :
          ParentOf[Classes[i]] \in {NoClass} \cup {Classes[j] : j \in 1..(i - 1)}
    /\ OwnFile \in [ClassName -> FileName]
    /\ \A inc \in Includes : inc \in [FileName -> Seq(FileName)]
    /\ DOMAIN Rows = ClassName

-----------------------------------------------------------------------------
(* ClassModule.  A class: the files it has read, in order, and for each    *)
(* property the file whose declaration, with its type, it has.             *)

NewClass == [files |-> <<>>, props |-> <<>>]

\* The first declaration of a property counts, a second is an error for
\* SQUICK_ASSERT: nothing but on Windows, where it ends the process
\* (Process, ClassFails).
AddProperties(f, c) == [c EXCEPT !.props = @ @@ [p \in Declares[f] |-> f]]

\* What a class can be while it is read.
ClassData ==
    [files : Seq(FileName), props : UNION {[D -> FileName] : D \in SUBSET Property}]

\* AddClassInclude and, where it answers true, pClass->Add: the file, and
\* after it what it includes, unless it has been read.
Reader(inc) ==
    LET read[f \in FileName, c \in ClassData] ==
            IF f \in Range(c.files) THEN c
            ELSE [FoldLeft(LAMBDA k, g : read[g, k], AddProperties(f, c), inc[f])
                      EXCEPT !.files = Append(@, f)]
    IN  read
AddClassInclude(inc, f, c) == Reader(inc)[f, c]

\* The files of a parent, up to the first that the class has read.
Inherit(inc, files, c) ==
    LET from[i \in 1..(Len(files) + 1), k \in ClassData] ==
            IF i > Len(files) \/ files[i] \in Range(k.files) THEN k
            ELSE from[i + 1, AddClassInclude(inc, files[i], k)]
    IN  from[1, c]

\* AddClass: the parent, its parent and so on, and then the class itself.
AddParents(inc, loaded, parent, c) ==
    LET from[k \in ClassName \cup {NoClass}, d \in ClassData] ==
            IF k = NoClass THEN d
            ELSE from[ParentOf[k], Inherit(inc, loaded[k].files, d)]
    IN  from[parent, c]

OwnFirst(inc, loaded, class) ==     \* (A class that reads its own file first.)
    AddParents(inc, loaded, ParentOf[class],
               AddClassInclude(inc, OwnFile[class], NewClass))
AddClass(inc, loaded, class) ==
    AddClassInclude(inc, OwnFile[class],
                    AddParents(inc, loaded, ParentOf[class], NewClass))

-----------------------------------------------------------------------------
(* ElementModule.  An element, under the name of its class and its id: the *)
(* value of each property of the class, 0 if the row gives none.  What the *)
(* row gives beyond them is left out.                                      *)

LoadElement(class, row) ==
    [p \in DOMAIN class.props |->
        IF p = "ID" THEN row.id
        ELSE IF p \in DOMAIN row.given THEN row.given[p] ELSE 0]

\* A second row of the same id is skipped where SQUICK_ASSERT does nothing.
RowTwice(class) == \E i, j \in DOMAIN Rows[class] :
                       i < j /\ Rows[class][i].id = Rows[class][j].id
AddElement(elements, name, e) == elements @@ (name :> e)

LoadRows(classes, class, elements) ==
    FoldLeft(LAMBDA es, row :
                AddElement(es, <<class, row.id>>, LoadElement(classes[class], row)),
             elements, Rows[class])

ExistElement(elements, name) == name \in DOMAIN elements

\* GetProperty, GetPropertyManager: what is not there is null.
Null == <<>>
GetProperty(elements, name, p) ==
    IF ExistElement(elements, name) /\ p \in DOMAIN elements[name]
    THEN <<elements[name][p]>> ELSE Null

\* GetPropertyInt and the others: 0 for what is not there.
GetElementProperty(elements, name, p) ==
    LET found == GetProperty(elements, name, p) IN IF found = Null THEN 0 ELSE found[1]

\* GetListByProperty: a class lists its elements by their ids alone, and by
\* the id alone it asks for the property.
GetListByProperty(elements, class, p, value) ==
    LET ids == {name[2] : name \in {n \in DOMAIN elements : n[1] = class}}
    IN  {id \in ids : GetElementProperty(elements, <<id>>, p) = value}

\* LuaScriptModule::GetConfig: the rows of a class as the scripts see them.
GetConfigRow(elements, name) ==
    IF ExistElement(elements, name) THEN elements[name] ELSE <<>>
GetConfig(elements, class) ==
    [id \in {name[2] : name \in {n \in DOMAIN elements : n[1] = class}} |->
        GetConfigRow(elements, <<class, id>>)]

-----------------------------------------------------------------------------
(* What the files mean, said without an order of reading.                  *)

\* A class and all it descends from.
Line[class \in ClassName \cup {NoClass}] ==
    IF class = NoClass THEN {} ELSE {class} \cup Line[ParentOf[class]]

\* A set of files with all they include.
Closed(inc, fs) ==
    LET more[gs \in SUBSET FileName] ==
            LET hs == gs \cup UNION {Range(inc[f]) : f \in gs}
            IN  IF hs = gs THEN gs ELSE more[hs]
    IN  more[fs]

Files(inc, class) == Closed(inc, {OwnFile[k] : k \in Line[class]})

\* No file declares a property that a file it includes declares too.
Layered(inc) ==
    \A f \in FileName :
        Declares[f] \cap UNION {Declares[g] : g \in Closed(inc, Range(inc[f]))} = {}

\* A class has the properties its files declare and no others, each with a
\* type that one of them gives it.  Every property of its parent has the
\* parent's type, though its own file may declare it anew: what is true of
\* an object of the parent class is true of one of this class.  (Not so if
\* a file overrides what it includes: the parent has read the file first,
\* but lists it after what it includes, and the child reads that list.)
ClassesMean(inc, classes) ==
    /\ DOMAIN classes = ClassName
    /\ \A class \in ClassName :
          LET c == classes[class]
              parent == ParentOf[class]
          IN  /\ Range(c.files) = Files(inc, class) /\ IsInjective(c.files)
              /\ DOMAIN c.props = UNION {Declares[f] : f \in Files(inc, class)}
              /\ \A p \in DOMAIN c.props :
                    c.props[p] \in Files(inc, class) /\ p \in Declares[c.props[p]]
              /\ parent # NoClass /\ Layered(inc) =>
                    \A p \in DOMAIN classes[parent].props :
                        c.props[p] = classes[parent].props[p]

\* Every row of every class is found, natively and by a script, with all
\* properties of its class and the values of the first row of that id.  By
\* the value of a property none is: the list of a class takes every element
\* for 0 and none for any other value, as no name is an id alone.
ElementsMean(inc, elements) ==
    /\ DOMAIN elements =
          UNION {{<<class, Rows[class][i].id>> : i \in DOMAIN Rows[class]} :
                 class \in ClassName}
    /\ \A class \in ClassName : \A i \in DOMAIN Rows[class] :
          LET row == Rows[class][i]
              name == <<class, row.id>>
              has == UNION {Declares[f] : f \in Files(inc, class)}
          IN  /\ DOMAIN GetConfig(elements, class)[row.id] = has
              /\ (\A j \in 1..(i - 1) : Rows[class][j].id # row.id) =>
                    \A p \in has \ {"ID"} :
                        GetElementProperty(elements, name, p) =
                            IF p \in DOMAIN row.given THEN row.given[p] ELSE 0
              /\ \A p \in has \ {"ID"} :
                    /\ row.id \in GetListByProperty(elements, class, p, 0)
                    /\ p \in DOMAIN row.given /\ row.given[p] # 0 =>
                          row.id \notin GetListByProperty(elements, class, p, row.given[p])

=============================================================================
