----------------------------- MODULE MCProcess -----------------------------
(* Two servers in one process, as main starts them from a startup file.  Two *)
(* plugins register the same interface, the second file lists one twice.     *)
(* The classes are a line of three with a branch, the files declare one      *)
(* property in common; which file includes which varies.                     *)
EXTENDS Process
MCServers == <<"master", "player">>
MCNames == <<"config", "core", "logic", "node">>
MCFaces == <<"class", "element", "game", "log", "net", "node">>
MCInstall == "config" :> <<"class", "element">>
             @@ "core" :> <<"net", "log">> @@ "logic" :> <<"log", "game">>
             @@ "node" :> <<"node">>
MCFile == "master" :> <<[name |-> "master_1", list |-> <<"node", "core">>],
                         [name |-> "other", list |-> <<"logic">>]>>
          @@ "player" :> <<[name |-> "player", list |-> <<"core", "node">>],
                           [name |-> "more", list |-> <<"logic", "core", "config">>]>>
MCAppName == "master" :> "master_1" @@ "player" :> "player_2"
MCUpdated == {"net", "log", "node"}

MCClasses == <<"IObject", "NPC", "Monster", "Player">>
MCParentOf == "IObject" :> "none" @@ "NPC" :> "IObject" @@ "Monster" :> "NPC"
              @@ "Player" :> "IObject"
MCOwnFile == "IObject" :> "object" @@ "NPC" :> "npc" @@ "Monster" :> "monster"
             @@ "Player" :> "player"
MCDeclares == "object" :> {"ID"} @@ "npc" :> {"HP", "MP"} @@ "monster" :> {"HP", "AI"}
              @@ "player" :> {"MP", "Gold"} @@ "more" :> {"HP", "MP", "AI"}
Seqs == {<<>>, <<"more">>, <<"npc">>, <<"more", "npc">>, <<"monster", "more">>}
MCIncludes ==
    {inc \in [FileName -> Seqs] :
        /\ inc["object"] \in {<<>>, <<"more">>} /\ inc["more"] = <<>>
        /\ inc["npc"] \in {<<>>, <<"more">>}
        /\ inc["monster"] \in {<<>>, <<"npc">>, <<"more", "npc">>}
        /\ inc["player"] \in {<<>>, <<"npc">>, <<"monster", "more">>}}
MCRows == "IObject" :> <<>>
          @@ "NPC" :> <<[id |-> 1, given |-> "HP" :> 7 @@ "AI" :> 5]>>
          @@ "Monster" :> <<[id |-> 1, given |-> "AI" :> 4], [id |-> 1, given |-> "AI" :> 9]>>
          @@ "Player" :> <<[id |-> 1, given |-> "Gold" :> 3]>>
=============================================================================
