CONSTANTS
    Servers <- MCServers
    Names <- MCNames
    Faces <- MCFaces
    File <- MCFile
    AppName <- MCAppName
    Install <- MCInstall
    Updated <- MCUpdated
    NodeFace = "node"
    ClassFace = "class"
    ElementFace = "element"
    MaxReload = 2
    Classes <- MCClasses
    ParentOf <- MCParentOf
    OwnFile <- MCOwnFile
    Includes <- MCIncludes
    Declares <- MCDeclares
    Rows <- MCRows
    NoClass = "none"
SPECIFICATION ProcessSpec
INVARIANTS ModulesLive PhaseBarrier ConfigRight
PROPERTIES ReloadFollows
CHECK_DEADLOCK FALSE
