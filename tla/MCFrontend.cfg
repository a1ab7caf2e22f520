SPECIFICATION FrontendSpec
CONSTANTS
    EntryFile = EntryFile
    FileA = FileA
    LibB = LibB
    LibA = LibA
    none = none
    NoName = NoName
    Files <- MCFiles
    Entry = EntryFile
    Paths <- MCPaths
    StdPaths <- MCStdPaths
    Dirs <- MCDirs
    Cwd = "here"
    StdDirs <- MCStdDirs
    DirOf <- MCDirOf
    At <- MCAt
    Missing = none
    Decls <- MCDecls
    SynthMain <- MCSynthMain
    Sources <- MCSources
    Limit = 3
INVARIANTS
    OnceEach
    ImportsFirst
    CircularExact
    FitsArrays
    DuplicateReal
    CallsBound
    RightInstance
PROPERTIES
    FrontendEnds
CHECK_DEADLOCK FALSE
