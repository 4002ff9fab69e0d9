CONSTANTS
    FatEntries = 6
    CellsPerCluster = 3
    FilePaths <- TwoFiles
    DirPaths <- NoPaths
    Texts <- TwoTexts
    AgentKeys = {"k"}
SPECIFICATION AgentSpec
CHECK_DEADLOCK FALSE
PROPERTY ShellWritesItsFile
