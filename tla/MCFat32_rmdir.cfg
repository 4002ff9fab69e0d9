CONSTANTS
    FatEntries = 5
    CellsPerCluster = 3
    FilePaths <- Files2
    DirPaths <- Dirs2
    Texts <- TwoTexts
SPECIFICATION Fat32Spec
CHECK_DEADLOCK FALSE
PROPERTY RmdirOnlyEmpty
