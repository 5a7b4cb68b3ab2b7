SPECIFICATION TfsSpec
CONSTANTS
    TFS_BLOCK_SIZE = 2
    TotalBlocks = 7
    TFS_MAX_FILES = 2
    TFS_BLOCKS_MAX = 2
    Names = {a, b}
    NoName = NoName
    Sizes = {1, 2, 3}
    Sources <- WholeBlocks
    MaxOpen = 2
    ForgedInodes <- Inodes
    ForgedBats <- Bats
    ForgedDirs <- Dirs
    Bytes = {0, 1}
    NoFile = NoFile
SYMMETRY NameSymmetry
INVARIANTS VolumeOK ReadsBack
