CONSTANTS
    LongLong = 8
    Long = 6
    Bits <- MCBits
    MaxWidth = 6
    MaxPrecision = 6
    Tiny = 5
    MaxScanWidth = 10
    Wide = 8
    Fraction = 3
    Minute = 2
    Hour = 4
    Day = 12
    ZoneFiles <- MCFiles
    NoZone = NoZone
    Unset <- MCUnset
    Names <- MCNames
    Dirs <- MCDirs
    Listing <- MCListing
    Block = 2
    PathMax = 2
    MaxLost = 2
    AtexitMax = 3
    MaxCalls = 4
SPECIFICATION Spec
INVARIANTS  ScansAlike StdlibConverts RuntimeExact PiecesKept
INVARIANTS LocalTimeHolds TimeIsWritten EachOnce CwdIsNamed HandlersRunOnce
CHECK_DEADLOCK FALSE
