CONSTANTS
    GroupRoom = 2
    Files <- MCFiles
    FirstRoom = 3
    Offs = 1
    MaxWordexp = 2
    MaxExpanded = 3
    GroupLines <- MCLines
    MaxMembers = 3
SPECIFICATION Spec
INVARIANTS FindsLongest GlobPromise WordexpSound NoCommandRuns OptionsInOrder WalksTheGroups
CHECK_DEADLOCK FALSE
