\* Good and bad menus, one of them past the bound on markers, a pi that dies twice, a deadline.
SPECIFICATION FairSpec
CONSTANTS
    Names = {"a", "b", "c"}
    Menus <- AllMenus
    Protocol = "v1"
    Wired = TRUE
    Cap = 2
    Deadlines = TRUE
    Deaths = 2
PROPERTIES
    GateIsHonest
    GateEnds
\* The session is open, or its menu was refused.
CHECK_DEADLOCK FALSE
