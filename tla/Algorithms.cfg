CONSTANTS
    Word = 1024
    Radix = 4
    Ranges <- MCRanges
    Paths <- MCPaths
    Joins <- MCJoins
    Sizes <- MCSizes
    Growths <- MCGrowths
    Clocks <- MCClocks
    Rules <- MCRules
SPECIFICATION Spec
INVARIANTS
    FindReturnsItsRange
    FindPathReturnsTheLevel
    PathAppendStaysInside
    NumberNeverReadsGreater
    GrowthKeepsLowestSlots
    LocalTimeFollowsTransitions
    AnniversaryIsTheRule
CHECK_DEADLOCK FALSE
