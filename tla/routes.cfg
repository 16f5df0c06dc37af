SPECIFICATION Spec
CONSTANTS
    Width = 3
    Blocked <- MCBlocked
    Default <- MCDefault
    Offer <- MCOffer
    Junk = Junk
    Down = Down
    MaxEntries = 3
    MaxBody = 2
    MaxChanges = 1
INVARIANTS OnlyWiderBlocked WholeOrNothing
PROPERTIES CatchesUp
