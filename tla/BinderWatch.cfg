SPECIFICATION Spec
CONSTANTS
    TailAddrs <- TwoTails
    LanAddrs <- OneLan
    Ports <- TwoPorts
INVARIANTS OnlyTailnet WholeOrNone
PROPERTIES Settles
