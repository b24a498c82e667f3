SPECIFICATION Spec
SYMMETRY MCSymmetry
CONSTANTS
    p1 = p1
    p2 = p2
    n1 = n1
    n2 = n2
    Procs = {p1, p2}
    Names = {n1, n2}
    Rules = {1, 2}
    Servers <- MCServers
    Server <- MCServer
    None = None
    MaxCopies = 2
INVARIANTS
    TypeOK
    ChainInStep
    FileInEffect
    OnlyReplacedLeft
