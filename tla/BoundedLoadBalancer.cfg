SPECIFICATION Spec
CONSTANTS
    a1 = a1
    a2 = a2
    Addrs = {a1, a2}
    AddrOrder <- MCAddrOrder
    RPCs = {q1, q2}
    NoAddr = NoAddr
    NoRPC = NoRPC
    FactorNum = 5
    FactorDen = 4
    Word = 4
    IndexWord = 3
    MaxConns <- MCMaxConns
    MaxPickers = 2
SYMMETRY Symmetry
INVARIANTS TypeOK TotalIsSum CountsExact
PROPERTY PickAvoidsOverload
