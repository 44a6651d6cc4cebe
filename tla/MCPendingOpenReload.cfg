SPECIFICATION FairSpec
CONSTANTS
    a1 = a1
    a2 = a2
    a3 = a3
    pdf1 = pdf1
    pdf2 = pdf2
    d1 = d1
    d2 = d2
    Arrivals = {a1, a2, a3}
    Paths = {pdf1, pdf2}
    PathOf <- MCPathOf
    Drains = {d1, d2}
    MaxReloads = 1
PROPERTIES
    EveryArrivalMet
CHECK_DEADLOCK FALSE
