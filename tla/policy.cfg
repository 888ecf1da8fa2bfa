CONSTANTS
    wan = wan
    lte = lte
    wifi = wifi
    Ifaces = {wan, lte, wifi}
    Metrics = {1, 2, 256}
    Weights = {1, 7, 500}
SPECIFICATION Spec
SYMMETRY IfaceSymmetry
INVARIANTS
    TypeOK
    RoutesBest
    SharesFollowWeights
    AnnouncementsTrue
