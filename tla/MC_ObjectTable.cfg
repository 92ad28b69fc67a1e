\* Three clients race for two slots; the destructor may run at any point.
CONSTANTS
    o1 = o1
    o2 = o2
    o3 = o3
    Clients <- MC_Clients
    MaxObjects = 2
    NoObject = NoObject
    InvalidObjectId = InvalidObjectId
    Finalize = TRUE
SPECIFICATION Spec
INVARIANT TypeOK
INVARIANT RefsExact
PROPERTY ImplementsObjectTableSpec
