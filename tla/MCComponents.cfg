SPECIFICATION ComponentsSpec
CONSTANTS
    n1 = n1
    n2 = n2
    i1 = i1
    i2 = i2
SYMMETRY ComponentsSymmetry
INVARIANTS
    ComponentsTypeOK  ContextsHold  
PROPERTIES
     ReviewsHold    ListingsStable 
    SchemasWhole 
CHECK_DEADLOCK FALSE
