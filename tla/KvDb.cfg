SPECIFICATION Spec
CONSTANTS
    k1 = k1
    k2 = k2
    k3 = k3
    v1 = v1
    v2 = v2
    Key = {k1, k2, k3}
    Value = {v1, v2}
    None = None
    Len <- MCLen
    sec_size = 10
    SecNum = 3
    Unsafe = {"turning", "delete_old", "gc_commit", "gc_delete", "gc_format"}
    FailAt = {"data"}
    MaxFaults = 2
INVARIANT TypeOK
 
INVARIANT LayoutInv
 
 
PROPERTY ProgramsErased
PROPERTY NeverFull
SYMMETRY Sym
