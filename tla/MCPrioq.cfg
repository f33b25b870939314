CONSTANTS
    Data = {d1, d2, d3, d4, d5, d6}
    Keys = {0, 1, 2, 3}
SYMMETRY DataSymmetry
SPECIFICATION Spec
INVARIANT HeapOk
PROPERTY ImplementsPriorityBag
