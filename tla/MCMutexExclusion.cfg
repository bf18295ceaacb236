SPECIFICATION Spec
CONSTANT CPU = {c1, c2}
SYMMETRY CPUSymmetry
INVARIANT MutualExclusion
