--------------------------- MODULE MCCompilerGC ----------------------------
(* Instances of CompilerGC for TLC *)
EXTENDS CompilerGC, TLC

CONSTANTS o1, o2, o3

ThreeObjects == {o1, o2, o3}
OneDeferring == {o1}

(* o2 and o3 differ in nothing *)
Symmetric == Permutations({o2, o3})
=============================================================================
