------------------------ MODULE MCRegistryCacher ------------------------
(* Instances of RegistryCacher for TLC.  No name, version, node or caller *)
(* is treated differently from another.                                   *)
EXTENDS RegistryCacher, TLC

CacherSymmetry ==
    Permutations(Names) \cup Permutations(Versions) \cup Permutations(Nodes)
      \cup Permutations(Callers)
=========================================================================
