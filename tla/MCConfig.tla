-------------------------------- MODULE MCConfig --------------------------------
(***************************************************************************)
(* One model of two fields.  A model is not valid when both fields hold    *)
(* the value "x", so one key of the file may only be taken together with   *)
(* the other.                                                              *)
(***************************************************************************)
EXTENDS ConfigStore

MCEditKeys == {"m1"} \X {"a", "b"}
MCSetKeys  == {<<"m1", "a">>}
MCValid(fields) == \E f \in Fields : fields[f] # "x"
================================================================================
