----------------------------- MODULE MCHsLongrun ------------------------------
(***************************************************************************)
(* HsLongrun for TLC: three threads and two rows.                          *)
(***************************************************************************)
EXTENDS HsLongrun, TLC

CONSTANTS w1, w2, w3, k1, k2

MCThreads == {w1, w2, w3}
MCKeys == {k1, k2}

Mix(a, b, c, lossyTypes) ==
    [type |-> w1 :> a @@ w2 :> b @@ w3 :> c, lossy |-> lossyTypes]

(***************************************************************************)
(* A table that starts empty, where answers to deletes may be lost if no   *)
(* thread updates (op_update would declare the record known again); and a  *)
(* table that stays full.                                                  *)
(***************************************************************************)
MCMixes ==
    {Mix("hsinsert", "hsdelete", "hsread", {"hsdelete", "hsread"}),
     Mix("hsinsert", "hsdelete", "hsupdate", {"hsupdate"}),
     Mix("hsinsert", "hsdelete", "myread", {"hsdelete", "myread"}),
     Mix("hsupdate", "mydelins", "hsreadnolock", {"hsupdate", "hsreadnolock"}),
     Mix("mydelins", "mydelins", "myread", {"myread"}),
     Mix("mydelins", "hsdelete", "hsreadnolock", {"hsdelete"})}
=============================================================================
