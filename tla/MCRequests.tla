------------------------------ MODULE MCRequests ------------------------------
(* Requests instantiated for TLC: the table after mkdir d, create f and     *)
(* symlink l in the root.                                                   *)
EXTENDS Requests, TLC

MCInitialTypes == (0 :> "special") @@ (1 :> "dir") @@ (2 :> "dir")
                      @@ (3 :> "file") @@ (4 :> "symlink")
=============================================================================
