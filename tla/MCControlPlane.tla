--------------------------- MODULE MCControlPlane ---------------------------
(***************************************************************************)
(* The instance of ControlPlane that TLC checks: two requests at once, on  *)
(* one upload, one source and two screens.  Handlers and screens are       *)
(* interchangeable: no definition tells one from another, and only         *)
(* invariants are checked.                                                 *)
(***************************************************************************)
EXTENDS ControlPlane, TLC

Interchangeable == Permutations(Handlers) \cup Permutations(Screens)
=============================================================================
