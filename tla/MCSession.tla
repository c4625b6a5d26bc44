------------------------------ MODULE MCSession ------------------------------
(***************************************************************************)
(* Model-checking instance of Session: one client, small buffers, a few   *)
(* bytes each way.  The cfg files choose the stale-value assumptions.     *)
(***************************************************************************)
EXTENDS Session

MCSizeModulus == 16

=============================================================================
