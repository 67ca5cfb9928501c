----------------------------- MODULE MCDispatch -----------------------------
(***************************************************************************)
(* Small instances of Dispatch, without transfer alerts.                   *)
(***************************************************************************)
EXTENDS Dispatch, TLC

CONSTANTS alice

Order == <<"high-cpu", "high-disk", "service-down", alice>>
=============================================================================
