------------------------------ MODULE MCPoller ------------------------------
(***************************************************************************)
(* Small instances of Poller: one client of the manifest.                  *)
(***************************************************************************)
EXTENDS Poller, TLC

CONSTANTS alice

Order == <<"high-cpu", "high-disk", "service-down", alice>>
=============================================================================
