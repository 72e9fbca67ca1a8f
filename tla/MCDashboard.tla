----------------------------- MODULE MCDashboard ----------------------------
(***************************************************************************)
(* One downstream with its two buttons, and a chart of one point.           *)
(***************************************************************************)
EXTENDS Dashboard

CONSTANTS payment
=============================================================================
