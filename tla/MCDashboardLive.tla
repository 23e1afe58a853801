-------------------------- MODULE MCDashboardLive --------------------------
(* The session without requests of pages, which its own requests already   *)
(* stand for, and three sockets, so that one is free while two close.      *)
EXTENDS DashboardLive

MCPages == {}
=============================================================================
