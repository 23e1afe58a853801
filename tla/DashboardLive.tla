--------------------------- MODULE DashboardLive ----------------------------
(* The two parts of the dashboard that must get somewhere: the session of   *)
(* the tab and the live sockets of the monitor page.  The sockets carry no  *)
(* token and the session knows of no socket, so a behaviour is that of one  *)
(* of them, and the other stays in its first state.                         *)
EXTENDS DashboardSession, FiniteSets

CONSTANTS Sockets, NoSocket, MaxTimers    \* those of MonitorSockets

VARIABLES
  part,    \* the part whose behaviour this is
  listed, current, socket, status, retries, notices    \* MonitorSockets

Monitor == INSTANCE MonitorSockets

ASSUME LiveAssumption == Monitor!SocketsAssumption

sockets == <<listed, current, socket, status, retries, notices>>
liveVars == <<part, vars, sockets>>

LiveInit ==
  /\ Init /\ Monitor!Init
  /\ part = "session" \/ (part = "sockets" /\ ~saved)

LiveNext ==
  /\ \/ part = "session" /\ Next /\ UNCHANGED sockets
     \/ part = "sockets" /\ Monitor!Next /\ UNCHANGED vars
  /\ part' = part

LiveSpec ==
  LiveInit /\ [][LiveNext]_liveVars /\ Fairness /\ Monitor!SocketFairness

-----------------------------------------------------------------------------
(* Properties of MonitorSockets; what they say is written there. *)

\* A node has no second live socket.
OneLiveSocket == Monitor!OneLiveSocket

\* A lost socket is replaced, or the node leaves the list.
LossReconnects == Monitor!LossReconnects
=============================================================================
