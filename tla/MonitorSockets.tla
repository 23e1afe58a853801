--------------------------- MODULE MonitorSockets ---------------------------
(* The live sockets of the monitor page, for one node: the effect that     *)
(* opens a socket for every listed node, its cleanup, the one reconnect    *)
(* after a loss, and the status and messages the page shows.               *)
(*                                                                         *)
(* A socket is a place of Sockets.  A place stays taken until the close    *)
(* event of its socket has been handled; the page may hold another by then. *)
EXTENDS Naturals, FiniteSets

CONSTANTS
  Sockets,    \* bound: sockets that exist at a time
  NoSocket,
  MaxTimers   \* bound: timers of each kind that are pending

SocketsAssumption == NoSocket \notin Sockets /\ MaxTimers \in Nat

VARIABLES
  listed,     \* the node is in the page's list
  current,    \* socketsRef.current[id]
  socket,
  status,     \* telemetry[id].status
  retries,    \* reconnect timers of first sockets
  notices     \* timers of their successors, which only set the status

socketVars == <<listed, current, socket, status, retries, notices>>

Free == [at |-> "free", first |-> TRUE]
Fresh(isFirst) == [at |-> "connecting", first |-> isFirst]
Live == {s \in Sockets : socket[s].at \in {"connecting", "open"}}

SocketType ==
  [at : {"free", "connecting", "open", "aborted", "closing", "lost", "ended"},
   first : BOOLEAN]

TypeOK ==
  /\ listed \in BOOLEAN /\ current \in Sockets \cup {NoSocket}
  /\ socket \in [Sockets -> SocketType]
  /\ status \in {"none", "connecting", "open", "closed", "reconnecting"}
  /\ retries \in 0..MaxTimers /\ notices \in 0..MaxTimers

Init ==
  /\ listed = FALSE
  /\ current = NoSocket
  /\ socket = [s \in Sockets |-> Free]
  /\ status = "none"
  /\ retries = 0
  /\ notices = 0

\* close() of the page: the close event of a live socket is still to come.
CloseOf(sock) ==
  CASE sock.at = "connecting" -> [sock EXCEPT !.at = "aborted"]
    [] sock.at = "open" -> [sock EXCEPT !.at = "closing"]
    [] OTHER -> Free

\* Mutant: the socket that is replaced is not closed.
CloseNothing == socket

CloseCurrent ==
  [s \in Sockets |-> IF s = current THEN CloseOf(socket[s]) ELSE socket[s]]

\* The current socket is closed and a new one takes its place.
Replace(isFirst) ==
  \E s \in Sockets :
    /\ CloseCurrent[s] = Free
    /\ socket' = [CloseCurrent EXCEPT ![s] = Fresh(isFirst)]
    /\ current' = s

-----------------------------------------------------------------------------
\* A list of nodes arrives, after a reload or a change of module: cleanup
\* closes every socket, then the effect opens those of the new list.
ListWithNode ==
  /\ Cardinality({s \in Sockets : socket[s] = Free}) > 1
  /\ listed' = TRUE
  /\ Replace(TRUE)
  /\ status' = "connecting"
  /\ UNCHANGED <<retries, notices>>

ListWithoutNode ==
  /\ listed
  /\ listed' = FALSE
  /\ socket' = CloseCurrent
  /\ current' = NoSocket
  /\ UNCHANGED <<status, retries, notices>>

Opened(s) ==
  /\ socket[s].at = "connecting"
  /\ socket' = [socket EXCEPT ![s].at = "open"]
  /\ status' = "open"
  /\ UNCHANGED <<listed, current, retries, notices>>

Message(s) ==
  /\ socket[s].at = "open"
  /\ status' = "open"
  /\ UNCHANGED <<listed, current, socket, retries, notices>>

\* onclose; after an unclean close a first socket sets its reconnect timer,
\* a later one the timer that only changes the status.
Closed(s, clean) ==
  /\ status' = "closed"
  /\ retries' = retries + (IF clean \/ ~socket[s].first THEN 0 ELSE 1)
  /\ notices' = notices + (IF clean \/ socket[s].first THEN 0 ELSE 1)
  /\ retries' <= MaxTimers /\ notices' <= MaxTimers
  /\ UNCHANGED <<listed, current>>

\* The network or the gateway ends a live socket.
Dropped(s, clean) ==
  /\ s \in Live
  /\ socket' = [socket EXCEPT ![s].at = IF clean THEN "ended" ELSE "lost"]
  /\ Closed(s, clean)

\* The close event of a socket that the page closed; before it was open, or
\* when the handshake fails, the event says unclean.
CloseEvent(s, clean) ==
  /\ socket[s].at = "closing" \/ (socket[s].at = "aborted" /\ ~clean)
  /\ socket' = [socket EXCEPT ![s] = Free]
  /\ Closed(s, clean)

\* Mutant: a retry that opens no socket.
RetryForgets ==
  /\ retries > 0
  /\ retries' = retries - 1
  /\ UNCHANGED <<listed, current, socket, status, notices>>

\* Three to five seconds after the loss: whatever socket the node has by
\* now is replaced.
RetryFires ==
  /\ retries > 0
  /\ retries' = retries - 1
  /\ IF listed THEN Replace(FALSE) ELSE UNCHANGED <<socket, current>>
  /\ UNCHANGED <<listed, status, notices>>

\* The reconnected socket was lost too: nothing reconnects it.
NoticeFires ==
  /\ notices > 0
  /\ notices' = notices - 1
  /\ status' = (IF listed THEN "reconnecting" ELSE status)
  /\ UNCHANGED <<listed, current, socket, retries>>

-----------------------------------------------------------------------------
Next ==
  \/ ListWithNode \/ ListWithoutNode
  \/ RetryFires \/ NoticeFires
  \/ \E s \in Sockets :
       \/ Opened(s) \/ Message(s)
       \/ \E clean \in BOOLEAN : Dropped(s, clean) \/ CloseEvent(s, clean)

\* Timers fire, close events are delivered.
Timers == RetryFires \/ NoticeFires
CloseEvents == \E s \in Sockets, clean \in BOOLEAN : CloseEvent(s, clean)

Spec == Init /\ [][Next]_socketVars
SocketFairness == WF_socketVars(Timers) /\ WF_socketVars(CloseEvents)

-----------------------------------------------------------------------------
(* Properties. *)

\* A node never has two live sockets, so no message is shown twice and none
\* of a node that left the list (Monitor.jsx, the cleanup and the reconnect).
OneLiveSocket == Live \subseteq {current}

\* OneLiveSocket with what makes it inductive: the types of the sockets.
Sound == socket \in [Sockets -> SocketType] /\ OneLiveSocket

\* A node whose first socket is lost gets another one, or leaves the list,
\* however reloads and late close events interleave (Monitor.jsx, onclose).
LossReconnects ==
  (\E s \in Sockets : current = s /\ socket[s] = [at |-> "lost", first |-> TRUE])
    ~> (current = NoSocket \/ current \in Live)
=============================================================================
