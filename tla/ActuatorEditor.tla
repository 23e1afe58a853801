--------------------------- MODULE ActuatorEditor ---------------------------
(* The actuator mapping of a node (NodeConfigPage.jsx): rows that are       *)
(* created, deleted and saved one request at a time, and a detection that   *)
(* creates a row for every output that the node publishes.                  *)
CONSTANTS Keys, NoKey    \* bare output names of the firmware

KeyAssumption == NoKey \notin Keys

VARIABLES
  stored,      \* mappings of the Module Service, one for a key
  rows,        \* the table: what a row shows, and of which mapping it is
  handler,     \* the handler that makes the buttons busy
  detection,   \* the window of detection, or its handler
  deleted      \* history, see the property

actuatorVars == <<stored, rows, handler, detection, deleted>>

Row == [of : Keys, key : Keys]
Work(Kinds) ==
  [kind : Kinds, todo : SUBSET Keys, read : SUBSET Keys, del : Keys \cup {NoKey}]
Idle == [kind |-> "no", todo |-> {}, read |-> {}, del |-> NoKey]

TypeOK ==
  /\ stored \subseteq Keys /\ deleted \subseteq Keys /\ rows \subseteq Row
  /\ handler \in Work({"no", "post", "delete", "get"})
  /\ detection \in Work({"no", "window", "post", "get"})

Init ==
  /\ stored \in SUBSET Keys
  /\ rows = {} /\ deleted = {} /\ detection = Idle
  /\ handler = [Idle EXCEPT !.kind = "get", !.read = stored]

-----------------------------------------------------------------------------
(* The buttons. *)

Free == handler.kind = "no"

\* The key is made a bare name before it is sent.
HandleCreate(k) ==
  /\ Free
  /\ handler' = [Idle EXCEPT !.kind = "post", !.todo = {k}]
  /\ deleted' = deleted \ {k}
  /\ UNCHANGED <<stored, rows, detection>>

HandleDelete(r) ==
  /\ Free
  /\ handler' = [Idle EXCEPT !.kind = "delete", !.del = r.of]
  /\ UNCHANGED <<stored, rows, detection, deleted>>

\* All rows as they are now; the service creates or updates by key.
HandleSave ==
  /\ Free /\ rows # {}
  /\ handler' = [Idle EXCEPT !.kind = "post", !.todo = {r.key : r \in rows}]
  /\ UNCHANGED <<stored, rows, detection, deleted>>

HandleUpdate(r, k) ==
  /\ rows' = (rows \ {r}) \cup {[r EXCEPT !.key = k]}
  /\ deleted' = deleted \ {k}
  /\ UNCHANGED <<stored, handler, detection>>

-----------------------------------------------------------------------------
(* Their requests. *)

\* A work that has posted k goes on, or asks for the list at last.
Posted(w, k, db) ==
  IF w.todo = {k} THEN [Idle EXCEPT !.kind = "get", !.read = db]
  ELSE [w EXCEPT !.todo = @ \ {k}]

PostOk(k) ==
  /\ handler.kind = "post" /\ k \in handler.todo
  /\ stored' = stored \cup {k}
  /\ handler' = Posted(handler, k, stored')
  /\ UNCHANGED <<rows, detection, deleted>>

DeleteOk ==
  /\ handler.kind = "delete"
  /\ stored' = stored \ {handler.del}
  /\ handler' = [handler EXCEPT !.kind = "get", !.read = stored']
  /\ UNCHANGED <<rows, detection, deleted>>

\* Mutant: the rows that come are added to those that are there.
ShowMore(read, del) ==
  /\ rows' = rows \cup {[of |-> k, key |-> k] : k \in read}
  /\ deleted' = (deleted \cup ({del} \ {NoKey})) \ (read \cup stored)

\* Shown again, a mapping does not count as deleted any more.
Show(read, del) ==
  /\ rows' = {[of |-> k, key |-> k] : k \in read}
  /\ deleted' = (deleted \cup ({del} \ {NoKey})) \ (read \cup stored)

ListArrives ==
  /\ handler.kind = "get"
  /\ Show(handler.read, handler.del)
  /\ handler' = Idle
  /\ UNCHANGED <<stored, detection>>

\* The first failure ends the work with a message; the table stays.
HandlerFails ==
  /\ ~Free
  /\ stored' \in {stored, stored \ {handler.del}}
  /\ handler' = Idle
  /\ UNCHANGED <<rows, detection, deleted>>

-----------------------------------------------------------------------------
(* Detection, whatever the handlers do. *)

HandleDetectOutputs ==
  /\ detection = Idle
  /\ detection' = [Idle EXCEPT !.kind = "window"]
  /\ UNCHANGED <<stored, rows, handler, deleted>>

\* After five seconds, or at an error of the socket, without an output.
WindowEnds(outputs) ==
  /\ detection.kind = "window"
  /\ detection' = (IF outputs = {} THEN Idle
                   ELSE [Idle EXCEPT !.kind = "post", !.todo = outputs])
  /\ UNCHANGED <<stored, rows, handler, deleted>>

\* A failure is passed over.
DetectionPosts(k) ==
  /\ detection.kind = "post" /\ k \in detection.todo
  /\ stored' \in {stored \cup {k}, stored}
  /\ detection' = Posted(detection, k, stored')
  /\ deleted' = deleted \ {k}
  /\ UNCHANGED <<rows, handler>>

DetectionLists ==
  /\ detection.kind = "get"
  /\ Show(detection.read, NoKey)
  /\ detection' = Idle
  /\ UNCHANGED <<stored, handler>>

DetectionListFails ==
  /\ detection.kind = "get"
  /\ detection' = Idle
  /\ UNCHANGED <<stored, rows, handler, deleted>>

-----------------------------------------------------------------------------
Next ==
  \/ HandleSave \/ DeleteOk \/ ListArrives \/ HandlerFails
  \/ HandleDetectOutputs \/ DetectionLists \/ DetectionListFails
  \/ \E k \in Keys : HandleCreate(k) \/ PostOk(k) \/ DetectionPosts(k)
  \/ \E outputs \in SUBSET Keys : WindowEnds(outputs)
  \/ \E r \in rows : HandleDelete(r) \/ \E k \in Keys : HandleUpdate(r, k)

Spec == Init /\ [][Next]_actuatorVars

-----------------------------------------------------------------------------
(* Properties. *)

\* A mapping that was deleted without an error does not come back, unless
\* it is typed, detected or shown again (NodeConfigPage.jsx, actBusy).
DeletedStaysDeleted == deleted \cap stored = {}

\* What makes it inductive: nothing that a handler is about to send, or the
\* table shows, is deleted.
NothingRestored ==
  /\ DeletedStaysDeleted
  /\ handler.todo \cap deleted = {} /\ \A r \in rows : r.key \notin deleted

ActuatorInv == TypeOK /\ NothingRestored
=============================================================================
