------------------------------ MODULE LiveView ------------------------------
(* The live page of the dashboard: a stream on a card with its buttons,    *)
(* the form and the question that create, change and delete it, and the    *)
(* loads of the list.  The stream is absent, idle or recording.  A card    *)
(* lives from one load of the list to the next: the answer to what it      *)
(* asked for before reaches no one.                                        *)
EXTENDS Naturals

CONSTANTS Loads      \* bound: loads of the list in flight

VARIABLES
  card, loading,            \* the list: what the card shows
  form, deleting, busy,     \* the form, the question, a save under way
  loads, command, save,     \* in flight: loads, a card's request, a save
  stream,                   \* the Stream Service
  unsure                    \* history, see the properties

dialog == <<form, deleting, busy>>
liveVars == <<card, loading, dialog, loads, command, save, stream, unsure>>

States == {"absent", "idle", "recording"}
Quiet == [at |-> "idle", got |-> "absent", stale |-> FALSE, last |-> FALSE]
NoCommand == [at |-> "idle", op |-> "capture", mounted |-> FALSE]
NoSave == [at |-> "idle", op |-> "create"]

LoadType ==
  [at : {"idle", "sent", "read"}, got : States, stale : BOOLEAN, last : BOOLEAN]
CommandType ==
  [at : {"idle", "sent", "done", "refused"}, op : {"capture", "start", "stop"},
   mounted : BOOLEAN]
SaveType == [at : {"idle", "sent", "done"}, op : {"create", "edit", "remove"}]

TypeOK ==
  /\ card \in States /\ stream \in States
  /\ loading \in BOOLEAN /\ busy \in BOOLEAN /\ unsure \in BOOLEAN
  /\ form \in {"none", "create", "edit"} /\ deleting \in BOOLEAN
  /\ loads \in [Loads -> LoadType]
  /\ command \in CommandType /\ save \in SaveType

Init ==
  /\ card = "absent" /\ loading = FALSE
  /\ form = "none" /\ deleting = FALSE /\ busy = FALSE
  /\ loads = [k \in Loads |-> Quiet]
  /\ command = NoCommand /\ save = NoSave
  /\ stream \in States
  /\ unsure = TRUE

-----------------------------------------------------------------------------
(* The list. *)

\* A load puts a spinner in the place of the cards.
StartLoad(last) ==
  /\ \E k \in Loads :
       /\ loads[k] = Quiet
       /\ loads' = [loads EXCEPT ![k] = [Quiet EXCEPT !.at = "sent", !.last = last]]
  /\ loading' = TRUE
  /\ command' = [command EXCEPT !.mounted = FALSE]

\* The page opens, another module is selected, or the button is pressed.
Load ==
  /\ StartLoad(FALSE)
  /\ UNCHANGED <<card, dialog, save, stream, unsure>>

ListRead(k) ==
  /\ loads[k].at = "sent"
  /\ loads' = [loads EXCEPT ![k].at = "read", ![k].got = stream]
  /\ UNCHANGED <<card, loading, dialog, command, save, stream, unsure>>

\* The last load of a save ends the save; any load ends the spinner.
LoadEnds(k) ==
  /\ loads' = [loads EXCEPT ![k] = Quiet]
  /\ loading' = FALSE
  /\ busy' = (busy /\ ~loads[k].last)
  /\ command' = [command EXCEPT !.mounted = FALSE]
  /\ UNCHANGED <<form, deleting, save, stream>>

ListArrives(k) ==
  /\ loads[k].at = "read"
  /\ LoadEnds(k)
  /\ card' = loads[k].got
  /\ unsure' = loads[k].stale

ListFails(k) ==
  /\ loads[k].at # "idle"
  /\ LoadEnds(k)
  /\ card' = "absent"
  /\ unsure' = TRUE

-----------------------------------------------------------------------------
(* The card. *)

CardShown == ~loading /\ card # "absent"

\* A picture, or the record button: what it asks for depends on the card.
PressCard(op) ==
  /\ CardShown
  /\ ~(command.at # "idle" /\ command.mounted)
  /\ command.at = "idle"     \* bound: one request of a card in flight
  /\ op \in {"capture", IF card = "recording" THEN "stop" ELSE "start"}
  /\ command' = [at |-> "sent", op |-> op, mounted |-> TRUE]
  /\ UNCHANGED <<card, loading, dialog, loads, save, stream, unsure>>

\* Lists that were read before a change are stale.
Becomes(s) ==
  /\ stream' = s
  /\ loads' = IF s = stream THEN loads
              ELSE [k \in Loads |->
                      [loads[k] EXCEPT !.stale = @ \/ loads[k].at = "read"]]

After(op) ==
  CASE op = "start" /\ stream = "idle" -> "recording"
    [] op = "stop" /\ stream = "recording" -> "idle"
    [] OTHER -> stream

\* The service records, stops or takes a picture, or refuses.
CommandHandled ==
  /\ command.at = "sent"
  /\ \/ /\ command.op = "capture" \/ After(command.op) # stream
        /\ command' = [command EXCEPT !.at = "done"]
        /\ Becomes(After(command.op))
        /\ unsure' = (unsure \/ (stream' # stream /\ ~command.mounted))
     \/ /\ command' = [command EXCEPT !.at = "refused"]
        /\ UNCHANGED <<stream, loads, unsure>>
  /\ UNCHANGED <<card, loading, dialog, save>>

\* Mutant: the card does not follow its record button.
CommandOkUnseen ==
  /\ command.at = "done"
  /\ command' = NoCommand
  /\ UNCHANGED <<card, loading, dialog, loads, save, stream, unsure>>

CommandOk ==
  /\ command.at = "done"
  /\ command' = NoCommand
  /\ card' = (IF ~command.mounted \/ command.op = "capture" THEN card
              ELSE IF command.op = "start" THEN "recording" ELSE "idle")
  /\ UNCHANGED <<loading, dialog, loads, save, stream, unsure>>

\* An error, or the answer is lost: the card goes back to its start button.
CommandFails ==
  /\ command.at # "idle"
  /\ command' = NoCommand
  /\ IF command.mounted /\ command.op # "capture"
     THEN card' = "idle" /\ unsure' = TRUE
     ELSE UNCHANGED card /\ unsure' = (unsure \/ command.op # "capture")
  /\ UNCHANGED <<loading, dialog, loads, save, stream>>

-----------------------------------------------------------------------------
(* The form and the question. *)

OpenForm(f) ==
  /\ form' = f
  /\ (f = "edit") => CardShown
  /\ UNCHANGED <<card, loading, deleting, busy, loads, command, save, stream,
                 unsure>>

OpenDelete ==
  /\ CardShown
  /\ deleting' = TRUE
  /\ UNCHANGED <<card, loading, form, busy, loads, command, save, stream,
                 unsure>>

\* Cancel works while a save is under way.
CloseDialog ==
  /\ form' = "none" /\ deleting' = FALSE
  /\ UNCHANGED <<card, loading, busy, loads, command, save, stream, unsure>>

Submit ==
  /\ ~busy
  /\ save' \in [at : {"sent"},
                op : (IF form = "none" THEN {} ELSE {form})
                       \cup (IF deleting THEN {"remove"} ELSE {})]
  /\ busy' = TRUE
  /\ UNCHANGED <<card, loading, form, deleting, loads, command, stream, unsure>>

Saved(op) ==
  CASE op = "create" /\ stream = "absent" -> "idle"
    [] op = "remove" -> "absent"
    [] OTHER -> stream

SaveHandled ==
  /\ save.at = "sent"
  /\ save' = [save EXCEPT !.at = "done"]
  /\ Becomes(Saved(save.op))
  /\ UNCHANGED <<card, loading, dialog, command, unsure>>

\* The form closes, whichever is open by now, and the list is loaded.
SaveOk ==
  /\ save.at = "done"
  /\ save' = NoSave
  /\ IF save.op = "remove" THEN deleting' = FALSE /\ form' = form
                           ELSE form' = "none" /\ deleting' = deleting
  /\ StartLoad(TRUE)
  /\ UNCHANGED <<card, busy, stream, unsure>>

SaveFails ==
  /\ save.at # "idle"
  /\ save' = NoSave
  /\ busy' = FALSE
  /\ unsure' = TRUE
  /\ UNCHANGED <<card, loading, form, deleting, loads, command, stream>>

\* Another operator, or the service after its restart.
StreamChanges ==
  /\ \E s \in States \ {stream} : Becomes(s)
  /\ unsure' = TRUE
  /\ UNCHANGED <<card, loading, dialog, command, save>>

-----------------------------------------------------------------------------
Next ==
  \/ Load \/ (\E k \in Loads : ListRead(k) \/ ListArrives(k) \/ ListFails(k))
  \/ \E op \in {"capture", "start", "stop"} : PressCard(op)
  \/ CommandHandled \/ CommandOk \/ CommandFails
  \/ \E f \in {"create", "edit"} : OpenForm(f)
  \/ OpenDelete \/ CloseDialog \/ Submit
  \/ SaveHandled \/ SaveOk \/ SaveFails
  \/ StreamChanges

Spec == Init /\ [][Next]_liveVars

-----------------------------------------------------------------------------
(* Properties. *)

\* A card tells the truth about its stream, and its button offers what can
\* be done, unless the list was read before the last change, an answer was
\* lost or refused, or someone else made the change (LiveView.jsx,
\* handleRecord, load).
CardIsTrue ==
  (~loading /\ command.at = "idle" /\ save.at = "idle" /\ ~unsure)
     => card = stream

\* What makes it inductive: a list that is not stale is the truth, a save and
\* its last load make the page busy until they end, and a record button that
\* was obeyed has made the stream what its card will show.
FreshLists ==
  \A k \in Loads : (loads[k].at = "read" /\ ~loads[k].stale)
                     => loads[k].got = stream

OneSave ==
  /\ save.at # "idle" => busy /\ \A k \in Loads : ~loads[k].last
  /\ \A k \in Loads : loads[k].last =>
                         busy /\ \A j \in Loads : loads[j].last => j = k

Obeyed == command.at = "done" /\ command.mounted /\ command.op # "capture"
CardWillBeTrue ==
  (~loading /\ save.at # "done" /\ ~unsure) =>
     IF Obeyed
     THEN stream = (IF command.op = "start" THEN "recording" ELSE "idle")
     ELSE card = stream

LiveInv == TypeOK /\ FreshLists /\ OneSave /\ CardWillBeTrue
=============================================================================
