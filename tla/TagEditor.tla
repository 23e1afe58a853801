----------------------------- MODULE TagEditor -----------------------------
(* The telemetry mapping of a node (NodeConfigPage.jsx): a table of rows   *)
(* that the operator edits and saves as a whole, and the Module Service    *)
(* that replaces the stored rows by what it is sent.                       *)
EXTENDS Naturals, Sequences, FiniteSets, SequencesExt

CONSTANTS
  Keys,       \* telemetry keys of the node
  MaxRows,    \* bound: rows of the table
  MaxIds      \* bound: identifiers that the service gives

EditorAssumption ==
  IsFiniteSet(Keys) /\ MaxRows \in Nat /\ MaxIds \in Nat \ {0}

NoId == 0     \* a row that was never stored

VARIABLES
  stored, nextId,    \* rows of the Module Service, the next identifier
  tags,              \* the table
  mount,             \* the first load: under way, and what it has read
  save, sent,        \* the handler of the save button; the rows of its PUT
                     \* that the service has not stored yet
  detecting,         \* the window of detection is open
  owed, late         \* history, see the property

table == <<tags, owed, late>>
editorVars ==
  <<stored, nextId, table, mount, save, sent, detecting>>

Row == [id : NoId..MaxIds, key : Keys]
IdsOf(rows) == {r.id : r \in rows} \ {NoId}

TypeOK ==
  /\ stored \subseteq Row /\ nextId \in 1..MaxIds + 1
  /\ tags \in Seq(Row) /\ sent \in Seq(Row)
  /\ mount \in [going : BOOLEAN, read : SUBSET Row]
  /\ save \in {"no", "put", "rows", "get"}
  /\ detecting \in BOOLEAN
  /\ owed \subseteq 1..MaxIds /\ late \in BOOLEAN

Init ==
  /\ \E k \in Keys : stored = {[id |-> 1, key |-> k]}
  /\ nextId = 2
  /\ tags = <<>> /\ owed = {} /\ late = FALSE
  /\ mount = [going |-> TRUE, read |-> stored]
  /\ save = "no" /\ sent = <<>>
  /\ detecting = FALSE

-----------------------------------------------------------------------------
(* The table. *)

Show(rows) ==
  /\ tags' = SetToSeq(rows)
  /\ owed' = owed \cup IdsOf(rows)

\* The first load, which may end after a save has begun.
MountLoaded ==
  /\ mount.going
  /\ mount' = [mount EXCEPT !.going = FALSE]
  /\ Show(mount.read)
  /\ UNCHANGED <<stored, nextId, late, save, sent, detecting>>

MountFails ==
  /\ mount.going
  /\ mount' = [mount EXCEPT !.going = FALSE]
  /\ UNCHANGED <<stored, nextId, table, save, sent, detecting>>

HandleAdd(k) ==
  /\ Len(tags) < MaxRows
  /\ tags' = Append(tags, [id |-> NoId, key |-> k])
  /\ UNCHANGED <<stored, nextId, owed, late, mount, save, sent, detecting>>

HandleUpdate(i, k) ==
  /\ tags' = [tags EXCEPT ![i].key = k]
  /\ UNCHANGED <<stored, nextId, owed, late, mount, save, sent, detecting>>

HandleRemove(i) ==
  /\ tags' = RemoveAt(tags, i)
  /\ owed' = owed \ {tags[i].id}
  /\ UNCHANGED <<stored, nextId, late, mount, save, sent, detecting>>

-----------------------------------------------------------------------------
(* Saving. *)

\* Not even the first load has to be over.
PressSave ==
  /\ save = "no"
  /\ save' = "put" /\ sent' = tags
  /\ late' = (late \/ mount.going)
  /\ UNCHANGED <<stored, nextId, tags, owed, mount, detecting>>

\* Mutant: every row goes before the new ones come.
NoneKept == {}

\* Of the stored rows, those whose identifier the request has.
Kept == {r \in stored : r.id \in IdsOf(ToSet(sent))}

\* The service first deletes the rows that the request lacks.
SaveDeletes ==
  /\ save = "put"
  /\ stored' = Kept
  /\ save' = "rows"
  /\ UNCHANGED <<nextId, table, mount, sent, detecting>>

\* A row with a known identifier or key stays the row it is, another one is
\* stored, with a new identifier if it has none.
Upsert(t) ==
  IF \E r \in stored : r.id = t.id \/ r.key = t.key THEN UNCHANGED <<stored, nextId>>
  ELSE IF t.id # NoId THEN stored' = stored \cup {t} /\ UNCHANGED nextId
  ELSE /\ nextId <= MaxIds
       /\ stored' = stored \cup {[t EXCEPT !.id = nextId]}
       /\ nextId' = nextId + 1

\* Then it stores the rows of the request, a statement for each.
SaveStores ==
  /\ save = "rows" /\ sent # <<>>
  /\ Upsert(Head(sent))
  /\ sent' = Tail(sent)
  /\ UNCHANGED <<table, mount, save, detecting>>

SaveOk ==
  /\ save = "rows" /\ sent = <<>>
  /\ save' = "get"
  /\ UNCHANGED <<stored, nextId, table, mount, sent, detecting>>

\* An error of the service, after none or some of its statements.
SaveFails ==
  /\ save \in {"put", "rows"}
  /\ save' = "no" /\ sent' = <<>>
  /\ UNCHANGED <<stored, nextId, table, mount, detecting>>

\* The table is what is stored; edits made since the press are gone.
Reloaded ==
  /\ save = "get"
  /\ Show(stored)
  /\ save' = "no" /\ sent' = <<>>
  /\ UNCHANGED <<stored, nextId, late, mount, detecting>>

ReloadFails ==
  /\ save = "get"
  /\ save' = "no" /\ sent' = <<>>
  /\ UNCHANGED <<stored, nextId, table, mount, detecting>>

-----------------------------------------------------------------------------
(* Detection of keys, for five seconds, on a socket of its own. *)

HandleDetect ==
  /\ ~detecting
  /\ detecting' = TRUE
  /\ UNCHANGED <<stored, nextId, table, mount, save, sent>>

\* Of the keys that the payloads had, those that no row has are added.
DetectEnds ==
  /\ detecting
  /\ \E new \in SUBSET (Keys \ {t.key : t \in ToSet(tags)}) :
       /\ Len(tags) + Cardinality(new) <= MaxRows
       /\ tags' = tags \o SetToSeq({[id |-> NoId, key |-> k] : k \in new})
  /\ detecting' = FALSE
  /\ UNCHANGED <<stored, nextId, owed, late, mount, save, sent>>

DetectFails ==
  /\ detecting
  /\ detecting' = FALSE
  /\ UNCHANGED <<stored, nextId, table, mount, save, sent>>

-----------------------------------------------------------------------------
\* Another operator saves the mapping too.
OtherRemoves(r) ==
  /\ stored' = stored \ {r}
  /\ UNCHANGED <<nextId, table, mount, save, sent, detecting>>

OtherAdds(k) ==
  /\ \A r \in stored : r.key # k
  /\ nextId <= MaxIds
  /\ stored' = stored \cup {[id |-> nextId, key |-> k]}
  /\ nextId' = nextId + 1
  /\ UNCHANGED <<table, mount, save, sent, detecting>>

Next ==
  \/ MountLoaded \/ MountFails
  \/ PressSave \/ SaveDeletes \/ SaveStores \/ SaveOk \/ SaveFails
  \/ Reloaded \/ ReloadFails
  \/ HandleDetect \/ DetectEnds \/ DetectFails
  \/ \E k \in Keys : HandleAdd(k) \/ OtherAdds(k)
  \/ \E i \in DOMAIN tags :
       HandleRemove(i) \/ \E k \in Keys : HandleUpdate(i, k)
  \/ \E r \in stored : OtherRemoves(r)

Spec == Init /\ [][Next]_editorVars

-----------------------------------------------------------------------------
(* Properties. *)

\* No statement of a save deletes a mapping that the table has shown and from
\* which the operator has not removed it, unless the save was pressed before
\* the first load was over (NodeConfigPage.jsx, handleSave).
SaveDeletesTheRemoved ==
  (save \in {"put", "rows"} /\ <<save, sent>>' # <<save, sent>> /\ ~late) =>
    \A id \in owed \cap IdsOf(stored) : id \in IdsOf(stored')

\* What makes it inductive: identifiers are given once, ...
IdsKnown ==
  /\ \A set \in {stored, mount.read, ToSet(tags), ToSet(sent)} :
       IdsOf(set) \subseteq 1..nextId - 1
  /\ owed \subseteq 1..nextId - 1
  /\ IsFiniteSet(stored) /\ IsFiniteSet(mount.read)

\* ... what is stored and not removed is in the table, ...
InTable == owed \cap IdsOf(stored) \subseteq IdsOf(ToSet(tags))

\* ... nothing was shown and nothing is being saved before the first load is
\* over, ...
MountFirst == (mount.going /\ ~late) => owed = {} /\ save = "no"

\* ... and a save sends what is to stay, which stays in the table until it is
\* removed there.
SentStays ==
  ~late => /\ save = "put" => owed \cap IdsOf(stored) \subseteq IdsOf(ToSet(sent))
           /\ owed \cap IdsOf(ToSet(sent)) \subseteq IdsOf(ToSet(tags))

EditorInv == TypeOK /\ IdsKnown /\ (late \/ InTable) /\ MountFirst /\ SentStays
=============================================================================
