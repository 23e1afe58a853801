----------------------------- MODULE NodePortal -----------------------------
(* The configuration page that a node serves (data/script.js) and the node *)
(* behind it: signing in, a form with a password that the node never sends *)
(* back, a list of rows edited by index, the saves that restart the node,  *)
(* and the page waiting for the restart.                                   *)
(*                                                                         *)
(* All password fields work alike, and so do the lists of one kind: the    *)
(* page follows one field and one list.  The node answers requests one at  *)
(* a time, each in one step; of its configuration, which it keeps in       *)
(* memory and in flash, the model follows that password.                   *)
EXTENDS Naturals, Sequences, SequencesExt

CONSTANTS
  Slots,        \* bound: requests in flight
  MaxRow,       \* bound: rows are 1..MaxRow
  MaxLogins,    \* bound: tokens that the node hands out
  NotSent       \* a form without its password

PortalAssumption ==
  /\ MaxRow \in Nat /\ MaxRow >= 2 /\ MaxLogins \in Nat
  /\ NotSent \notin {"old", "new", "blank"}

VARIABLES
  token,                  \* localStorage; 0: signed out
  field, dirty,           \* the password field, pwDirty
  list, rows, editing,    \* which list this is; the index of the open row
  overlay, net,           \* waiting for a restart; requests in flight
  devToken, ram, flash, up,     \* the node
  typed, opened, moved    \* history, see the properties

form == <<field, dirty>>
table == <<list, rows, editing>>
screen == <<token, form, table, overlay>>
node == <<devToken, ram, flash, up>>
portalVars == <<screen, net, node, typed, opened, moved>>

Passwords == {"old", "new", "blank"}    \* "blank": the empty one
RowLists == UNION {[1..n -> 1..MaxRow] : n \in 0..MaxRow}
Saves == {"form", "rows", "account", "import", "update"}
Ops == Saves \cup {"login", "config", "list", "ask"}
Quiet == [at |-> "idle", op |-> "ask", tok |-> 0, pass |-> NotSent]

RequestType ==
  [at : {"idle", "sent", "ok", "error", "unauthorized"}, op : Ops,
   tok : 0..MaxLogins, pass : Passwords \cup {NotSent}]

TypeOK ==
  /\ token \in 0..MaxLogins /\ devToken \in 0..MaxLogins
  /\ field \in Passwords /\ dirty \in BOOLEAN
  /\ list \in {"hardware", "rules"} /\ rows \in RowLists
  /\ editing \in 0..MaxRow /\ opened \in 0..MaxRow
  /\ overlay \in {"none", "reboot", "import"} /\ up \in BOOLEAN
  /\ net \in [Slots -> RequestType]
  /\ ram \in Passwords /\ flash \in Passwords
  /\ typed \subseteq Passwords /\ moved \in BOOLEAN

Init ==
  /\ token = 0 /\ field = "blank" /\ dirty = FALSE
  /\ list \in {"hardware", "rules"} /\ rows = <<>> /\ editing = 0
  /\ overlay = "none" /\ net = [s \in Slots |-> Quiet]
  /\ devToken = 0 /\ up = TRUE
  /\ flash = "old" /\ ram = "old"
  /\ typed = {} /\ opened = 0 /\ moved = FALSE

-----------------------------------------------------------------------------
(* What the user does. *)

Usable == token # 0 /\ overlay = "none"

TypePassword(p) ==
  /\ Usable
  /\ field' = p /\ dirty' = TRUE
  /\ typed' = typed \cup {p}
  /\ UNCHANGED <<token, table, overlay, net, node, opened, moved>>

Open(i) == editing' = i /\ opened' = (IF i = 0 THEN 0 ELSE rows'[i]) /\ moved' = FALSE

\* Edit closes the row that was open; Done is EditRow(0).
EditRow(i) ==
  /\ Usable
  /\ rows' = rows
  /\ Open(i)
  /\ UNCHANGED <<token, form, list, overlay, net, node, typed>>

\* Mutant: the index of the open row stays when a row before it goes.
RemoveRowOnly(i) ==
  /\ Usable
  /\ rows' = RemoveAt(rows, i)
  /\ editing' = (IF editing = i THEN 0 ELSE editing)
  /\ opened' = (IF editing = i THEN 0 ELSE opened)
  /\ UNCHANGED <<token, form, list, overlay, net, node, typed, moved>>

\* The open row keeps its place when a row before it goes.
RemoveRow(i) ==
  /\ Usable
  /\ rows' = RemoveAt(rows, i)
  /\ editing' = (IF editing = i THEN 0
                 ELSE IF editing > i THEN editing - 1 ELSE editing)
  /\ opened' = (IF editing = i THEN 0 ELSE opened)
  /\ UNCHANGED <<token, form, list, overlay, net, node, typed, moved>>

AddRow ==
  /\ Usable
  /\ \E r \in 1..MaxRow \ ToSet(rows) : rows' = Append(rows, r)
  /\ Open(Len(rows'))
  /\ UNCHANGED <<token, form, list, overlay, net, node, typed>>

Request(op) == [Quiet EXCEPT !.at = "sent", !.op = op, !.tok = token]

Send(request) ==
  /\ \E s \in Slots : net[s] = Quiet /\ net' = [net EXCEPT ![s] = request]
  /\ UNCHANGED <<screen, node, typed, opened, moved>>

SubmitLogin == token = 0 /\ overlay = "none" /\ Send(Request("login"))

\* A password goes with its form only if its field was touched.
SaveForm ==
  /\ Usable
  /\ Send([Request("form") EXCEPT !.pass = IF dirty THEN field ELSE NotSent])

SaveRows == Usable /\ Send(Request("rows"))

SaveAccount == Usable /\ Send(Request("account"))

ImportConfig ==
  /\ Usable
  /\ \E p \in {"old", "blank"} : Send([Request("import") EXCEPT !.pass = p])

StartOtaUpdate == Usable /\ Send(Request("update"))

LoadLocalControl == Usable /\ list = "rules" /\ Send(Request("list"))

\* The status every 3 s, discovery, the scans, the export.
LoadStatus == Usable /\ Send(Request("ask"))

-----------------------------------------------------------------------------
(* The node. *)

Stored(password, r) ==
  IF r.op = "form" /\ r.pass # NotSent THEN r.pass ELSE password

Reply(s, answer) == net' = [net EXCEPT ![s].at = answer]

\* A save changes the memory, writes the flash and restarts; if the flash
\* cannot be written the memory stays changed.  An import writes the flash
\* only, with the token of its file, an update the firmware only.
HandleSave(s) ==
  LET r == net[s] IN
  /\ r.op \in Saves
  /\ ram' = Stored(ram, r)
  /\ devToken' \in IF r.op = "account" THEN {0}
                   ELSE IF r.op = "import" THEN {0, devToken} ELSE {devToken}
  /\ \/ /\ Reply(s, "ok")
        /\ flash' = (IF r.op = "update" THEN flash
                     ELSE IF r.op = "import" THEN r.pass
                     ELSE ram')
        /\ up' = FALSE
     \/ Reply(s, "error") /\ UNCHANGED <<flash, up>>

\* Signing in makes a token, ends the one before and writes the flash.
HandleLogin(s) ==
  /\ net[s].op = "login"
  /\ \/ /\ devToken < MaxLogins /\ devToken' = devToken + 1
        /\ flash' = ram
        /\ net' = [net EXCEPT ![s].at = "ok", ![s].tok = devToken']
     \/ Reply(s, "unauthorized") /\ UNCHANGED <<devToken, flash>>
  /\ UNCHANGED <<ram, up>>

HandleRead(s) ==
  /\ net[s].op \in {"config", "list", "ask"}
  /\ Reply(s, "ok")
  /\ UNCHANGED node

Handle(s) ==
  /\ up /\ net[s].at = "sent"
  /\ IF net[s].op # "login" /\ (net[s].tok # devToken \/ devToken = 0)
     THEN Reply(s, "unauthorized") /\ UNCHANGED node
     ELSE HandleSave(s) \/ HandleLogin(s) \/ HandleRead(s)
  /\ UNCHANGED <<screen, typed, opened, moved>>

Boot ==
  /\ ~up /\ up' = TRUE
  /\ ram' = flash
  /\ UNCHANGED <<devToken, flash, screen, net, typed, opened, moved>>

\* Someone else signs in on another browser.
OtherLogin ==
  /\ up /\ devToken # 0 /\ devToken < MaxLogins
  /\ devToken' = devToken + 1 /\ flash' = ram
  /\ UNCHANGED <<ram, up, screen, net, typed, opened, moved>>

-----------------------------------------------------------------------------
(* Answers. *)

Ended(s) == net' = [net EXCEPT ![s] = Quiet]
Ok(s, op) == net[s].at = "ok" /\ net[s].op = op

\* The rows that the node has, or that another browser has saved.
Received == {<<1, 2>>, <<2>>}

\* loadFullConfig: empty password fields, and rows from the node.  The rows
\* of the hardware are all closed; the index of an open rule stays.
ConfigArrives(s) ==
  /\ Ok(s, "config")
  /\ Ended(s)
  /\ field' = "blank" /\ dirty' = FALSE
  /\ rows' \in Received
  /\ IF list = "hardware" THEN editing' = 0 /\ opened' = 0 /\ moved' = FALSE
     ELSE moved' = (editing # 0) /\ UNCHANGED <<editing, opened>>
  /\ UNCHANGED <<token, list, overlay, node, typed>>

ListArrives(s) ==
  /\ Ok(s, "list")
  /\ Ended(s)
  /\ rows' \in Received
  /\ Open(0)
  /\ UNCHANGED <<token, form, list, overlay, node, typed>>

\* The token is kept, and the page loads the configuration.
LoginArrives(s) ==
  /\ Ok(s, "login")
  /\ token' = net[s].tok
  /\ net' = [net EXCEPT ![s] = [Request("config") EXCEPT !.tok = token']]
  /\ UNCHANGED <<form, table, overlay, node, typed, opened, moved>>

\* The restart begins; after a new account the page signs out first.
SaveArrives(s) ==
  /\ net[s].at = "ok" /\ net[s].op \in Saves
  /\ Ended(s)
  /\ overlay' = (IF net[s].op = "import" \/ overlay = "import" THEN "import" ELSE "reboot")
  /\ token' = (IF net[s].op = "account" THEN 0 ELSE token)
  /\ UNCHANGED <<form, table, node, typed, opened, moved>>

AskArrives(s) ==
  /\ Ok(s, "ask")
  /\ Ended(s)
  /\ UNCHANGED <<screen, node, typed, opened, moved>>

\* Every failing request shows a message; a 401 signs the page out.
Fails(s) ==
  /\ \/ net[s].at \in {"sent", "ok", "error"} /\ token' = token   \* or lost
     \/ net[s].at = "unauthorized" /\ token' = 0
  /\ Ended(s)
  /\ UNCHANGED <<form, table, overlay, node, typed, opened, moved>>

\* window.location.reload, or the user's: the page starts over with the
\* token it has stored.
Restart ==
  /\ field' = "blank" /\ dirty' = FALSE
  /\ rows' = <<>> /\ editing' = 0 /\ opened' = 0 /\ moved' = FALSE
  /\ overlay' = "none"
  /\ \E s \in Slots :
       net' = [k \in Slots |->
                 IF k = s /\ token # 0 THEN Request("config") ELSE Quiet]
  /\ UNCHANGED <<token, list, node, typed>>

\* A ping that the node accepts ends the wait.
PingAnswered ==
  /\ overlay = "reboot"
  /\ up /\ token # 0 /\ token = devToken
  /\ Restart

-----------------------------------------------------------------------------
User ==
  \/ \E p \in {"new", "blank"} : TypePassword(p)
  \/ \E i \in 0..Len(rows) : EditRow(i)
  \/ \E i \in DOMAIN rows : RemoveRow(i)
  \/ AddRow
  \/ SubmitLogin \/ LoadStatus \/ LoadLocalControl
  \/ SaveForm \/ SaveRows \/ SaveAccount \/ ImportConfig \/ StartOtaUpdate

Answer(s) ==
  \/ ConfigArrives(s) \/ ListArrives(s) \/ LoginArrives(s)
  \/ SaveArrives(s) \/ AskArrives(s) \/ Fails(s)

Next ==
  \/ User
  \/ \E s \in Slots : Handle(s) \/ Answer(s)
  \/ Boot \/ OtherLogin
  \/ PingAnswered \/ Restart

Spec == Init /\ [][Next]_portalVars

-----------------------------------------------------------------------------
(* Properties. *)

\* The node's password changes only to something that the user typed into
\* the field, or with an imported file: saving a form does not blank it, nor
\* does a save that fails and is written later (script.js:4-6).
PasswordKept ==
  flash' # flash =>
    \/ flash' \in typed
    \/ \E s \in Slots : net[s].op = "import" /\ Handle(s)

\* The row in the editor is the one that the user opened, whatever rows have
\* been removed since (drawInputs, drawOutputs, drawModbus); the rules lose
\* it when loadFullConfig replaces them.
EditedRowIsOpened ==
  (editing # 0 /\ ~moved) => editing \in DOMAIN rows /\ rows[editing] = opened

\* What makes the two inductive, with the types: no row is in the list twice,
\* the passwords on their way are typed ones or those of a file, and the
\* running node has the stored password or one that was typed.
ScreenSound ==
  /\ token \in 0..MaxLogins /\ field \in Passwords /\ dirty \in BOOLEAN
  /\ overlay \in {"none", "reboot", "import"}
  /\ typed \subseteq Passwords /\ (dirty => field \in typed)

TableSound ==
  /\ list \in {"hardware", "rules"} /\ rows \in RowLists
  /\ \A i, j \in DOMAIN rows : rows[i] = rows[j] => i = j
  /\ editing \in 0..MaxRow /\ opened \in 0..MaxRow /\ moved \in BOOLEAN
  /\ EditedRowIsOpened

SentPass(r) ==
  /\ r.op = "form" => r.pass \in typed \cup {NotSent}
  /\ r.op = "import" => r.pass \in Passwords
NetSound == net \in [Slots -> RequestType] /\ \A s \in Slots : SentPass(net[s])

NodeSound ==
  /\ devToken \in 0..MaxLogins /\ up \in BOOLEAN
  /\ ram \in Passwords /\ flash \in Passwords
  /\ up => ram \in typed \cup {flash}

PortalInv == ScreenSound /\ TableSound /\ NetSound /\ NodeSound
=============================================================================
