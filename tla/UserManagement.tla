--------------------------- MODULE UserManagement ---------------------------
(* The page of the accounts (UserManagement.jsx): a list that is loaded     *)
(* again after each command, an editor of one account, and one "busy" mark  *)
(* for all rows.  The Auth Service keeps the accounts, and other            *)
(* administrators change them too.                                          *)
EXTENDS Naturals, FiniteSets

CONSTANTS
  Users,    \* identifiers of accounts
  Roles,    \* names of roles
  Slots,    \* bound: handlers of the page that run at a time
  NoUser, NewUser    \* no row busy, the form of a new account busy

UsersAssumption == {NoUser, NewUser} \cap Users = {} /\ NoUser # NewUser

VARIABLES
  account,    \* the accounts of the Auth Service
  users,      \* the list of the page
  editing,    \* the editor: of which account, and what it shows
  showAddForm,
  busyId, loading,
  handler,    \* the handlers of the page that have not ended
  may         \* history: what a save of the editor may change

editor == <<editing, may>>
usersVars ==
  <<account, users, editor, showAddForm, busyId, loading, handler>>

Account == [on : BOOLEAN, roles : SUBSET Roles]
Accounts == UNION {[S -> Account] : S \in SUBSET Users}
Fields == {"on", "roles"}
NoAccounts == [u \in {} |-> [on |-> FALSE, roles |-> {}]]
Blank == [on |-> FALSE, roles |-> {}]

\* A handler: its command, and how far it is.
Idle == [kind |-> "none", step |-> "none", id |-> NoUser, fields |-> {},
         form |-> Blank, may |-> {}, read |-> NoAccounts]

HandlerType ==
  [kind : {"none", "load", "reload", "save", "toggle", "remove", "add"},
   step : {"none", "sent", "list", "read"},
   id : Users \cup {NoUser}, fields : SUBSET Fields, form : Account,
   may : SUBSET Fields, read : Accounts]

TypeOK ==
  /\ account \in Accounts /\ users \in Accounts
  /\ editing \in [id : Users \cup {NoUser}, form : Account]
  /\ may \subseteq Fields
  /\ showAddForm \in BOOLEAN /\ loading \in BOOLEAN
  /\ busyId \in Users \cup {NoUser, NewUser}
  /\ handler \in [Slots -> HandlerType]

Closed == [id |-> NoUser, form |-> Blank]

Init ==
  /\ account \in [Users -> Account]
  /\ users = NoAccounts
  /\ editing = Closed /\ may = {}
  /\ showAddForm = FALSE /\ busyId = NoUser /\ loading = TRUE
  /\ \E s \in Slots :
       handler = [t \in Slots |->
         IF t = s THEN [Idle EXCEPT !.kind = "load", !.step = "list"] ELSE Idle]

-----------------------------------------------------------------------------
(* The buttons.  The table is hidden while a load shows, the editor and the *)
(* form of a new account are not.                                           *)

InTable(u) == ~loading /\ u \in DOMAIN users /\ busyId # u

OpenEditor(u) ==
  /\ InTable(u)
  /\ editing' = [id |-> u, form |-> users[u]] /\ may' = {}
  /\ UNCHANGED <<account, users, showAddForm, busyId, loading, handler>>

ToggleRole(r) ==
  /\ editing.id # NoUser
  /\ editing' = [editing EXCEPT !.form.roles =
                   IF r \in @ THEN @ \ {r} ELSE @ \cup {r}]
  /\ may' = may \cup {"roles"}
  /\ UNCHANGED <<account, users, showAddForm, busyId, loading, handler>>

TickActive ==
  /\ editing.id # NoUser
  /\ editing' = [editing EXCEPT !.form.on = ~@]
  /\ may' = may \cup {"on"}
  /\ UNCHANGED <<account, users, showAddForm, busyId, loading, handler>>

CloseEditor ==
  /\ editing.id # NoUser
  /\ editing' = Closed /\ may' = {}
  /\ UNCHANGED <<account, users, showAddForm, busyId, loading, handler>>

ShowAddForm(open) ==
  /\ showAddForm # open
  /\ showAddForm' = open
  /\ UNCHANGED <<account, users, editor, busyId, loading, handler>>

Begin(h, busy) ==
  /\ \E s \in Slots :
       /\ handler[s] = Idle
       /\ handler' = [handler EXCEPT ![s] = h]
  /\ busyId' = busy

\* Mutant: the editor sends all it shows.
Everything == Fields

\* What the editor shows differently from the list as it is now.
Changes == {f \in Fields : editing.form[f] # users[editing.id][f]}

SaveEditor ==
  /\ editing.id \in DOMAIN users /\ busyId # editing.id
  /\ Changes # {}
  /\ Begin([Idle EXCEPT !.kind = "save", !.step = "sent", !.id = editing.id,
              !.fields = Changes, !.form = editing.form, !.may = may],
           editing.id)
  /\ UNCHANGED <<account, users, editor, showAddForm, loading>>

SaveNothing ==
  /\ editing.id \in DOMAIN users /\ busyId # editing.id
  /\ Changes = {}
  /\ editing' = Closed /\ may' = {}
  /\ UNCHANGED <<account, users, showAddForm, busyId, loading, handler>>

ToggleActive(u) ==
  /\ InTable(u)
  /\ Begin([Idle EXCEPT !.kind = "toggle", !.step = "sent", !.id = u,
              !.fields = {"on"}, !.form = [users[u] EXCEPT !.on = ~@],
              !.may = {"on"}], u)
  /\ UNCHANGED <<account, users, editor, showAddForm, loading>>

Remove(u) ==
  /\ InTable(u)
  /\ Begin([Idle EXCEPT !.kind = "remove", !.step = "sent", !.id = u], u)
  /\ UNCHANGED <<account, users, editor, showAddForm, loading>>

HandleAddUser ==
  /\ showAddForm /\ busyId # NewUser
  /\ Begin([Idle EXCEPT !.kind = "add", !.step = "sent"], NewUser)
  /\ UNCHANGED <<account, users, editor, showAddForm, loading>>

-----------------------------------------------------------------------------
(* The Auth Service.  Nothing of the page tells the moment at which the    *)
(* service does a command from the one at which its answer arrives.        *)

\* An empty list of roles changes no role.
Updated(a, h) ==
  [on    |-> IF "on" \in h.fields THEN h.form.on ELSE a.on,
   roles |-> IF "roles" \in h.fields /\ h.form.roles # {}
             THEN h.form.roles ELSE a.roles]

AdminUpdateUser(h) ==
  /\ h.kind \in {"save", "toggle"} /\ h.id \in DOMAIN account
  /\ account' = [account EXCEPT ![h.id] = Updated(@, h)]

Without(u) == [v \in DOMAIN account \ {u} |-> account[v]]

AdminDeleteUser(h) ==
  /\ h.kind = "remove" /\ h.id \in DOMAIN account
  /\ account' = Without(h.id)

\* The service takes no role from the form: the new account gets its default.
Register(h) ==
  /\ h.kind = "add"
  /\ \E u \in Users \ DOMAIN account, r \in SUBSET Roles :
       account' = [v \in DOMAIN account \cup {u} |->
                     IF v = u THEN [on |-> TRUE, roles |-> r] ELSE account[v]]

Served(s) ==
  /\ handler[s].step = "sent"
  /\ \/ AdminUpdateUser(handler[s])
     \/ AdminDeleteUser(handler[s])
     \/ Register(handler[s])

OtherAdministrator(u) ==
  /\ u \in DOMAIN account
  /\ \/ \E a \in Account : account' = [account EXCEPT ![u] = a]
     \/ account' = Without(u)
  /\ UNCHANGED <<users, editor, showAddForm, busyId, loading, handler>>

-----------------------------------------------------------------------------
(* The answers. *)

\* The editor or the form closes, whatever it shows by now; the list is read.
CommandOk(s) ==
  /\ Served(s)
  /\ IF handler[s].kind = "save" THEN editing' = Closed /\ may' = {}
     ELSE UNCHANGED editor
  /\ showAddForm' = (showAddForm /\ handler[s].kind # "add")
  /\ loading' = TRUE
  /\ handler' = [handler EXCEPT ![s] = [Idle EXCEPT !.kind = "reload",
                                                  !.step = "list"]]
  /\ UNCHANGED <<users, busyId>>

\* Refused (self, last administrator, unknown account), or the answer lost;
\* or the roles were set and the rest failed.
CommandFails(s) ==
  /\ handler[s].step = "sent"
  /\ \/ Served(s)
     \/ AdminUpdateUser([handler[s] EXCEPT !.fields = @ \ {"on"}])
     \/ UNCHANGED account
  /\ handler' = [handler EXCEPT ![s] = Idle]
  /\ busyId' = NoUser
  /\ UNCHANGED <<users, editor, showAddForm, loading>>

AdminListUsers(s) ==
  /\ handler[s].step = "list"
  /\ handler' = [handler EXCEPT ![s].step = "read", ![s].read = account]
  /\ UNCHANGED <<account, users, editor, showAddForm, busyId, loading>>

EndLoad(s) ==
  /\ loading' = FALSE
  /\ busyId' = IF handler[s].kind = "load" THEN busyId ELSE NoUser
  /\ handler' = [handler EXCEPT ![s] = Idle]

\* A save compares the editor with the new list from now on.
ListArrives(s) ==
  /\ handler[s].step = "read"
  /\ users' = handler[s].read
  /\ may' = IF editing.id = NoUser THEN {} ELSE Fields
  /\ EndLoad(s)
  /\ UNCHANGED <<account, editing, showAddForm>>

ListFails(s) ==
  /\ handler[s].step \in {"list", "read"}
  /\ EndLoad(s)
  /\ UNCHANGED <<account, users, editor, showAddForm>>

-----------------------------------------------------------------------------
Next ==
  \/ TickActive \/ CloseEditor \/ SaveEditor \/ SaveNothing \/ HandleAddUser
  \/ \E r \in Roles : ToggleRole(r)
  \/ \E open \in BOOLEAN : ShowAddForm(open)
  \/ \E u \in Users :
       OpenEditor(u) \/ ToggleActive(u) \/ Remove(u) \/ OtherAdministrator(u)
  \/ \E s \in Slots :
       \/ CommandOk(s) \/ CommandFails(s)
       \/ AdminListUsers(s) \/ ListArrives(s) \/ ListFails(s)

Spec == Init /\ [][Next]_usersVars

-----------------------------------------------------------------------------
(* Properties. *)

\* A command changes of an account no more than what the operator changed in
\* the editor, unless the list was loaded again while the editor was open:
\* what another administrator changes in the meantime stays
\* (UserManagement.jsx, saveEditor sends the differences).
SaveKeepsTheRest ==
  \A s \in Slots :
    LET h == handler[s] IN
    (Served(s) /\ h.kind \in {"save", "toggle"} /\ handler'[s] # h) =>
      \A f \in Fields \ h.may : account'[h.id][f] = account[h.id][f]

\* What makes it true: the editor differs from the list only in what the
\* operator changed, and so does what a save has sent.
EditsAreKnown ==
  editing.id \in DOMAIN users =>
    \A f \in Fields \ may : editing.form[f] = users[editing.id][f]
SentIsKnown == \A s \in Slots : handler[s].fields \subseteq handler[s].may
UsersInv == TypeOK /\ EditsAreKnown /\ SentIsKnown
=============================================================================
