-------------------------- MODULE DashboardSession --------------------------
(* The session of the dashboard in one browser tab: the tokens in          *)
(* sessionStorage, the requests of api/client.js with their one refresh    *)
(* and one retry, sign-in and logout of api/auth.js, the state App.jsx     *)
(* keeps about the user, and the profile page that also writes the user.   *)
(*                                                                         *)
(* A token pair is the number under which the Auth service issued it; 0 is *)
(* no token.  The service is the sets of pairs whose access token it       *)
(* refuses (1..expired: all live equally long) and whose refresh token it  *)
(* refuses (revoked).                                                      *)
EXTENDS Naturals

CONSTANTS
  Pages,     \* requests that mounted pages make, each again and again
  MaxPairs,  \* bound: token pairs the service issues
  MaxLoads   \* bound: loads of the page

ASSUME SessionAssumption ==
  /\ MaxPairs \in Nat \ {0}
  /\ MaxLoads \in Nat \ {0}
  /\ Pages \cap {"me", "profile", "password", "logout", "login"} = {}

VARIABLES
  access, refresh, saved,     \* sessionStorage: token, refresh_token, user
  user, view, validating,     \* App.jsx
  call,                       \* the requests in flight
  refreshing, granted,        \* refreshInFlight: token presented, pair issued
  logoutTimer,                \* the timer that a password change leaves
  loads,                      \* loads of the page so far
  issued, expired, revoked,     \* the Auth service
  presented, late             \* history, see the properties

storage == <<access, refresh, saved>>
app == <<user, view, validating>>
wire == <<call, refreshing, granted>>
service == <<issued, expired, revoked>>
vars == <<storage, app, wire, logoutTimer, loads, service, presented, late>>

Calls == Pages \cup {"me", "profile", "password", "logout", "login"}
Pairs == 1..MaxPairs
Token == 0..MaxPairs
Idle == [at |-> "idle", tok |-> 0, retry |-> FALSE]
\* Mutant: a request that does not know whether it is a retry.
SentWithoutRetry(token, again) == [at |-> "sent", tok |-> token]

Sent(token, again) == [at |-> "sent", tok |-> token, retry |-> again]
Waiting == {c \in Calls : call[c].at = "waiting"}

TypeOK ==
  /\ access \in Token /\ refresh \in Token /\ saved \in BOOLEAN
  /\ user \in BOOLEAN /\ validating \in BOOLEAN
  /\ view \in {"landing", "dashboard"}
  /\ call \in [Calls -> [at : {"idle", "posting", "sent", "waiting"},
                         tok : Token, retry : BOOLEAN]]
  /\ refreshing \in Token /\ granted \in Token
  /\ logoutTimer \in BOOLEAN /\ late \in BOOLEAN
  /\ loads \in 1..MaxLoads
  /\ issued \in Token /\ expired \in Token /\ revoked \subseteq Pairs
  /\ presented \subseteq Pairs

\* The page loads, with a session left in the storage or without one.  A
\* stored user starts the validation, whose effect asks /auth/me.
Init ==
  /\ saved \in BOOLEAN
  /\ access = (IF saved THEN 1 ELSE 0)
  /\ refresh = access
  /\ issued = access
  /\ expired \in 0..issued
  /\ revoked \in SUBSET (1..issued)
  /\ user = saved
  /\ validating = saved
  /\ view \in IF saved THEN {"landing", "dashboard"} ELSE {"landing"}
  /\ call = [c \in Calls |->
               IF c = "me" /\ saved THEN Sent(access, FALSE) ELSE Idle]
  /\ refreshing = 0
  /\ granted = 0
  /\ logoutTimer = FALSE
  /\ loads = 1
  /\ presented = {}
  /\ late = FALSE

-----------------------------------------------------------------------------
(* Effects that several handlers share. *)

\* Mutant: a sign-out that leaves the refresh token in the storage.
SignOutHalf ==
  /\ access' = 0 /\ saved' = FALSE
  /\ user' = FALSE /\ view' = "landing" /\ validating' = FALSE
  /\ UNCHANGED refresh

\* clearSession with the state that App resets next to it.
SignOut ==
  /\ access' = 0 /\ refresh' = 0 /\ saved' = FALSE
  /\ user' = FALSE /\ view' = "landing" /\ validating' = FALSE

\* Mutant: a logout that the service does not confirm changes nothing.
ThrowLikeAnyOther(c) ==
  /\ call' = [call EXCEPT ![c] = Idle]
  /\ validating' = (validating /\ c # "me")
  /\ UNCHANGED <<storage, user, view, late>>

\* Request c ends in an error.  Boot validation takes any outcome; logout
\* ends the local session whatever the service says.
Throw(c) ==
  /\ call' = [call EXCEPT ![c] = Idle]
  /\ IF c = "logout"
     THEN SignOut /\ late' = (refreshing # 0)
     ELSE /\ validating' = (validating /\ c # "me")
          /\ UNCHANGED <<storage, user, view, late>>

\* Mutant: a failed refresh that tells nobody who waits for it.
RefreshFailsSilently ==
  /\ SignOut
  /\ refreshing' = 0 /\ granted' = 0 /\ late' = FALSE
  /\ UNCHANGED call

\* A refresh that fails, for whatever reason, ends the session; everyone who
\* waited for it gets the 401.
RefreshFails ==
  /\ SignOut
  /\ call' = [c \in Calls |-> IF c \in Waiting THEN Idle ELSE call[c]]
  /\ refreshing' = 0
  /\ granted' = 0
  /\ late' = FALSE

-----------------------------------------------------------------------------
(* What the user and the pages start. *)

Start(c) == call' = [call EXCEPT ![c] = Sent(access, FALSE)]

Shown == view = "dashboard" /\ user /\ ~validating

\* A mounted page asks for something; the profile page loads or saves the
\* profile, or changes the password.
PageRequest(c) ==
  /\ Shown
  /\ c \in Pages \cup {"profile", "password"}
  /\ call[c] = Idle
  /\ Start(c)
  /\ UNCHANGED <<storage, app, refreshing, granted, logoutTimer, loads,
                 service, presented, late>>

PressLogout ==
  /\ user /\ ~validating
  /\ call["logout"] = Idle
  /\ Start("logout")
  /\ UNCHANGED <<storage, app, refreshing, granted, logoutTimer, loads,
                 service, presented, late>>

\* 1.8 s after a changed password the profile page logs out, whoever is
\* signed in by then.
TimerLogsOut ==
  /\ logoutTimer
  /\ call["logout"] = Idle
  /\ logoutTimer' = FALSE
  /\ Start("logout")
  /\ UNCHANGED <<storage, app, refreshing, granted, loads, service,
                 presented, late>>

SubmitLogin ==
  /\ ~user /\ ~validating
  /\ call["login"] = Idle
  /\ call' = [call EXCEPT !["login"] = [Idle EXCEPT !.at = "posting"]]
  /\ UNCHANGED <<storage, app, refreshing, granted, logoutTimer, loads,
                 service, presented, late>>

\* Back and forward: the address decides, with the stored user.  The
\* configurator and the documentation, which ask for nothing, count as landing.
PopState ==
  /\ \/ view = "landing" /\ saved /\ view' = "dashboard"
     \/ view = "dashboard" /\ view' = "landing"
  /\ UNCHANGED <<storage, user, validating, wire, logoutTimer, loads, service,
                 presented, late>>

\* The Dashboard button of the landing page, and the dashboard's exit.
SwitchView ==
  /\ user /\ ~validating
  /\ view' = (IF view = "dashboard" THEN "landing" ELSE "dashboard")
  /\ UNCHANGED <<storage, user, validating, wire, logoutTimer, loads,
                 service, presented, late>>

\* The tab is reloaded: scripts, timers and requests end, the storage stays.
Reload ==
  /\ loads < MaxLoads
  /\ loads' = loads + 1
  /\ user' = saved
  /\ validating' = saved
  /\ view' = (IF view = "dashboard" /\ saved THEN "dashboard" ELSE "landing")
  /\ call' = [c \in Calls |->
                IF c = "me" /\ saved THEN Sent(access, FALSE) ELSE Idle]
  /\ refreshing' = 0
  /\ granted' = 0
  /\ logoutTimer' = FALSE
  /\ presented' = {}
  /\ late' = FALSE
  /\ UNCHANGED <<storage, service>>

-----------------------------------------------------------------------------
(* Answers. *)

\* The credentials are accepted: the pair is stored and /auth/me is asked.
LoginAccepted ==
  /\ call["login"].at = "posting"
  /\ issued < MaxPairs
  /\ issued' = issued + 1
  /\ access' = issued'
  /\ refresh' = issued'
  /\ call' = [call EXCEPT !["login"] = Sent(issued', FALSE)]
  /\ UNCHANGED <<saved, app, refreshing, granted, logoutTimer, loads,
                 expired, revoked, presented, late>>

LoginRefused ==
  /\ call["login"].at = "posting"
  /\ call' = [call EXCEPT !["login"] = Idle]
  /\ UNCHANGED <<storage, app, refreshing, granted, logoutTimer, loads,
                 service, presented, late>>

\* The service accepts the token that request c carried.
Accepted(c) ==
  /\ call[c].at = "sent"
  /\ call[c].tok > expired

AnswerOk(c) ==
  /\ Accepted(c)
  /\ c # "logout"
  /\ call' = [call EXCEPT ![c] = Idle]
  /\ saved' = (saved \/ c \in {"profile", "login"})
  /\ user' = (user \/ c = "login")
  /\ view' = (IF c = "login" THEN "dashboard" ELSE view)
  /\ validating' = (validating /\ c \notin {"me", "login"})
  /\ logoutTimer' = (logoutTimer \/ c = "password")
  /\ revoked' = (IF c = "password" THEN 1..issued ELSE revoked)
  /\ UNCHANGED <<access, refresh, refreshing, granted, loads, issued,
                 expired, presented, late>>

\* The service has handled the logout; its answer is still on its way.
ServiceLogsOut ==
  /\ Accepted("logout")
  /\ revoked' = 1..issued
  /\ UNCHANGED <<storage, app, wire, logoutTimer, loads, issued, expired,
                 presented, late>>

LogoutAnswered ==
  /\ Accepted("logout")
  /\ revoked = 1..issued
  /\ Throw("logout")
  /\ UNCHANGED <<refreshing, granted, logoutTimer, loads, service,
                 presented>>

\* No answer, a 5xx, or any refusal but a 401.
AnswerError(c) ==
  /\ call[c].at = "sent"
  /\ Throw(c)
  /\ UNCHANGED <<refreshing, granted, logoutTimer, loads, service,
                 presented>>

Refused(c) ==
  /\ call[c].at = "sent"
  /\ call[c].tok <= expired

\* A 401 on the retry is final.
SecondUnauthorized(c) ==
  /\ Refused(c)
  /\ call[c].retry
  /\ Throw(c)
  /\ UNCHANGED <<refreshing, granted, logoutTimer, loads, service,
                 presented>>

\* A first 401 waits for the refresh in flight, or starts one.
JoinRefresh(c) ==
  /\ Refused(c)
  /\ ~call[c].retry
  /\ refreshing # 0 \/ refresh # 0
  /\ call' = [call EXCEPT ![c].at = "waiting"]
  /\ IF refreshing = 0
     THEN /\ refreshing' = refresh
          /\ presented' = presented \cup {refresh}
     ELSE UNCHANGED <<refreshing, presented>>
  /\ UNCHANGED <<storage, app, granted, logoutTimer, loads, service, late>>

\* Without a stored refresh token the refresh fails at once.
NothingToRefresh(c) ==
  /\ Refused(c)
  /\ ~call[c].retry
  /\ refreshing = 0 /\ refresh = 0
  /\ SignOut
  /\ call' = [call EXCEPT ![c] = Idle]
  /\ late' = FALSE
  /\ UNCHANGED <<refreshing, granted, logoutTimer, loads, service,
                 presented>>

-----------------------------------------------------------------------------
(* The refresh. *)

\* The service rotates: the presented token is revoked, a new pair issued.
ServiceRotates ==
  /\ refreshing \in Pairs \ revoked
  /\ granted = 0
  /\ issued < MaxPairs
  /\ issued' = issued + 1
  /\ revoked' = revoked \cup {refreshing}
  /\ granted' = issued'
  /\ UNCHANGED <<storage, app, call, refreshing, logoutTimer, loads, expired,
                 presented, late>>

\* Mutant: of the new pair only the access token is stored.
AccessStored ==
  /\ granted # 0
  /\ access' = granted
  /\ refreshing' = 0 /\ granted' = 0 /\ late' = FALSE
  /\ call' = [c \in Calls |->
                IF c \in Waiting THEN Sent(granted, TRUE) ELSE call[c]]
  /\ UNCHANGED <<refresh, saved, app, logoutTimer, loads, service, presented>>

\* The new pair arrives and is stored; everyone who waited asks again.
RefreshStored ==
  /\ granted # 0
  /\ access' = granted
  /\ refresh' = granted
  /\ refreshing' = 0
  /\ granted' = 0
  /\ call' = [c \in Calls |->
                IF c \in Waiting THEN Sent(granted, TRUE) ELSE call[c]]
  /\ late' = FALSE
  /\ UNCHANGED <<saved, app, logoutTimer, loads, service, presented>>

RefreshRefused ==
  /\ refreshing \in revoked
  /\ granted = 0
  /\ RefreshFails
  /\ UNCHANGED <<logoutTimer, loads, service, presented>>

\* The network or the service fails the refresh, before or after it rotated.
RefreshLost ==
  /\ refreshing # 0
  /\ RefreshFails
  /\ UNCHANGED <<logoutTimer, loads, service, presented>>

-----------------------------------------------------------------------------
(* The service on its own. *)

Expire ==
  /\ expired < issued
  /\ expired' = expired + 1
  /\ UNCHANGED <<storage, app, wire, logoutTimer, loads, issued, revoked,
                 presented, late>>

-----------------------------------------------------------------------------
Answer(c) ==
  \/ AnswerOk(c)
  \/ AnswerError(c)
  \/ SecondUnauthorized(c)
  \/ JoinRefresh(c)
  \/ NothingToRefresh(c)

RefreshEnds == RefreshStored \/ RefreshRefused \/ RefreshLost

Next ==
  \/ \E c \in Calls : PageRequest(c) \/ Answer(c)
  \/ PressLogout \/ TimerLogsOut \/ ServiceLogsOut \/ LogoutAnswered
  \/ SubmitLogin \/ LoginAccepted \/ LoginRefused
  \/ PopState \/ SwitchView \/ Reload
  \/ ServiceRotates \/ RefreshEnds
  \/ Expire

\* A browser ends every request sooner or later, with an answer or an
\* error; the properties need it of the logout and of the refresh.
Fairness ==
  /\ WF_vars(Answer("logout") \/ LogoutAnswered)
  /\ WF_vars(RefreshEnds)

Spec == Init /\ [][Next]_vars
FairSpec == Spec /\ Fairness

-----------------------------------------------------------------------------
(* Properties. *)

\* Within one page load no refresh token is presented twice: the service
\* rotates it, so a second presentation would end a live session
\* (client.js, refreshInFlight).
RefreshTokenOnce ==
  [][(refreshing = 0 /\ refreshing' # 0) => refreshing' \notin presented]_vars

\* Once the tokens are gone they come back only with a new sign-in, or with
\* a refresh that was under way when they were removed (client.js,
\* clearSession; auth.js, registerRefresh).
SignedOutStaysOut ==
  [][(access = 0 /\ access' # 0) => (late \/ LoginAccepted)]_vars

\* Nobody waits for a refresh that is not under way: a request that was
\* refused can neither hang nor miss the answer (client.js,
\* refreshAccessToken, refreshInFlight).
WaitersHaveRefresh == Waiting # {} => refreshing # 0

\* A logout ends the session in the tab whatever the service answers, or
\* does not, once the page is reloaded no more (App.jsx, handleLogout).
LogoutEndsSession ==
  (call["logout"].at # "idle" /\ loads = MaxLoads) ~> ~user
=============================================================================
