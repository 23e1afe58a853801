------------------------- MODULE DashboardLiveProofs ------------------------
(* Theorems about the session of the dashboard, which know nothing of the  *)
(* sockets, and about the sockets and the two together.                    *)
EXTENDS DashboardLive, TLAPS

-----------------------------------------------------------------------------
(* The invariant: with the types,                                          *)
(*  - a pair in the tab was issued, and both tokens are there or none is,  *)
(*  - nobody waits without a refresh, and only a refresh has a pair on its *)
(*    way,                                                                 *)
(*  - a refresh token that was presented is not the next one: it is gone   *)
(*    or the refresh is still under way,                                   *)
(*  - a refresh without tokens in the tab began before they went.          *)

CallType ==
  [at : {"idle", "posting", "sent", "waiting"}, tok : Token, retry : BOOLEAN]

PairsIssued ==
  /\ access = 0 <=> refresh = 0
  /\ refresh <= issued /\ granted <= issued /\ refreshing <= issued
  /\ \A p \in presented : p <= issued

OneRefresh ==
  /\ WaitersHaveRefresh
  /\ granted # 0 => refreshing # 0 /\ granted \notin presented

NotPresentedAgain ==
  (refreshing = 0 /\ refresh # 0) => refresh \notin presented

LateRefresh == (refreshing # 0 /\ access = 0) => late

Session ==
  /\ TypeOK
  /\ PairsIssued /\ OneRefresh /\ NotPresentedAgain /\ LateRefresh

\* The requests of the tab and what they become.
LEMMA CallShapes ==
  /\ Idle \in CallType
  /\ [Idle EXCEPT !.at = "posting"] \in CallType
  /\ \A t \in Token, again \in BOOLEAN : Sent(t, again) \in CallType
  /\ \A c \in CallType : [c EXCEPT !.at = "waiting"] \in CallType
  <1>1. 0 \in Token
    BY SessionAssumption DEF Token
  <1>2. Idle \in CallType /\ [Idle EXCEPT !.at = "posting"] \in CallType
    BY <1>1 DEF Idle, CallType
  <1>3. \A t \in Token, again \in BOOLEAN : Sent(t, again) \in CallType
    BY DEF Sent, CallType
  <1>4. \A c \in CallType : [c EXCEPT !.at = "waiting"] \in CallType
    BY DEF CallType
  <1> QED BY <1>2, <1>3, <1>4

\* A page that loads has its own tokens, or none.
LEMMA SessionInit ==
  ASSUME Init
  PROVE  Session
  <1>1. access \in {0, 1} /\ access \in Token /\ saved \in BOOLEAN
    BY SessionAssumption DEF Init, Token
  <1>2. call \in [Calls -> CallType]
    BY <1>1, CallShapes DEF Init
  <1>3. TypeOK
    <2>1. refresh = access /\ issued = access /\ user = saved
          /\ validating = saved /\ loads = 1
      BY DEF Init
    <2>2. expired \in Token
      BY <1>1, <2>1, SessionAssumption DEF Init, Token
    <2>3. revoked \subseteq Pairs
      BY <1>1, <2>1, SessionAssumption DEF Init, Pairs
    <2>4. view \in {"landing", "dashboard"}
      BY DEF Init
    <2>5. refreshing \in Token /\ granted \in Token /\ 1 \in 1..MaxLoads
      BY SessionAssumption DEF Init, Token
    <2>6. logoutTimer \in BOOLEAN /\ late \in BOOLEAN /\ presented \subseteq Pairs
      BY DEF Init
    <2> QED BY <1>1, <1>2, <2>1, <2>2, <2>3, <2>4, <2>5, <2>6
            DEF TypeOK, CallType
  <1>4. Waiting = {}
    BY DEF Init, Waiting, Idle, Sent
  <1>5. PairsIssued /\ OneRefresh /\ NotPresentedAgain /\ LateRefresh
    BY <1>1, <1>4 DEF Init, PairsIssued, OneRefresh, NotPresentedAgain,
                      LateRefresh, WaitersHaveRefresh
  <1> QED BY <1>3, <1>5 DEF Session

-----------------------------------------------------------------------------
(* Types. *)

\* What the user and the pages start keeps the types.
LEMMA TypeStarts ==
  ASSUME TypeOK, NEW c \in Calls,
         PageRequest(c) \/ PressLogout \/ TimerLogsOut \/ SubmitLogin
  PROVE  TypeOK'
  <1>1. call \in [Calls -> CallType]
    BY DEF TypeOK, CallType
  <1>2. \A d : Start(d) => call' \in [Calls -> CallType]
    BY <1>1, CallShapes DEF Start, TypeOK
  <1>3. call' \in [Calls -> CallType]
    BY <1>1, <1>2, CallShapes
    DEF PageRequest, PressLogout, TimerLogsOut, SubmitLogin
  <1> QED BY <1>3 DEF PageRequest, PressLogout, TimerLogsOut, SubmitLogin,
                      TypeOK, CallType, storage, app, service

\* So do navigation and a reload.
LEMMA TypeNavigates ==
  ASSUME TypeOK, PopState \/ SwitchView \/ Reload
  PROVE  TypeOK'
  <1>1. CASE PopState \/ SwitchView
    BY <1>1 DEF PopState, SwitchView, TypeOK, storage, wire, service
  <1>2. CASE Reload
    <2>1. call' \in [Calls -> CallType]
      BY <1>2, CallShapes DEF Reload, TypeOK
    <2>2. loads' \in 1..MaxLoads
      BY <1>2, SessionAssumption DEF Reload, TypeOK
    <2>3. refreshing' \in Token /\ granted' \in Token
      BY <1>2, SessionAssumption DEF Reload, Token
    <2> QED BY <1>2, <2>1, <2>2, <2>3
            DEF Reload, TypeOK, CallType, storage, service
  <1> QED BY <1>1, <1>2

\* An error and a sign-out keep the types of what they change.
LEMMA TypeThrow ==
  ASSUME TypeOK, NEW c \in Calls, Throw(c)
  PROVE  /\ call' \in [Calls -> CallType]
         /\ access' \in Token /\ refresh' \in Token /\ saved' \in BOOLEAN
         /\ user' \in BOOLEAN /\ validating' \in BOOLEAN
         /\ view' \in {"landing", "dashboard"} /\ late' \in BOOLEAN
  <1>1. call' \in [Calls -> CallType]
    BY CallShapes DEF Throw, TypeOK, CallType
  <1>2. CASE c = "logout"
    <2>1. 0 \in Token
      BY SessionAssumption DEF Token
    <2>2. late' \in BOOLEAN
      BY <1>2 DEF Throw
    <2> QED BY <1>1, <1>2, <2>1, <2>2 DEF Throw, SignOut
  <1>3. CASE c # "logout"
    BY <1>1, <1>3 DEF Throw, TypeOK, storage
  <1> QED BY <1>2, <1>3

\* A failed refresh keeps the types.
LEMMA TypeRefreshFails ==
  ASSUME TypeOK, RefreshFails
  PROVE  /\ call' \in [Calls -> CallType]
         /\ access' \in Token /\ refresh' \in Token /\ saved' \in BOOLEAN
         /\ user' \in BOOLEAN /\ validating' \in BOOLEAN
         /\ view' \in {"landing", "dashboard"} /\ late' \in BOOLEAN
         /\ refreshing' \in Token /\ granted' \in Token
  <1>1. call' \in [Calls -> CallType]
    BY CallShapes DEF RefreshFails, TypeOK, CallType
  <1>2. 0 \in Token
    BY SessionAssumption DEF Token
  <1> QED BY <1>1, <1>2 DEF RefreshFails, SignOut

\* The answers to requests keep the types.
LEMMA TypeAnswers ==
  ASSUME TypeOK, NEW c \in Calls, Answer(c) \/ LogoutAnswered
  PROVE  TypeOK'
  <1>1. CASE AnswerOk(c)
    <2>1. call' \in [Calls -> CallType]
      <3>1. call' = [call EXCEPT ![c] = Idle] /\ call \in [Calls -> CallType]
        BY <1>1 DEF AnswerOk, TypeOK, CallType
      <3> QED BY <3>1, CallShapes
    <2>2. revoked' \subseteq Pairs
      <3>1. 1..issued \subseteq Pairs
        BY SessionAssumption DEF TypeOK, Token, Pairs
      <3>2. revoked' = 1..issued \/ revoked' = revoked
        BY <1>1 DEF AnswerOk
      <3> QED BY <3>1, <3>2 DEF TypeOK
    <2>3. saved' \in BOOLEAN /\ user' \in BOOLEAN
      BY <1>1 DEF AnswerOk
    <2>4. validating' \in BOOLEAN /\ logoutTimer' \in BOOLEAN
      BY <1>1 DEF AnswerOk
    <2>5. view' \in {"landing", "dashboard"}
      BY <1>1 DEF AnswerOk, TypeOK
    <2>6. UNCHANGED <<access, refresh, refreshing, granted, loads, issued,
                      expired, presented, late>>
      BY <1>1 DEF AnswerOk
    <2> QED BY <2>1, <2>2, <2>3, <2>4, <2>5, <2>6 DEF TypeOK, CallType
  <1>2. CASE AnswerError(c) \/ SecondUnauthorized(c)
    BY <1>2, TypeThrow DEF AnswerError, SecondUnauthorized, TypeOK, CallType,
                           service
  <1>3. CASE JoinRefresh(c)
    <2>1. call' \in [Calls -> CallType]
      BY <1>3, CallShapes DEF JoinRefresh, TypeOK, CallType
    <2>2. refreshing' \in Token /\ presented' \subseteq Pairs
      <3>1. CASE refreshing = 0
        <4>1. refresh # 0 /\ refresh \in Token
          BY <1>3, <3>1 DEF JoinRefresh, TypeOK
        <4>2. refresh \in Pairs
          BY <4>1, SessionAssumption DEF Token, Pairs
        <4> QED BY <1>3, <3>1, <4>1, <4>2 DEF JoinRefresh, TypeOK
      <3>2. CASE refreshing # 0
        BY <1>3, <3>2 DEF JoinRefresh, TypeOK
      <3> QED BY <3>1, <3>2
    <2> QED BY <1>3, <2>1, <2>2
            DEF JoinRefresh, TypeOK, CallType, storage, app, service
  <1>4. CASE NothingToRefresh(c)
    <2>1. call' \in [Calls -> CallType]
      BY <1>4, CallShapes DEF NothingToRefresh, TypeOK, CallType
    <2>2. 0 \in Token
      BY SessionAssumption DEF Token
    <2> QED BY <1>4, <2>1, <2>2
            DEF NothingToRefresh, SignOut, TypeOK, CallType, service
  <1>5. CASE LogoutAnswered
    <2>1. "logout" \in Calls
      BY DEF Calls
    <2> QED BY <1>5, <2>1, TypeThrow
            DEF LogoutAnswered, TypeOK, CallType, service
  <1> QED BY <1>1, <1>2, <1>3, <1>4, <1>5 DEF Answer

\* A step of the service, or the answer to a sign-in or a refresh.
LEMMA TypeServes ==
  ASSUME TypeOK,
         \/ ServiceLogsOut \/ LoginAccepted \/ LoginRefused
         \/ ServiceRotates \/ RefreshEnds \/ Expire
  PROVE  TypeOK'
  <1>0. /\ issued < MaxPairs => issued + 1 \in Token
        /\ expired < issued => expired + 1 \in Token
        /\ 1..issued \subseteq Pairs
    BY SessionAssumption DEF TypeOK, Token, Pairs
  <1>1. CASE ServiceLogsOut
    BY <1>0, <1>1 DEF ServiceLogsOut, TypeOK, storage, app, wire
  <1>2. CASE LoginAccepted
    <2>1. call' \in [Calls -> CallType]
      BY <1>0, <1>2, CallShapes DEF LoginAccepted, TypeOK, CallType
    <2> QED BY <1>0, <1>2, <2>1 DEF LoginAccepted, TypeOK, CallType, app
  <1>3. CASE LoginRefused
    <2>1. call' \in [Calls -> CallType]
      BY <1>3, CallShapes DEF LoginRefused, TypeOK, CallType
    <2> QED BY <1>3, <2>1
            DEF LoginRefused, TypeOK, CallType, storage, app, service
  <1>4. CASE ServiceRotates
    BY <1>0, <1>4 DEF ServiceRotates, TypeOK, storage, app
  <1>5. CASE RefreshStored
    <2>1. call' \in [Calls -> CallType]
      BY <1>5, CallShapes DEF RefreshStored, TypeOK, CallType
    <2>2. 0 \in Token
      BY SessionAssumption DEF Token
    <2> QED BY <1>5, <2>1, <2>2 DEF RefreshStored, TypeOK, CallType, app,
                                    service
  <1>6. CASE RefreshRefused \/ RefreshLost
    BY <1>6, TypeRefreshFails
    DEF RefreshRefused, RefreshLost, TypeOK, CallType, service
  <1>7. CASE Expire
    BY <1>0, <1>7 DEF Expire, TypeOK, storage, app, wire
  <1> QED BY <1>1, <1>2, <1>3, <1>4, <1>5, <1>6, <1>7 DEF RefreshEnds

\* Every step keeps the types.
LEMMA TypeStep ==
  ASSUME TypeOK, [Next]_vars
  PROVE  TypeOK'
  <1>1. CASE UNCHANGED vars
    BY <1>1 DEF vars, storage, app, wire, service, TypeOK
  <1>2. "me" \in Calls
    BY DEF Calls
  <1>3. CASE Next
    BY <1>2, <1>3, TypeStarts, TypeNavigates, TypeAnswers, TypeServes DEF Next
  <1> QED BY <1>1, <1>3

-----------------------------------------------------------------------------
(* The tokens. *)

tokens == <<access, refresh, refreshing, granted, issued, presented, late>>

\* The parts of the invariant that are about the tokens.
TokensFit == PairsIssued /\ OneRefresh /\ NotPresentedAgain /\ LateRefresh

\* A request that starts, or ends, waits for nothing.
LEMMA NobodyMoreWaits ==
  ASSUME TypeOK, NEW c \in Calls, NEW r, r.at # "waiting",
         call' = [call EXCEPT ![c] = r]
  PROVE  Waiting' \subseteq Waiting
  BY DEF TypeOK, Waiting

\* A step that leaves the tokens alone and lets nobody wait keeps the rest.
LEMMA QuietKeeps ==
  ASSUME TokensFit, UNCHANGED tokens, Waiting' \subseteq Waiting
  PROVE  TokensFit'
  BY DEF TokensFit, PairsIssued, OneRefresh, NotPresentedAgain, LateRefresh,
         WaitersHaveRefresh, tokens

\* Most steps are of that kind.
LEMMA QuietSteps ==
  ASSUME TypeOK, NEW c \in Calls,
         \/ PageRequest(c) \/ PressLogout \/ TimerLogsOut \/ SubmitLogin
         \/ PopState \/ SwitchView \/ LoginRefused \/ AnswerOk(c)
         \/ ServiceLogsOut \/ Expire
  PROVE  UNCHANGED tokens /\ Waiting' \subseteq Waiting
  <1>1. "logout" \in Calls /\ "login" \in Calls
    BY DEF Calls
  <1>2. /\ Idle.at # "waiting" /\ Sent(access, FALSE).at # "waiting"
        /\ [Idle EXCEPT !.at = "posting"].at # "waiting"
    BY DEF Idle, Sent
  <1>3. CASE PageRequest(c) \/ AnswerOk(c)
    BY <1>2, <1>3, NobodyMoreWaits
    DEF PageRequest, AnswerOk, Start, tokens, storage, service
  <1>4. CASE PressLogout \/ TimerLogsOut
    BY <1>1, <1>2, <1>4, NobodyMoreWaits
    DEF PressLogout, TimerLogsOut, Start, tokens, storage, service
  <1>5. CASE SubmitLogin \/ LoginRefused
    BY <1>1, <1>2, <1>5, NobodyMoreWaits
    DEF SubmitLogin, LoginRefused, tokens, storage, service
  <1>6. CASE PopState \/ SwitchView \/ ServiceLogsOut \/ Expire
    BY <1>6 DEF PopState, SwitchView, ServiceLogsOut, Expire, tokens, storage,
                service, wire, Waiting
  <1> QED BY <1>3, <1>4, <1>5, <1>6

\* A request that fails takes the tokens away or leaves them alone.
LEMMA ThrowFits ==
  ASSUME TypeOK, TokensFit, NEW c \in Calls, Throw(c),
         UNCHANGED <<refreshing, granted, issued, presented>>
  PROVE  TokensFit'
  <1>1. Waiting' \subseteq Waiting
    BY NobodyMoreWaits DEF Throw, Idle
  <1>2. CASE c = "logout"
    <2>1. access' = 0 /\ refresh' = 0 /\ late' = (refreshing # 0)
      BY <1>2 DEF Throw, SignOut
    <2>2. issued >= 0
      BY DEF TypeOK, Token
    <2>3. PairsIssued'
      BY <2>1, <2>2 DEF TokensFit, PairsIssued
    <2>4. OneRefresh'
      BY <1>1 DEF TokensFit, OneRefresh, WaitersHaveRefresh
    <2>5. NotPresentedAgain' /\ LateRefresh'
      BY <2>1 DEF NotPresentedAgain, LateRefresh
    <2> QED BY <2>3, <2>4, <2>5 DEF TokensFit
  <1>3. CASE c # "logout"
    BY <1>1, <1>3, QuietKeeps DEF Throw, storage, tokens
  <1> QED BY <1>2, <1>3

\* A refresh that begins presents a token that was not presented.
LEMMA JoinFits ==
  ASSUME TypeOK, TokensFit, NEW c \in Calls, JoinRefresh(c)
  PROVE  TokensFit' /\ (refreshing = 0 => refreshing' \notin presented)
  <1>1. CASE refreshing = 0
    <2>1. /\ refresh # 0 /\ refreshing' = refresh
          /\ presented' = presented \cup {refresh}
          /\ UNCHANGED <<access, refresh, granted, issued, late>>
      BY <1>1 DEF JoinRefresh, storage, service
    <2>2. refresh \notin presented /\ access # 0 /\ granted = 0
      BY <1>1, <2>1 DEF TokensFit, PairsIssued, NotPresentedAgain, OneRefresh
    <2> QED BY <1>1, <2>1, <2>2
            DEF TokensFit, PairsIssued, OneRefresh, NotPresentedAgain,
                LateRefresh, WaitersHaveRefresh
  <1>2. CASE refreshing # 0
    BY <1>2
    DEF JoinRefresh, storage, service, TokensFit, PairsIssued, OneRefresh,
        NotPresentedAgain, LateRefresh, WaitersHaveRefresh
  <1> QED BY <1>1, <1>2

\* Without tokens, refresh and waiters nothing is left to go wrong.
LEMMA EmptyFits ==
  ASSUME TypeOK, TokensFit, Waiting' = {}, access' = 0, refresh' = 0,
         refreshing' = 0, granted' = 0, UNCHANGED <<issued, presented>>
  PROVE  TokensFit'
  BY DEF TypeOK, Token, TokensFit, PairsIssued, OneRefresh,
         NotPresentedAgain, LateRefresh, WaitersHaveRefresh

\* A sign-out that no refresh caused, or that a failed refresh caused.
LEMMA SignOutFits ==
  ASSUME TypeOK, TokensFit, NEW c \in Calls,
         NothingToRefresh(c) \/ RefreshRefused \/ RefreshLost
  PROVE  TokensFit'
  <1>1. CASE NothingToRefresh(c)
    <2>1. Waiting = {} /\ granted = 0 /\ refreshing = 0
      BY <1>1 DEF NothingToRefresh, TokensFit, OneRefresh, WaitersHaveRefresh
    <2>2. Waiting' = {}
      BY <1>1, <2>1, NobodyMoreWaits DEF NothingToRefresh, Idle
    <2> QED BY <1>1, <2>1, <2>2, EmptyFits
            DEF NothingToRefresh, SignOut, service
  <1>2. CASE RefreshRefused \/ RefreshLost
    <2>1. Waiting' = {}
      BY <1>2 DEF RefreshRefused, RefreshLost, RefreshFails, Waiting, Idle
    <2> QED BY <1>2, <2>1, EmptyFits
            DEF RefreshRefused, RefreshLost, RefreshFails, SignOut, service
  <1> QED BY <1>1, <1>2

\* A new pair is one that was never presented.
LEMMA NewPairFits ==
  ASSUME TypeOK, TokensFit, LoginAccepted \/ ServiceRotates \/ RefreshStored
  PROVE  TokensFit'
  <1>0. issued \in Nat /\ \A p \in presented : p \in Nat /\ p <= issued
    BY SessionAssumption DEF TypeOK, Token, Pairs, TokensFit, PairsIssued
  <1>1. CASE LoginAccepted
    <2>1. "login" \in Calls /\ Sent(issued', FALSE).at # "waiting"
      BY DEF Calls, Sent
    <2>2. Waiting' \subseteq Waiting
      BY <1>1, <2>1, NobodyMoreWaits DEF LoginAccepted
    <2> QED BY <1>0, <1>1, <2>2
            DEF LoginAccepted, TypeOK, Token, TokensFit, PairsIssued,
                OneRefresh, NotPresentedAgain, LateRefresh,
                WaitersHaveRefresh
  <1>2. CASE ServiceRotates
    <2>1. refreshing # 0 /\ Waiting' = Waiting
      BY <1>2, SessionAssumption DEF ServiceRotates, Pairs, Waiting
    <2> QED BY <1>0, <1>2, <2>1
            DEF ServiceRotates, storage, TypeOK, Token, TokensFit,
                PairsIssued, OneRefresh, NotPresentedAgain, LateRefresh,
                WaitersHaveRefresh
  <1>3. CASE RefreshStored
    <2>1. Waiting' = {}
      BY <1>3 DEF RefreshStored, Waiting, Sent
    <2> QED BY <1>0, <1>3, <2>1
            DEF RefreshStored, service, TypeOK, Token, TokensFit,
                PairsIssued, OneRefresh, NotPresentedAgain, LateRefresh,
                WaitersHaveRefresh
  <1> QED BY <1>1, <1>2, <1>3

\* A page that loads again has forgotten the refresh and what it presented.
LEMMA ReloadFits ==
  ASSUME TypeOK, TokensFit, Reload
  PROVE  TokensFit'
  <1>1. Waiting' = {}
    BY DEF Reload, Waiting, Idle, Sent
  <1> QED BY <1>1
          DEF Reload, storage, service, TypeOK, Token, TokensFit, PairsIssued,
              OneRefresh, NotPresentedAgain, LateRefresh, WaitersHaveRefresh

\* Every answer to a request keeps the tokens in order.
LEMMA AnswersFit ==
  ASSUME TypeOK, TokensFit, NEW c \in Calls, Answer(c) \/ LogoutAnswered
  PROVE  TokensFit'
  <1>1. "logout" \in Calls
    BY DEF Calls
  <1>2. CASE AnswerOk(c)
    BY <1>2, QuietSteps, QuietKeeps
  <1>3. CASE AnswerError(c) \/ SecondUnauthorized(c)
    BY <1>3, ThrowFits DEF AnswerError, SecondUnauthorized, service
  <1>4. CASE LogoutAnswered
    BY <1>1, <1>4, ThrowFits DEF LogoutAnswered, service
  <1> QED BY <1>2, <1>3, <1>4, JoinFits, SignOutFits DEF Answer

\* The invariant holds in every reachable state.
LEMMA SessionStep ==
  ASSUME Session, [Next]_vars
  PROVE  Session'
  <1>0. TypeOK /\ TokensFit
    BY DEF Session, TokensFit
  <1>1. TypeOK'
    BY <1>0, TypeStep
  <1>2. "me" \in Calls
    BY DEF Calls
  <1>3. ASSUME UNCHANGED vars
        PROVE  TokensFit'
    <2>1. UNCHANGED tokens /\ Waiting' \subseteq Waiting
      BY <1>3 DEF vars, storage, wire, service, tokens, Waiting
    <2> QED BY <1>0, <2>1, QuietKeeps
  <1>4. ASSUME Next
        PROVE  TokensFit'
    <2>1. CASE \E c \in Calls : PageRequest(c) \/ Answer(c)
      BY <1>0, <2>1, QuietSteps, QuietKeeps, AnswersFit
    <2>2. CASE LogoutAnswered
      BY <1>0, <1>2, <2>2, AnswersFit
    <2>3. CASE \/ PressLogout \/ TimerLogsOut \/ ServiceLogsOut \/ SubmitLogin
               \/ LoginRefused \/ PopState \/ SwitchView \/ Expire
      BY <1>0, <1>2, <2>3, QuietSteps, QuietKeeps
    <2>4. CASE Reload
      BY <1>0, <2>4, ReloadFits
    <2>5. CASE LoginAccepted \/ ServiceRotates \/ RefreshStored
      BY <1>0, <2>5, NewPairFits
    <2>6. CASE RefreshRefused \/ RefreshLost
      BY <1>0, <1>2, <2>6, SignOutFits
    <2> QED BY <1>4, <2>1, <2>2, <2>3, <2>4, <2>5, <2>6 DEF Next, RefreshEnds
  <1>5. TokensFit'
    BY <1>3, <1>4
  <1> QED BY <1>1, <1>5 DEF Session, TokensFit

-----------------------------------------------------------------------------
(* Theorems. *)

\* The session keeps its types: every token is a pair that the service can
\* have issued (client.js; App.jsx).
THEOREM TypeCorrect == Spec => []TypeOK
  <1>1. Session => TypeOK
    BY DEF Session
  <1> QED BY <1>1, SessionInit, SessionStep, PTL DEF Spec

\* Nobody waits for a refresh that is not under way, for any number of pages
\* and of reloads (client.js, refreshAccessToken).
THEOREM NobodyWaitsInVain == Spec => []WaitersHaveRefresh
  <1>1. Session => WaitersHaveRefresh
    BY DEF Session, OneRefresh
  <1> QED BY <1>1, SessionInit, SessionStep, PTL DEF Spec

\* Within one page load no refresh token is presented twice, however many
\* requests are refused at once (client.js, refreshInFlight).
THEOREM PresentedOnce == Spec => RefreshTokenOnce
  <1>1. ASSUME Session, [Next]_vars
        PROVE  [(refreshing = 0 /\ refreshing' # 0)
                  => refreshing' \notin presented]_vars
    <2>0. TypeOK /\ TokensFit
      BY <1>1 DEF Session, TokensFit
    <2>1. SUFFICES ASSUME Next, refreshing = 0, refreshing' # 0
                   PROVE  refreshing' \notin presented
      BY <1>1
    <2>2. ASSUME ~\E c \in Calls : JoinRefresh(c)
          PROVE  refreshing' = refreshing \/ refreshing' = 0
      BY <2>1, <2>2
      DEF Next, Answer, RefreshEnds, PageRequest, PressLogout, TimerLogsOut,
          SubmitLogin, PopState, SwitchView, Reload, LoginAccepted,
          LoginRefused, AnswerOk, ServiceLogsOut, LogoutAnswered, AnswerError,
          SecondUnauthorized, NothingToRefresh, ServiceRotates, RefreshStored,
          RefreshRefused, RefreshLost, RefreshFails, Expire, wire
    <2> QED BY <2>0, <2>1, <2>2, JoinFits
  <1> QED BY <1>1, SessionInit, SessionStep, PTL DEF Spec, RefreshTokenOnce

\* Tokens that are gone come back only with a sign-in, or with a refresh that
\* was under way when they went (client.js, clearSession).
THEOREM StaysSignedOut == Spec => SignedOutStaysOut
  <1>1. ASSUME Session, [Next]_vars
        PROVE  [(access = 0 /\ access' # 0) => (late \/ LoginAccepted)]_vars
    <2>1. SUFFICES ASSUME Next, access = 0, access' # 0, ~LoginAccepted
                   PROVE  late
      BY <1>1
    <2>2. RefreshStored
      BY <2>1
      DEF Next, Answer, RefreshEnds, PageRequest, PressLogout, TimerLogsOut,
          SubmitLogin, PopState, SwitchView, Reload, LoginRefused, AnswerOk,
          ServiceLogsOut, LogoutAnswered, AnswerError, SecondUnauthorized,
          JoinRefresh, NothingToRefresh, ServiceRotates, RefreshRefused,
          RefreshLost, RefreshFails, Expire, storage, Throw, SignOut
    <2> QED BY <1>1, <2>1, <2>2
            DEF RefreshStored, Session, OneRefresh, LateRefresh
  <1> QED BY <1>1, SessionInit, SessionStep, PTL DEF Spec, SignedOutStaysOut

-----------------------------------------------------------------------------
(* The sockets of the monitor page, with the invariant Monitor!Sound.      *)

\* Closing a socket leaves it in no live state.
LEMMA ClosedIsDead ==
  ASSUME NEW sock \in Monitor!SocketType
  PROVE  Monitor!CloseOf(sock) \in Monitor!SocketType
         /\ Monitor!CloseOf(sock).at \notin {"connecting", "open"}
  BY DEF Monitor!CloseOf, Monitor!SocketType, Monitor!Free

\* After the current socket is closed none is live.
LEMMA CloseCurrentKillsAll ==
  ASSUME Monitor!Sound
  PROVE  /\ Monitor!CloseCurrent \in [Sockets -> Monitor!SocketType]
         /\ \A s \in Sockets :
              Monitor!CloseCurrent[s].at \notin {"connecting", "open"}
  <1>1. ASSUME NEW s \in Sockets
        PROVE  /\ Monitor!CloseCurrent[s] \in Monitor!SocketType
               /\ Monitor!CloseCurrent[s].at \notin {"connecting", "open"}
    <2>1. socket[s] \in Monitor!SocketType
      BY DEF Monitor!Sound
    <2>2. CASE s = current
      BY <2>1, <2>2, ClosedIsDead DEF Monitor!CloseCurrent
    <2>3. CASE s # current
      BY <2>1, <2>3
      DEF Monitor!CloseCurrent, Monitor!Sound, Monitor!OneLiveSocket,
          Monitor!Live
    <2> QED BY <2>2, <2>3
  <1>2. Monitor!CloseCurrent \in [Sockets -> Monitor!SocketType]
    BY <1>1 DEF Monitor!CloseCurrent
  <1> QED BY <1>1, <1>2

\* The socket that takes the place of the current one is the only live one.
LEMMA ReplaceIsAlone ==
  ASSUME Monitor!Sound, NEW isFirst \in BOOLEAN, Monitor!Replace(isFirst)
  PROVE  Monitor!Sound'
  <1>1. PICK s \in Sockets :
          /\ socket' = [Monitor!CloseCurrent EXCEPT ![s] =
                                                    Monitor!Fresh(isFirst)]
          /\ current' = s
    BY DEF Monitor!Replace
  <1>2. Monitor!Fresh(isFirst) \in Monitor!SocketType
    BY DEF Monitor!Fresh, Monitor!SocketType
  <1>3. socket' \in [Sockets -> Monitor!SocketType]
    BY <1>1, <1>2, CloseCurrentKillsAll
  <1>4. \A t \in Sockets \ {s} : socket'[t].at \notin {"connecting", "open"}
    BY <1>1, CloseCurrentKillsAll
  <1> QED BY <1>1, <1>3, <1>4
          DEF Monitor!Sound, Monitor!OneLiveSocket, Monitor!Live

\* A step that only ends sockets, or tells the page of one, makes none live.
LEMMA OneSocketMoves ==
  ASSUME Monitor!Sound, NEW s \in Sockets, NEW r \in Monitor!SocketType,
         r.at \in {"connecting", "open"} => s \in Monitor!Live,
         socket' = [socket EXCEPT ![s] = r], current' = current
  PROVE  Monitor!Sound'
  <1>1. socket' \in [Sockets -> Monitor!SocketType]
    BY DEF Monitor!Sound
  <1>2. Monitor!Live' \subseteq Monitor!Live
    BY DEF Monitor!Live, Monitor!Sound
  <1> QED BY <1>1, <1>2 DEF Monitor!Sound, Monitor!OneLiveSocket

\* The page starts without sockets.
LEMMA SocketsInit ==
  ASSUME Monitor!Init
  PROVE  Monitor!Sound
  BY DEF Monitor!Init, Monitor!Sound, Monitor!OneLiveSocket, Monitor!Live,
         Monitor!SocketType, Monitor!Free

\* Every step keeps at most one socket live.
LEMMA SocketsStep ==
  ASSUME Monitor!Sound, [Monitor!Next]_(Monitor!socketVars)
  PROVE  Monitor!Sound'
  <1>1. CASE UNCHANGED <<socket, current>>
    BY <1>1 DEF Monitor!Sound, Monitor!OneLiveSocket, Monitor!Live
  <1>2. CASE Monitor!ListWithNode
    BY <1>2, ReplaceIsAlone DEF Monitor!ListWithNode
  <1>3. CASE Monitor!ListWithoutNode
    <2>1. socket' = Monitor!CloseCurrent
      BY <1>3 DEF Monitor!ListWithoutNode
    <2> QED BY <2>1, CloseCurrentKillsAll
            DEF Monitor!Sound, Monitor!OneLiveSocket, Monitor!Live
  <1>4. CASE Monitor!RetryFires
    BY <1>1, <1>4, ReplaceIsAlone DEF Monitor!RetryFires
  <1>5. CASE Monitor!NoticeFires
    BY <1>1, <1>5 DEF Monitor!NoticeFires
  <1>6. ASSUME NEW s \in Sockets, Monitor!Opened(s) \/ Monitor!Message(s)
        PROVE  Monitor!Sound'
    <2>1. CASE Monitor!Opened(s)
      <3>1. socket[s] \in Monitor!SocketType
        BY DEF Monitor!Sound
      <3>2. [socket[s] EXCEPT !.at = "open"] \in Monitor!SocketType
        BY <3>1 DEF Monitor!SocketType
      <3>3. /\ socket' = [socket EXCEPT ![s] = [socket[s] EXCEPT !.at = "open"]]
            /\ current' = current /\ s \in Monitor!Live
        BY <2>1 DEF Monitor!Opened, Monitor!Live, Monitor!Sound
      <3> QED BY <3>2, <3>3, OneSocketMoves
    <2>2. CASE Monitor!Message(s)
      BY <1>1, <2>2 DEF Monitor!Message
    <2> QED BY <1>6, <2>1, <2>2
  <1>7. ASSUME NEW s \in Sockets, NEW clean \in BOOLEAN,
               Monitor!Dropped(s, clean)
        PROVE  Monitor!Sound'
    <2>1. socket[s] \in Monitor!SocketType
      BY DEF Monitor!Sound
    <2>2. PICK at \in {"ended", "lost"} :
            socket' = [socket EXCEPT ![s] = [socket[s] EXCEPT !.at = at]]
      BY <1>7 DEF Monitor!Dropped, Monitor!Sound
    <2>3. /\ [socket[s] EXCEPT !.at = at] \in Monitor!SocketType
          /\ [socket[s] EXCEPT !.at = at].at \notin {"connecting", "open"}
      BY <2>1 DEF Monitor!SocketType
    <2>4. current' = current
      BY <1>7 DEF Monitor!Dropped, Monitor!Closed
    <2> QED BY <2>2, <2>3, <2>4, OneSocketMoves
  <1>8. ASSUME NEW s \in Sockets, NEW clean \in BOOLEAN,
               Monitor!CloseEvent(s, clean)
        PROVE  Monitor!Sound'
    <2>1. /\ Monitor!Free \in Monitor!SocketType
          /\ Monitor!Free.at \notin {"connecting", "open"}
      BY DEF Monitor!Free, Monitor!SocketType
    <2> QED BY <1>8, <2>1, OneSocketMoves
            DEF Monitor!CloseEvent, Monitor!Closed
  <1> QED BY <1>1, <1>2, <1>3, <1>4, <1>5, <1>6, <1>7, <1>8
          DEF Monitor!Next, Monitor!socketVars

\* However many sockets, timers and late close events there are, at most one
\* socket of the node is live (Monitor.jsx, the cleanup and the reconnect).
THEOREM AtMostOneIsLive == LiveSpec => []OneLiveSocket
  <1>1. Monitor!Sound => OneLiveSocket
    BY DEF OneLiveSocket, Monitor!Sound
  <1>2. LiveInit => Monitor!Sound
    BY SocketsInit DEF LiveInit
  <1>3. Monitor!Sound /\ [LiveNext]_liveVars => Monitor!Sound'
    <2>1. SUFFICES ASSUME Monitor!Sound, [LiveNext]_liveVars
                   PROVE  Monitor!Sound'
      OBVIOUS
    <2>2. [Monitor!Next]_(Monitor!socketVars)
      BY <2>1 DEF LiveNext, liveVars, sockets, Monitor!socketVars
    <2> QED BY <2>1, <2>2, SocketsStep
  <1> QED BY <1>1, <1>2, <1>3, PTL DEF LiveSpec

\* The session keeps what it promises beside the sockets: nobody waits for a
\* refresh that is not under way (client.js, refreshAccessToken).
THEOREM SessionStaysSound == LiveSpec => [](TypeOK /\ WaitersHaveRefresh)
  <1>1. Session => TypeOK /\ WaitersHaveRefresh
    BY DEF Session, OneRefresh
  <1>2. LiveInit => Session
    BY SessionInit DEF LiveInit
  <1>3. Session /\ [LiveNext]_liveVars => Session'
    <2>1. SUFFICES ASSUME Session, [LiveNext]_liveVars
                   PROVE  Session'
      OBVIOUS
    <2>2. [Next]_vars
      BY <2>1 DEF LiveNext, liveVars
    <2> QED BY <2>1, <2>2, SessionStep
  <1> QED BY <1>1, <1>2, <1>3, PTL DEF LiveSpec
=============================================================================
