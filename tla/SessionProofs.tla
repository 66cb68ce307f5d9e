----------------------------- MODULE SessionProofs -----------------------------
(***************************************************************************)
(* Theorems about Session, for every number of users, of requests at once   *)
(* and of tokens issued.                                                    *)
(***************************************************************************)
EXTENDS Session, TLAPS

-----------------------------------------------------------------------------
(* The inductive invariant                                                  *)

\* Why SessionEndsOnlyOnce holds for any number of requests: a request that is sent again
\* with a token that is no good any more, or has nothing to renew from, is
\* excused already; while the session is over, no refresh is under way.
SessionTypeOK ==
    /\ access \in AccessTokens \cup {None} /\ refresh \in Users \cup {None}
    /\ issued \in 0 .. MaxTokens /\ valid \subseteq AccessTokens /\ renewable \subseteq Users
    /\ request \in [Requests -> [phase : Phases, token : AccessTokens \cup {None},
                                first : BOOLEAN, excused : BOOLEAN]]
    /\ inFlight \in {"none", "sent", "answered"}
    /\ renewing \in [user : Users \cup {None}, answer : AccessTokens \cup {None}]
    /\ signedOut \in BOOLEAN /\ overtaken \in BOOLEAN
ExcusedInTime(r) ==
    /\ request[r].phase = "unauthorized" => request[r].excused
    /\ request[r].phase = "401" /\ ~ request[r].first => request[r].excused
    /\ request[r].phase = "sent" /\ ~ request[r].first /\ request[r].token \notin valid
         => request[r].excused
    /\ Active(r) /\ refresh = None => request[r].excused
SessionInv ==
    /\ SessionTypeOK
    /\ \A r \in Requests : ExcusedInTime(r)
    /\ inFlight = "answered" => renewing.answer # None
    /\ signedOut /\ ~ overtaken => access = None /\ refresh = None /\ inFlight = "none"

\* The parts of the invariant that are not about one request.
Ended == signedOut /\ ~ overtaken => access = None /\ refresh = None /\ inFlight = "none"
Answered == inFlight = "answered" => renewing.answer # None

\* A request has its fields, and no other.
RequestStates ==
    [phase : Phases, token : AccessTokens \cup {None}, first : BOOLEAN, excused : BOOLEAN]

\* What SessionTypeOK says of a request, and what Excuse leaves of it.
LEMMA RequestShape ==
  ASSUME SessionTypeOK, NEW r \in Requests
  PROVE  /\ request[r] \in RequestStates
         /\ request[r].phase \in Phases /\ request[r].token \in AccessTokens \cup {None}
         /\ request[r].first \in BOOLEAN /\ request[r].excused \in BOOLEAN
  BY DEF SessionTypeOK, RequestStates

-----------------------------------------------------------------------------
(* Steps of one request                                                     *)

\* A step that moves one request on and leaves the tokens and the refresh alone
\* keeps the invariant, if it keeps what is said of this request.
LEMMA OneRequest ==
  ASSUME SessionInv, NEW r \in Requests, NEW q \in RequestStates,
         request' = [request EXCEPT ![r] = q],
         q.phase = "unauthorized" => q.excused,
         q.phase = "401" /\ ~ q.first => q.excused,
         q.phase = "sent" /\ ~ q.first /\ q.token \notin valid => q.excused,
         q.phase \notin {"idle", "unauthorized"} /\ refresh = None => q.excused,
         UNCHANGED <<tokens, flight, signedOut, overtaken>>
  PROVE  SessionInv'
<1>1. SessionTypeOK'
  BY DEF SessionInv, SessionTypeOK, RequestStates, tokens, flight
<1>2. \A x \in Requests : ExcusedInTime(x)'
  <2>. SUFFICES ASSUME NEW x \in Requests PROVE ExcusedInTime(x)'
    OBVIOUS
  <2>1. request'[x] = IF x = r THEN q ELSE request[x]
    BY DEF SessionInv, SessionTypeOK
  <2>2. ExcusedInTime(x)
    BY DEF SessionInv
  <2>. QED BY <2>1, <2>2 DEF ExcusedInTime, Active, tokens
<1>. QED BY <1>1, <1>2 DEF SessionInv, tokens, flight

\* doFetch.
LEMMA SendKeeps ==
  ASSUME SessionInv, NEW r \in Requests, Send(r)
  PROVE  SessionInv'
<1>. DEFINE e == refresh = None
            q == [Idle EXCEPT !.phase = "sent", !.token = access, !.excused = e]
<1>1. e \in BOOLEAN /\ (refresh = None => e)
  OBVIOUS
<1>4. request' = [request EXCEPT ![r] = q] /\ UNCHANGED <<tokens, flight, signedOut, overtaken>>
  BY DEF Send
<1>. HIDE DEF e
<1>2. q \in RequestStates
  BY <1>1 DEF Idle, SessionInv, SessionTypeOK, RequestStates, Phases
<1>3. q.phase = "sent" /\ q.first = TRUE /\ q.excused = e
  BY DEF Idle
<1>. HIDE DEF q
<1>. QED BY <1>1, <1>2, <1>3, <1>4, OneRequest

\* get_current_user.
LEMMA ServeKeeps ==
  ASSUME SessionInv, NEW r \in Requests, Serve(r)
  PROVE  SessionInv'
<1>. DEFINE phase == IF request[r].token \in valid THEN "ok" ELSE "401"
            q == [request[r] EXCEPT !.phase = phase]
<1>1. request[r] \in RequestStates /\ ExcusedInTime(r)
  BY RequestShape DEF SessionInv
<1>2. q \in RequestStates
  BY <1>1 DEF RequestStates, Phases
<1>3. /\ q.phase = phase /\ q.token = request[r].token
      /\ q.first = request[r].first /\ q.excused = request[r].excused
  BY <1>1 DEF RequestStates
<1>4. request' = [request EXCEPT ![r] = q] /\ UNCHANGED <<tokens, flight, signedOut, overtaken>>
  BY DEF Serve
<1>5. request[r].phase = "sent"
  BY DEF Serve
<1>6. q.phase \in {"ok", "401"} /\ (q.phase = "401" => request[r].token \notin valid)
  BY <1>3
<1>. HIDE DEF q, phase
<1>. QED BY <1>1, <1>2, <1>3, <1>4, <1>5, <1>6, OneRequest DEF ExcusedInTime, Active

\* apiRequest returns, or the network fails.
LEMMA ReturnKeeps ==
  ASSUME SessionInv, NEW r \in Requests, Return(r)
  PROVE  SessionInv'
<1>1. Idle \in RequestStates /\ Idle.phase = "idle"
  BY DEF Idle, RequestStates, Phases
<1>. QED BY <1>1, OneRequest DEF Return

\* It throws a 401: the second one, or there is nothing to renew from.
LEMMA UnauthorizedKeeps ==
  ASSUME SessionInv, NEW r \in Requests, Unauthorized(r)
  PROVE  SessionInv'
<1>. DEFINE q == [request[r] EXCEPT !.phase = "unauthorized"]
<1>1. request[r] \in RequestStates /\ ExcusedInTime(r)
  BY RequestShape DEF SessionInv
<1>2. q \in RequestStates /\ q.phase = "unauthorized" /\ q.excused = request[r].excused
  BY <1>1 DEF RequestStates, Phases
<1>3. request' = [request EXCEPT ![r] = q] /\ UNCHANGED <<tokens, flight, signedOut, overtaken>>
  BY DEF Unauthorized
<1>4. request[r].excused
  BY <1>1 DEF Unauthorized, ExcusedInTime, Active
<1>. HIDE DEF q
<1>. QED BY <1>2, <1>3, <1>4, OneRequest

-----------------------------------------------------------------------------
(* Steps of the refresh and of the session                                  *)

\* The request waits; it may be the one to start the refresh.
LEMMA AwaitRefreshKeeps ==
  ASSUME SessionInv, NEW r \in Requests, AwaitRefresh(r)
  PROVE  SessionInv'
<1>. DEFINE q == [request[r] EXCEPT !.phase = "waiting"]
<1>1. request[r] \in RequestStates
  BY RequestShape DEF SessionInv
<1>2. q \in RequestStates /\ q.phase = "waiting"
  BY <1>1 DEF RequestStates, Phases
<1>3. request' = [request EXCEPT ![r] = q] /\ UNCHANGED <<tokens, signedOut, overtaken>>
  BY DEF AwaitRefresh
<1>. HIDE DEF q
<1>4. inFlight' \in {"none", "sent", "answered"}
      /\ renewing' \in [user : Users \cup {None}, answer : AccessTokens \cup {None}]
  <2>1. CASE inFlight = "none"
    BY <2>1 DEF AwaitRefresh, NoRenewal, SessionInv, SessionTypeOK
  <2>2. CASE inFlight # "none"
    BY <2>2 DEF AwaitRefresh, flight, SessionInv, SessionTypeOK
  <2>. QED BY <2>1, <2>2
<1>5. SessionTypeOK'
  BY <1>2, <1>3, <1>4 DEF SessionInv, SessionTypeOK, RequestStates, tokens
<1>6. \A x \in Requests : ExcusedInTime(x)'
  <2>. SUFFICES ASSUME NEW x \in Requests PROVE ExcusedInTime(x)'
    OBVIOUS
  <2>1. request'[x] = IF x = r THEN q ELSE request[x]
    BY <1>3 DEF SessionInv, SessionTypeOK
  <2>2. ExcusedInTime(x) /\ refresh # None
    BY DEF SessionInv, AwaitRefresh
  <2>. QED BY <1>2, <1>3, <2>1, <2>2 DEF ExcusedInTime, Active, tokens
<1>7. Answered'
  BY DEF Answered, AwaitRefresh, SessionInv, flight
<1>8. Ended'
  BY <1>3 DEF Ended, AwaitRefresh, SessionInv, tokens
<1>. QED BY <1>5, <1>6, <1>7, <1>8 DEF SessionInv, Answered, Ended

\* When all requests under way are excused, so they are after it.
LEMMA AllExcused ==
  ASSUME SessionTypeOK, NEW q \in [Requests -> RequestStates], NEW r \in Requests
  PROVE  /\ Excuse(q) \in [Requests -> RequestStates]
         /\ Excuse(q)[r].phase = q[r].phase
         /\ q[r].phase # "idle" => Excuse(q)[r].excused
  BY DEF Excuse, RequestStates

\* Who has been excused is excused in time.
LEMMA ExcusedStays ==
  ASSUME SessionInv, NEW q \in [Requests -> RequestStates], request' = Excuse(q)
  PROVE  request' \in [Requests -> RequestStates] /\ \A r \in Requests : ExcusedInTime(r)'
<1>1. Excuse(q) \in [Requests -> RequestStates]
  BY DEF Excuse, RequestStates
<1>2. SUFFICES ASSUME NEW r \in Requests PROVE ExcusedInTime(r)'
  BY <1>1
<1>3. q[r].phase # "idle" => request'[r].excused
  BY AllExcused DEF SessionInv
<1>4. request'[r].phase = q[r].phase
  BY AllExcused DEF SessionInv
<1>. QED BY <1>3, <1>4 DEF ExcusedInTime, Active

\* setSession.
LEMMA LoginKeeps ==
  ASSUME SessionInv, NEW u \in Users, Login(u)
  PROVE  SessionInv'
<1>1. request' \in [Requests -> RequestStates] /\ \A r \in Requests : ExcusedInTime(r)'
  BY ExcusedStays DEF SessionInv, SessionTypeOK, RequestStates, Login
<1>2. access' \in AccessTokens /\ issued' \in 0 .. MaxTokens
  BY SessionAssumption DEF Login, AccessTokens, SessionInv, SessionTypeOK
<1>3. SessionTypeOK'
  BY <1>1, <1>2 DEF Login, SessionInv, SessionTypeOK, RequestStates, flight
<1>4. Answered' /\ Ended'
  BY DEF Login, SessionInv, Answered, Ended, flight
<1>. QED BY <1>1, <1>3, <1>4 DEF SessionInv, Answered, Ended

\* logout, by the user.
LEMMA LogoutKeeps ==
  ASSUME SessionInv, Logout
  PROVE  SessionInv'
<1>1. request' \in [Requests -> RequestStates] /\ \A r \in Requests : ExcusedInTime(r)'
  BY ExcusedStays DEF SessionInv, SessionTypeOK, RequestStates, Logout
<1>2. SessionTypeOK'
  BY <1>1 DEF Logout, SessionInv, SessionTypeOK, RequestStates, flight
<1>3. Answered' /\ Ended'
  BY DEF Logout, SessionInv, SessionTypeOK, Answered, Ended, flight
<1>. QED BY <1>1, <1>2, <1>3 DEF SessionInv, Answered, Ended

\* An access token expires.
LEMMA ExpireKeeps ==
  ASSUME SessionInv, NEW t \in valid, Expire(t)
  PROVE  SessionInv'
<1>. DEFINE q(r) == [request[r] EXCEPT
               !.excused = @ \/ (Active(r) /\ ~ request[r].first /\ request[r].token = t)]
<1>1. ASSUME NEW r \in Requests
      PROVE  /\ request'[r] \in RequestStates
             /\ request'[r].phase = request[r].phase /\ request'[r].token = request[r].token
             /\ request'[r].first = request[r].first
             /\ request'[r].excused =
                  (request[r].excused \/ (Active(r) /\ ~ request[r].first /\ request[r].token = t))
  <2>1. request[r] \in RequestStates
    BY RequestShape DEF SessionInv
  <2>2. request'[r] = q(r)
    BY DEF Expire
  <2>. QED BY <2>1, <2>2 DEF RequestStates
<1>2. request' \in [Requests -> RequestStates]
  <2>1. request' = [r \in Requests |-> q(r)]
    BY DEF Expire
  <2>2. \A r \in Requests : q(r) \in RequestStates
    BY <1>1, <2>1
  <2>. HIDE DEF q
  <2>. QED BY <2>1, <2>2
<1>3. SessionTypeOK'
  BY <1>2 DEF Expire, SessionInv, SessionTypeOK, RequestStates, flight
<1>4. \A r \in Requests : ExcusedInTime(r)'
  <2>. SUFFICES ASSUME NEW r \in Requests PROVE ExcusedInTime(r)'
    OBVIOUS
  <2>1. ExcusedInTime(r)
    BY DEF SessionInv
  <2>2. refresh' = refresh /\ valid' = valid \ {t}
    BY DEF Expire
  <2>3. request'[r].phase = "sent" /\ ~ request'[r].first /\ request'[r].token \notin valid'
          => request'[r].excused
    <3>1. CASE request[r].token = t
      BY <1>1, <3>1 DEF Active
    <3>2. CASE request[r].token # t
      BY <1>1, <2>1, <2>2, <3>2 DEF ExcusedInTime
    <3>. QED BY <3>1, <3>2
  <2>. QED BY <1>1, <2>1, <2>2, <2>3 DEF ExcusedInTime, Active
<1>5. Answered' /\ Ended'
  BY DEF Expire, SessionInv, Answered, Ended, flight
<1>. QED BY <1>3, <1>4, <1>5 DEF SessionInv, Answered, Ended

\* A refresh token expires.
LEMMA ExpireRefreshKeeps ==
  ASSUME SessionInv, NEW u \in Users, ExpireRefresh(u)
  PROVE  SessionInv'
<1>1. SessionTypeOK'
  BY DEF ExpireRefresh, SessionInv, SessionTypeOK, flight
<1>. QED BY <1>1 DEF ExpireRefresh, SessionInv, ExcusedInTime, Active, flight

\* The server issues another access token.
LEMMA RenewKeeps ==
  ASSUME SessionInv, Renew
  PROVE  SessionInv'
<1>. DEFINE t == [user |-> renewing.user, n |-> issued + 1]
<1>1. t \in AccessTokens /\ issued' \in 0 .. MaxTokens
  BY SessionAssumption DEF Renew, AccessTokens, SessionInv, SessionTypeOK
<1>2. valid' = valid \cup {t} /\ renewing' = [renewing EXCEPT !.answer = t]
  BY DEF Renew
<1>. HIDE DEF t
<1>3. SessionTypeOK'
  BY <1>1, <1>2 DEF Renew, SessionInv, SessionTypeOK
<1>4. \A r \in Requests : ExcusedInTime(r)'
  BY <1>2 DEF Renew, SessionInv, ExcusedInTime, Active
<1>5. renewing'.answer = t
  BY <1>2 DEF SessionInv, SessionTypeOK
<1>6. Answered' /\ Ended'
  BY <1>1, <1>5, SessionAssumption DEF Renew, SessionInv, Answered, Ended
<1>. QED BY <1>3, <1>4, <1>6 DEF SessionInv, Answered, Ended

\* What the requests that waited are when they go on.
LEMMA Resumed ==
  ASSUME SessionTypeOK, NEW t \in AccessTokens \cup {None}, NEW r \in Requests
  PROVE  /\ Resume(request, t)[r] \in RequestStates
         /\ request[r].phase # "waiting" => Resume(request, t)[r] = request[r]
         /\ request[r].phase = "waiting" /\ t # None =>
              /\ Resume(request, t)[r].phase = "sent"
              /\ Resume(request, t)[r].token = t
              /\ t \notin valid => Resume(request, t)[r].excused
              /\ request[r].excused => Resume(request, t)[r].excused
<1>1. request[r] \in RequestStates
  BY RequestShape
<1>2. CASE request[r].phase # "waiting"
  BY <1>1, <1>2 DEF Resume
<1>3. CASE request[r].phase = "waiting" /\ t # None
  <2>. DEFINE q == [request[r] EXCEPT !.phase = "sent", !.first = FALSE, !.token = t,
                                      !.excused = @ \/ t \notin valid]
  <2>1. Resume(request, t)[r] = q
    BY <1>3 DEF Resume
  <2>2. q \in RequestStates /\ q.phase = "sent" /\ q.token = t
        /\ q.excused = (request[r].excused \/ t \notin valid)
    BY <1>1 DEF RequestStates, Phases
  <2>. QED BY <1>3, <2>1, <2>2
<1>4. CASE request[r].phase = "waiting" /\ t = None
  <2>1. Resume(request, t)[r] = [request[r] EXCEPT !.phase = "unauthorized"]
    BY <1>4 DEF Resume
  <2>2. Resume(request, t)[r] \in RequestStates
    BY <1>1, <2>1 DEF RequestStates, Phases
  <2>. QED BY <1>4, <2>2
<1>. QED BY <1>2, <1>3, <1>4

\* The requests that resume are requests.
LEMMA ResumedAll ==
  ASSUME SessionTypeOK, NEW t \in AccessTokens \cup {None}
  PROVE  Resume(request, t) \in [Requests -> RequestStates]
<1>1. \A r \in Requests : Resume(request, t)[r] \in RequestStates
  BY Resumed
<1>2. Resume(request, t) = [r \in Requests |-> Resume(request, t)[r]]
  BY DEF Resume
<1>. QED BY <1>1, <1>2

\* setAccessToken, and the requests that waited are sent again.
LEMMA RefreshedKeeps ==
  ASSUME SessionInv, Refreshed
  PROVE  SessionInv'
<1>1. access' = renewing.answer /\ access' \in AccessTokens /\ access' # None
  BY DEF Refreshed, SessionInv, SessionTypeOK
<1>2. request' = Resume(request, access')
  BY DEF Refreshed
<1>3. request' \in [Requests -> RequestStates]
  BY <1>1, <1>2, ResumedAll DEF SessionInv
<1>4. SessionTypeOK'
  BY <1>1, <1>3 DEF Refreshed, NoRenewal, SessionInv, SessionTypeOK, RequestStates
<1>5. \A r \in Requests : ExcusedInTime(r)'
  <2>. SUFFICES ASSUME NEW r \in Requests PROVE ExcusedInTime(r)'
    OBVIOUS
  <2>1. ExcusedInTime(r) /\ refresh' = refresh /\ valid' = valid
    BY DEF SessionInv, Refreshed
  <2>2. CASE request[r].phase # "waiting"
    <3>1. request'[r] = request[r]
      BY <1>1, <1>2, <2>2, Resumed DEF SessionInv
    <3>. QED BY <2>1, <3>1 DEF ExcusedInTime, Active
  <2>3. CASE request[r].phase = "waiting"
    <3>1. /\ request'[r].phase = "sent" /\ request'[r].token = access'
          /\ access' \notin valid => request'[r].excused
          /\ request[r].excused => request'[r].excused
      BY <1>1, <1>2, <2>3, Resumed DEF SessionInv
    <3>. QED BY <2>1, <2>3, <3>1 DEF ExcusedInTime, Active
  <2>. QED BY <2>2, <2>3
<1>6. Answered' /\ Ended'
  BY DEF Refreshed, SessionInv, SessionTypeOK, Answered, Ended
<1>. QED BY <1>4, <1>5, <1>6 DEF SessionInv, Answered, Ended

\* The refresh fails, and with it the session ends.
LEMMA RefreshFailsKeeps ==
  ASSUME SessionInv, RefreshFails
  PROVE  SessionInv'
<1>1. Resume(request, None) \in [Requests -> RequestStates]
  BY ResumedAll DEF SessionInv
<1>2. request' \in [Requests -> RequestStates] /\ \A r \in Requests : ExcusedInTime(r)'
  BY <1>1, ExcusedStays DEF RefreshFails
<1>3. SessionTypeOK'
  BY <1>2 DEF RefreshFails, NoRenewal, SessionInv, SessionTypeOK, RequestStates
<1>4. Answered' /\ Ended'
  BY DEF RefreshFails, SessionInv, Answered, Ended
<1>. QED BY <1>2, <1>3, <1>4 DEF SessionInv, Answered, Ended

-----------------------------------------------------------------------------
(* Theorems                                                                 *)

\* SessionInv is an invariant: whoever is sent again with a token that is no
\* good, or has nothing to renew from, lost its session while it was under way.
THEOREM SessionInvariant == Spec => []SessionInv
<1>1. Init => SessionInv
  <2>. SUFFICES ASSUME Init PROVE SessionInv
    OBVIOUS
  <2>1. Idle \in RequestStates /\ Idle.phase = "idle"
    BY DEF Idle, RequestStates, Phases
  <2>2. SessionTypeOK
    <3>1. request \in [Requests -> RequestStates]
      BY <2>1 DEF Init
    <3>2. issued \in 0 .. MaxTokens
      BY SessionAssumption DEF Init
    <3>3. renewing \in [user : Users \cup {None}, answer : AccessTokens \cup {None}]
      BY DEF Init, NoRenewal
    <3>. QED BY <3>1, <3>2, <3>3 DEF Init, SessionTypeOK, RequestStates
  <2>3. \A r \in Requests : ExcusedInTime(r)
    BY <2>1 DEF Init, ExcusedInTime, Active
  <2>. QED BY <2>2, <2>3 DEF Init, SessionInv
<1>2. SessionInv /\ [Next]_vars => SessionInv'
  <2>. SUFFICES ASSUME SessionInv, [Next]_vars PROVE SessionInv'
    OBVIOUS
  <2>1. CASE \E u \in Users : Login(u) \/ ExpireRefresh(u)
    BY <2>1, LoginKeeps, ExpireRefreshKeeps
  <2>2. CASE Logout \/ Renew \/ Refreshed \/ RefreshFails
    BY <2>2, LogoutKeeps, RenewKeeps, RefreshedKeeps, RefreshFailsKeeps
  <2>3. CASE \E t \in valid : Expire(t)
    BY <2>3, ExpireKeeps
  <2>4. CASE \E r \in Requests :
               Send(r) \/ Serve(r) \/ Return(r) \/ Unauthorized(r) \/ AwaitRefresh(r)
    BY <2>4, SendKeeps, ServeKeeps, ReturnKeeps, UnauthorizedKeeps, AwaitRefreshKeeps
  <2>5. CASE UNCHANGED vars
    BY <2>5 DEF vars, tokens, flight, SessionInv, SessionTypeOK, ExcusedInTime, Active
  <2>. QED BY <2>1, <2>2, <2>3, <2>4, <2>5 DEF Next
<1>. QED BY <1>1, <1>2, PTL DEF Spec

\* No request is given up as unauthorized while its session lasts, and a session
\* that has ended comes back only with a login (apiRequest, refreshAccessToken).
THEOREM SessionEnds == Spec => []SessionEndsOnlyOnce
<1>1. SessionInv => SessionEndsOnlyOnce
  BY DEF SessionInv, SessionEndsOnlyOnce, ExcusedInTime
<1>. QED BY <1>1, SessionInvariant, PTL
===============================================================================
