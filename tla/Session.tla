-------------------------------- MODULE Session --------------------------------
(***************************************************************************)
(* The session of a browser tab: the tokens in its store (features/auth),   *)
(* requests that are answered 401 when the access token has expired, and    *)
(* the one refresh they all wait for (services/httpClient.ts); on the other *)
(* side get_current_user and AuthService, which know nothing but the        *)
(* signature and the age of a token.  Logins and logouts come in between.   *)
(***************************************************************************)
EXTENDS Naturals, FiniteSets

CONSTANTS
    Users, Requests,
    None,
    MaxTokens     \* bound: access tokens issued

AccessTokens == [user : Users, n : Nat]

ASSUME SessionAssumption ==
    None \notin Users /\ None \notin AccessTokens /\ MaxTokens \in Nat

VARIABLES
    access,       \* the store: accessToken and refreshToken
    refresh,
    issued,       \* access tokens issued so far; a token is [user, n]
    valid,        \* access tokens that have not expired
    renewable,    \* users whose refresh token has not
    request,      \* request -> [phase, token: the one it carries, first, excused]
    inFlight,     \* refreshInFlight: "none", or how far the refresh has got
    renewing,     \* the user whose refresh token it carries, and what it answers
    signedOut,    \* history: has the session ended since the last login?
    overtaken     \* history: has a logout or a login overtaken a refresh?

tokens == <<access, refresh, issued, valid, renewable>>
flight == <<inFlight, renewing>>
vars == <<tokens, request, flight, signedOut, overtaken>>

\* first: it has not been sent a second time; excused (history): while it was
\* under way the session ended, or the token it was sent again with expired.
Idle == [phase |-> "idle", token |-> None, first |-> TRUE, excused |-> FALSE]
Phases == {"idle", "sent", "ok", "401", "waiting", "unauthorized"}
Active(r) == request[r].phase \notin {"idle", "unauthorized"}

NoRenewal == [user |-> None, answer |-> None]

Excuse(q) == [r \in Requests |-> [q[r] EXCEPT !.excused = @ \/ q[r].phase # "idle"]]

-----------------------------------------------------------------------------
(* Tokens                                                                   *)

\* login and issue_tokens; setSession.  The page is there only for who has no
\* access token.
Login(u) ==
    /\ access = None /\ issued < MaxTokens
    /\ issued' = issued + 1
    /\ access' = [user |-> u, n |-> issued + 1] /\ refresh' = u
    /\ valid' = valid \cup {access'} /\ renewable' = renewable \cup {u}
    /\ signedOut' = FALSE
    /\ overtaken' = (overtaken \/ inFlight # "none")
    /\ request' = Excuse(request)
    /\ UNCHANGED flight

\* The user logs out: the store is emptied, what is under way goes on.
Logout ==
    /\ access # None
    /\ access' = None /\ refresh' = None /\ signedOut' = TRUE
    /\ overtaken' = (overtaken \/ inFlight # "none")
    /\ request' = Excuse(request)
    /\ UNCHANGED <<issued, valid, renewable, flight>>

\* An access token grows too old: who was sent again with it is out of luck.
Expire(t) ==
    /\ valid' = valid \ {t}
    /\ request' = [r \in Requests |-> [request[r] EXCEPT
                     !.excused = @ \/ (Active(r) /\ ~ request[r].first /\ request[r].token = t)]]
    /\ UNCHANGED <<access, refresh, issued, renewable, flight, signedOut, overtaken>>

ExpireRefresh(u) ==
    /\ u \in renewable
    /\ renewable' = renewable \ {u}
    /\ UNCHANGED <<access, refresh, issued, valid, request, flight, signedOut, overtaken>>

-----------------------------------------------------------------------------
(* Requests                                                                 *)

\* apiRequest, doFetch: the token is read from the store when it is sent.
Send(r) ==
    /\ request[r].phase \in {"idle", "unauthorized"} /\ access # None
    /\ request' = [request EXCEPT ![r] = [Idle EXCEPT !.phase = "sent", !.token = access,
                                                      !.excused = refresh = None]]
    /\ UNCHANGED <<tokens, flight, signedOut, overtaken>>

\* get_current_user: decode_token refuses a token that has expired.
Serve(r) ==
    /\ request[r].phase = "sent"
    /\ request' = [request EXCEPT ![r].phase = IF request[r].token \in valid THEN "ok" ELSE "401"]
    /\ UNCHANGED <<tokens, flight, signedOut, overtaken>>

\* The answer comes, or the network fails: apiRequest returns or throws.
Return(r) ==
    /\ request[r].phase \in {"sent", "ok"}
    /\ request' = [request EXCEPT ![r] = Idle]
    /\ UNCHANGED <<tokens, flight, signedOut, overtaken>>

\* A 401 on the second try, or with nothing to renew the session from.
Unauthorized(r) ==
    /\ request[r].phase = "401"
    /\ ~ request[r].first \/ refresh = None
    /\ request' = [request EXCEPT ![r].phase = "unauthorized"]
    /\ UNCHANGED <<tokens, flight, signedOut, overtaken>>

\* Slip: who comes while a refresh is under way is turned away.
RefreshAlone(r) ==
    /\ request[r].phase = "401" /\ request[r].first /\ refresh # None
    /\ request' = [request EXCEPT ![r].phase = IF inFlight = "none" THEN "waiting" ELSE "unauthorized"]
    /\ IF inFlight = "none"
       THEN inFlight' = "sent" /\ renewing' = [NoRenewal EXCEPT !.user = refresh]
       ELSE UNCHANGED flight
    /\ UNCHANGED <<tokens, signedOut, overtaken>>

\* A 401 on the first try: wait for the refresh that is under way, or start one.
AwaitRefresh(r) ==
    /\ request[r].phase = "401" /\ request[r].first /\ refresh # None
    /\ request' = [request EXCEPT ![r].phase = "waiting"]
    /\ IF inFlight = "none"
       THEN inFlight' = "sent" /\ renewing' = [NoRenewal EXCEPT !.user = refresh]
       ELSE UNCHANGED flight
    /\ UNCHANGED <<tokens, signedOut, overtaken>>

\* AuthService.refresh: a new access token for whoever a valid refresh token names.
Renew ==
    /\ inFlight = "sent" /\ renewing.user \in renewable /\ issued < MaxTokens
    /\ issued' = issued + 1 /\ inFlight' = "answered"
    /\ LET t == [user |-> renewing.user, n |-> issued + 1]
       IN  valid' = valid \cup {t} /\ renewing' = [renewing EXCEPT !.answer = t]
    /\ UNCHANGED <<access, refresh, renewable, request, signedOut, overtaken>>

\* Slip: only one request is told, and only of a success.
ResumeOne(q, t) ==
    LET told == CHOOSE r \in Requests : q[r].phase = "waiting"
    IN  IF t = None THEN q
        ELSE [q EXCEPT ![told] = [@ EXCEPT !.phase = "sent", !.first = FALSE, !.token = t]]

\* Who waits goes on with what the store holds now: once more, or to the end.
Resume(q, t) ==
    [r \in Requests |->
        CASE q[r].phase # "waiting" -> q[r]
          [] q[r].phase = "waiting" /\ t # None ->
                [q[r] EXCEPT !.phase = "sent", !.first = FALSE, !.token = t,
                             !.excused = @ \/ t \notin valid]
          [] OTHER -> [q[r] EXCEPT !.phase = "unauthorized"]]

\* The refresh succeeds: setAccessToken, whatever the store holds by now.
Refreshed ==
    /\ inFlight = "answered"
    /\ access' = renewing.answer
    /\ inFlight' = "none" /\ renewing' = NoRenewal
    /\ request' = Resume(request, access')
    /\ UNCHANGED <<refresh, issued, valid, renewable, signedOut, overtaken>>

\* It is refused, or the network fails at any point: logout.
RefreshFails ==
    /\ inFlight # "none"
    /\ access' = None /\ refresh' = None /\ signedOut' = TRUE
    /\ inFlight' = "none" /\ renewing' = NoRenewal
    /\ request' = Excuse(Resume(request, None))
    /\ UNCHANGED <<issued, valid, renewable, overtaken>>

Init ==
    /\ access = None /\ refresh = None /\ issued = 0 /\ valid = {} /\ renewable = {}
    /\ request = [r \in Requests |-> Idle]
    /\ inFlight = "none" /\ renewing = NoRenewal
    /\ signedOut = TRUE /\ overtaken = FALSE

Next ==
    \/ \E u \in Users : Login(u) \/ ExpireRefresh(u)
    \/ Logout \/ Renew \/ Refreshed \/ RefreshFails
    \/ \E t \in valid : Expire(t)
    \/ \E r \in Requests :
         Send(r) \/ Serve(r) \/ Return(r) \/ Unauthorized(r) \/ AwaitRefresh(r)

\* Every fetch is answered or fails in the end, and the event loop goes on.
Fairness ==
    /\ WF_vars(Refreshed \/ RefreshFails)
    /\ \A r \in Requests :
         WF_vars(Return(r) \/ Serve(r)) /\ WF_vars(Unauthorized(r) \/ AwaitRefresh(r))

Spec == Init /\ [][Next]_vars /\ Fairness

-----------------------------------------------------------------------------
(* Properties                                                               *)

\* A request ends as unauthorized only if the session did end meanwhile or its
\* new token has expired as well: the first expired answer is always made up for
\* by one refresh, however many requests wait for it.  And a session that has
\* ended is not signed in again but by a login, unless a login or a logout came
\* while a refresh was under way (it then sets its access token all the same).
SessionEndsOnlyOnce ==
    /\ \A r \in Requests : request[r].phase = "unauthorized" => request[r].excused
    /\ signedOut /\ ~ overtaken => access = None /\ refresh = None

\* Every request returns or throws in the end: no one waits for a refresh whose
\* end nobody reports (apiRequest, refreshAccessToken).
EveryRequestEnds == \A r \in Requests : Active(r) ~> ~ Active(r)
===============================================================================
