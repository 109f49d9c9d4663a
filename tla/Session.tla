------------------------------- MODULE Session -------------------------------
(***************************************************************************)
(* One browser tab and its sign-in: what keeps the tokens of a user, and    *)
(* who replaces them.                                                      *)
(*                                                                         *)
(*   auth-svc          issues an access token at login and at refresh      *)
(*   next-auth         (external; its callbacks are lib/auth.ts) keeps the *)
(*                     tokens in a cookie; useSession() is a copy of it    *)
(*   session-bridge    copies the session into the token store             *)
(*   token.ts          the token store, and the one refresh in flight      *)
(*   http.ts           puts the store's token on a request, refreshes and  *)
(*                     retries once on a 401                               *)
(*                                                                         *)
(* Access tokens are numbered in the order auth-svc issues them.  A refresh *)
(* token is issued at login only and always travels with the access token, *)
(* so a token in the cookie or the session stands for both.                *)
(***************************************************************************)
EXTENDS Naturals, FiniteSets

CONSTANTS
    Request,   \* the API requests of the pages
    Budget,    \* how often the user and the network may do each of Event
    Mix,       \* how many different events may happen in one behaviour
    Loading    \* the session before next-auth's first answer

Event == {"expire", "refuse", "net", "focus", "login", "logout", "reload"}

ASSUME BudgetAssumption == Budget \in [Event -> Nat] /\ Mix \in Nat /\ Loading \notin Nat

VARIABLES
    page,      \* the page shown
    form,      \* the state of the sign-in form
    cookie,    \* the access token in next-auth's cookie
    session,   \* what useSession() returns
    seen,      \* the access token of the session the bridge last copied
    store,     \* token.ts: accessToken, and whether it has a refreshToken
    issued,    \* access tokens auth-svc has issued
    expired,   \* the newest of them that has expired
    refusing,  \* auth-svc refuses the refresh token: it has expired
    request,   \* the requests of the pages
    refresh,   \* refreshPromise: whether it is pending, and the requests that wait for it
    poll,      \* GET /session calls in flight, by the cookie they carry
    update,    \* the POST /session call in flight and the token the cookie will get
    leaving,   \* signOut(): not called, asked next-auth, about to navigate
    cause,     \* why signOut() was called first
    careful,   \* a single tab whose user and pages wait for the session before they act
    left       \* what remains of the budget

vars == <<page, form, cookie, session, seen, store, issued, expired, refusing, request,
          refresh, poll, update, leaving, cause, careful, left>>

-----------------------------------------------------------------------------
NoToken == 0   \* null, signed out

Token == Nat
NoStore == [access |-> NoToken, refresh |-> FALSE]
NoRefresh == [pending |-> FALSE, waiting |-> {}]
NoUpdate == [busy |-> FALSE, tok |-> NoToken]
Fresh == [st |-> "idle", tok |-> NoToken, retried |-> FALSE]

TypeOK ==
    /\ page \in {"signin", "dashboard"}
    /\ form \in {"form", "busy", "error", "success"}
    /\ cookie \in Token /\ session \in Token \cup {Loading} /\ seen \in Token
    /\ store \in [access: Token, refresh: BOOLEAN]
    /\ issued \in Nat /\ expired \in 0..issued /\ refusing \in BOOLEAN
    /\ request \in [Request -> [st: {"idle", "sent", "waiting", "ok", "unauthorized", "lost", "gone"},
                                tok: Token, retried: BOOLEAN]]
    /\ refresh \in [pending: BOOLEAN, waiting: SUBSET Request]
    /\ poll \in SUBSET Token /\ update \in [busy: BOOLEAN, tok: Token]
    /\ leaving \in {"no", "asked", "cleared"}
    /\ cause \in {"none", "user", "refused", "lost", "bare"}
    /\ careful \in BOOLEAN /\ left \in [Event -> Nat]

\* A page that has just been loaded, with the cookie of an earlier visit or without.
Init ==
    /\ \/ page = "dashboard" /\ cookie = 1 /\ issued = 1
       \/ page = "signin" /\ cookie = NoToken /\ issued = 0
    /\ form = "form" /\ session = Loading /\ seen = NoToken /\ store = NoStore
    /\ expired = 0 /\ refusing = FALSE
    /\ request = [r \in Request |-> Fresh]
    /\ refresh = NoRefresh /\ poll = {cookie} /\ update = NoUpdate
    /\ leaving = "no" /\ cause = "none" /\ left = Budget
    /\ careful \in BOOLEAN

Happened == {e \in Event : left[e] < Budget[e]}
Spend(event) ==
    /\ left[event] > 0 /\ Cardinality(Happened \cup {event}) <= Mix
    /\ left' = [left EXCEPT ![event] = @ - 1]

\* RequireAuth: a request without a token and one whose token has expired get a 401.
Accepted(tok) == tok > expired

-----------------------------------------------------------------------------
(* The environment.                                                        *)

Expire ==
    /\ expired < issued /\ Spend("expire") /\ expired' = issued
    /\ UNCHANGED <<page, form, cookie, session, seen, store, issued, refusing, request,
                   refresh, poll, update, leaving, cause, careful>>

RefreshTokenExpires ==
    /\ ~refusing /\ Spend("refuse") /\ refusing' = TRUE
    /\ UNCHANGED <<page, form, cookie, session, seen, store, issued, expired, request,
                   refresh, poll, update, leaving, cause, careful>>

\* The tab becomes visible: SessionProvider fetches a session it already had.
Focus ==
    /\ session \notin {Loading, NoToken} /\ ~careful
    /\ Spend("focus") /\ poll' = poll \cup {cookie}
    /\ UNCHANGED <<page, form, cookie, session, seen, store, issued, expired, refusing,
                   request, refresh, update, leaving, cause, careful>>

\* Another tab of the browser signs out; next-auth broadcasts it to this one.
SignOutElsewhere ==
    /\ cookie # NoToken /\ session # Loading /\ ~careful
    /\ Spend("logout") /\ cookie' = NoToken /\ poll' = poll \cup {NoToken}
    /\ UNCHANGED <<page, form, session, seen, store, issued, expired, refusing, request,
                   refresh, update, leaving, cause, careful>>

-----------------------------------------------------------------------------
(* next-auth and the bridge.                                               *)

\* The session callback hands out the tokens of the cookie the call carried, and
\* the answer sets that cookie again; without a cookie there is no session.
PollReply ==
    \E tok \in poll :
        /\ poll' = poll \ {tok} /\ session' = tok
        /\ cookie' = IF tok = NoToken THEN cookie ELSE tok
        /\ UNCHANGED <<page, form, seen, store, issued, expired, refusing, request, refresh,
                       update, leaving, cause, careful, left>>

\* Mutant: the jwt callback keeps the access token of the login.
UpdatedCookieStale(tok) == cookie

\* The jwt callback with trigger "update".
UpdatedCookie(tok) == tok

\* A call that carried no cookie is answered with no session, which update() ignores.
UpdateReply ==
    /\ update.busy /\ update' = NoUpdate
    /\ \/ /\ update.tok # NoToken
          /\ session' = UpdatedCookie(update.tok) /\ cookie' = UpdatedCookie(update.tok)
       \/ update.tok = NoToken /\ UNCHANGED <<session, cookie>>
    /\ UNCHANGED <<page, form, seen, store, issued, expired, refusing, request, refresh,
                   poll, leaving, cause, careful, left>>

\* Mutant: the loading session is not told from a session.
TokenOfRaw(s) == s

\* session?.accessToken ?? null
TokenOf(s) == IF s = Loading THEN NoToken ELSE s

\* Mutant: the bridge copies the access token only.
BridgedAccess(tok) == [access |-> tok, refresh |-> FALSE]

Bridged(tok) == [access |-> tok, refresh |-> tok # NoToken]

\* The first effect of ApiSessionBridge, which runs when the session's tokens changed.
BridgeEffect ==
    /\ TokenOf(session) # seen
    /\ seen' = TokenOf(session)
    /\ store' = Bridged(TokenOf(session))
    /\ UNCHANGED <<page, form, cookie, session, issued, expired, refusing, request, refresh,
                   poll, update, leaving, cause, careful, left>>

-----------------------------------------------------------------------------
(* The API client.                                                         *)

Hydrated == session # Loading /\ TokenOf(session) = seen

Sent(retried) == [st |-> "sent", tok |-> store.access, retried |-> retried]

\* A page asks for something; the request interceptor adds the store's token.
Send(r) ==
    /\ page = "dashboard" /\ request[r].st = "idle"
    /\ careful => Hydrated
    /\ request' = [request EXCEPT ![r] = Sent(FALSE)]
    /\ UNCHANGED <<page, form, cookie, session, seen, store, issued, expired, refusing,
                   refresh, poll, update, leaving, cause, careful, left>>

Answer(r, st) == request' = [request EXCEPT ![r].st = st]

\* onAuthFailure and the log-out button: signOut({ callbackUrl: "/signin" }).
SignOut(why) ==
    /\ leaving' = IF leaving = "no" THEN "asked" ELSE leaving
    /\ cause' = IF leaving = "no" THEN why ELSE cause

AnswerOk(r) ==
    /\ request[r].st = "sent" /\ Accepted(request[r].tok)
    /\ Answer(r, "ok")
    /\ UNCHANGED <<page, form, cookie, session, seen, store, issued, expired, refusing,
                   refresh, poll, update, leaving, cause, careful, left>>

\* The request fails without an answer: an ApiError with status 0.
RequestLost(r) ==
    /\ request[r].st = "sent" /\ Spend("net")
    /\ Answer(r, "lost")
    /\ UNCHANGED <<page, form, cookie, session, seen, store, issued, expired, refusing,
                   refresh, poll, update, leaving, cause, careful>>

Rejected(r) == request[r].st = "sent" /\ ~Accepted(request[r].tok)

\* A 401 to the retry is final.
RejectedAgain(r) ==
    /\ Rejected(r) /\ request[r].retried
    /\ Answer(r, "unauthorized")
    /\ UNCHANGED <<page, form, cookie, session, seen, store, issued, expired, refusing,
                   refresh, poll, update, leaving, cause, careful, left>>

\* refreshAccessToken without a refresh token gives up at once.
RejectedBare(r) ==
    /\ Rejected(r) /\ ~request[r].retried /\ ~store.refresh
    /\ Answer(r, "unauthorized") /\ SignOut("bare")
    /\ UNCHANGED <<page, form, cookie, session, seen, store, issued, expired, refusing,
                   refresh, poll, update, careful, left>>

\* Mutant: only the request that started the refresh is resumed by it.
JoinedFirst(r) == IF refresh.pending THEN refresh.waiting ELSE {r}

\* Whoever finds a refresh in flight waits for the same promise.
Joined(r) == refresh.waiting \cup {r}

RejectedRefresh(r) ==
    /\ Rejected(r) /\ ~request[r].retried /\ store.refresh
    /\ Answer(r, "waiting")
    /\ refresh' = [pending |-> TRUE, waiting |-> Joined(r)]
    /\ UNCHANGED <<page, form, cookie, session, seen, store, issued, expired, refusing,
                   poll, update, leaving, cause, careful, left>>

Resumed(as) == [r \in Request |-> IF r \in refresh.waiting THEN as ELSE request[r]]

\* Mutant: a refresh resumes its requests before it stores the token.
ResentEarly(tok) == Sent(TRUE)

\* The retries pass the request interceptor again.
Resent(tok) == [st |-> "sent", tok |-> tok, retried |-> TRUE]

\* POST /refresh succeeds: store the token, hand it to next-auth, retry.
\* next-auth's update() does nothing while it is loading or updating.
RefreshReply ==
    /\ refresh.pending /\ ~refusing
    /\ issued' = issued + 1
    /\ store' = [store EXCEPT !.access = issued + 1]
    /\ update' = IF session = Loading \/ update.busy THEN update
                 ELSE [busy |-> TRUE, tok |-> IF cookie = NoToken THEN NoToken ELSE issued + 1]
    /\ request' = Resumed(Resent(issued + 1))
    /\ refresh' = NoRefresh
    /\ UNCHANGED <<page, form, cookie, session, seen, expired, refusing, poll, leaving,
                   cause, careful, left>>

RefreshFails(why) ==
    /\ refresh.pending /\ SignOut(why)
    /\ request' = [r \in Request |-> IF r \in refresh.waiting
                                     THEN [request[r] EXCEPT !.st = "unauthorized"] ELSE request[r]]
    /\ refresh' = NoRefresh
    /\ UNCHANGED <<page, form, cookie, session, seen, store, issued, expired, refusing,
                   poll, update, careful>>

RefreshRefused == refusing /\ RefreshFails("refused") /\ UNCHANGED left
RefreshLost == RefreshFails("lost") /\ Spend("net")

-----------------------------------------------------------------------------
(* Signing out, loading a page, signing in.                                *)

LogoutButton ==
    /\ page = "dashboard" /\ leaving = "no" /\ Spend("logout") /\ SignOut("user")
    /\ UNCHANGED <<page, form, cookie, session, seen, store, issued, expired, refusing,
                   request, refresh, poll, update, careful>>

\* next-auth answers POST /signout: the cookie is gone.
SignOutReply ==
    /\ leaving = "asked" /\ leaving' = "cleared" /\ cookie' = NoToken
    /\ UNCHANGED <<page, form, session, seen, store, issued, expired, refusing, request,
                   refresh, poll, update, cause, careful, left>>

\* A full page load forgets everything but the cookie, which a call in flight may
\* still have set.  DashboardLayout sends a visitor without a cookie to sign in.
Load(to) ==
    \E jar \in {cookie} \cup ((poll \cup {update.tok}) \ {NoToken}) :
        /\ cookie' = jar
        /\ page' = IF to = "dashboard" /\ jar = NoToken THEN "signin" ELSE to
        /\ form' = "form" /\ session' = Loading /\ seen' = NoToken /\ store' = NoStore
        /\ request' = [r \in Request |-> IF request[r].st \in {"sent", "waiting"}
                                         THEN [request[r] EXCEPT !.st = "gone"] ELSE request[r]]
        /\ refresh' = NoRefresh /\ poll' = {jar} /\ update' = NoUpdate
        /\ leaving' = "no"
        /\ UNCHANGED <<issued, expired, refusing, cause, careful>>

Navigate == leaving = "cleared" /\ Load("signin") /\ UNCHANGED left
Reload == page = "dashboard" /\ leaving = "no" /\ Spend("reload") /\ Load("dashboard")

\* handleCredentials; the button is disabled while it is under way.
SubmitSignIn ==
    /\ page = "signin" /\ form \in {"form", "error"} /\ Spend("login")
    /\ careful => Hydrated
    /\ form' = "busy"
    /\ UNCHANGED <<page, cookie, session, seen, store, issued, expired, refusing, request,
                   refresh, poll, update, leaving, cause, careful>>

\* authorize gets tokens from POST /login; signIn() fetches the session before it returns.
SignInReply ==
    /\ form = "busy"
    /\ \/ /\ form' = "success" /\ issued' = issued + 1 /\ refusing' = FALSE
          /\ cookie' = issued + 1 /\ session' = issued + 1
       \/ form' = "error" /\ UNCHANGED <<issued, refusing, cookie, session>>
    /\ UNCHANGED <<page, seen, store, expired, request, refresh, poll, update, leaving,
                   cause, careful, left>>

\* router.push("/dashboard"), a second later; the layout checks the cookie.
EnterDashboard ==
    /\ form = "success" /\ page = "signin" /\ form' = "form"
    /\ page' = IF cookie = NoToken THEN "signin" ELSE "dashboard"
    /\ UNCHANGED <<cookie, session, seen, store, issued, expired, refusing, request, refresh,
                   poll, update, leaving, cause, careful, left>>

-----------------------------------------------------------------------------
RequestAnswer(r) == AnswerOk(r) \/ RejectedAgain(r) \/ RejectedBare(r) \/ RejectedRefresh(r)
RefreshAnswer == RefreshReply \/ RefreshRefused

Next ==
    \/ Expire \/ RefreshTokenExpires \/ Focus \/ SignOutElsewhere
    \/ PollReply \/ UpdateReply \/ BridgeEffect
    \/ \E r \in Request : Send(r) \/ RequestAnswer(r) \/ RequestLost(r)
    \/ RefreshAnswer \/ RefreshLost
    \/ LogoutButton \/ SignOutReply \/ Navigate \/ Reload
    \/ SubmitSignIn \/ SignInReply \/ EnterDashboard

Spec == Init /\ [][Next]_vars

\* Every call is answered or aborted, and effects run.
FairSpec ==
    /\ Spec
    /\ \A r \in Request : WF_vars(RequestAnswer(r))
    /\ WF_vars(RefreshAnswer) /\ WF_vars(PollReply) /\ WF_vars(UpdateReply)
    /\ WF_vars(BridgeEffect) /\ WF_vars(SignOutReply) /\ WF_vars(Navigate)

-----------------------------------------------------------------------------
(* Properties.                                                             *)

\* When nothing is in flight in such a tab, the cookie, the session and the
\* token store agree, so the token of the last silent refresh survives a reload
\* (auth.ts:109-112), although update() drops the calls it gets while it is busy.
Quiet ==
    /\ Hydrated /\ poll = {} /\ ~update.busy /\ ~refresh.pending
    /\ leaving = "no" /\ form # "busy"
Agreement ==
    careful /\ Quiet => session = cookie /\ store.access = cookie

\* Where requests wait for the session, the client signs nobody out of itself unless
\* auth-svc refused the refresh token or did not answer, or another tab signed out.
NoUndeservedSignOut ==
    careful => cause # "bare"

\* A request that came back unauthorized had its refresh fail: one expiry, however
\* many requests meet it and whatever replaces the token meanwhile, costs none of
\* them its answer (http.ts:32-49).
SilentRefresh ==
    careful /\ Budget["expire"] <= 1 =>
        \A r \in Request : request[r].st = "unauthorized" => cause \in {"refused", "lost", "user"}

\* No request waits for ever, the ones that share a refresh included.
EveryRequestSettles ==
    \A r \in Request : request[r].st \in {"sent", "waiting"}
                          ~> request[r].st \notin {"sent", "waiting"}

\* auth.ts:109 and plan.md:114 promise a silent refresh that survives a reload: as
\* long as auth-svc honours the refresh token nobody is signed out unasked.
StaysSignedIn == cause # "bare"
=============================================================================
