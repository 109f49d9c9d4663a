---------------------------- MODULE SessionProofs ----------------------------
(***************************************************************************)
(* Theorems about Session for any number of requests and of events.        *)
(***************************************************************************)
EXTENDS Session, TLAPS

-----------------------------------------------------------------------------
(* Types.                                                                  *)

RequestRecord ==
    [st: {"idle", "sent", "waiting", "ok", "unauthorized", "lost", "gone"}, tok: Token,
     retried: BOOLEAN]

LEMMA Spending ==
    ASSUME left \in [Event -> Nat], NEW e \in Event, Spend(e)
    PROVE  /\ left' \in [Event -> Nat] /\ left[e] > 0 /\ left'[e] = left[e] - 1
           /\ \A d \in Event : d # e => left'[d] = left[d]
BY DEF Spend

LEMMA Events ==
    /\ "expire" \in Event /\ "refuse" \in Event /\ "net" \in Event /\ "focus" \in Event
    /\ "login" \in Event /\ "logout" \in Event /\ "reload" \in Event
BY DEF Event

LEMMA InitTypes == Init => TypeOK
<1> SUFFICES ASSUME Init PROVE TypeOK
  OBVIOUS
<1>1. cookie \in {0, 1} /\ issued = cookie /\ expired = 0 /\ page \in {"signin", "dashboard"}
  BY DEF Init, NoToken
<1>2. cookie \in Token /\ issued \in Nat /\ expired \in 0..issued /\ poll \in SUBSET Token
  BY <1>1 DEF Init, Token
<1>3. request \in [Request -> RequestRecord]
  BY DEF Init, Fresh, RequestRecord, NoToken, Token
<1>4. /\ seen \in Token /\ store \in [access: Token, refresh: BOOLEAN]
      /\ refresh \in [pending: BOOLEAN, waiting: SUBSET Request]
      /\ update \in [busy: BOOLEAN, tok: Token]
  BY DEF Init, NoToken, Token, NoStore, NoRefresh, NoUpdate
<1> QED
  BY <1>1, <1>2, <1>3, <1>4, BudgetAssumption DEF Init, TypeOK, RequestRecord

\* What the steps make of a request.
LEMMA RequestFields ==
    ASSUME TypeOK
    PROVE  /\ request \in [Request -> RequestRecord]
           /\ \A b \in BOOLEAN : Sent(b) \in RequestRecord
           /\ \A tok \in Token : Resent(tok) \in RequestRecord
           /\ \A r \in Request,
                 st \in {"ok", "unauthorized", "lost", "waiting", "gone"} :
                    [request[r] EXCEPT !.st = st] \in RequestRecord
<1>1. request \in [Request -> RequestRecord] /\ store.access \in Token
  BY DEF TypeOK, RequestRecord
<1>2. \A b \in BOOLEAN : Sent(b) \in RequestRecord
  BY <1>1 DEF Sent, RequestRecord
<1>3. \A tok \in Token : Resent(tok) \in RequestRecord
  BY DEF Resent, RequestRecord
<1>4. \A r \in Request, st \in {"ok", "unauthorized", "lost", "waiting", "gone"} :
         [request[r] EXCEPT !.st = st] \in RequestRecord
  <2> SUFFICES ASSUME NEW r \in Request, NEW st \in {"ok", "unauthorized", "lost", "waiting", "gone"}
               PROVE  [request[r] EXCEPT !.st = st] \in RequestRecord
    OBVIOUS
  <2>1. request[r] \in RequestRecord
    BY <1>1
  <2> QED
    BY <2>1 DEF RequestRecord
<1> QED
  BY <1>1, <1>2, <1>3, <1>4

\* The steps in which a request is answered or its refresh ends.
LEMMA RequestTypes ==
    ASSUME TypeOK, (\E r \in Request : Send(r) \/ RequestAnswer(r) \/ RequestLost(r))
                      \/ RefreshAnswer \/ RefreshLost
    PROVE  TypeOK'
<1>a. request \in [Request -> RequestRecord]
  BY RequestFields
<1>b. ASSUME NEW r \in Request, NEW st \in {"ok", "unauthorized", "lost", "waiting"}, Answer(r, st)
      PROVE  request' \in [Request -> RequestRecord]
  <2>1. [request[r] EXCEPT !.st = st] \in RequestRecord
    BY RequestFields
  <2>2. request' = [request EXCEPT ![r] = [request[r] EXCEPT !.st = st]]
    BY <1>b DEF Answer
  <2> QED
    BY <1>a, <2>1, <2>2
<1>1. ASSUME NEW r \in Request, Send(r) PROVE TypeOK'
  <2>1. request' \in [Request -> RequestRecord]
    BY <1>1, <1>a, RequestFields DEF Send
  <2>2. UNCHANGED <<page, form, cookie, session, seen, store, issued, expired, refusing,
                    refresh, poll, update, leaving, cause, careful, left>>
    BY <1>1 DEF Send
  <2> QED
    BY <2>1, <2>2 DEF TypeOK, RequestRecord
<1>2. ASSUME NEW r \in Request, AnswerOk(r) PROVE TypeOK'
  <2>1. request' \in [Request -> RequestRecord]
    BY <1>2, <1>b DEF AnswerOk
  <2> QED
    BY <1>2, <2>1 DEF AnswerOk, TypeOK, RequestRecord
<1>3. ASSUME NEW r \in Request, RejectedAgain(r) PROVE TypeOK'
  <2>1. request' \in [Request -> RequestRecord]
    BY <1>3, <1>b DEF RejectedAgain
  <2> QED
    BY <1>3, <2>1 DEF RejectedAgain, TypeOK, RequestRecord
<1>4. ASSUME NEW r \in Request, RejectedBare(r) PROVE TypeOK'
  <2>1. request' \in [Request -> RequestRecord]
    BY <1>4, <1>b DEF RejectedBare
  <2> QED
    BY <1>4, <2>1 DEF RejectedBare, SignOut, TypeOK, RequestRecord
<1>5. ASSUME NEW r \in Request, RejectedRefresh(r) PROVE TypeOK'
  <2>1. request' \in [Request -> RequestRecord]
    BY <1>5, <1>b DEF RejectedRefresh
  <2>2. refresh' \in [pending: BOOLEAN, waiting: SUBSET Request]
    BY <1>5 DEF RejectedRefresh, Joined, TypeOK
  <2> QED
    BY <1>5, <2>1, <2>2 DEF RejectedRefresh, TypeOK, RequestRecord
<1>6. ASSUME NEW r \in Request, RequestLost(r) PROVE TypeOK'
  <2>1. request' \in [Request -> RequestRecord]
    BY <1>6, <1>b DEF RequestLost
  <2>2. left' \in [Event -> Nat]
    BY <1>6, Spending, Events DEF RequestLost, TypeOK
  <2> QED
    BY <1>6, <2>1, <2>2 DEF RequestLost, TypeOK, RequestRecord
<1>7. CASE RefreshReply
  <2>1. issued + 1 \in Token /\ issued \in Nat
    BY DEF TypeOK, Token
  <2>2. request' \in [Request -> RequestRecord]
    BY <1>7, <1>a, <2>1, RequestFields DEF RefreshReply, Resumed
  <2>3. store' \in [access: Token, refresh: BOOLEAN]
    BY <1>7, <2>1 DEF RefreshReply, TypeOK
  <2>4. update' \in [busy: BOOLEAN, tok: Token]
    BY <1>7, <2>1 DEF RefreshReply, TypeOK, NoToken, Token
  <2>5. refresh' \in [pending: BOOLEAN, waiting: SUBSET Request]
    BY <1>7 DEF RefreshReply, NoRefresh
  <2> QED
    BY <1>7, <2>1, <2>2, <2>3, <2>4, <2>5 DEF RefreshReply, TypeOK, RequestRecord
<1>c. ASSUME NEW why \in {"refused", "lost"}, RefreshFails(why), left' \in [Event -> Nat]
      PROVE  TypeOK'
  <2>1. request' \in [Request -> RequestRecord]
    BY <1>c, <1>a, RequestFields DEF RefreshFails
  <2>2. refresh' \in [pending: BOOLEAN, waiting: SUBSET Request]
    BY <1>c DEF RefreshFails, NoRefresh
  <2>3. leaving' \in {"no", "asked", "cleared"} /\ cause' \in {"none", "user", "refused", "lost", "bare"}
    BY <1>c DEF RefreshFails, SignOut, TypeOK
  <2> QED
    BY <1>c, <2>1, <2>2, <2>3 DEF RefreshFails, TypeOK, RequestRecord
<1>8. CASE RefreshRefused
  BY <1>8, <1>c DEF RefreshRefused, TypeOK
<1>9. CASE RefreshLost
  <2>1. left' \in [Event -> Nat]
    BY <1>9, Spending, Events DEF RefreshLost, TypeOK
  <2> QED
    BY <1>9, <1>c, <2>1 DEF RefreshLost
<1> QED
  BY <1>1, <1>2, <1>3, <1>4, <1>5, <1>6, <1>7, <1>8, <1>9 DEF RequestAnswer, RefreshAnswer

LEMMA LoadTypes ==
    ASSUME TypeOK, NEW to \in {"signin", "dashboard"}, Load(to), left' \in [Event -> Nat]
    PROVE  TypeOK'
<1>1. PICK jar \in {cookie} \cup ((poll \cup {update.tok}) \ {NoToken}) :
         /\ cookie' = jar /\ page' = IF to = "dashboard" /\ jar = NoToken THEN "signin" ELSE to
         /\ poll' = {jar}
  BY DEF Load
<1>2. jar \in Token
  BY DEF TypeOK
<1>3. request' \in [Request -> RequestRecord]
  BY RequestFields DEF Load
<1>4. /\ refresh' \in [pending: BOOLEAN, waiting: SUBSET Request]
      /\ update' \in [busy: BOOLEAN, tok: Token] /\ store' \in [access: Token, refresh: BOOLEAN]
  BY DEF Load, NoRefresh, NoUpdate, NoStore, NoToken, Token
<1> QED
  BY <1>1, <1>2, <1>3, <1>4 DEF Load, TypeOK, RequestRecord, NoToken, Token

LEMMA NextTypes ==
    ASSUME TypeOK, [Next]_vars
    PROVE  TypeOK'
<1>a. TokenOf(session) \in Token
  BY DEF TokenOf, TypeOK, NoToken, Token
<1>b. \A e \in Event : Spend(e) => left' \in [Event -> Nat]
  BY Spending DEF TypeOK
<1>0. CASE UNCHANGED vars
  BY <1>0 DEF vars, TypeOK
<1>1. CASE Expire
  BY <1>1, <1>b, Events DEF Expire, TypeOK
<1>2. CASE RefreshTokenExpires
  BY <1>2, <1>b, Events DEF RefreshTokenExpires, TypeOK
<1>3. CASE Focus
  BY <1>3, <1>b, Events DEF Focus, TypeOK
<1>4. CASE SignOutElsewhere
  BY <1>4, <1>b, Events DEF SignOutElsewhere, TypeOK, NoToken, Token
<1>5. CASE PollReply
  BY <1>5 DEF PollReply, TypeOK
<1>6. CASE UpdateReply
  BY <1>6 DEF UpdateReply, UpdatedCookie, NoUpdate, NoToken, Token, TypeOK
<1>7. CASE BridgeEffect
  <2>1. store' \in [access: Token, refresh: BOOLEAN]
    BY <1>7, <1>a DEF BridgeEffect, Bridged
  <2> QED
    BY <1>7, <1>a, <2>1 DEF BridgeEffect, TypeOK
<1>8. CASE LogoutButton
  BY <1>8, <1>b, Events DEF LogoutButton, SignOut, TypeOK
<1>9. CASE SignOutReply
  BY <1>9 DEF SignOutReply, TypeOK, NoToken, Token
<1>10. CASE Navigate
  BY <1>10, LoadTypes DEF Navigate, TypeOK
<1>11. CASE Reload
  BY <1>11, <1>b, Events, LoadTypes DEF Reload
<1>12. CASE SubmitSignIn
  BY <1>12, <1>b, Events DEF SubmitSignIn, TypeOK
<1>13. CASE SignInReply
  <2>1. issued' \in Nat /\ issued' >= issued /\ issued \in Nat /\ expired \in 0..issued
    BY <1>13 DEF SignInReply, TypeOK
  <2>2. expired' \in 0..issued'
    BY <1>13, <2>1 DEF SignInReply
  <2>3. cookie' \in Token /\ session' \in Token \cup {Loading}
    BY <1>13 DEF SignInReply, TypeOK, Token
  <2> QED
    BY <1>13, <2>1, <2>2, <2>3 DEF SignInReply, TypeOK
<1>14. CASE EnterDashboard
  BY <1>14 DEF EnterDashboard, TypeOK
<1> QED
  BY <1>0, <1>1, <1>2, <1>3, <1>4, <1>5, <1>6, <1>7, <1>8, <1>9, <1>10, <1>11, <1>12, <1>13,
     <1>14, RequestTypes DEF Next

\* Type correctness; in particular the newest token that has expired was issued.
THEOREM SessionTypeCorrect == Spec => []TypeOK
BY InitTypes, NextTypes, PTL DEF Spec

-----------------------------------------------------------------------------
(* A tab that waits for its session.  It is loaded with at most one call   *)
(* for the session under way, it asks and signs in only once the store     *)
(* holds what that call brought, and from then on the session never goes   *)
(* back to loading or to none, short of a page load.                       *)

Active(r) == request[r].st \in {"sent", "waiting"}
Asking == refresh.pending \/ \E r \in Request : Active(r)
Known == session \notin {Loading, NoToken}

PollsInv ==
    /\ page = "dashboard" => session # NoToken /\ NoToken \notin poll
    /\ session # Loading => poll = {}
    /\ \A t, u \in poll : t = u

FormInv ==
    /\ form # "form" => session # Loading
    /\ form = "success" => session # NoToken

StoreInv ==
    /\ session = Loading => seen = NoToken /\ store = NoStore /\ ~update.busy
    /\ seen # NoToken => store.refresh
    /\ store.refresh => store.access # NoToken

AskingInv == Asking => Known /\ store.refresh

LeavingInv ==
    /\ cause # "bare"
    /\ leaving # "no" => cause \in {"user", "refused", "lost"}

CarefulInv == PollsInv /\ FormInv /\ StoreInv /\ AskingInv /\ LeavingInv

LEMMA LoadingIsNoToken == Loading # NoToken /\ Loading \notin Token
BY BudgetAssumption DEF NoToken, Token

LEMMA CarefulInit == Init => CarefulInv
BY LoadingIsNoToken
DEF Init, CarefulInv, PollsInv, FormInv, StoreInv, AskingInv, LeavingInv, Asking, Active, Known,
    NoToken, NoStore, NoRefresh, NoUpdate, Fresh

LEMMA CarefulKept == [Next]_vars => careful' = careful
BY DEF Next, vars, Expire, RefreshTokenExpires, Focus, SignOutElsewhere, PollReply, UpdateReply,
       BridgeEffect, Send, RequestAnswer, AnswerOk, RejectedAgain, RejectedBare, RejectedRefresh,
       RequestLost, RefreshAnswer, RefreshReply, RefreshRefused, RefreshLost, RefreshFails,
       LogoutButton, SignOutReply, Navigate, Reload, Load, SubmitSignIn, SignInReply, EnterDashboard

\* A request that is answered leaves the others as they are.
LEMMA Answered ==
    ASSUME TypeOK, NEW r \in Request, NEW st, Answer(r, st)
    PROVE  /\ request'[r].st = st /\ request'[r].tok = request[r].tok
           /\ request'[r].retried = request[r].retried
           /\ \A q \in Request : q # r => request'[q] = request[q]
<1>1. request \in [Request -> RequestRecord]
  BY RequestFields
<1> QED
  BY <1>1 DEF Answer, RequestRecord

\* An answer starts nothing.
LEMMA NothingNew ==
    ASSUME TypeOK, NEW r \in Request, NEW st, Answer(r, st), Active(r), refresh'.pending => refresh.pending
    PROVE  Asking' => Asking
BY Answered DEF Asking, Active

LEMMA RequestCareful ==
    ASSUME TypeOK, careful, CarefulInv, NEW r \in Request,
           Send(r) \/ RequestAnswer(r) \/ RequestLost(r)
    PROVE  CarefulInv' /\ ~RejectedBare(r)
<1>a. UNCHANGED <<page, form, session, seen, store, poll, update>>
  BY DEF Send, RequestAnswer, AnswerOk, RejectedAgain, RejectedBare, RejectedRefresh, RequestLost
<1>b. PollsInv' /\ FormInv' /\ StoreInv'
  BY <1>a DEF CarefulInv, PollsInv, FormInv, StoreInv
<1>c. ~RejectedBare(r)
  BY DEF RejectedBare, Rejected, CarefulInv, AskingInv, Asking, Active
<1>d. UNCHANGED <<leaving, cause>> => LeavingInv'
  BY DEF CarefulInv, LeavingInv
<1>e. (Asking' => Asking) => AskingInv'
  BY <1>a DEF CarefulInv, AskingInv, Known
<1>1. CASE Send(r)
  <2>1. session # Loading /\ session # NoToken /\ session = seen
    BY <1>1 DEF Send, Hydrated, TokenOf, CarefulInv, PollsInv
  <2>2. AskingInv'
    BY <1>a, <2>1 DEF AskingInv, Known, CarefulInv, StoreInv
  <2> QED
    BY <1>1, <1>b, <1>c, <1>d, <2>2 DEF Send, CarefulInv
<1>2. CASE AnswerOk(r)
  <2>1. Asking' => Asking
    BY <1>2, NothingNew DEF AnswerOk, Active
  <2> QED
    BY <1>2, <1>b, <1>c, <1>d, <1>e, <2>1 DEF AnswerOk, CarefulInv
<1>3. CASE RejectedAgain(r)
  <2>1. Asking' => Asking
    BY <1>3, NothingNew DEF RejectedAgain, Rejected, Active
  <2> QED
    BY <1>3, <1>b, <1>c, <1>d, <1>e, <2>1 DEF RejectedAgain, CarefulInv
<1>4. CASE RejectedRefresh(r)
  <2>1. Asking
    BY <1>4 DEF RejectedRefresh, Rejected, Asking, Active
  <2> QED
    BY <1>4, <1>b, <1>c, <1>d, <1>e, <2>1 DEF RejectedRefresh, CarefulInv
<1>5. CASE RequestLost(r)
  <2>1. Asking' => Asking
    BY <1>5, NothingNew DEF RequestLost, Active
  <2> QED
    BY <1>5, <1>b, <1>c, <1>d, <1>e, <2>1 DEF RequestLost, CarefulInv
<1> QED
  BY <1>1, <1>2, <1>3, <1>4, <1>5, <1>c DEF RequestAnswer

LEMMA RefreshCareful ==
    ASSUME TypeOK, careful, CarefulInv, RefreshAnswer \/ RefreshLost
    PROVE  CarefulInv'
<1>a. UNCHANGED <<page, form, session, seen, poll>> /\ refresh.pending /\ Known /\ store.refresh
  BY DEF RefreshAnswer, RefreshReply, RefreshRefused, RefreshLost, RefreshFails, CarefulInv, AskingInv, Asking
<1>b. PollsInv' /\ FormInv'
  BY <1>a DEF CarefulInv, PollsInv, FormInv
<1>1. CASE RefreshReply
  <2>1. store' = [access |-> issued + 1, refresh |-> TRUE] /\ issued \in Nat
    BY <1>1, <1>a DEF RefreshReply, TypeOK
  <2>2. StoreInv' /\ AskingInv'
    BY <1>a, <2>1 DEF StoreInv, AskingInv, Known, NoToken
  <2>3. LeavingInv'
    BY <1>1 DEF RefreshReply, CarefulInv, LeavingInv
  <2> QED
    BY <1>b, <2>2, <2>3 DEF CarefulInv
<1>2. CASE RefreshRefused \/ RefreshLost
  <2>1. UNCHANGED <<store, update>>
    BY <1>2 DEF RefreshRefused, RefreshLost, RefreshFails
  <2>2. StoreInv' /\ AskingInv'
    BY <1>a, <2>1 DEF CarefulInv, StoreInv, AskingInv, Known
  <2>3. LeavingInv'
    BY <1>2 DEF RefreshRefused, RefreshLost, RefreshFails, SignOut, CarefulInv, LeavingInv
  <2> QED
    BY <1>b, <2>2, <2>3 DEF CarefulInv
<1> QED
  BY <1>1, <1>2 DEF RefreshAnswer

LEMMA LoadCareful ==
    ASSUME TypeOK, careful, CarefulInv, NEW to \in {"signin", "dashboard"}, Load(to)
    PROVE  CarefulInv'
<1>1. PICK jar \in {cookie} \cup ((poll \cup {update.tok}) \ {NoToken}) :
         /\ page' = IF to = "dashboard" /\ jar = NoToken THEN "signin" ELSE to
         /\ poll' = {jar}
  BY DEF Load
<1>2. /\ form' = "form" /\ session' = Loading /\ seen' = NoToken /\ store' = NoStore
      /\ update' = NoUpdate /\ leaving' = "no" /\ cause' = cause
  BY DEF Load
<1>3. PollsInv' /\ FormInv' /\ StoreInv' /\ LeavingInv'
  BY <1>1, <1>2, LoadingIsNoToken
  DEF CarefulInv, PollsInv, FormInv, StoreInv, LeavingInv, NoStore, NoUpdate
<1>4. ~Asking'
  <2>1. request \in [Request -> RequestRecord]
    BY RequestFields
  <2>2. \A r \in Request : request'[r].st \notin {"sent", "waiting"}
    BY <2>1 DEF Load, RequestRecord
  <2>3. refresh' = NoRefresh
    BY DEF Load
  <2> QED
    BY <2>2, <2>3 DEF Asking, Active, NoRefresh
<1> QED
  BY <1>3, <1>4 DEF CarefulInv, AskingInv

LEMMA CarefulNext ==
    ASSUME TypeOK, careful, CarefulInv, [Next]_vars
    PROVE  CarefulInv'
<1>a. UNCHANGED <<request, refresh>> => (Asking' => Asking)
  BY DEF Asking, Active
<1>0. CASE UNCHANGED vars
  BY <1>0 DEF vars, CarefulInv, PollsInv, FormInv, StoreInv, AskingInv, LeavingInv, Asking, Active, Known
<1>1. CASE Expire \/ RefreshTokenExpires \/ SubmitSignIn
  <2>1. UNCHANGED <<page, session, seen, store, request, refresh, poll, update, leaving, cause>>
    BY <1>1 DEF Expire, RefreshTokenExpires, SubmitSignIn
  <2>2. PollsInv' /\ StoreInv' /\ AskingInv' /\ LeavingInv'
    BY <2>1, <1>a DEF CarefulInv, PollsInv, StoreInv, AskingInv, LeavingInv, Known
  <2>3. FormInv'
    BY <1>1 DEF Expire, RefreshTokenExpires, SubmitSignIn, Hydrated, CarefulInv, FormInv
  <2> QED
    BY <2>2, <2>3 DEF CarefulInv
<1>2. CASE PollReply
  <2>1. PICK tok \in poll : poll' = poll \ {tok} /\ session' = tok
    BY <1>2 DEF PollReply
  <2>2. session = Loading /\ poll' = {} /\ tok # Loading
    BY <2>1, LoadingIsNoToken DEF CarefulInv, PollsInv, TypeOK
  <2>3. UNCHANGED <<page, form, seen, store, request, refresh, update, leaving, cause>>
    BY <1>2 DEF PollReply
  <2>4. PollsInv' /\ StoreInv' /\ LeavingInv'
    BY <2>1, <2>2, <2>3 DEF CarefulInv, PollsInv, StoreInv, LeavingInv
  <2>5. FormInv' /\ AskingInv'
    BY <1>a, <2>1, <2>2, <2>3 DEF CarefulInv, FormInv, AskingInv, Known
  <2> QED
    BY <2>4, <2>5 DEF CarefulInv
<1>3. CASE UpdateReply
  <2>1. UNCHANGED <<page, form, seen, store, request, refresh, poll, leaving, cause>>
    BY <1>3 DEF UpdateReply
  <2>2. session # Loading /\ session' # Loading /\ (session' = session \/ session' # NoToken)
    BY <1>3, LoadingIsNoToken DEF UpdateReply, UpdatedCookie, CarefulInv, StoreInv, TypeOK
  <2>3. PollsInv' /\ FormInv' /\ StoreInv' /\ LeavingInv'
    BY <2>1, <2>2 DEF CarefulInv, PollsInv, FormInv, StoreInv, LeavingInv
  <2>4. AskingInv'
    BY <1>a, <2>1, <2>2 DEF CarefulInv, AskingInv, Known
  <2> QED
    BY <2>3, <2>4 DEF CarefulInv
<1>4. CASE BridgeEffect
  <2>1. UNCHANGED <<page, form, session, request, refresh, poll, update, leaving, cause>>
    BY <1>4 DEF BridgeEffect
  <2>2. session # Loading /\ seen' = session
    BY <1>4 DEF BridgeEffect, TokenOf, CarefulInv, StoreInv
  <2>3. store' = [access |-> session, refresh |-> session # NoToken]
    BY <1>4, <2>2 DEF BridgeEffect, Bridged, TokenOf
  <2>4. PollsInv' /\ FormInv' /\ StoreInv' /\ LeavingInv'
    BY <2>1, <2>2, <2>3 DEF CarefulInv, PollsInv, FormInv, StoreInv, LeavingInv
  <2>5. AskingInv'
    BY <1>a, <2>1, <2>3 DEF CarefulInv, AskingInv, Known
  <2> QED
    BY <2>4, <2>5 DEF CarefulInv
<1>5. CASE LogoutButton \/ SignOutReply
  <2>1. UNCHANGED <<page, form, session, seen, store, request, refresh, poll, update>>
    BY <1>5 DEF LogoutButton, SignOutReply
  <2>2. PollsInv' /\ FormInv' /\ StoreInv' /\ AskingInv'
    BY <2>1, <1>a DEF CarefulInv, PollsInv, FormInv, StoreInv, AskingInv, Known
  <2>3. LeavingInv'
    BY <1>5 DEF LogoutButton, SignOutReply, SignOut, CarefulInv, LeavingInv
  <2> QED
    BY <2>2, <2>3 DEF CarefulInv
<1>6. CASE Navigate \/ Reload
  BY <1>6, LoadCareful DEF Navigate, Reload
<1>7. CASE SignInReply
  <2>1. UNCHANGED <<page, seen, store, request, refresh, poll, update, leaving, cause>>
    BY <1>7 DEF SignInReply
  <2>2. /\ session # Loading /\ session' # Loading /\ (session' = session \/ session' # NoToken)
        /\ form' = "success" => session' # NoToken
    BY <1>7, LoadingIsNoToken DEF SignInReply, CarefulInv, FormInv, TypeOK, NoToken, Token
  <2>3. PollsInv' /\ FormInv' /\ StoreInv' /\ LeavingInv'
    BY <2>1, <2>2 DEF CarefulInv, PollsInv, FormInv, StoreInv, LeavingInv
  <2>4. AskingInv'
    BY <1>a, <2>1, <2>2 DEF CarefulInv, AskingInv, Known
  <2> QED
    BY <2>3, <2>4 DEF CarefulInv
<1>8. CASE EnterDashboard
  <2>1. UNCHANGED <<session, seen, store, request, refresh, poll, update, leaving, cause>> /\ form' = "form"
    BY <1>8 DEF EnterDashboard
  <2>2. session # Loading /\ session # NoToken
    BY <1>8 DEF EnterDashboard, CarefulInv, FormInv
  <2>3. PollsInv' /\ FormInv' /\ StoreInv' /\ LeavingInv'
    BY <2>1, <2>2 DEF CarefulInv, PollsInv, FormInv, StoreInv, LeavingInv
  <2>4. AskingInv'
    BY <1>a, <2>1 DEF CarefulInv, AskingInv, Known
  <2> QED
    BY <2>3, <2>4 DEF CarefulInv
<1>9. ~Focus /\ ~SignOutElsewhere
  BY DEF Focus, SignOutElsewhere
<1> QED
  BY <1>0, <1>1, <1>2, <1>3, <1>4, <1>5, <1>6, <1>7, <1>8, <1>9, RequestCareful, RefreshCareful
  DEF Next

\* Where requests wait for the session, none finds the store without a refresh token.
THEOREM SignOutsAreDeserved == Spec => []NoUndeservedSignOut
<1>1. Init => (careful => CarefulInv)
  BY CarefulInit
<1>2. TypeOK /\ (careful => CarefulInv) /\ [Next]_vars => (careful => CarefulInv)'
  BY CarefulKept, CarefulNext
<1>3. (careful => CarefulInv) => NoUndeservedSignOut
  BY DEF CarefulInv, LeavingInv, NoUndeservedSignOut
<1> QED
  BY <1>1, <1>2, <1>3, InitTypes, NextTypes, PTL DEF Spec

-----------------------------------------------------------------------------
(* The cookie, the session and the store.  Every token that travels was    *)
(* issued, so a refresh brings one that neither the session nor the bridge *)
(* has; a refresh that next-auth drops leaves the store ahead only until   *)
(* the call that was busy has answered.                                    *)

IssuedInv ==
    /\ cookie <= issued /\ seen <= issued /\ update.tok <= issued
    /\ session # Loading => session <= issued
    /\ \A t \in poll : t <= issued

AgreeInv ==
    leaving = "no" =>
        /\ session = Loading => poll = {cookie}
        /\ session # Loading => session = cookie
        /\ session # Loading /\ session = seen /\ ~update.busy => store.access = session
        /\ update.busy => update.tok \notin {NoToken, session, seen}

LEMMA IssuedInit == Init => IssuedInv
BY DEF Init, IssuedInv, NoToken, NoUpdate

LEMMA IssuedNext ==
    ASSUME TypeOK, IssuedInv, [Next]_vars
    PROVE  IssuedInv'
<1>a. issued \in Nat /\ cookie \in Nat /\ seen \in Nat /\ update.tok \in Nat /\ poll \subseteq Nat
  BY DEF TypeOK, Token
<1>b. session # Loading => session \in Nat
  BY DEF TypeOK, Token
<1>0. CASE UNCHANGED <<cookie, session, seen, poll, update, issued>>
  BY <1>0 DEF IssuedInv
<1>1. CASE Focus \/ SignOutElsewhere
  <2>1. /\ UNCHANGED <<session, seen, update, issued>> /\ cookie' \in {cookie, NoToken}
        /\ poll' \subseteq poll \cup {cookie, NoToken}
    BY <1>1 DEF Focus, SignOutElsewhere
  <2>2. cookie' <= issued /\ \A t \in poll' : t <= issued
    BY <1>a, <2>1 DEF IssuedInv, NoToken
  <2> QED
    BY <2>1, <2>2 DEF IssuedInv
<1>2. CASE PollReply
  BY <1>2, <1>a DEF PollReply, IssuedInv
<1>3. CASE UpdateReply
  BY <1>3, <1>a DEF UpdateReply, UpdatedCookie, NoUpdate, NoToken, IssuedInv
<1>4. CASE BridgeEffect
  BY <1>4, <1>a DEF BridgeEffect, TokenOf, NoToken, IssuedInv
<1>5. CASE RefreshReply
  <2>1. /\ issued' = issued + 1 /\ UNCHANGED <<cookie, session, seen, poll>>
        /\ update'.tok \in {update.tok, NoToken, issued + 1}
    BY <1>5 DEF RefreshReply
  <2> QED
    BY <1>a, <1>b, <2>1 DEF IssuedInv, NoToken
<1>6. CASE SignOutReply
  BY <1>6, <1>a DEF SignOutReply, IssuedInv, NoToken
<1>7. CASE Navigate \/ Reload
  <2>1. PICK jar \in {cookie} \cup ((poll \cup {update.tok}) \ {NoToken}) :
           cookie' = jar /\ poll' = {jar} /\ session' = Loading /\ seen' = NoToken
             /\ update' = NoUpdate /\ issued' = issued
    BY <1>7 DEF Navigate, Reload, Load
  <2>2. jar <= issued
    BY DEF IssuedInv
  <2> QED
    BY <1>a, <2>1, <2>2 DEF IssuedInv, NoToken, NoUpdate
<1>8. CASE SignInReply
  BY <1>8, <1>a, <1>b DEF SignInReply, IssuedInv
<1>9. CASE \/ Expire \/ RefreshTokenExpires \/ RefreshRefused \/ RefreshLost \/ LogoutButton
           \/ SubmitSignIn \/ EnterDashboard
           \/ \E r \in Request : Send(r) \/ RequestAnswer(r) \/ RequestLost(r)
  BY <1>0, <1>9 DEF Expire, RefreshTokenExpires, RefreshRefused, RefreshLost, RefreshFails,
     LogoutButton, SubmitSignIn, EnterDashboard, Send, RequestAnswer, AnswerOk, RejectedAgain,
     RejectedBare, RejectedRefresh, RequestLost
<1> QED
  BY <1>0, <1>1, <1>2, <1>3, <1>4, <1>5, <1>6, <1>7, <1>8, <1>9 DEF Next, vars, RefreshAnswer

LEMMA AgreeInit == Init => AgreeInv
BY LoadingIsNoToken DEF Init, AgreeInv, NoUpdate

LEMMA AgreeNext ==
    ASSUME TypeOK, IssuedInv, careful, CarefulInv, AgreeInv, [Next]_vars
    PROVE  AgreeInv'
<1>a. /\ issued \in Nat /\ cookie \in Nat /\ seen \in Nat /\ update.tok \in Nat
      /\ session # Loading => session \in Nat /\ session <= issued
      /\ seen <= issued /\ cookie <= issued
  BY DEF TypeOK, Token, IssuedInv
<1>0. CASE UNCHANGED <<cookie, session, seen, store, poll, update, leaving>>
  BY <1>0 DEF AgreeInv
<1>1. CASE leaving' # "no"
  BY <1>1 DEF AgreeInv
<1>2. CASE PollReply
  <2>1. PICK tok \in poll : /\ poll' = poll \ {tok} /\ session' = tok
                            /\ cookie' = IF tok = NoToken THEN cookie ELSE tok
    BY <1>2 DEF PollReply
  <2>2. session = Loading /\ tok # Loading /\ seen = NoToken /\ store = NoStore /\ ~update.busy
    BY <2>1, LoadingIsNoToken DEF CarefulInv, PollsInv, StoreInv, TypeOK
  <2>3. UNCHANGED <<seen, store, update, leaving>>
    BY <1>2 DEF PollReply
  <2> QED
    BY <2>1, <2>2, <2>3 DEF AgreeInv, NoStore
<1>3. CASE UpdateReply
  <2>1. UNCHANGED <<seen, store, poll, leaving>> /\ update' = NoUpdate /\ update.busy
    BY <1>3 DEF UpdateReply
  <2>2. session # Loading
    BY <2>1 DEF CarefulInv, StoreInv
  <2>3. CASE leaving = "no"
    <3>1. update.tok \notin {NoToken, session, seen}
      BY <2>1, <2>3 DEF AgreeInv
    <3>2. session' = update.tok /\ cookie' = update.tok /\ update.tok # Loading
      BY <1>3, <3>1, LoadingIsNoToken DEF UpdateReply, UpdatedCookie, TypeOK
    <3> QED
      BY <2>1, <3>1, <3>2 DEF AgreeInv, NoUpdate
  <2> QED
    BY <2>1, <2>3 DEF AgreeInv
<1>4. CASE BridgeEffect
  <2>1. UNCHANGED <<cookie, session, poll, update, leaving>>
    BY <1>4 DEF BridgeEffect
  <2>2. session # Loading /\ seen' = session
    BY <1>4 DEF BridgeEffect, TokenOf, CarefulInv, StoreInv
  <2>3. store'.access = session
    BY <1>4, <2>2 DEF BridgeEffect, Bridged, TokenOf
  <2> QED
    BY <2>1, <2>2, <2>3 DEF AgreeInv
<1>5. CASE RefreshReply
  <2>1. UNCHANGED <<cookie, session, seen, poll, leaving>> /\ Known
    BY <1>5 DEF RefreshReply, CarefulInv, AskingInv, Asking
  <2>2. CASE leaving = "no"
    <3>1. cookie = session /\ cookie # NoToken
      BY <2>1, <2>2 DEF AgreeInv, Known
    <3>2. update' = IF update.busy THEN update ELSE [busy |-> TRUE, tok |-> issued + 1]
      BY <1>5, <2>1, <3>1 DEF RefreshReply, Known
    <3>3. update'.busy /\ update'.tok \notin {NoToken, session, seen}
      BY <1>a, <2>1, <2>2, <3>2 DEF AgreeInv, Known, NoToken
    <3> QED
      BY <2>1, <2>2, <3>3 DEF AgreeInv
  <2> QED
    BY <2>1, <2>2 DEF AgreeInv
<1>6. CASE Navigate \/ Reload
  <2>1. PICK jar : /\ cookie' = jar /\ poll' = {jar} /\ session' = Loading /\ update' = NoUpdate
    BY <1>6 DEF Navigate, Reload, Load
  <2> QED
    BY <2>1 DEF AgreeInv, NoUpdate
<1>7. CASE SignInReply
  <2>1. UNCHANGED <<seen, store, poll, update, leaving>>
    BY <1>7 DEF SignInReply
  <2>2. CASE session' = issued + 1 /\ cookie' = issued + 1
    <3>1. session' # Loading /\ session' # seen /\ session' # NoToken
      BY <1>a, <2>2, LoadingIsNoToken DEF NoToken, Token
    <3>2. update.tok <= issued
      BY DEF IssuedInv
    <3> QED
      BY <1>a, <2>1, <2>2, <3>1, <3>2 DEF AgreeInv
  <2>3. CASE UNCHANGED <<session, cookie>>
    BY <1>0, <2>1, <2>3
  <2> QED
    BY <1>7, <2>2, <2>3 DEF SignInReply
<1>8. CASE SignOutReply \/ LogoutButton \/ RefreshRefused \/ RefreshLost
  BY <1>1, <1>8 DEF SignOutReply, LogoutButton, RefreshRefused, RefreshLost, RefreshFails, SignOut
<1>9. CASE \/ Expire \/ RefreshTokenExpires \/ SubmitSignIn \/ EnterDashboard
           \/ \E r \in Request : Send(r) \/ RequestAnswer(r) \/ RequestLost(r)
  BY <1>0, <1>9, RequestCareful
  DEF Expire, RefreshTokenExpires, SubmitSignIn, EnterDashboard, Send, RequestAnswer, AnswerOk,
      RejectedAgain, RejectedRefresh, RequestLost
<1>10. ~Focus /\ ~SignOutElsewhere
  BY DEF Focus, SignOutElsewhere
<1> QED
  BY <1>0, <1>2, <1>3, <1>4, <1>5, <1>6, <1>7, <1>8, <1>9, <1>10 DEF Next, vars, RefreshAnswer

\* In a tab at rest the cookie, the session and the store hold one token, however many
\* refreshes next-auth dropped before.
THEOREM TokensAgree == Spec => []Agreement
<1> DEFINE Inv == IssuedInv /\ (careful => CarefulInv /\ AgreeInv)
<1>1. Init => Inv
  BY IssuedInit, CarefulInit, AgreeInit
<1>2. TypeOK /\ Inv /\ [Next]_vars => Inv'
  BY IssuedNext, CarefulKept, CarefulNext, AgreeNext
<1>3. Inv => Agreement
  BY DEF AgreeInv, Agreement, Quiet, Hydrated, TokenOf
<1> QED
  BY <1>1, <1>2, <1>3, InitTypes, NextTypes, PTL DEF Spec

-----------------------------------------------------------------------------
(* One expiry.  A request is sent again only after a refresh, which is     *)
(* asked for only once a token has expired: then no other will, and the    *)
(* token that it is sent again with stays good.                            *)

Why == {"user", "refused", "lost"}

SpentInv ==
    /\ left["expire"] <= Budget["expire"]
    /\ expired > 0 => left["expire"] < Budget["expire"]

RetryInv ==
    /\ refresh.pending => expired > 0
    /\ \A r \in Request :
          /\ Active(r) => request[r].tok > 0
          /\ Active(r) /\ request[r].retried => expired > 0 /\ request[r].tok > expired
          /\ request[r].st = "unauthorized" => cause \in Why

LEMMA SpentInit == Init => SpentInv
BY BudgetAssumption, Events DEF Init, SpentInv

LEMMA SpentNext ==
    ASSUME TypeOK, SpentInv, [Next]_vars
    PROVE  SpentInv'
<1>a. left \in [Event -> Nat] /\ left["expire"] \in Nat /\ expired \in Nat /\ Budget["expire"] \in Nat
  BY BudgetAssumption, Events DEF TypeOK
<1>b. ASSUME NEW e \in Event, Spend(e) PROVE left'["expire"] \in {left["expire"], left["expire"] - 1}
  BY <1>a, <1>b, Events DEF Spend
<1>1. CASE Expire
  <2>1. left'["expire"] = left["expire"] - 1
    BY <1>1, <1>a, Events, Spending DEF Expire
  <2> QED
    BY <1>a, <2>1 DEF SpentInv
<1>2. CASE ~Expire
  <2>1. expired' = expired
    BY <1>2 DEF Next, vars, Expire, RefreshTokenExpires, Focus, SignOutElsewhere, PollReply,
       UpdateReply, BridgeEffect, Send, RequestAnswer, AnswerOk, RejectedAgain, RejectedBare,
       RejectedRefresh, RequestLost, RefreshAnswer, RefreshReply, RefreshRefused, RefreshLost,
       RefreshFails, LogoutButton, SignOutReply, Navigate, Reload, Load, SubmitSignIn,
       SignInReply, EnterDashboard
  <2>2. UNCHANGED left \/ \E e \in Event : Spend(e)
    BY <1>2, Events DEF Next, vars, RefreshTokenExpires, Focus, SignOutElsewhere, PollReply,
       UpdateReply, BridgeEffect, Send, RequestAnswer, AnswerOk, RejectedAgain, RejectedBare,
       RejectedRefresh, RequestLost, RefreshAnswer, RefreshReply, RefreshRefused, RefreshLost,
       LogoutButton, SignOutReply, Navigate, Reload, SubmitSignIn, SignInReply, EnterDashboard
  <2>3. left'["expire"] \in {left["expire"], left["expire"] - 1}
    BY <1>b, <2>2
  <2> QED
    BY <1>a, <2>1, <2>3 DEF SpentInv
<1> QED
  BY <1>1, <1>2

LEMMA RetryInit == Init => RetryInv
BY DEF Init, RetryInv, Active, Fresh, NoRefresh

LEMMA RetryNext ==
    ASSUME TypeOK, SpentInv, careful, CarefulInv, RetryInv, Budget["expire"] <= 1, [Next]_vars
    PROVE  RetryInv'
<1>a. /\ left \in [Event -> Nat] /\ left["expire"] \in Nat /\ issued \in Nat /\ expired \in 0..issued
      /\ Budget["expire"] \in Nat /\ store.access \in Nat
      /\ request \in [Request -> RequestRecord] /\ \A r \in Request : request[r].tok \in Nat
  <2>1. request \in [Request -> RequestRecord]
    BY RequestFields
  <2> QED
    BY <2>1, BudgetAssumption, Events DEF TypeOK, Token, RequestRecord
<1>b. cause \in Why => cause' \in Why
  BY RequestCareful
  DEF Next, vars, Why, Expire, RefreshTokenExpires, Focus, SignOutElsewhere, PollReply, UpdateReply,
      BridgeEffect, Send, RequestAnswer, AnswerOk, RejectedAgain, RejectedRefresh, RequestLost,
      RefreshAnswer, RefreshReply, RefreshRefused, RefreshLost, RefreshFails, SignOut,
      LogoutButton, SignOutReply, Navigate, Reload, Load, SubmitSignIn, SignInReply, EnterDashboard
<1>0. CASE UNCHANGED <<expired, request, refresh>>
  BY <1>0, <1>b DEF RetryInv, Active
<1>1. CASE Expire
  <2>1. expired = 0 /\ issued > 0
    BY <1>1, <1>a, Events, Spending DEF Expire, SpentInv
  <2>2. UNCHANGED <<request, refresh, cause>> /\ expired' = issued
    BY <1>1 DEF Expire
  <2> QED
    BY <1>a, <2>1, <2>2 DEF RetryInv, Active
<1>c. ASSUME NEW r \in Request, NEW st \in {"ok", "unauthorized", "lost"}, Answer(r, st), Active(r),
             UNCHANGED <<expired, refresh, cause>>, st = "unauthorized" => cause \in Why
      PROVE  RetryInv'
  BY <1>c, Answered DEF RetryInv, Active
<1>2. ASSUME NEW r \in Request, Send(r) PROVE RetryInv'
  <2>1. store.access > 0
    <3>1. session # Loading /\ session # NoToken /\ session = seen
      BY <1>2 DEF Send, Hydrated, TokenOf, CarefulInv, PollsInv
    <3> QED
      BY <1>a, <3>1 DEF CarefulInv, StoreInv, NoToken
  <2>2. request'[r] = [st |-> "sent", tok |-> store.access, retried |-> FALSE]
        /\ \A q \in Request : q # r => request'[q] = request[q]
    BY <1>2, <1>a DEF Send, Sent
  <2>3. UNCHANGED <<expired, refresh, cause>>
    BY <1>2 DEF Send
  <2> QED
    BY <2>1, <2>2, <2>3 DEF RetryInv, Active
<1>3. ASSUME NEW r \in Request, AnswerOk(r) \/ RequestLost(r) PROVE RetryInv'
  BY <1>3, <1>c DEF AnswerOk, RequestLost, Active
<1>4. ASSUME NEW r \in Request, RejectedAgain(r) PROVE RetryInv'
  <2>1. request[r].tok > expired /\ ~(request[r].tok > expired)
    BY <1>4 DEF RejectedAgain, Rejected, Accepted, RetryInv, Active
  <2> QED
    BY <2>1
<1>5. ASSUME NEW r \in Request, RejectedRefresh(r) PROVE RetryInv'
  <2>1. expired > 0
    BY <1>5, <1>a DEF RejectedRefresh, Rejected, Accepted, RetryInv, Active
  <2>2. UNCHANGED <<expired, cause>> /\ Answer(r, "waiting") /\ request[r].st = "sent" /\ ~request[r].retried
    BY <1>5 DEF RejectedRefresh, Rejected
  <2> QED
    BY <2>1, <2>2, Answered DEF RetryInv, Active
<1>6. CASE RefreshReply
  <2>1. expired > 0 /\ issued + 1 > expired /\ issued + 1 > 0
    BY <1>6, <1>a DEF RefreshReply, RetryInv
  <2>2. \A r \in Request : \/ request'[r] = request[r]
                           \/ request'[r] = [st |-> "sent", tok |-> issued + 1, retried |-> TRUE]
    BY <1>6 DEF RefreshReply, Resumed, Resent
  <2>3. UNCHANGED <<expired, cause>> /\ refresh' = NoRefresh
    BY <1>6 DEF RefreshReply
  <2> QED
    BY <2>1, <2>2, <2>3 DEF RetryInv, Active, NoRefresh
<1>7. CASE RefreshRefused \/ RefreshLost
  <2>1. cause' \in Why /\ expired' = expired /\ refresh' = NoRefresh
    BY <1>7 DEF RefreshRefused, RefreshLost, RefreshFails, SignOut, CarefulInv, LeavingInv, Why
  <2>2. \A r \in Request : request'[r] = request[r] \/ request'[r].st = "unauthorized"
    BY <1>7, <1>a DEF RefreshRefused, RefreshLost, RefreshFails, RequestRecord
  <2> QED
    BY <2>1, <2>2 DEF RetryInv, Active, NoRefresh
<1>8. CASE Navigate \/ Reload
  <2>1. expired' = expired /\ refresh' = NoRefresh /\ cause' = cause
    BY <1>8 DEF Navigate, Reload, Load
  <2>2. \A r \in Request : request'[r] = request[r] \/ request'[r].st = "gone"
    BY <1>8, <1>a DEF Navigate, Reload, Load, RequestRecord
  <2>3. \A r \in Request : request'[r].st \notin {"sent", "waiting"}
    BY <1>8, <1>a DEF Navigate, Reload, Load, RequestRecord
  <2> QED
    BY <2>1, <2>2, <2>3 DEF RetryInv, Active, NoRefresh
<1>9. CASE \/ RefreshTokenExpires \/ Focus \/ SignOutElsewhere \/ PollReply \/ UpdateReply
           \/ BridgeEffect \/ LogoutButton \/ SignOutReply \/ SubmitSignIn \/ SignInReply
           \/ EnterDashboard
  BY <1>0, <1>9 DEF RefreshTokenExpires, Focus, SignOutElsewhere, PollReply, UpdateReply,
     BridgeEffect, LogoutButton, SignOutReply, SubmitSignIn, SignInReply, EnterDashboard
<1> QED
  BY <1>0, <1>1, <1>2, <1>3, <1>4, <1>5, <1>6, <1>7, <1>8, <1>9, RequestCareful
  DEF Next, vars, RequestAnswer, RefreshAnswer

\* With one expiry, every request gets its answer unless the refresh itself fails.
THEOREM RefreshesAreSilent == Spec => []SilentRefresh
<1> DEFINE Inv == SpentInv /\ (careful => CarefulInv /\ (Budget["expire"] <= 1 => RetryInv))
<1>1. Init => Inv
  BY SpentInit, CarefulInit, RetryInit
<1>2. TypeOK /\ Inv /\ [Next]_vars => Inv'
  BY SpentNext, CarefulKept, CarefulNext, RetryNext
<1>3. Inv => SilentRefresh
  BY DEF RetryInv, SilentRefresh, Why
<1> QED
  BY <1>1, <1>2, <1>3, InitTypes, NextTypes, PTL DEF Spec
=============================================================================
