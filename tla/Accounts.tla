------------------------------ MODULE Accounts ------------------------------
(***************************************************************************)
(* One account: its sign-up, its password and its name.  auth-svc keeps the *)
(* user's row and the reset tokens; each browser tab shows one of the pages *)
(* sign-up, forgot-password, reset-password, sign-in and profile, and has   *)
(* at most one call of that page in flight.                                 *)
(*                                                                         *)
(* What follows a sign-in (the session and its tokens) is Session's matter. *)
(***************************************************************************)
EXTENDS Naturals, FiniteSets

CONSTANTS
    Tab,       \* browser tabs
    Password,  \* passwords that are typed
    Name,      \* names that are typed
    MaxTokens, \* bound: reset tokens ever issued
    Budget,    \* how often each Event may happen
    Mix,       \* bound: different events in one behaviour
    None

Event == {"expire", "net", "leave", "noname"}

ASSUME AccountsAssumption ==
    /\ IsFiniteSet(Tab) /\ Tab # {} /\ MaxTokens \in Nat /\ Mix \in Nat
    /\ None \notin Password \cup Name /\ Budget \in [Event -> Nat]

VARIABLES
    user,   \* Postgres: the user's row
    issued, \* Postgres: how many reset tokens there are
    token,  \* Postgres: the reset tokens
    chosen, \* the password of the latest sign-up or confirmation
    tab,    \* the page of each tab, and its call with the fields it sends
    me,     \* the profile a tab caches, and its GET /me
    calm,   \* calls that write the user's row do not overlap
    left    \* what remains of the budget

vars == <<user, issued, token, chosen, tab, me, calm, left>>
db == <<user, issued, token, chosen>>

-----------------------------------------------------------------------------
Token == 1..MaxTokens
Page == {"none", "signup", "joined", "forgot", "link", "reset", "done", "signin", "profile"}
Row == [there: BOOLEAN, pw: Password \cup {None}, name: Name \cup {None}]

NoUser == [there |-> FALSE, pw |-> None, name |-> None]
NoTab == [page |-> "none", call |-> "idle", token |-> 0, pw |-> None, name |-> None,
          late |-> FALSE, editing |-> FALSE, read |-> NoUser, naming |-> FALSE, muted |-> FALSE]
NoMe == [st |-> "none", name |-> None, answer |-> None]

\* call: "sent", then "checked" once the server has read what it decides on, "ok" or
\* "no" once it has answered.  late: the link of a reset was used or had expired when it
\* was confirmed.  naming: the session is about to take the name of a save; muted: the save
\* in flight was clicked meanwhile.
TypeOK ==
    /\ user \in Row /\ (user.there => user.pw # None /\ user.name # None)
    /\ issued \in 0..MaxTokens
    /\ token \in [Token -> [used: BOOLEAN, expired: BOOLEAN]]
    /\ chosen \in Password \cup {None}
    /\ tab \in [Tab -> [page: Page, call: {"idle", "sent", "checked", "ok", "no"},
                        token: 0..MaxTokens, pw: Password \cup {None}, name: Name \cup {None},
                        late: BOOLEAN, editing: BOOLEAN, read: Row,
                        naming: BOOLEAN, muted: BOOLEAN]]
    /\ me \in [Tab -> [st: {"none", "sent", "answered"}, name: Name \cup {None},
                       answer: Name \cup {None}]]
    /\ calm \in BOOLEAN /\ left \in [Event -> Nat]

Init ==
    /\ user = NoUser /\ issued = 0 /\ chosen = None
    /\ token = [k \in Token |-> [used |-> FALSE, expired |-> FALSE]]
    /\ tab = [t \in Tab |-> NoTab] /\ me = [t \in Tab |-> NoMe]
    /\ calm \in BOOLEAN /\ left = Budget

Happened == {e \in Event : left[e] < Budget[e]}
Spend(event) ==
    /\ left[event] > 0 /\ Cardinality(Happened \cup {event}) <= Mix
    /\ left' = [left EXCEPT ![event] = @ - 1]

On(t, page) == tab[t].page = page
Idle(t, page) == On(t, page) /\ tab[t].call = "idle"
Sent(t, page) == On(t, page) /\ tab[t].call = "sent"

Go(t, page) == tab' = [tab EXCEPT ![t] = [NoTab EXCEPT !.page = page]]
Answer(t, yes) == tab' = [tab EXCEPT ![t].call = IF yes THEN "ok" ELSE "no",
                                     ![t].pw = None, ![t].name = None]

\* A call that writes the user's row is under way.
Writing(t) == tab[t].page \in {"reset", "profile"} /\ tab[t].call \in {"sent", "checked"}
MayWrite == calm => \A t \in Tab : ~Writing(t)

TokenExpires(k) ==
    /\ k <= issued /\ ~token[k].expired /\ Spend("expire")
    /\ token' = [token EXCEPT ![k].expired = TRUE]
    /\ UNCHANGED <<user, issued, chosen, tab, me, calm>>

\* The links between the pages.
Open(t) ==
    /\ \/ tab[t].page = "none" /\ \E page \in {"signup", "forgot", "signin"} : Go(t, page)
       \/ Idle(t, "signup") /\ Go(t, "signin")
       \/ Idle(t, "signin") /\ (Go(t, "signup") \/ Go(t, "forgot"))
    /\ UNCHANGED <<db, me, calm, left>>

\* A tab is closed; its call, if it has one, is lost before the server has it.
Leave(t) ==
    /\ tab[t].page # "none" /\ tab[t].call # "checked" /\ me[t].st = "none" /\ Spend("leave")
    /\ Go(t, "none") /\ me' = [me EXCEPT ![t] = NoMe]
    /\ UNCHANGED <<db, calm>>

\* An error is shown, and the button of the form is enabled again.
Refused(t) ==
    /\ \/ tab[t].call = "no" /\ UNCHANGED left
       \/ tab[t].call \in {"sent", "ok"} /\ Spend("net")
    /\ tab' = [tab EXCEPT ![t].call = "idle", ![t].pw = None, ![t].name = None, ![t].late = FALSE]
    /\ UNCHANGED <<db, me, calm>>

-----------------------------------------------------------------------------
(* Sign-up and sign-in.                                                    *)

\* handleSubmit of the sign-up page: the button needs all fields and no call in flight.
SubmitSignUp(t) ==
    /\ Idle(t, "signup")
    /\ \E p \in Password, n \in Name :
          tab' = [tab EXCEPT ![t].call = "sent", ![t].pw = p, ![t].name = n]
    /\ UNCHANGED <<db, me, calm, left>>

\* signup: the row is inserted unless the email has one.
Signup(t) ==
    /\ Sent(t, "signup") /\ Answer(t, ~user.there)
    /\ IF user.there THEN UNCHANGED <<user, chosen>>
       ELSE /\ user' = [there |-> TRUE, pw |-> tab[t].pw, name |-> tab[t].name]
            /\ chosen' = tab[t].pw
    /\ UNCHANGED <<issued, token, me, calm, left>>

SignedUp(t) ==
    /\ On(t, "signup") /\ tab[t].call = "ok" /\ Go(t, "joined")
    /\ UNCHANGED <<db, me, calm, left>>

\* The success views of sign-up and reset lead to the sign-in page by a timer.
Redirect(t) ==
    /\ tab[t].page \in {"joined", "done"} /\ Go(t, "signin")
    /\ UNCHANGED <<db, me, calm, left>>

SubmitSignIn(t) ==
    /\ Idle(t, "signin")
    /\ \E p \in Password : tab' = [tab EXCEPT ![t].call = "sent", ![t].pw = p]
    /\ UNCHANGED <<db, me, calm, left>>

\* login
Login(t) ==
    /\ Sent(t, "signin") /\ Answer(t, user.there /\ user.pw = tab[t].pw)
    /\ UNCHANGED <<db, me, calm, left>>

\* The session takes the name of the row (shown only where there is no profile to show);
\* the profile page asks for it again.
SignedIn(t) ==
    /\ On(t, "signin") /\ tab[t].call = "ok" /\ Go(t, "profile")
    /\ me' = [me EXCEPT ![t].st = "sent"]
    /\ UNCHANGED <<db, calm, left>>

-----------------------------------------------------------------------------
(* Password reset.                                                         *)

SubmitForgot(t) ==
    /\ Idle(t, "forgot") /\ issued < MaxTokens
    /\ tab' = [tab EXCEPT ![t].call = "sent"]
    /\ UNCHANGED <<db, me, calm, left>>

\* requestPasswordReset
RequestPasswordReset(t) ==
    /\ Sent(t, "forgot")
    /\ IF user.there /\ issued < MaxTokens
       THEN /\ issued' = issued + 1
            /\ tab' = [tab EXCEPT ![t].call = "ok", ![t].token = issued + 1]
       ELSE issued' = issued /\ Answer(t, FALSE)
    /\ UNCHANGED <<user, token, chosen, me, calm, left>>

\* The page shows the link to the reset page, with the token in it.
LinkShown(t) ==
    /\ On(t, "forgot") /\ tab[t].call = "ok"
    /\ tab' = [tab EXCEPT ![t].page = "link", ![t].call = "idle"]
    /\ UNCHANGED <<db, me, calm, left>>

\* The reset page is opened with a token in its URL, from the link or from a copy of it.
OpenReset(t) ==
    /\ \/ On(t, "link") /\ tab' = [tab EXCEPT ![t].page = "reset"]
       \/ /\ tab[t].page = "none"
          /\ \E k \in 1..issued :
                tab' = [tab EXCEPT ![t] = [NoTab EXCEPT !.page = "reset", !.token = k]]
    /\ UNCHANGED <<db, me, calm, left>>

Spent(k) == token[k].used \/ token[k].expired

\* handleSubmit of the reset page, with two equal passwords that are long enough.
SubmitReset(t) ==
    /\ Idle(t, "reset") /\ MayWrite
    /\ \E p \in Password : tab' = [tab EXCEPT ![t].call = "sent", ![t].pw = p,
                                              ![t].late = Spent(tab[t].token)]
    /\ UNCHANGED <<db, me, calm, left>>

\* Mutant: a used token is accepted.
TokenValidUnexpired(k) == ~token[k].expired

\* confirmPasswordReset reads the token and decides on what it reads ...
TokenValid(k) == ~token[k].used /\ ~token[k].expired

CheckToken(t) ==
    /\ Sent(t, "reset")
    /\ tab' = [tab EXCEPT ![t].call = IF TokenValid(tab[t].token) THEN "checked" ELSE "no"]
    /\ UNCHANGED <<db, me, calm, left>>

\* ... and writes the password and the mark in one transaction.
ConfirmReset(t) ==
    /\ On(t, "reset") /\ tab[t].call = "checked" /\ Answer(t, TRUE)
    /\ user' = [user EXCEPT !.pw = tab[t].pw] /\ chosen' = tab[t].pw
    /\ token' = [token EXCEPT ![tab[t].token].used = TRUE]
    /\ UNCHANGED <<issued, me, calm, left>>

ResetDone(t) ==
    /\ On(t, "reset") /\ tab[t].call = "ok" /\ Go(t, "done")
    /\ UNCHANGED <<db, me, calm, left>>

-----------------------------------------------------------------------------
(* The profile.                                                            *)

\* The page shows its content once the profile has been loaded or has failed to load.
ProfileShown(t) == On(t, "profile") /\ ~(me[t].st # "none" /\ me[t].name = None)

\* getMe
GetMe(t) ==
    /\ me[t].st = "sent" /\ me' = [me EXCEPT ![t].st = "answered", ![t].answer = user.name]
    /\ UNCHANGED <<db, tab, calm, left>>

GotMe(t) ==
    /\ \/ me[t].st = "answered" /\ me' = [me EXCEPT ![t] = [NoMe EXCEPT !.name = me[t].answer]]
                                /\ UNCHANGED left
       \/ me[t].st = "sent" /\ Spend("noname") /\ me' = [me EXCEPT ![t].st = "none"]
    /\ UNCHANGED <<db, tab, calm>>

\* startEditing, and the button that gives it up.
ToggleEditing(t) ==
    /\ ProfileShown(t) /\ tab' = [tab EXCEPT ![t].editing = ~@]
    /\ UNCHANGED <<db, me, calm, left>>

\* handleSave: a name that is not empty, no save pending.  The update() it will call is
\* the one of this rendering, which does nothing if the session is loading.
HandleSave(t) ==
    /\ ProfileShown(t) /\ tab[t].editing /\ tab[t].call = "idle" /\ MayWrite
    /\ \E n \in Name : tab' = [tab EXCEPT ![t].call = "sent", ![t].name = n,
                                          ![t].muted = tab[t].naming]
    /\ UNCHANGED <<db, me, calm, left>>

\* updateMe reads the row ...
ReadMe(t) ==
    /\ Sent(t, "profile")
    /\ tab' = [tab EXCEPT ![t].call = "checked", ![t].read = user]
    /\ UNCHANGED <<db, me, calm, left>>

\* Mutant: the row is built from what a profile shows.
SavedProfile(read, name) == [read EXCEPT !.name = name, !.pw = None]

\* ... and Saves all of it, with the new name.
Saved(read, name) == [read EXCEPT !.name = name]

SaveMe(t) ==
    /\ On(t, "profile") /\ tab[t].call = "checked"
    /\ user' = Saved(tab[t].read, tab[t].name)
    /\ tab' = [tab EXCEPT ![t].call = "ok", ![t].read = NoUser]
    /\ UNCHANGED <<issued, token, chosen, me, calm, left>>

\* Mutant: a save does not ask for the profile again.
NotInvalidatedMe(t) == me

\* invalidateQueries(["me"]): asked again, but for a request that loads it first.
InvalidatedMe(t) ==
    IF me[t].st # "none" /\ me[t].name = None THEN me
    ELSE [me EXCEPT ![t].st = "sent", ![t].answer = None]

\* onSuccess of the hook, then of the page: the save is over, and the session is told
\* the name, unless the save was clicked while it took the one before.
SaveAnswered(t) ==
    /\ On(t, "profile") /\ tab[t].call = "ok" /\ me' = InvalidatedMe(t)
    /\ tab' = [tab EXCEPT ![t].call = "idle", ![t].name = None, ![t].muted = FALSE,
                          ![t].naming = @ \/ ~tab[t].muted,
                          ![t].editing = @ /\ ~tab[t].muted]
    /\ UNCHANGED <<db, calm, left>>

\* update() is over: the field is closed, whatever was typed into it meanwhile.
SessionNamed(t) ==
    /\ On(t, "profile") /\ tab[t].naming
    /\ tab' = [tab EXCEPT ![t].editing = FALSE, ![t].naming = FALSE]
    /\ UNCHANGED <<db, me, calm, left>>

-----------------------------------------------------------------------------
Server(t) ==
    \/ Signup(t) \/ Login(t) \/ RequestPasswordReset(t)
    \/ CheckToken(t) \/ ConfirmReset(t) \/ GetMe(t) \/ ReadMe(t) \/ SaveMe(t)

Browser(t) ==
    \/ Open(t) \/ Leave(t) \/ Refused(t)
    \/ SubmitSignUp(t) \/ SignedUp(t) \/ Redirect(t) \/ SubmitSignIn(t) \/ SignedIn(t)
    \/ SubmitForgot(t) \/ LinkShown(t) \/ OpenReset(t) \/ SubmitReset(t) \/ ResetDone(t)
    \/ GotMe(t) \/ ToggleEditing(t) \/ HandleSave(t) \/ SaveAnswered(t) \/ SessionNamed(t)

Next ==
    \/ \E k \in Token : TokenExpires(k)
    \/ \E t \in Tab : Server(t) \/ Browser(t)

Spec == Init /\ [][Next]_vars

-----------------------------------------------------------------------------
(* Properties.                                                             *)

\* The password of the latest sign-up or confirmed reset is the one that signs in,
\* through whatever saves of the profile come after it, where no save overlaps a reset:
\* updateMe writes back the whole row it has read.
ResetStands == calm => user.pw = chosen

\* A reset that is confirmed once its link was used or had expired does not set a password,
\* though the page with the form is still open, in however many tabs.  (Confirmations that
\* are sent before the first of them is written can all pass the check: the transaction that
\* marks the token used does not look again, so that the token is not single-use.)
LateResetRefused ==
    \A t \in Tab : On(t, "reset") /\ tab[t].late => tab[t].call \notin {"checked", "ok"}

\* A profile page that has loaded and has nothing in flight shows the name its own
\* latest save wrote, whatever was loaded before and however the answers overlapped:
\* no call failed, no tab was closed, and no other tab edits the name.
OwnNameShown ==
    \A t \in Tab :
        (/\ ProfileShown(t) /\ tab[t].call = "idle" /\ me[t].st = "none" /\ me[t].name # None
         /\ \A u \in Tab \ {t} : ~On(u, "profile")
         /\ left["net"] = Budget["net"] /\ left["leave"] = Budget["leave"]
         /\ left["noname"] = Budget["noname"])
            => me[t].name = user.name
=============================================================================
