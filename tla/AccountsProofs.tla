--------------------------- MODULE AccountsProofs ---------------------------
(***************************************************************************)
(* Theorems about Accounts for any number of tabs, passwords, names and     *)
(* reset tokens.                                                            *)
(***************************************************************************)
EXTENDS Accounts, Integers, TLAPS

-----------------------------------------------------------------------------
(* Types.  A call carries what its form was sent with, and what it has read *)
(* is a user's row.                                                        *)

Member(r) == r \in Row /\ (r.there => r.pw # None /\ r.name # None)

TabRecord ==
    [page: Page, call: {"idle", "sent", "checked", "ok", "no"},
     token: 0..MaxTokens, pw: Password \cup {None}, name: Name \cup {None},
     late: BOOLEAN, editing: BOOLEAN, read: Row, naming: BOOLEAN, muted: BOOLEAN]

Filled(r) ==
    /\ r.page \in {"signup", "reset"} /\ r.call \in {"sent", "checked"} => r.pw \in Password
    /\ r.page = "signup" /\ r.call = "sent" => r.name \in Name
    /\ r.page = "profile" /\ r.call \in {"sent", "checked", "ok"} => r.name \in Name
    /\ r.page = "profile" /\ r.call = "checked" => Member(r.read) /\ r.read.there
    /\ r.page = "link" => r.call = "idle"
    /\ r.page \in {"link", "reset"} \/ (r.page = "forgot" /\ r.call = "ok") => r.token \in Token

Form == {r \in TabRecord : Filled(r)}

\* Only a user who has signed up is signed in.
Known(r) == r.page = "profile" \/ (r.page = "signin" /\ r.call = "ok")

TypeInv ==
    /\ TypeOK /\ tab \in [Tab -> Form]
    /\ \A t \in Tab : Known(tab[t]) => user.there

\* NoTab is a form that is filled in.
LEMMA EmptyForm == NoUser \in Row /\ NoTab \in Form
<1>1. NoUser \in Row
  BY DEF NoUser, Row
<1>2. 0 \in 0..MaxTokens
  BY AccountsAssumption
<1> QED
  BY <1>1, <1>2 DEF NoTab, Form, TabRecord, Filled, Page

LEMMA InitTypes == Init => TypeInv
<1> SUFFICES ASSUME Init PROVE TypeInv
  OBVIOUS
<1>1. tab \in [Tab -> Form] /\ \A t \in Tab : Known(tab[t]) => user.there
  BY EmptyForm DEF Init, Known, NoTab
<1>2. user \in Row /\ (user.there => user.pw # None /\ user.name # None)
  BY EmptyForm DEF Init, NoUser
<1>3. issued \in 0..MaxTokens /\ left \in [Event -> Nat] /\ calm \in BOOLEAN
  BY AccountsAssumption DEF Init
<1>4. me \in [Tab -> [st: {"none", "sent", "answered"}, name: Name \cup {None},
                      answer: Name \cup {None}]]
  BY DEF Init, NoMe
<1> QED
  BY <1>1, <1>2, <1>3, <1>4 DEF Init, TypeInv, TypeOK, Form, TabRecord

\* One tab changes, to a form that is known only if the user is there.
LEMMA OneTab ==
    ASSUME TypeInv, NEW t \in Tab, NEW r \in Form, tab' = [tab EXCEPT ![t] = r],
           user.there => user'.there, Known(r) => user'.there
    PROVE  tab' \in [Tab -> Form] /\ \A u \in Tab : Known(tab'[u]) => user'.there
BY DEF TypeInv

\* What a step makes of a form.
LEMMA FormFields ==
    ASSUME NEW r \in Form
    PROVE  /\ \A page \in Page \ {"link", "reset"} : [NoTab EXCEPT !.page = page] \in Form
           /\ \A k \in Token : [NoTab EXCEPT !.page = "reset", !.token = k] \in Form
           /\ \A c \in {"idle", "no"} : r.page # "link" \/ c = "idle" =>
                 /\ [r EXCEPT !.call = c, !.pw = None, !.name = None] \in Form
                 /\ [r EXCEPT !.call = c, !.pw = None, !.name = None, !.late = FALSE] \in Form
           /\ r.page \in {"signup", "signin", "reset"} =>
                 [r EXCEPT !.call = "ok", !.pw = None, !.name = None] \in Form
           /\ \A p \in Password, n \in Name : r.page = "signup" =>
                 [r EXCEPT !.call = "sent", !.pw = p, !.name = n] \in Form
           /\ \A p \in Password : r.page = "signin" => [r EXCEPT !.call = "sent", !.pw = p] \in Form
           /\ \A p \in Password, b \in BOOLEAN : r.page = "reset" =>
                 [r EXCEPT !.call = "sent", !.pw = p, !.late = b] \in Form
           /\ r.page = "forgot" => [r EXCEPT !.call = "sent"] \in Form
           /\ \A k \in Token : r.page = "forgot" => [r EXCEPT !.call = "ok", !.token = k] \in Form
           /\ r.page = "forgot" /\ r.call = "ok" => [r EXCEPT !.page = "link", !.call = "idle"] \in Form
           /\ r.page = "link" => [r EXCEPT !.page = "reset"] \in Form
           /\ \A c \in {"checked", "no"} : r.page = "reset" /\ r.call = "sent" =>
                 [r EXCEPT !.call = c] \in Form
           /\ \A b \in BOOLEAN : [r EXCEPT !.editing = b] \in Form
           /\ \A n \in Name, b \in BOOLEAN : r.page = "profile" =>
                 [r EXCEPT !.call = "sent", !.name = n, !.muted = b] \in Form
           /\ \A u \in Row : r.page = "profile" /\ r.call = "sent" /\ u.there /\ Member(u) =>
                 [r EXCEPT !.call = "checked", !.read = u] \in Form
           /\ r.page = "profile" /\ r.call = "checked" =>
                 [r EXCEPT !.call = "ok", !.read = NoUser] \in Form
           /\ \A b, e \in BOOLEAN : r.page = "profile" =>
                 [r EXCEPT !.call = "idle", !.name = None, !.muted = FALSE, !.naming = b,
                           !.editing = e] \in Form
           /\ [r EXCEPT !.editing = FALSE, !.naming = FALSE] \in Form
<1>0. Token \subseteq 0..MaxTokens
  BY AccountsAssumption DEF Token
<1>1. \A page \in Page \ {"link", "reset"} : [NoTab EXCEPT !.page = page] \in Form
  BY EmptyForm DEF Form, TabRecord, Filled, Page, Row, Member, NoTab
<1>2. \A k \in Token : [NoTab EXCEPT !.page = "reset", !.token = k] \in Form
  BY <1>0, EmptyForm DEF Form, TabRecord, Filled, Page, NoTab
<1>3. \A c \in {"idle", "no"} : r.page # "link" \/ c = "idle" =>
        /\ [r EXCEPT !.call = c, !.pw = None, !.name = None] \in Form
        /\ [r EXCEPT !.call = c, !.pw = None, !.name = None, !.late = FALSE] \in Form
  BY EmptyForm DEF Form, TabRecord, Filled, Page, Row, Member
<1>4. r.page \in {"signup", "signin", "reset"} =>
        [r EXCEPT !.call = "ok", !.pw = None, !.name = None] \in Form
  BY EmptyForm DEF Form, TabRecord, Filled, Page, Row, Member
<1>5. \A p \in Password, n \in Name : r.page = "signup" =>
        [r EXCEPT !.call = "sent", !.pw = p, !.name = n] \in Form
  BY EmptyForm DEF Form, TabRecord, Filled, Page, Row, Member
<1>6. \A p \in Password : r.page = "signin" => [r EXCEPT !.call = "sent", !.pw = p] \in Form
  BY DEF Form, TabRecord, Filled
<1>18. \A p \in Password, b \in BOOLEAN : r.page = "reset" =>
         [r EXCEPT !.call = "sent", !.pw = p, !.late = b] \in Form
  <2> SUFFICES ASSUME NEW p \in Password, NEW b \in BOOLEAN, r.page = "reset"
               PROVE  [r EXCEPT !.call = "sent", !.pw = p, !.late = b] \in Form
    OBVIOUS
  <2>1. [r EXCEPT !.call = "sent", !.pw = p, !.late = b] \in TabRecord
    BY DEF Form, TabRecord
  <2> QED
    BY <2>1 DEF Form, TabRecord, Filled
<1>7. r.page = "forgot" => [r EXCEPT !.call = "sent"] \in Form
  BY EmptyForm DEF Form, TabRecord, Filled, Page, Row, Member
<1>8. \A k \in Token : r.page = "forgot" => [r EXCEPT !.call = "ok", !.token = k] \in Form
  BY <1>0 DEF Form, TabRecord, Filled, Page
<1>9. r.page = "forgot" /\ r.call = "ok" => [r EXCEPT !.page = "link", !.call = "idle"] \in Form
  BY EmptyForm DEF Form, TabRecord, Filled, Page, Row, Member
<1>10. r.page = "link" => [r EXCEPT !.page = "reset"] \in Form
  BY EmptyForm DEF Form, TabRecord, Filled, Page, Row, Member
<1>11. \A c \in {"checked", "no"} : r.page = "reset" /\ r.call = "sent" =>
        [r EXCEPT !.call = c] \in Form
  BY EmptyForm DEF Form, TabRecord, Filled, Page, Row, Member
<1>12. \A b \in BOOLEAN : [r EXCEPT !.editing = b] \in Form
  BY EmptyForm DEF Form, TabRecord, Filled, Page, Row, Member
<1>13. \A n \in Name, b \in BOOLEAN : r.page = "profile" =>
        [r EXCEPT !.call = "sent", !.name = n, !.muted = b] \in Form
  <2> SUFFICES ASSUME NEW n \in Name, NEW b \in BOOLEAN, r.page = "profile"
               PROVE  [r EXCEPT !.call = "sent", !.name = n, !.muted = b] \in Form
    OBVIOUS
  <2>1. [r EXCEPT !.call = "sent", !.name = n, !.muted = b] \in TabRecord
    BY DEF Form, TabRecord
  <2> QED
    BY <2>1 DEF Form, TabRecord, Filled
<1>14. \A u \in Row : r.page = "profile" /\ r.call = "sent" /\ u.there /\ Member(u) =>
        [r EXCEPT !.call = "checked", !.read = u] \in Form
  BY EmptyForm DEF Form, TabRecord, Filled, Page, Row, Member
<1>15. r.page = "profile" /\ r.call = "checked" =>
        [r EXCEPT !.call = "ok", !.read = NoUser] \in Form
  BY EmptyForm DEF Form, TabRecord, Filled, Page, Row, Member
<1>16. \A b, e \in BOOLEAN : r.page = "profile" =>
         [r EXCEPT !.call = "idle", !.name = None, !.muted = FALSE, !.naming = b, !.editing = e] \in Form
  <2> SUFFICES ASSUME NEW b \in BOOLEAN, NEW e \in BOOLEAN, r.page = "profile"
               PROVE  [r EXCEPT !.call = "idle", !.name = None, !.muted = FALSE, !.naming = b,
                                !.editing = e] \in Form
    OBVIOUS
  <2>1. [r EXCEPT !.call = "idle", !.name = None, !.muted = FALSE, !.naming = b, !.editing = e] \in TabRecord
    BY DEF Form, TabRecord
  <2> QED
    BY <2>1 DEF Form, TabRecord, Filled
<1>17. [r EXCEPT !.editing = FALSE, !.naming = FALSE] \in Form
  BY DEF Form, TabRecord, Filled
<1> QED
  BY <1>1, <1>2, <1>3, <1>4, <1>5, <1>6, <1>7, <1>8, <1>9, <1>10, <1>11, <1>12, <1>13, <1>14, <1>15, <1>16,
     <1>17, <1>18

\* The pages only go on with what their call was sent with.
LEMMA BrowserForms ==
    ASSUME TypeInv, NEW t \in Tab, Browser(t)
    PROVE  /\ user' = user /\ tab' \in [Tab -> Form]
           /\ \A u \in Tab : Known(tab'[u]) => user'.there
<1> USE DEF On
<1>a. tab[t] \in Form /\ tab[t] \in TabRecord /\ (Known(tab[t]) => user.there)
  BY DEF TypeInv, Form
<1>b. user' = user
  BY DEF Browser, Open, Leave, Refused, SubmitSignUp, SignedUp, Redirect, SubmitSignIn, SignedIn,
         SubmitForgot, LinkShown, OpenReset, SubmitReset, ResetDone, GotMe, ToggleEditing,
         HandleSave, SaveAnswered, SessionNamed, db
<1>1. CASE Open(t)
  <2>1. PICK page \in Page \ {"profile", "link", "reset"} :
          tab' = [tab EXCEPT ![t] = [NoTab EXCEPT !.page = page]]
    BY <1>1, <1>a DEF Open, Go, Page
  <2>3. [NoTab EXCEPT !.page = page] \in Form
    BY <1>a, FormFields DEF Page
  <2>4. Known([NoTab EXCEPT !.page = page]) => user.there
    BY <1>a DEF Known, NoTab, TabRecord
  <2> QED
    BY <1>b, <2>1, <2>3, <2>4, OneTab
<1>2. CASE Leave(t)
  <2>1. tab' = [tab EXCEPT ![t] = [NoTab EXCEPT !.page = "none"]]
    BY <1>2, <1>a DEF Leave, Go
  <2>3. [NoTab EXCEPT !.page = "none"] \in Form
    BY <1>a, FormFields DEF Page
  <2>4. Known([NoTab EXCEPT !.page = "none"]) => user.there
    BY <1>a DEF Known, NoTab, TabRecord
  <2> QED
    BY <1>b, <2>1, <2>3, <2>4, OneTab
<1>3. CASE Refused(t)
  <2>1. tab' = [tab EXCEPT ![t] = [tab[t] EXCEPT !.call = "idle", !.pw = None, !.name = None, !.late = FALSE]]
    BY <1>3, <1>a DEF Refused
  <2>2. tab[t].page = "profile" \/ tab[t].call # "idle"
    BY <1>3, <1>a DEF Refused
  <2>3. [tab[t] EXCEPT !.call = "idle", !.pw = None, !.name = None, !.late = FALSE] \in Form
    BY <1>a, <2>2, FormFields DEF Page
  <2>4. Known([tab[t] EXCEPT !.call = "idle", !.pw = None, !.name = None, !.late = FALSE]) => user.there
    BY <1>a, <2>2 DEF Known, NoTab, TabRecord
  <2> QED
    BY <1>b, <2>1, <2>3, <2>4, OneTab
<1>4. CASE SubmitSignUp(t)
  <2>0. PICK p \in Password, n \in Name :
          tab' = [tab EXCEPT ![t].call = "sent", ![t].pw = p, ![t].name = n]
    BY <1>4 DEF SubmitSignUp
  <2>1. tab' = [tab EXCEPT ![t] = [tab[t] EXCEPT !.call = "sent", !.pw = p, !.name = n]]
    BY <2>0, <1>a
  <2>2. tab[t].page = "signup"
    BY <1>4, <1>a DEF SubmitSignUp, Idle
  <2>3. [tab[t] EXCEPT !.call = "sent", !.pw = p, !.name = n] \in Form
    BY <1>a, <2>2, FormFields DEF Page
  <2>4. Known([tab[t] EXCEPT !.call = "sent", !.pw = p, !.name = n]) => user.there
    BY <1>a, <2>2 DEF Known, NoTab, TabRecord
  <2> QED
    BY <1>b, <2>1, <2>3, <2>4, OneTab
<1>5. CASE SignedUp(t)
  <2>1. tab' = [tab EXCEPT ![t] = [NoTab EXCEPT !.page = "joined"]]
    BY <1>5, <1>a DEF SignedUp, Go
  <2>3. [NoTab EXCEPT !.page = "joined"] \in Form
    BY <1>a, FormFields DEF Page
  <2>4. Known([NoTab EXCEPT !.page = "joined"]) => user.there
    BY <1>a DEF Known, NoTab, TabRecord
  <2> QED
    BY <1>b, <2>1, <2>3, <2>4, OneTab
<1>6. CASE Redirect(t)
  <2>1. tab' = [tab EXCEPT ![t] = [NoTab EXCEPT !.page = "signin"]]
    BY <1>6, <1>a DEF Redirect, Go
  <2>3. [NoTab EXCEPT !.page = "signin"] \in Form
    BY <1>a, FormFields DEF Page
  <2>4. Known([NoTab EXCEPT !.page = "signin"]) => user.there
    BY <1>a DEF Known, NoTab, TabRecord
  <2> QED
    BY <1>b, <2>1, <2>3, <2>4, OneTab
<1>7. CASE SubmitSignIn(t)
  <2>1. PICK p \in Password :
          tab' = [tab EXCEPT ![t] = [tab[t] EXCEPT !.call = "sent", !.pw = p]]
    BY <1>7, <1>a DEF SubmitSignIn, Idle
  <2>2. tab[t].page = "signin"
    BY <1>7, <1>a DEF SubmitSignIn, Idle
  <2>3. [tab[t] EXCEPT !.call = "sent", !.pw = p] \in Form
    BY <1>a, <2>2, FormFields DEF Page
  <2>4. Known([tab[t] EXCEPT !.call = "sent", !.pw = p]) => user.there
    BY <1>a, <2>2 DEF Known, NoTab, TabRecord
  <2> QED
    BY <1>b, <2>1, <2>3, <2>4, OneTab
<1>8. CASE SignedIn(t)
  <2>1. tab' = [tab EXCEPT ![t] = [NoTab EXCEPT !.page = "profile"]]
    BY <1>8, <1>a DEF SignedIn, Go
  <2>2. tab[t].page = "signin" /\ tab[t].call = "ok"
    BY <1>8, <1>a DEF SignedIn, Go
  <2>3. [NoTab EXCEPT !.page = "profile"] \in Form
    BY <1>a, <2>2, FormFields DEF Page
  <2>4. Known([NoTab EXCEPT !.page = "profile"]) => user.there
    BY <1>a, <2>2 DEF Known, NoTab, TabRecord
  <2> QED
    BY <1>b, <2>1, <2>3, <2>4, OneTab
<1>9. CASE SubmitForgot(t)
  <2>1. tab' = [tab EXCEPT ![t] = [tab[t] EXCEPT !.call = "sent"]]
    BY <1>9, <1>a DEF SubmitForgot, Idle
  <2>2. tab[t].page = "forgot"
    BY <1>9, <1>a DEF SubmitForgot, Idle
  <2>3. [tab[t] EXCEPT !.call = "sent"] \in Form
    BY <1>a, <2>2, FormFields DEF Page
  <2>4. Known([tab[t] EXCEPT !.call = "sent"]) => user.there
    BY <1>a, <2>2 DEF Known, NoTab, TabRecord
  <2> QED
    BY <1>b, <2>1, <2>3, <2>4, OneTab
<1>10. CASE LinkShown(t)
  <2>1. tab' = [tab EXCEPT ![t] = [tab[t] EXCEPT !.page = "link", !.call = "idle"]]
    BY <1>10, <1>a DEF LinkShown
  <2>2. tab[t].page = "forgot" /\ tab[t].call = "ok"
    BY <1>10, <1>a DEF LinkShown
  <2>3. [tab[t] EXCEPT !.page = "link", !.call = "idle"] \in Form
    BY <1>a, <2>2, FormFields DEF Page
  <2>4. Known([tab[t] EXCEPT !.page = "link", !.call = "idle"]) => user.there
    BY <1>a, <2>2 DEF Known, NoTab, TabRecord
  <2> QED
    BY <1>b, <2>1, <2>3, <2>4, OneTab
<1>11. CASE SubmitReset(t)
  <2>1. PICK p \in Password, b \in BOOLEAN :
          tab' = [tab EXCEPT ![t] = [tab[t] EXCEPT !.call = "sent", !.pw = p, !.late = b]]
    <3>1. PICK p \in Password : tab' = [tab EXCEPT ![t].call = "sent", ![t].pw = p,
                                                    ![t].late = Spent(tab[t].token)]
      BY <1>11 DEF SubmitReset
    <3>2. Spent(tab[t].token) \in BOOLEAN
      BY DEF Spent
    <3>3. tab' = [tab EXCEPT ![t] = [tab[t] EXCEPT !.call = "sent", !.pw = p, !.late = Spent(tab[t].token)]]
      BY <1>a, <3>1
    <3> QED
      BY <3>2, <3>3
  <2>2. tab[t].page = "reset"
    BY <1>11, <1>a DEF SubmitReset, Idle
  <2>3. [tab[t] EXCEPT !.call = "sent", !.pw = p, !.late = b] \in Form
    BY <1>a, <2>2, FormFields DEF Page
  <2>4. Known([tab[t] EXCEPT !.call = "sent", !.pw = p, !.late = b]) => user.there
    BY <1>a, <2>2 DEF Known, NoTab, TabRecord
  <2> QED
    BY <1>b, <2>1, <2>3, <2>4, OneTab
<1>12. CASE ResetDone(t)
  <2>1. tab' = [tab EXCEPT ![t] = [NoTab EXCEPT !.page = "done"]]
    BY <1>12, <1>a DEF ResetDone, Go
  <2>3. [NoTab EXCEPT !.page = "done"] \in Form
    BY <1>a, FormFields DEF Page
  <2>4. Known([NoTab EXCEPT !.page = "done"]) => user.there
    BY <1>a DEF Known, NoTab, TabRecord
  <2> QED
    BY <1>b, <2>1, <2>3, <2>4, OneTab
<1>13. CASE ToggleEditing(t)
  <2>1. PICK b \in BOOLEAN :
          tab' = [tab EXCEPT ![t] = [tab[t] EXCEPT !.editing = b]]
    BY <1>13, <1>a DEF ToggleEditing, ProfileShown
  <2>2. tab[t].page = "profile"
    BY <1>13, <1>a DEF ToggleEditing, ProfileShown
  <2>3. [tab[t] EXCEPT !.editing = b] \in Form
    BY <1>a, <2>2, FormFields DEF Page
  <2>4. Known([tab[t] EXCEPT !.editing = b]) => user.there
    BY <1>a, <2>2 DEF Known, NoTab, TabRecord
  <2> QED
    BY <1>b, <2>1, <2>3, <2>4, OneTab
<1>14. CASE HandleSave(t)
  <2>1. PICK n \in Name, b \in BOOLEAN :
          tab' = [tab EXCEPT ![t] = [tab[t] EXCEPT !.call = "sent", !.name = n, !.muted = b]]
    <3>1. PICK n \in Name : tab' = [tab EXCEPT ![t].call = "sent", ![t].name = n, ![t].muted = tab[t].naming]
      BY <1>14 DEF HandleSave
    <3>2. tab[t].naming \in BOOLEAN
      BY <1>a DEF Form, TabRecord
    <3>3. tab' = [tab EXCEPT ![t] = [tab[t] EXCEPT !.call = "sent", !.name = n, !.muted = tab[t].naming]]
      BY <1>a, <3>1
    <3> QED
      BY <3>2, <3>3
  <2>2. tab[t].page = "profile"
    BY <1>14, <1>a DEF HandleSave, ProfileShown
  <2>3. [tab[t] EXCEPT !.call = "sent", !.name = n, !.muted = b] \in Form
    BY <1>a, <2>2, FormFields DEF Page
  <2>4. Known([tab[t] EXCEPT !.call = "sent", !.name = n, !.muted = b]) => user.there
    BY <1>a, <2>2 DEF Known, NoTab, TabRecord
  <2> QED
    BY <1>b, <2>1, <2>3, <2>4, OneTab
<1>15. CASE SaveAnswered(t)
  <2>1. PICK b \in BOOLEAN, e \in BOOLEAN : tab' = [tab EXCEPT ![t] =
          [tab[t] EXCEPT !.call = "idle", !.name = None, !.muted = FALSE, !.naming = b, !.editing = e]]
    <3>1. tab' = [tab EXCEPT ![t] = [tab[t] EXCEPT !.call = "idle", !.name = None, !.muted = FALSE,
             !.naming = tab[t].naming \/ ~tab[t].muted, !.editing = tab[t].editing /\ ~tab[t].muted]]
      BY <1>15 DEF SaveAnswered
    <3>2. (tab[t].naming \/ ~tab[t].muted) \in BOOLEAN /\ (tab[t].editing /\ ~tab[t].muted) \in BOOLEAN
      OBVIOUS
    <3> QED
      BY <3>1, <3>2
  <2>2. tab[t].page = "profile"
    BY <1>15, <1>a DEF SaveAnswered
  <2>3. [tab[t] EXCEPT !.call = "idle", !.name = None, !.muted = FALSE, !.naming = b, !.editing = e] \in Form
    BY <1>a, <2>2, FormFields DEF Page
  <2>4. Known([tab[t] EXCEPT !.call = "idle", !.name = None, !.muted = FALSE, !.naming = b,
                             !.editing = e]) => user.there
    BY <1>a, <2>2 DEF Known, NoTab, TabRecord
  <2> QED
    BY <1>b, <2>1, <2>3, <2>4, OneTab
<1>16. CASE SessionNamed(t)
  <2>1. tab' = [tab EXCEPT ![t] = [tab[t] EXCEPT !.editing = FALSE, !.naming = FALSE]]
    BY <1>16, <1>a DEF SessionNamed
  <2>2. tab[t].page = "profile"
    BY <1>16, <1>a DEF SessionNamed
  <2>3. [tab[t] EXCEPT !.editing = FALSE, !.naming = FALSE] \in Form
    BY <1>a, <2>2, FormFields DEF Page
  <2>4. Known([tab[t] EXCEPT !.editing = FALSE, !.naming = FALSE]) => user.there
    BY <1>a, <2>2 DEF Known, NoTab, TabRecord
  <2> QED
    BY <1>b, <2>1, <2>3, <2>4, OneTab
<1>20. CASE OpenReset(t)
  <2>1. CASE On(t, "link") /\ tab' = [tab EXCEPT ![t].page = "reset"]
    <3>1. tab' = [tab EXCEPT ![t] = [tab[t] EXCEPT !.page = "reset"]]
      BY <2>1
    <3>2. [tab[t] EXCEPT !.page = "reset"] \in Form
      BY <1>a, <2>1, FormFields
    <3>3. ~Known([tab[t] EXCEPT !.page = "reset"])
      BY <1>a DEF Known, TabRecord
    <3> QED
      BY <1>b, <3>1, <3>2, <3>3, OneTab
  <2>2. CASE \E k \in 1..issued : tab' = [tab EXCEPT ![t] = [NoTab EXCEPT !.page = "reset", !.token = k]]
    <3>0. 1..issued \subseteq Token
      BY AccountsAssumption DEF TypeInv, TypeOK, Token
    <3>1. PICK k \in Token :
             tab' = [tab EXCEPT ![t] = [NoTab EXCEPT !.page = "reset", !.token = k]]
      BY <2>2, <3>0
    <3>2. [NoTab EXCEPT !.page = "reset", !.token = k] \in Form
      BY EmptyForm, FormFields
    <3>3. ~Known([NoTab EXCEPT !.page = "reset", !.token = k])
      BY DEF Known, NoTab
    <3> QED
      BY <1>b, <3>1, <3>2, <3>3, OneTab
  <2> QED
    BY <1>20, <2>1, <2>2 DEF OpenReset
<1>21. CASE GotMe(t)
  BY <1>b, <1>21 DEF GotMe, TypeInv
<1> QED
  BY <1>1, <1>2, <1>3, <1>4, <1>5, <1>6, <1>7, <1>8, <1>9, <1>10, <1>11, <1>12, <1>13, <1>14, <1>15, <1>16, <1>20, <1>21 DEF Browser

\* The server answers a call, or takes what it has read into it.
LEMMA ServerForms ==
    ASSUME TypeInv, NEW t \in Tab, Server(t)
    PROVE  /\ user' \in Row /\ Member(user') /\ tab' \in [Tab -> Form]
           /\ \A u \in Tab : Known(tab'[u]) => user'.there
<1> USE DEF On, Sent, Answer
<1>a. tab[t] \in Form /\ tab[t] \in TabRecord /\ (Known(tab[t]) => user.there) /\ Filled(tab[t])
  BY DEF TypeInv, Form
<1>b. user \in Row /\ Member(user)
  BY DEF TypeInv, TypeOK, Member
<1>c. \A c : tab' = [tab EXCEPT ![t].call = c, ![t].pw = None, ![t].name = None] =>
        tab' = [tab EXCEPT ![t] = [tab[t] EXCEPT !.call = c, !.pw = None, !.name = None]]
  BY <1>a
<1>d. \A c \in {"no", "ok"} : tab[t].page \in {"signup", "signin", "reset"} =>
        [tab[t] EXCEPT !.call = c, !.pw = None, !.name = None] \in Form
  BY <1>a, FormFields
<1>e. \A c : Known([tab[t] EXCEPT !.call = c, !.pw = None, !.name = None]) <=>
        tab[t].page = "profile" \/ (tab[t].page = "signin" /\ c = "ok")
  BY <1>a DEF Known, TabRecord
<1>1. CASE Signup(t)
  <2>1. PICK c \in {"no", "ok"} : tab' = [tab EXCEPT ![t] = [tab[t] EXCEPT !.call = c, !.pw = None, !.name = None]]
    BY <1>1, <1>c DEF Signup
  <2>2. user' \in Row /\ Member(user') /\ (user.there => user'.there)
    <3>1. CASE user.there
      BY <1>1, <1>b, <3>1 DEF Signup
    <3>2. CASE ~user.there
      <4>1. tab[t].pw \in Password /\ tab[t].name \in Name
        BY <1>1, <1>a DEF Signup, Filled
      <4>2. user' = [there |-> TRUE, pw |-> tab[t].pw, name |-> tab[t].name]
        BY <1>1, <3>2 DEF Signup
      <4> QED
        BY <3>2, <4>1, <4>2, AccountsAssumption DEF Row, Member
    <3> QED
      BY <3>1, <3>2
  <2> QED
    BY <1>1, <1>d, <1>e, <2>1, <2>2, OneTab DEF Signup
<1>2. CASE Login(t)
  <2>1. PICK c \in {"no", "ok"} : /\ tab' = [tab EXCEPT ![t] = [tab[t] EXCEPT !.call = c, !.pw = None, !.name = None]]
                                  /\ c = "ok" => user.there
    BY <1>2, <1>c DEF Login
  <2> QED
    BY <1>2, <1>b, <1>d, <1>e, <2>1, OneTab DEF Login, db
<1>3. CASE RequestPasswordReset(t)
  <2>1. user' = user
    BY <1>3 DEF RequestPasswordReset
  <2>2. CASE tab' = [tab EXCEPT ![t].call = "no", ![t].pw = None, ![t].name = None]
    <3>1. [tab[t] EXCEPT !.call = "no", !.pw = None, !.name = None] \in Form
      BY <1>3, <1>a, FormFields DEF RequestPasswordReset
    <3>2. ~Known([tab[t] EXCEPT !.call = "no", !.pw = None, !.name = None])
      BY <1>3, <1>e DEF RequestPasswordReset
    <3>3. tab' = [tab EXCEPT ![t] = [tab[t] EXCEPT !.call = "no", !.pw = None, !.name = None]]
      BY <1>c, <2>2
    <3> QED
      BY <1>b, <2>1, <3>1, <3>2, <3>3, OneTab
  <2>3. CASE issued < MaxTokens /\ tab' = [tab EXCEPT ![t].call = "ok", ![t].token = issued + 1]
    <3>1. issued + 1 \in Token
      BY <2>3, AccountsAssumption DEF TypeInv, TypeOK, Token
    <3>2. tab' = [tab EXCEPT ![t] = [tab[t] EXCEPT !.call = "ok", !.token = issued + 1]]
      BY <2>3, <1>a
    <3>3. [tab[t] EXCEPT !.call = "ok", !.token = issued + 1] \in Form
      BY <1>3, <1>a, <3>1, FormFields DEF RequestPasswordReset
    <3>4. ~Known([tab[t] EXCEPT !.call = "ok", !.token = issued + 1])
      BY <1>3, <1>a DEF Known, TabRecord, RequestPasswordReset
    <3> QED
      BY <1>b, <2>1, <3>2, <3>3, <3>4, OneTab
  <2> QED
    BY <1>3, <2>2, <2>3 DEF RequestPasswordReset
<1>4. CASE CheckToken(t)
  <2>1. PICK c \in {"checked", "no"} : tab' = [tab EXCEPT ![t] = [tab[t] EXCEPT !.call = c]]
    BY <1>4, <1>a DEF CheckToken
  <2>2. [tab[t] EXCEPT !.call = c] \in Form
    BY <1>4, <1>a, FormFields DEF CheckToken
  <2>3. ~Known([tab[t] EXCEPT !.call = c])
    BY <1>4, <1>a DEF Known, TabRecord, CheckToken
  <2> QED
    BY <1>4, <1>b, <2>1, <2>2, <2>3, OneTab DEF CheckToken, db
<1>5. CASE ConfirmReset(t)
  <2>1. tab' = [tab EXCEPT ![t] = [tab[t] EXCEPT !.call = "ok", !.pw = None, !.name = None]]
    BY <1>5, <1>c DEF ConfirmReset
  <2>2. user' \in Row /\ Member(user') /\ (user.there => user'.there)
    BY <1>5, <1>a, <1>b, AccountsAssumption DEF ConfirmReset, Row, Member, Filled
  <2> QED
    BY <1>5, <1>d, <1>e, <2>1, <2>2, OneTab DEF ConfirmReset
<1>6. CASE GetMe(t)
  BY <1>6, <1>b DEF GetMe, db, TypeInv
<1>7. CASE ReadMe(t)
  <2>1. tab' = [tab EXCEPT ![t] = [tab[t] EXCEPT !.call = "checked", !.read = user]]
    BY <1>7, <1>a DEF ReadMe
  <2>2. [tab[t] EXCEPT !.call = "checked", !.read = user] \in Form
    BY <1>7, <1>a, <1>b, FormFields DEF ReadMe, Known
  <2> QED
    BY <1>7, <1>a, <1>b, <2>1, <2>2, OneTab DEF ReadMe, Known, db
<1>8. CASE SaveMe(t)
  <2>1. tab' = [tab EXCEPT ![t] = [tab[t] EXCEPT !.call = "ok", !.read = NoUser]]
    BY <1>8, <1>a DEF SaveMe
  <2>2. user' \in Row /\ Member(user') /\ user'.there
    BY <1>8, <1>a, AccountsAssumption DEF SaveMe, Saved, Row, Member, Filled
  <2>3. [tab[t] EXCEPT !.call = "ok", !.read = NoUser] \in Form
    BY <1>8, <1>a, FormFields DEF SaveMe
  <2> QED
    BY <2>1, <2>2, <2>3, OneTab
<1> QED
  BY <1>1, <1>2, <1>3, <1>4, <1>5, <1>6, <1>7, <1>8 DEF Server

MeRecord == [st: {"none", "sent", "answered"}, name: Name \cup {None}, answer: Name \cup {None}]

\* What a step makes of a cached profile.
LEMMA MeFields ==
    ASSUME NEW r \in MeRecord
    PROVE  /\ NoMe \in MeRecord
           /\ \A n \in Name \cup {None} : [NoMe EXCEPT !.name = n] \in MeRecord
           /\ \A s \in {"none", "sent"} : [r EXCEPT !.st = s] \in MeRecord
           /\ [r EXCEPT !.st = "sent", !.answer = None] \in MeRecord
           /\ \A n \in Name \cup {None} : [r EXCEPT !.st = "answered", !.answer = n] \in MeRecord
           /\ r.answer \in Name \cup {None}
BY DEF MeRecord, NoMe

\* Marking a token keeps its type.
LEMMA TokenFields ==
    ASSUME NEW f \in [Token -> [used: BOOLEAN, expired: BOOLEAN]], NEW k
    PROVE  /\ [f EXCEPT ![k].used = TRUE] \in [Token -> [used: BOOLEAN, expired: BOOLEAN]]
           /\ [f EXCEPT ![k].expired = TRUE] \in [Token -> [used: BOOLEAN, expired: BOOLEAN]]
<1>a. \A r \in [used: BOOLEAN, expired: BOOLEAN], b \in BOOLEAN :
        /\ [r EXCEPT !.used = b] \in [used: BOOLEAN, expired: BOOLEAN]
        /\ [r EXCEPT !.expired = b] \in [used: BOOLEAN, expired: BOOLEAN]
  OBVIOUS
<1>b. TRUE \in BOOLEAN /\ \A x \in Token : f[x] \in [used: BOOLEAN, expired: BOOLEAN]
  OBVIOUS
<1>1. \A x \in Token : /\ [f[x] EXCEPT !.used = TRUE] \in [used: BOOLEAN, expired: BOOLEAN]
                      /\ [f[x] EXCEPT !.expired = TRUE] \in [used: BOOLEAN, expired: BOOLEAN]
  BY <1>a, <1>b, Zenon
<1>2. [f EXCEPT ![k].used = TRUE] \in [Token -> [used: BOOLEAN, expired: BOOLEAN]]
  BY <1>1
<1>3. [f EXCEPT ![k].expired = TRUE] \in [Token -> [used: BOOLEAN, expired: BOOLEAN]]
  BY <1>1
<1> QED
  BY <1>2, <1>3

\* The rest of the state changes within its types.
LEMMA Others ==
    ASSUME TypeInv, [Next]_vars
    PROVE  /\ issued' \in 0..MaxTokens /\ calm' = calm /\ left' \in [Event -> Nat]
           /\ token' \in [Token -> [used: BOOLEAN, expired: BOOLEAN]]
           /\ chosen' \in Password \cup {None}
           /\ me' \in [Tab -> MeRecord]
<1> USE DEF TypeInv, TypeOK, db
<1>b. me \in [Tab -> MeRecord]
  BY DEF MeRecord
<1>c. \A t \in Tab, r \in MeRecord : [me EXCEPT ![t] = r] \in [Tab -> MeRecord]
  BY <1>b
<1>a. \A e \in Event : Spend(e) => left' \in [Event -> Nat]
  BY DEF Spend
<1>1. CASE UNCHANGED vars
  BY <1>1, <1>b DEF vars
<1>2. CASE \E k \in Token : TokenExpires(k)
  <2>1. PICK k \in Token : TokenExpires(k)
    BY <1>2
  <2>2. token' \in [Token -> [used: BOOLEAN, expired: BOOLEAN]]
    BY <2>1, TokenFields DEF TokenExpires
  <2> QED
    BY <1>a, <1>b, <2>1, <2>2 DEF TokenExpires, Event
<1>3. ASSUME NEW t \in Tab, Browser(t)
      PROVE  /\ UNCHANGED <<issued, calm, token, chosen>> /\ left' \in [Event -> Nat]
             /\ me' \in [Tab -> MeRecord]
  <2>a. user.name \in Name \cup {None} /\ tab[t].name \in Name \cup {None}
    BY DEF Row
  <2>1. CASE Leave(t)
    BY <2>1, <1>a, <1>b, <1>c, MeFields DEF Leave, Event
  <2>2. CASE Refused(t)
    BY <2>2, <1>a, <1>b DEF Refused, Event
  <2>3. CASE SignedIn(t)
    <3>1. me' = [me EXCEPT ![t] = [me[t] EXCEPT !.st = "sent"]]
      BY <2>3 DEF SignedIn
    <3>2. [me[t] EXCEPT !.st = "sent"] \in MeRecord
      BY <1>b, MeFields
    <3> QED
      BY <2>3, <2>a, <1>c, <3>1, <3>2 DEF SignedIn
  <2>4. CASE GotMe(t)
    <3>1. CASE /\ me' = [me EXCEPT ![t] = [NoMe EXCEPT !.name = me[t].answer]] /\ UNCHANGED left
      BY <2>4, <1>b, <1>c, <3>1, MeFields DEF GotMe
    <3>2. CASE me' = [me EXCEPT ![t].st = "none"] /\ Spend("noname")
      <4>1. me' = [me EXCEPT ![t] = [me[t] EXCEPT !.st = "none"]]
        BY <3>2
      <4>2. [me[t] EXCEPT !.st = "none"] \in MeRecord
        BY <1>b, MeFields
      <4> QED
        BY <2>4, <1>a, <1>c, <3>2, <4>1, <4>2 DEF GotMe, Event
    <3> QED
      BY <2>4, <3>1, <3>2 DEF GotMe
  <2>5. CASE SaveAnswered(t)
    <3>1. \/ me' = me
          \/ me' = [me EXCEPT ![t] = [me[t] EXCEPT !.st = "sent", !.answer = None]]
      BY <2>5 DEF SaveAnswered, InvalidatedMe
    <3>2. [me[t] EXCEPT !.st = "sent", !.answer = None] \in MeRecord
      BY <1>b, MeFields
    <3> QED
      BY <2>5, <1>b, <1>c, <3>1, <3>2 DEF SaveAnswered
  <2>6. CASE SessionNamed(t)
    BY <2>6, <2>a, <1>b DEF SessionNamed
  <2>7. CASE \/ Open(t) \/ SubmitSignUp(t) \/ SignedUp(t) \/ Redirect(t) \/ SubmitSignIn(t)
            \/ SubmitForgot(t) \/ LinkShown(t) \/ OpenReset(t) \/ SubmitReset(t)
            \/ ResetDone(t) \/ ToggleEditing(t) \/ HandleSave(t)
    BY <2>7, <1>b DEF Open, SubmitSignUp, SignedUp, Redirect, SubmitSignIn, SubmitForgot, LinkShown,
                OpenReset, SubmitReset, ResetDone, ToggleEditing, HandleSave
  <2> QED
    BY <1>3, <2>1, <2>2, <2>3, <2>4, <2>5, <2>6, <2>7 DEF Browser
<1>4. ASSUME NEW t \in Tab, Server(t)
      PROVE  /\ issued' \in 0..MaxTokens /\ UNCHANGED <<calm, left>>
             /\ token' \in [Token -> [used: BOOLEAN, expired: BOOLEAN]]
             /\ chosen' \in Password \cup {None}
             /\ me' \in [Tab -> MeRecord]
  <2>a. user.name \in Name \cup {None} /\ tab[t].pw \in Password \cup {None}
    BY DEF Row
  <2>1. CASE Signup(t)
    BY <2>1, <2>a, <1>b DEF Signup
  <2>2. CASE RequestPasswordReset(t)
    <3>1. issued' \in 0..MaxTokens
      <4>1. CASE issued < MaxTokens /\ issued' = issued + 1
        BY <4>1, AccountsAssumption
      <4> QED
        BY <2>2, <4>1 DEF RequestPasswordReset
    <3> QED
      BY <2>2, <1>b, <3>1 DEF RequestPasswordReset
  <2>3. CASE ConfirmReset(t)
    <3>1. token' \in [Token -> [used: BOOLEAN, expired: BOOLEAN]]
      BY <2>3, TokenFields DEF ConfirmReset
    <3> QED
      BY <2>3, <2>a, <1>b, <3>1 DEF ConfirmReset
  <2>4. CASE GetMe(t)
    <3>1. me' = [me EXCEPT ![t] = [me[t] EXCEPT !.st = "answered", !.answer = user.name]]
      BY <2>4 DEF GetMe
    <3>2. [me[t] EXCEPT !.st = "answered", !.answer = user.name] \in MeRecord
      BY <1>b, <2>a, MeFields
    <3> QED
      BY <2>4, <1>c, <3>1, <3>2 DEF GetMe
  <2>5. CASE Login(t) \/ CheckToken(t) \/ ReadMe(t) \/ SaveMe(t)
    BY <2>5, <1>b DEF Login, CheckToken, ReadMe, SaveMe
  <2> QED
    BY <1>4, <2>1, <2>2, <2>3, <2>4, <2>5 DEF Server
<1> QED
  BY <1>1, <1>2, <1>3, <1>4 DEF Next

LEMMA NextTypes ==
    ASSUME TypeInv, [Next]_vars
    PROVE  TypeInv'
<1>1. /\ user' \in Row /\ Member(user') /\ tab' \in [Tab -> Form]
      /\ \A u \in Tab : Known(tab'[u]) => user'.there
  <2>1. CASE UNCHANGED vars \/ \E k \in Token : TokenExpires(k)
    BY <2>1 DEF vars, TokenExpires, TypeInv, TypeOK, Member
  <2>2. CASE \E t \in Tab : Browser(t)
    BY <2>2, BrowserForms DEF TypeInv, TypeOK, Member
  <2>3. CASE \E t \in Tab : Server(t)
    BY <2>3, ServerForms
  <2> QED
    BY <2>1, <2>2, <2>3 DEF Next
<1> QED
  BY <1>1, Others DEF TypeInv, TypeOK, Member, Form, TabRecord, MeRecord

\* Type correctness of the account, its tokens and its tabs.
THEOREM AccountsTypeCorrect == Spec => []TypeOK
<1>1. Spec => []TypeInv
  BY InitTypes, NextTypes, PTL DEF Spec
<1>2. TypeInv => TypeOK
  BY DEF TypeInv
<1> QED
  BY <1>1, <1>2, PTL

-----------------------------------------------------------------------------
(* The password.  Where calls that write the row do not overlap there is at *)
(* most one, so the row a save has read is the row it writes back.          *)

StandInv ==
    calm => /\ \A t, u \in Tab : Writing(t) /\ Writing(u) => t = u
            /\ user.pw = chosen
            /\ \A t \in Tab : On(t, "profile") /\ tab[t].call = "checked" => tab[t].read = user

\* A tab that writes after a step did so before, with what it had.
Keeps(u) ==
    Writing(u)' => /\ Writing(u) /\ tab'[u].page = tab[u].page /\ tab'[u].call = tab[u].call
                   /\ tab'[u].token = tab[u].token /\ tab'[u].read = tab[u].read

\* Only a submitted reset or save begins to write.
LEMMA BrowserKeeps ==
    ASSUME TypeInv, NEW t \in Tab, Browser(t)
    PROVE  /\ UNCHANGED <<user, chosen, token, calm>>
           /\ \A u \in Tab \ {t} : tab'[u] = tab[u]
           /\ \/ Keeps(t)
              \/ /\ MayWrite /\ Writing(t)' /\ tab'[t].call = "sent"
                 /\ tab'[t].page \in {"reset", "profile"}
<1> USE DEF On, Idle, Sent, Go, db, Keeps, Writing
<1>a. tab \in [Tab -> TabRecord] /\ Filled(tab[t])
  BY DEF TypeInv, Form
<1>1. CASE Open(t)
  BY <1>1, <1>a DEF Open, NoTab
<1>2. CASE Leave(t)
  BY <1>2, <1>a DEF Leave, NoTab
<1>3. CASE Refused(t)
  BY <1>3, <1>a DEF Refused, TabRecord
<1>4. CASE SubmitSignUp(t)
  <2>0. PICK p \in Password, n \in Name :
          tab' = [tab EXCEPT ![t].call = "sent", ![t].pw = p, ![t].name = n]
    BY <1>4 DEF SubmitSignUp
  <2>1. tab'[t].page = "signup" /\ \A u \in Tab \ {t} : tab'[u] = tab[u]
    BY <1>4, <1>a, <2>0 DEF SubmitSignUp, TabRecord
  <2> QED
    BY <1>4, <2>1 DEF SubmitSignUp
<1>5. CASE SignedUp(t) \/ Redirect(t) \/ SignedIn(t) \/ ResetDone(t)
  BY <1>5, <1>a DEF SignedUp, Redirect, SignedIn, ResetDone, NoTab
<1>6. CASE SubmitSignIn(t)
  BY <1>6, <1>a DEF SubmitSignIn, TabRecord
<1>7. CASE SubmitForgot(t) \/ LinkShown(t)
  BY <1>7, <1>a DEF SubmitForgot, LinkShown, TabRecord
<1>8. CASE OpenReset(t)
  BY <1>8, <1>a DEF OpenReset, NoTab, TabRecord, Filled
<1>9. CASE SubmitReset(t)
  BY <1>9, <1>a DEF SubmitReset, TabRecord
<1>10. CASE GotMe(t)
  BY <1>10, <1>a DEF GotMe
<1>11. CASE ToggleEditing(t)
  BY <1>11, <1>a DEF ToggleEditing, TabRecord
<1>12. CASE HandleSave(t)
  BY <1>12, <1>a DEF HandleSave, ProfileShown, TabRecord
<1>13. CASE SaveAnswered(t) \/ SessionNamed(t)
  BY <1>13, <1>a DEF SaveAnswered, SessionNamed, TabRecord
<1> QED
  BY <1>1, <1>2, <1>3, <1>4, <1>5, <1>6, <1>7, <1>8, <1>9, <1>10, <1>11, <1>12, <1>13 DEF Browser

\* The steps of the server that write neither the row nor a token.
LEMMA ServerKeeps ==
    ASSUME TypeInv, NEW t \in Tab, Login(t) \/ RequestPasswordReset(t) \/ GetMe(t)
    PROVE  UNCHANGED <<user, chosen, token, calm>> /\ \A u \in Tab : Keeps(u)
<1> USE DEF On, Sent, Answer, db, Keeps, Writing
<1>a. tab \in [Tab -> TabRecord]
  BY DEF TypeInv, Form
<1>1. CASE Login(t)
  BY <1>1, <1>a DEF Login, TabRecord
<1>2. CASE RequestPasswordReset(t)
  BY <1>2, <1>a DEF RequestPasswordReset, TabRecord
<1>3. CASE GetMe(t)
  BY <1>3 DEF GetMe
<1> QED
  BY <1>1, <1>2, <1>3

LEMMA StandNext ==
    ASSUME TypeInv, StandInv, [Next]_vars
    PROVE  StandInv'
<1> SUFFICES ASSUME calm' PROVE /\ \A t, u \in Tab : Writing(t)' /\ Writing(u)' => t = u
                                /\ user'.pw = chosen'
                                /\ \A t \in Tab : tab'[t].page = "profile" /\ tab'[t].call = "checked"
                                                    => tab'[t].read = user'
  BY DEF StandInv, On
<1>a. calm
  BY Others
<1>b. /\ \A t, u \in Tab : Writing(t) /\ Writing(u) => t = u
      /\ user.pw = chosen
      /\ \A t \in Tab : tab[t].page = "profile" /\ tab[t].call = "checked" => tab[t].read = user
  BY <1>a DEF StandInv, On
<1>c. \A u \in Tab : /\ tab'[u].page = "profile" /\ tab'[u].call = "checked" => Writing(u)'
                     /\ tab[u].page = "profile" /\ tab[u].call = "checked" => Writing(u)
                     /\ tab'[u] = tab[u] => Keeps(u)
  BY DEF Writing, Keeps
<1>d. CASE UNCHANGED <<user, chosen>> /\ \A u \in Tab : Keeps(u)
  BY <1>b, <1>c, <1>d DEF Keeps
<1>e. tab \in [Tab -> TabRecord] /\ user \in Row /\ \A t \in Tab : Known(tab[t]) => user.there
  BY DEF TypeInv, TypeOK, Form
<1>1. CASE UNCHANGED vars \/ \E k \in Token : TokenExpires(k)
  BY <1>1, <1>c, <1>d DEF vars, TokenExpires
<1>2. ASSUME NEW t \in Tab, Browser(t)
      PROVE  /\ \A s, u \in Tab : Writing(s)' /\ Writing(u)' => s = u
             /\ user'.pw = chosen'
             /\ \A u \in Tab : tab'[u].page = "profile" /\ tab'[u].call = "checked" => tab'[u].read = user'
  <2>1. CASE Keeps(t)
    BY <1>2, <1>c, <1>d, <2>1, BrowserKeeps
  <2>2. CASE MayWrite /\ tab'[t].call = "sent"
    <3>1. \A u \in Tab \ {t} : ~Writing(u)'
      BY <1>2, <1>a, <2>2, BrowserKeeps DEF MayWrite, Writing
    <3> QED
      BY <1>2, <1>b, <1>c, <2>2, <3>1, BrowserKeeps
  <2> QED
    BY <1>2, <2>1, <2>2, BrowserKeeps
<1>3. ASSUME NEW t \in Tab, Server(t)
      PROVE  /\ \A s, u \in Tab : Writing(s)' /\ Writing(u)' => s = u
             /\ user'.pw = chosen'
             /\ \A u \in Tab : tab'[u].page = "profile" /\ tab'[u].call = "checked" => tab'[u].read = user'
  <2>1. CASE Login(t) \/ RequestPasswordReset(t) \/ GetMe(t)
    BY <1>d, <2>1, ServerKeeps
  <2>2. CASE Signup(t)
    <3>1. \A u \in Tab : Keeps(u) /\ (~user.there => tab[u].page # "profile")
      BY <1>e, <2>2 DEF Signup, Sent, On, Answer, Keeps, Writing, TabRecord, Known
    <3>2. CASE user.there
      BY <1>d, <2>2, <3>1, <3>2 DEF Signup
    <3>3. CASE ~user.there
      <4>1. user'.pw = chosen'
        BY <2>2, <3>3 DEF Signup
      <4> QED
        BY <1>b, <1>c, <3>1, <3>3, <4>1 DEF Keeps
    <3> QED
      BY <3>2, <3>3
  <2>3. CASE CheckToken(t) \/ ReadMe(t)
    <3>1. UNCHANGED <<user, chosen>> /\ Writing(t) /\ \A u \in Tab \ {t} : tab'[u] = tab[u]
      BY <1>e, <2>3 DEF CheckToken, ReadMe, db, Sent, On, Writing, TabRecord
    <3>4. tab'[t].page = "profile" => tab'[t].read = user
      <4>1. CASE CheckToken(t)
        BY <1>e, <4>1 DEF CheckToken, Sent, On, TabRecord
      <4>2. CASE ReadMe(t)
        <5>1. tab' = [tab EXCEPT ![t] = [tab[t] EXCEPT !.call = "checked", !.read = user]]
          BY <4>2 DEF ReadMe
        <5> QED
          BY <1>e, <5>1 DEF TabRecord
      <4> QED
        BY <2>3, <4>1, <4>2
    <3>2. \A u \in Tab : Writing(u)' => Writing(u)
      BY <3>1 DEF Writing
    <3> QED
      BY <1>b, <3>1, <3>2, <3>4
  <2>4. CASE ConfirmReset(t)
    <3>1. Writing(t) /\ ~Writing(t)' /\ \A u \in Tab \ {t} : tab'[u] = tab[u]
      BY <1>e, <2>4 DEF ConfirmReset, On, Answer, Writing, TabRecord
    <3>2. \A u \in Tab : ~Writing(u)'
      BY <1>b, <3>1 DEF Writing
    <3>3. user'.pw = chosen'
      BY <1>e, <2>4 DEF ConfirmReset, Row
    <3> QED
      BY <1>c, <3>2, <3>3
  <2>5. CASE SaveMe(t)
    <3>1. Writing(t) /\ ~Writing(t)' /\ \A u \in Tab \ {t} : tab'[u] = tab[u]
      BY <1>e, <2>5 DEF SaveMe, On, Writing, TabRecord
    <3>2. \A u \in Tab : ~Writing(u)'
      BY <1>b, <3>1 DEF Writing
    <3>3. user'.pw = chosen'
      BY <1>b, <1>e, <2>5 DEF SaveMe, On, Saved, Row
    <3> QED
      BY <1>c, <3>2, <3>3
  <2> QED
    BY <1>3, <2>1, <2>2, <2>3, <2>4, <2>5 DEF Server
<1> QED
  BY <1>1, <1>2, <1>3 DEF Next

\* The password of the latest sign-up or confirmed reset stays the one that signs in,
\* whatever saves of the profile follow, where calls that write the row do not overlap.
THEOREM ResetIsKept == Spec => []ResetStands
<1>1. Init => StandInv
  BY DEF Init, StandInv, Writing, On, NoTab, NoUser
<1>2. TypeInv /\ StandInv /\ [Next]_vars => TypeInv' /\ StandInv'
  BY NextTypes, StandNext
<1>3. StandInv => ResetStands
  BY DEF StandInv, ResetStands
<1> QED
  BY <1>1, <1>2, <1>3, InitTypes, PTL DEF Spec

\* A step of one tab leaves the others, and their profiles, as they are.
LEMMA OtherTabs ==
    ASSUME TypeInv, NEW t \in Tab, Browser(t) \/ Server(t)
    PROVE  \A u \in Tab \ {t} : tab'[u] = tab[u] /\ me'[u] = me[u]
<1>a. tab \in [Tab -> TabRecord] /\ me \in [Tab -> MeRecord]
  BY DEF TypeInv, TypeOK, Form, MeRecord
<1>1. CASE Browser(t)
  <2>1. \A u \in Tab \ {t} : tab'[u] = tab[u]
    BY <1>1, BrowserKeeps
  <2>2. \A u \in Tab \ {t} : me'[u] = me[u]
    BY <1>1, <1>a DEF Browser, Open, Leave, Refused, SubmitSignUp, SignedUp, Redirect, SubmitSignIn,
      SignedIn, SubmitForgot, LinkShown, OpenReset, SubmitReset, ResetDone, GotMe, ToggleEditing,
      HandleSave, SaveAnswered, SessionNamed, InvalidatedMe
  <2> QED
    BY <2>1, <2>2
<1>2. CASE Server(t)
  BY <1>2, <1>a DEF Server, Signup, Login, RequestPasswordReset, CheckToken, ConfirmReset, GetMe, ReadMe,
    SaveMe, Answer, db
<1> QED
  BY <1>1, <1>2

-----------------------------------------------------------------------------
(* The tokens.  One that is used or has expired stays so, and a late        *)
(* confirmation finds it so.                                               *)

LateGood(r) == r.page = "reset" /\ r.late =>
                  /\ r.call \notin {"checked", "ok"}
                  /\ r.call = "sent" => Spent(r.token)

LateInv == \A t \in Tab : LateGood(tab[t])

LEMMA SpentForGood ==
    ASSUME TypeInv, [Next]_vars, NEW k \in Token, Spent(k)
    PROVE  Spent(k)'
<1>a. token \in [Token -> [used: BOOLEAN, expired: BOOLEAN]]
  BY DEF TypeInv, TypeOK
<1>1. CASE token' = token
  BY <1>1 DEF Spent
<1>2. CASE \E j \in Token : TokenExpires(j)
  BY <1>2, <1>a DEF TokenExpires, Spent
<1>3. CASE \E t \in Tab : ConfirmReset(t)
  BY <1>3, <1>a DEF ConfirmReset, Spent
<1>4. ASSUME NEW t \in Tab, Browser(t) PROVE token' = token
  BY <1>4, BrowserKeeps
<1>5. ASSUME NEW t \in Tab, Server(t), ~ConfirmReset(t) PROVE token' = token
  BY <1>5 DEF Server, Signup, Login, RequestPasswordReset, CheckToken, GetMe, ReadMe, SaveMe, db
<1> QED
  BY <1>1, <1>2, <1>3, <1>4, <1>5 DEF Next, vars

\* A step of a tab on the reset page, or on its way there.
LEMMA LateStep ==
    ASSUME TypeInv, LateInv, NEW t \in Tab, Browser(t) \/ Server(t)
    PROVE  LateGood(tab[t])'
<1>a. tab \in [Tab -> TabRecord] /\ tab[t] \in TabRecord /\ Filled(tab[t]) /\ LateGood(tab[t])
  BY DEF TypeInv, Form, LateInv
<1>b. /\ tab[t].page = "reset" => tab[t].token \in Token
      /\ \A k \in Token : Spent(k) => Spent(k)'
  BY <1>a, SpentForGood DEF Filled, Next
<1>c. CASE tab'[t].page # "reset" \/ ~tab'[t].late
  BY <1>c DEF LateGood
<1>d. CASE /\ tab'[t].page = tab[t].page /\ tab'[t].late = tab[t].late /\ tab'[t].token = tab[t].token
           /\ tab'[t].call \in {tab[t].call, "idle", "no"}
  BY <1>a, <1>b, <1>d DEF LateGood
<1> USE DEF On, Idle, Sent, Go, Answer
<1>1. CASE Browser(t)
  <2>1. CASE \/ Open(t) \/ Leave(t) \/ SignedUp(t) \/ Redirect(t) \/ SignedIn(t) \/ ResetDone(t)
    BY <1>a, <1>c, <2>1 DEF Open, Leave, SignedUp, Redirect, SignedIn, ResetDone, NoTab
  <2>2. CASE Refused(t)
    BY <1>a, <1>c, <2>2 DEF Refused, TabRecord
  <2>3. CASE SubmitSignUp(t)
    <3>1. PICK p \in Password, n \in Name :
             tab' = [tab EXCEPT ![t].call = "sent", ![t].pw = p, ![t].name = n]
      BY <2>3 DEF SubmitSignUp
    <3> QED
      BY <1>a, <1>c, <2>3, <3>1 DEF SubmitSignUp, TabRecord
  <2>4. CASE SubmitSignIn(t) \/ SubmitForgot(t) \/ LinkShown(t)
    BY <1>a, <1>c, <2>4 DEF SubmitSignIn, SubmitForgot, LinkShown, TabRecord
  <2>5. CASE SaveAnswered(t) \/ SessionNamed(t) \/ ToggleEditing(t)
    BY <1>a, <1>c, <2>5 DEF SaveAnswered, SessionNamed, ToggleEditing, ProfileShown, TabRecord
  <2>9. CASE HandleSave(t)
    <3>1. PICK n \in Name : tab' = [tab EXCEPT ![t].call = "sent", ![t].name = n, ![t].muted = tab[t].naming]
      BY <2>9 DEF HandleSave
    <3> QED
      BY <1>a, <1>c, <2>9, <3>1 DEF HandleSave, ProfileShown, TabRecord
  <2>6. CASE GotMe(t)
    BY <1>d, <2>6 DEF GotMe
  <2>7. CASE OpenReset(t)
    BY <1>a, <1>c, <2>7 DEF OpenReset, NoTab, TabRecord, Filled, LateGood
  <2>8. CASE SubmitReset(t)
    <3>1. /\ tab'[t].page = "reset" /\ tab'[t].call = "sent" /\ tab'[t].token = tab[t].token
          /\ tab'[t].late => Spent(tab[t].token)
      BY <1>a, <2>8 DEF SubmitReset, TabRecord
    <3> QED
      BY <1>b, <2>8, <3>1 DEF SubmitReset, LateGood
  <2> QED
    BY <1>1, <2>1, <2>2, <2>3, <2>4, <2>5, <2>6, <2>7, <2>8, <2>9 DEF Browser
<1>2. CASE Server(t)
  <2>1. CASE CheckToken(t)
    <3>1. /\ tab'[t].page = "reset" /\ tab'[t].late = tab[t].late
          /\ tab'[t].call = IF TokenValid(tab[t].token) THEN "checked" ELSE "no"
      BY <1>a, <2>1 DEF CheckToken, TabRecord
    <3>2. tab[t].late => Spent(tab[t].token)
      BY <1>a, <2>1 DEF CheckToken, LateGood
    <3> QED
      BY <3>1, <3>2 DEF LateGood, Spent, TokenValid
  <2>2. CASE ConfirmReset(t)
    <3>1. tab'[t].late = tab[t].late /\ ~tab[t].late
      BY <1>a, <2>2 DEF ConfirmReset, LateGood, TabRecord
    <3> QED
      BY <1>c, <3>1
  <2>3. CASE Signup(t) \/ Login(t) \/ RequestPasswordReset(t) \/ ReadMe(t) \/ SaveMe(t)
    <3>1. tab'[t].page # "reset"
      BY <1>a, <2>3 DEF Signup, Login, RequestPasswordReset, ReadMe, SaveMe, TabRecord
    <3> QED
      BY <1>c, <3>1
  <2>4. CASE GetMe(t)
    BY <1>d, <2>4 DEF GetMe
  <2> QED
    BY <1>2, <2>1, <2>2, <2>3, <2>4 DEF Server
<1> QED
  BY <1>1, <1>2

LEMMA LateNext ==
    ASSUME TypeInv, LateInv, [Next]_vars
    PROVE  LateInv'
<1> SUFFICES ASSUME NEW u \in Tab PROVE LateGood(tab[u])'
  BY DEF LateInv
<1>1. CASE tab'[u] = tab[u]
  <2>1. LateGood(tab[u]) /\ (tab[u].page = "reset" => tab[u].token \in Token)
    BY DEF LateInv, TypeInv, Form, Filled
  <2>2. tab[u].token \in Token /\ Spent(tab[u].token) => Spent(tab[u].token)'
    BY <1>1, SpentForGood
  <2> QED
    BY <1>1, <2>1, <2>2 DEF LateGood
<1>2. CASE tab'[u] # tab[u]
  <2>1. PICK t \in Tab : Browser(t) \/ Server(t)
    BY <1>2 DEF Next, vars, TokenExpires
  <2>2. u = t
    BY <1>2, <2>1, OtherTabs
  <2> QED
    BY <2>1, <2>2, LateStep
<1> QED
  BY <1>1, <1>2

\* A confirmation of a link that was used or had expired when it was sent sets no
\* password, however the calls of any number of tabs overlap.
THEOREM LateResetsFail == Spec => []LateResetRefused
<1>1. Init => LateInv
  BY DEF Init, LateInv, LateGood, NoTab
<1>2. TypeInv /\ LateInv /\ [Next]_vars => TypeInv' /\ LateInv'
  BY NextTypes, LateNext
<1>3. LateInv => LateResetRefused
  BY DEF LateInv, LateGood, LateResetRefused, On
<1> QED
  BY <1>1, <1>2, <1>3, InitTypes, PTL DEF Spec

-----------------------------------------------------------------------------
(* The name.  A profile page that nothing disturbs is left by nobody, and   *)
(* its name changes only by its own saves: what the page has loaded, or is  *)
(* told next, is the name of the row, but between a save and its answer.    *)
(* By the time of a save the profile has been loaded, so that the save's    *)
(* invalidation replaces a request that may still answer with the old name. *)

Undisturbed ==
    left["net"] = Budget["net"] /\ left["leave"] = Budget["leave"] /\ left["noname"] = Budget["noname"]

LeftInv == \A e \in Event : left[e] <= Budget[e]

Own(t) == On(t, "profile") /\ \A u \in Tab \ {t} : ~On(u, "profile")

UpToDate(t) ==
    /\ tab[t].call \in {"sent", "checked", "ok"} => me[t].name # None
    /\ me[t].st = "none" => me[t].name # None
    /\ me[t].st = "answered" => me[t].answer # None
    /\ tab[t].call # "ok" => /\ me[t].st = "answered" => me[t].answer = user.name
                             /\ me[t].st = "none" => me[t].name = user.name

NameInv == LeftInv /\ (Undisturbed => \A t \in Tab : Own(t) => UpToDate(t))

LEMMA EventsSpent ==
    ASSUME TypeInv, LeftInv, NEW e \in Event, Spend(e)
    PROVE  /\ \A d \in Event : left'[d] <= Budget[d] /\ left'[d] <= left[d]
           /\ left'[e] < Budget[e]
<1>1. /\ left \in [Event -> Nat] /\ Budget \in [Event -> Nat] /\ left[e] > 0
      /\ left' = [left EXCEPT ![e] = @ - 1] /\ \A d \in Event : left[d] <= Budget[d]
  BY AccountsAssumption DEF TypeInv, TypeOK, LeftInv, Spend
<1> QED
  BY <1>1

\* What is undisturbed was so before, and was disturbed by no step.
LEMMA Disturbance ==
    ASSUME TypeInv, LeftInv, [Next]_vars
    PROVE  /\ LeftInv'
           /\ Undisturbed' => /\ Undisturbed
                              /\ ~\E t \in Tab : Leave(t)
                              /\ ~Spend("net") /\ ~Spend("noname")
<1>1. "net" \in Event /\ "leave" \in Event /\ "noname" \in Event /\ "expire" \in Event
  BY DEF Event
<1>2. \A e \in Event : left[e] \in Nat /\ Budget[e] \in Nat /\ left[e] <= Budget[e]
  BY AccountsAssumption DEF TypeInv, TypeOK, LeftInv
<1>3. ASSUME NEW e \in Event, Spend(e)
      PROVE  /\ \A d \in Event : left'[d] <= Budget[d] /\ left'[d] <= left[d] /\ left'[d] \in Int
             /\ left'[e] # Budget[e]
  <2>1. \A d \in Event : left'[d] \in Int
    BY <1>2, <1>3 DEF Spend, TypeInv, TypeOK
  <2> QED
    BY <1>2, <1>3, <2>1, EventsSpent
<1>4. left' = left \/ \E e \in Event : Spend(e)
  <2>1. CASE UNCHANGED vars
    BY <2>1 DEF vars
  <2>2. ASSUME NEW k \in Token, TokenExpires(k) PROVE \E e \in Event : Spend(e)
    BY <1>1, <2>2 DEF TokenExpires
  <2>3. ASSUME NEW t \in Tab, Browser(t) PROVE left' = left \/ \E e \in Event : Spend(e)
    BY <1>1, <2>3 DEF Browser, Open, Leave, Refused, SubmitSignUp, SignedUp, Redirect, SubmitSignIn,
      SignedIn, SubmitForgot, LinkShown, OpenReset, SubmitReset, ResetDone, GotMe, ToggleEditing,
      HandleSave, SaveAnswered, SessionNamed
  <2>4. ASSUME NEW t \in Tab, Server(t) PROVE left' = left
    BY <2>4 DEF Server, Signup, Login, RequestPasswordReset, CheckToken, ConfirmReset, GetMe, ReadMe, SaveMe
  <2> QED
    BY <2>1, <2>2, <2>3, <2>4 DEF Next
<1>5. LeftInv'
  BY <1>2, <1>3, <1>4 DEF LeftInv
<1>6. ASSUME Undisturbed' PROVE Undisturbed
  <2>1. CASE left' = left
    BY <1>6, <2>1 DEF Undisturbed
  <2>2. ASSUME NEW e \in Event, Spend(e) PROVE Undisturbed
    <3>1. \A d \in Event : left'[d] = Budget[d] => left[d] = Budget[d]
      BY <1>2, <1>3, <2>2
    <3> QED
      BY <1>1, <1>6, <3>1 DEF Undisturbed
  <2> QED
    BY <1>4, <2>1, <2>2
<1>7. Undisturbed' => ~Spend("net") /\ ~Spend("noname") /\ ~\E t \in Tab : Leave(t)
  BY <1>1, <1>3 DEF Undisturbed, Leave
<1> QED
  BY <1>5, <1>6, <1>7

\* A tab on its profile page leaves it only when it is closed; its name is written by
\* its own save, and by no other step while there is a user.
LEMMA ProfileKept ==
    ASSUME TypeInv, NEW t \in Tab, Browser(t) \/ Server(t), ~Leave(t)
    PROVE  /\ On(t, "profile") => On(t, "profile")'
           /\ On(t, "profile")' => On(t, "profile") \/ SignedIn(t)
           /\ user.there => user'.name = user.name \/ SaveMe(t)
<1>a. tab \in [Tab -> TabRecord] /\ user \in Row
  BY DEF TypeInv, TypeOK, Form
<1> USE DEF On, Idle, Sent, Go, db, Answer
<1>1. CASE Browser(t)
  <2>1. user' = user
    BY <1>1, BrowserKeeps
  <2>2. CASE SignedIn(t)
    BY <2>1, <2>2, <1>a DEF SignedIn, NoTab
  <2>3. CASE Open(t)
    BY <2>1, <2>3, <1>a DEF Open, NoTab
  <2>4. CASE Refused(t) \/ SubmitForgot(t) \/ ToggleEditing(t) \/ SaveAnswered(t) \/ SessionNamed(t)
    BY <2>1, <2>4, <1>a DEF Refused, SubmitForgot, ToggleEditing, SaveAnswered, SessionNamed, TabRecord
  <2>5. CASE SubmitSignUp(t) \/ SubmitSignIn(t) \/ SubmitReset(t) \/ HandleSave(t)
    <3>1. tab'[t].page = tab[t].page
      <4>1. CASE SubmitSignUp(t)
        <5>1. PICK p \in Password, n \in Name :
                 tab' = [tab EXCEPT ![t].call = "sent", ![t].pw = p, ![t].name = n]
          BY <4>1 DEF SubmitSignUp
        <5> QED
          BY <5>1, <1>a DEF TabRecord
      <4>2. CASE SubmitSignIn(t)
        BY <4>2, <1>a DEF SubmitSignIn, TabRecord
      <4>4. CASE SubmitReset(t)
        <5>1. PICK p \in Password : tab' = [tab EXCEPT ![t].call = "sent", ![t].pw = p,
                                                        ![t].late = Spent(tab[t].token)]
          BY <4>4 DEF SubmitReset
        <5> QED
          BY <5>1, <1>a DEF TabRecord
      <4>3. CASE HandleSave(t)
        BY <4>3, <1>a DEF HandleSave, TabRecord
      <4> QED
        BY <2>5, <4>1, <4>2, <4>3, <4>4
    <3> QED
      BY <2>1, <3>1
  <2>6. CASE SignedUp(t) \/ Redirect(t) \/ LinkShown(t) \/ ResetDone(t) \/ GotMe(t)
    BY <2>1, <2>6, <1>a DEF SignedUp, Redirect, LinkShown, ResetDone, GotMe, NoTab, TabRecord
  <2>7. CASE OpenReset(t)
    BY <2>1, <2>7, <1>a DEF OpenReset, NoTab, TabRecord
  <2> QED
    BY <1>1, <2>2, <2>3, <2>4, <2>5, <2>6, <2>7 DEF Browser
<1>2. CASE Server(t)
  <2>1. tab'[t].page = tab[t].page
    BY <1>2, <1>a DEF Server, Signup, Login, RequestPasswordReset, CheckToken, ConfirmReset, GetMe, ReadMe,
      SaveMe, TabRecord
  <2>2. user.there => user'.name = user.name \/ SaveMe(t)
    BY <1>2, <1>a DEF Server, Signup, Login, RequestPasswordReset, CheckToken, ConfirmReset, GetMe, ReadMe, Row
  <2> QED
    BY <2>1, <2>2
<1> QED
  BY <1>1, <1>2

\* What a step of a tab does to its own profile.
LEMMA OwnStep ==
    ASSUME TypeInv, NEW t \in Tab, Browser(t) \/ Server(t), ~Leave(t), ~Spend("net"), ~Spend("noname"),
           On(t, "profile"), UpToDate(t)
    PROVE  UpToDate(t)'
<1>a. /\ tab \in [Tab -> TabRecord] /\ me \in [Tab -> MeRecord] /\ user \in Row
      /\ user.there /\ user.name # None
      /\ tab[t] \in TabRecord /\ me[t] \in MeRecord
  BY DEF TypeInv, TypeOK, Form, MeRecord, Known, On
<1> USE DEF On, Idle, Sent, Go, db, Answer, UpToDate
<1>1. ASSUME UNCHANGED <<user, me>>, tab'[t].call = tab[t].call PROVE UpToDate(t)'
  BY <1>1
<1>2. CASE Server(t)
  <2>1. CASE GetMe(t)
    BY <1>a, <2>1 DEF GetMe, MeRecord
  <2>2. CASE ReadMe(t)
    BY <1>a, <2>2 DEF ReadMe, TabRecord
  <2>3. CASE SaveMe(t)
    BY <1>a, <2>3 DEF SaveMe, TabRecord
  <2> QED
    BY <1>2, <2>1, <2>2, <2>3 DEF Server, Signup, Login, RequestPasswordReset, CheckToken, ConfirmReset
<1>3. CASE Browser(t)
  <2>0. user' = user
    BY <1>3, BrowserKeeps
  <2>1. CASE Refused(t)
    BY <1>a, <2>0, <2>1 DEF Refused, TabRecord
  <2>2. CASE GotMe(t)
    BY <1>a, <2>0, <2>2 DEF GotMe, NoMe, MeRecord
  <2>3. CASE ToggleEditing(t)
    BY <1>1, <1>a, <2>0, <2>3 DEF ToggleEditing, TabRecord
  <2>4. CASE HandleSave(t)
    <3>1. me[t].name # None /\ me' = me /\ tab[t].call = "idle" /\ tab'[t].call = "sent"
      BY <1>a, <2>4 DEF HandleSave, ProfileShown, TabRecord
    <3> QED
      BY <2>0, <3>1
  <2>5. CASE SaveAnswered(t)
    <3>1. me[t].name # None /\ me' = [me EXCEPT ![t].st = "sent", ![t].answer = None]
      BY <1>a, <2>5 DEF SaveAnswered, InvalidatedMe
    <3>2. me'[t].st = "sent" /\ me'[t].name = me[t].name
      BY <1>a, <3>1 DEF MeRecord
    <3> QED
      BY <3>1, <3>2
  <2>6. CASE SessionNamed(t)
    BY <1>a, <2>0, <2>6 DEF SessionNamed, TabRecord
  <2> QED
    BY <1>3, <1>a, <2>1, <2>2, <2>3, <2>4, <2>5, <2>6 DEF Browser, Open, SubmitSignUp, SignedUp, Redirect,
      SubmitSignIn, SignedIn, SubmitForgot, LinkShown, OpenReset, SubmitReset, ResetDone
<1> QED
  BY <1>2, <1>3

LEMMA NameNext ==
    ASSUME TypeInv, NameInv, [Next]_vars
    PROVE  NameInv'
<1>1. LeftInv' /\ (Undisturbed' => Undisturbed /\ ~Spend("net") /\ ~Spend("noname"))
  BY Disturbance DEF NameInv
<1> SUFFICES ASSUME Undisturbed', NEW w \in Tab, Own(w)' PROVE UpToDate(w)'
  BY <1>1 DEF NameInv
<1>2. /\ \A t \in Tab : ~Leave(t)
      /\ ~Spend("net") /\ ~Spend("noname") /\ \A t \in Tab : Own(t) => UpToDate(t)
  BY <1>1, Disturbance DEF NameInv
<1>3. CASE UNCHANGED <<user, tab, me>>
  BY <1>2, <1>3 DEF Own, On, UpToDate
<1>4. ASSUME NEW t \in Tab, Browser(t) \/ Server(t) PROVE UpToDate(w)'
  <2>1. \A u \in Tab \ {t} : tab'[u] = tab[u] /\ me'[u] = me[u]
    BY <1>4, OtherTabs
  <2>2. \A u \in Tab : On(u, "profile") => On(u, "profile")'
    BY <1>2, <1>4, <2>1, ProfileKept DEF On
  <2>3. CASE w # t
    <3>1. Own(w)
      BY <2>1, <2>2, <2>3 DEF Own, On
    <3>2. user.there
      BY <3>1 DEF TypeInv, Known, Own, On
    <3>3. ~SaveMe(t)
      BY <2>3, <3>1 DEF SaveMe, Own
    <3>4. user'.name = user.name
      BY <1>2, <1>4, <3>2, <3>3, ProfileKept
    <3> QED
      BY <1>2, <2>1, <2>3, <3>1, <3>4 DEF UpToDate
  <2>4. CASE w = t /\ On(t, "profile")
    <3>1. Own(t)
      BY <2>1, <2>2, <2>4 DEF Own, On
    <3> QED
      BY <1>2, <1>4, <2>4, <3>1, OwnStep
  <2>5. CASE w = t /\ ~On(t, "profile")
    <3>1. SignedIn(t)
      BY <1>2, <1>4, <2>5, ProfileKept DEF Own
    <3>2. tab'[t].call = "idle" /\ me'[t].st = "sent"
      BY <3>1 DEF SignedIn, Go, NoTab, TypeInv, TypeOK
    <3> QED
      BY <2>5, <3>2 DEF UpToDate
  <2> QED
    BY <2>3, <2>4, <2>5
<1>5. CASE UNCHANGED vars \/ \E k \in Token : TokenExpires(k)
  BY <1>3, <1>5 DEF vars, TokenExpires
<1> QED
  BY <1>4, <1>5 DEF Next

\* A profile page at rest shows the name its own latest save wrote, however the answers
\* of loads, saves and the session overlapped.
THEOREM NameIsOwn == Spec => []OwnNameShown
<1>1. Init => NameInv
  BY AccountsAssumption DEF Init, NameInv, LeftInv, Own, On, NoTab
<1>2. TypeInv /\ NameInv /\ [Next]_vars => TypeInv' /\ NameInv'
  BY NextTypes, NameNext
<1>3. NameInv => OwnNameShown
  BY DEF NameInv, Undisturbed, Own, UpToDate, OwnNameShown, ProfileShown
<1> QED
  BY <1>1, <1>2, <1>3, InitTypes, PTL DEF Spec
=============================================================================
