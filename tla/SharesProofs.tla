---------------------------- MODULE SharesProofs ----------------------------
(***************************************************************************)
(* Theorems about Shares for any number of links and visitors.             *)
(***************************************************************************)
EXTENDS Shares, TLAPS, FiniteSetTheorems

-----------------------------------------------------------------------------
(* Types.  A page that is open is the page of a link that was created, and  *)
(* a link that is about to be inserted has a number to take.               *)

VisitRecord ==
    [share: Share \cup {0}, page: {"none", "loading", "found", "error"}, seen: BOOLEAN,
     load: {"idle", "sent", "ok", "no", "lost"}, failed: BOOLEAN,
     call: {"idle", "sent", "resolved", "signed", "given", "refused"}, late: BOOLEAN]

Placed(r) ==
    /\ r.page = "none" => r.call = "idle" /\ r.load = "idle" /\ ~r.late
    /\ r.page # "none" => r.share \in Share

VisitSet == {r \in VisitRecord : Placed(r)}

RowRecord ==
    [limit: (Nat \ {0}) \cup {NoLimit}, locked: BOOLEAN, expires: BOOLEAN, past: BOOLEAN,
     count: Nat, there: BOOLEAN]

VisitInv == visit \in [Visitor -> VisitSet] /\ \A v \in Visitor : visit[v].share <= made

RowInv ==
    /\ made \in 0..MaxShares
    /\ row \in [Share -> RowRecord] /\ \A s \in Share : row[s].there => s <= made
    /\ given \in [Share -> Nat]

CreationInv ==
    /\ creation \in [st: {"idle", "sent", "checked", "done", "refused"}, form: Form \cup {NoForm}]
    /\ creation.st \in {"sent", "checked"} => made < MaxShares
    /\ creation.st = "checked" => creation.form.limit # 0

OwnerInv ==
    /\ file \in {"ready", "processing", "gone"} /\ view \in List \cup {"none"}
    /\ revoke \in [Share -> {"idle", "sent", "done", "missing"}]
    /\ cache \in [List -> [loaded: BOOLEAN, list: SUBSET Share]]
    /\ fetch \in [List -> [st: {"none", "sent", "answered"}, list: SUBSET Share]]
    /\ patient \in BOOLEAN /\ left \in [Event -> Nat]

TypeInv == VisitInv /\ RowInv /\ CreationInv /\ OwnerInv

LEMMA TypesOk == TypeInv => TypeOK
BY DEF TypeInv, VisitInv, RowInv, CreationInv, OwnerInv, TypeOK, VisitSet, VisitRecord, RowRecord

\* What a step makes of a row.
LEMMA RowFields ==
    ASSUME NEW r \in RowRecord
    PROVE  /\ NoRow \in RowRecord
           /\ \A b \in BOOLEAN : [r EXCEPT !.past = b] \in RowRecord
           /\ \A b \in BOOLEAN : [r EXCEPT !.there = b] \in RowRecord
           /\ [r EXCEPT !.count = @ + 1] \in RowRecord
           /\ \A n \in (Nat \ {0}) \cup {NoLimit}, b, c, d \in BOOLEAN :
                 [NoRow EXCEPT !.limit = n, !.locked = b, !.expires = c, !.there = d] \in RowRecord
<1>1. NoRow \in RowRecord
  BY DEF RowRecord, NoRow
<1>2. \A b \in BOOLEAN : [r EXCEPT !.past = b] \in RowRecord
  BY DEF RowRecord
<1>3. \A b \in BOOLEAN : [r EXCEPT !.there = b] \in RowRecord
  BY DEF RowRecord
<1>4. [r EXCEPT !.count = @ + 1] \in RowRecord
  BY DEF RowRecord
<1>5. \A n \in (Nat \ {0}) \cup {NoLimit}, b, c, d \in BOOLEAN :
        [NoRow EXCEPT !.limit = n, !.locked = b, !.expires = c, !.there = d] \in RowRecord
  BY <1>1 DEF RowRecord
<1> QED
  BY <1>1, <1>2, <1>3, <1>4, <1>5

\* What a step makes of a visit.
LEMMA VisitFields ==
    ASSUME NEW r \in VisitSet
    PROVE  /\ NoVisit \in VisitSet
           /\ \A s \in Share : [NoVisit EXCEPT !.share = s, !.page = "loading", !.load = "sent"] \in VisitSet
           /\ \A p \in {"loading", "found", "error"} : r.page # "none" =>
                 [r EXCEPT !.load = "sent", !.page = p] \in VisitSet
           /\ \A c \in {"ok", "no", "lost"} : r.page # "none" => [r EXCEPT !.load = c] \in VisitSet
           /\ \A p \in {"found", "error"}, b, f \in BOOLEAN : r.page # "none" =>
                 [r EXCEPT !.load = "idle", !.seen = b, !.failed = f, !.page = p] \in VisitSet
           /\ \A b \in BOOLEAN : r.page # "none" => [r EXCEPT !.call = "sent", !.late = b] \in VisitSet
           /\ \A c \in {"resolved", "refused", "signed", "given"} : r.page # "none" =>
                 [r EXCEPT !.call = c] \in VisitSet
           /\ \A b \in BOOLEAN : r.page # "none" => [r EXCEPT !.call = "idle", !.late = b] \in VisitSet
<1> USE DEF VisitSet, VisitRecord, Placed
<1>1. NoVisit \in VisitSet
  BY DEF NoVisit
<1>2. \A s \in Share : [NoVisit EXCEPT !.share = s, !.page = "loading", !.load = "sent"] \in VisitSet
  BY DEF NoVisit
<1>3. \A p \in {"loading", "found", "error"} : r.page # "none" =>
        [r EXCEPT !.load = "sent", !.page = p] \in VisitSet
  OBVIOUS
<1>4. \A c \in {"ok", "no", "lost"} : r.page # "none" => [r EXCEPT !.load = c] \in VisitSet
  OBVIOUS
<1>5. \A p \in {"found", "error"}, b, f \in BOOLEAN : r.page # "none" =>
        [r EXCEPT !.load = "idle", !.seen = b, !.failed = f, !.page = p] \in VisitSet
  OBVIOUS
<1>6. \A b \in BOOLEAN : r.page # "none" => [r EXCEPT !.call = "sent", !.late = b] \in VisitSet
  OBVIOUS
<1>7. \A c \in {"resolved", "refused", "signed", "given"} : r.page # "none" =>
        [r EXCEPT !.call = c] \in VisitSet
  OBVIOUS
<1>8. \A b \in BOOLEAN : r.page # "none" => [r EXCEPT !.call = "idle", !.late = b] \in VisitSet
  OBVIOUS
<1> QED
  BY <1>1, <1>2, <1>3, <1>4, <1>5, <1>6, <1>7, <1>8

LEMMA InitTypes == Init => TypeInv
<1> SUFFICES ASSUME Init PROVE TypeInv
  OBVIOUS
<1>1. VisitInv
  BY SharesAssumption DEF Init, VisitInv, VisitSet, VisitRecord, Placed, NoVisit
<1>2. RowInv
  BY SharesAssumption DEF Init, RowInv, RowRecord, NoRow
<1>3. CreationInv
  BY DEF Init, CreationInv, NoCreation
<1>4. OwnerInv
  BY SharesAssumption DEF Init, OwnerInv, NoCache, NoFetch
<1> QED
  BY <1>1, <1>2, <1>3, <1>4 DEF TypeInv

LEMMA Spending ==
    ASSUME OwnerInv, NEW e \in Event, Spend(e)
    PROVE  left' \in [Event -> Nat]
BY DEF OwnerInv, Spend

\* The file and the owner's side of a visitor's step, and the visits of an owner's.
LEMMA VisitorTypes ==
    ASSUME TypeInv, NEW v \in Visitor, VisitorNext(v)
    PROVE  TypeInv'
<1> USE DEF TypeInv
<1>a. visit[v] \in VisitSet /\ visit[v] \in VisitRecord
  BY DEF VisitInv, VisitSet
<1>b. ASSUME NEW r \in VisitSet, visit' = [visit EXCEPT ![v] = r], r.share <= made, made' = made
      PROVE  VisitInv'
  BY <1>b DEF VisitInv
<1>c. UNCHANGED <<file, made, owner>>
  BY DEF VisitorNext, Visit, Focus, GetPublicShare, LoadFails, Loaded, Download, Resolve, Sign, Count,
         DownloadFails, Downloaded, server, owner
<1>d. CreationInv' /\ (left' \in [Event -> Nat] => OwnerInv')
  BY <1>c DEF owner, CreationInv, OwnerInv
<1>e. UNCHANGED left => OwnerInv'
  BY <1>d DEF OwnerInv
<1>f. UNCHANGED <<row, given>> => RowInv'
  BY <1>c DEF RowInv
<1>g. visit[v].share <= made /\ visit[v].share \in Nat
  BY SharesAssumption, <1>a DEF VisitInv, VisitRecord, Share
<1>1. CASE Visit(v)
  <2>1. PICK s \in 1..made : visit' = [visit EXCEPT ![v] =
           [NoVisit EXCEPT !.share = s, !.page = "loading", !.load = "sent"]]
    BY <1>1 DEF Visit
  <2>2. s \in Share
    BY SharesAssumption DEF RowInv, Share
  <2>3. [NoVisit EXCEPT !.share = s, !.page = "loading", !.load = "sent"] \in VisitSet
    BY <1>a, <2>2, VisitFields
  <2>4. [NoVisit EXCEPT !.share = s, !.page = "loading", !.load = "sent"].share <= made
    BY SharesAssumption DEF NoVisit, RowInv
  <2> QED
    BY <1>1, <1>b, <1>c, <1>d, <1>e, <1>f, <2>1, <2>3, <2>4 DEF Visit, server
<1>2. CASE Focus(v)
  <2>1. visit[v].page # "none"
    BY <1>2 DEF Focus
  <2>2. PICK p \in {"loading", "found", "error"} :
           visit' = [visit EXCEPT ![v] = [visit[v] EXCEPT !.load = "sent", !.page = p]]
    BY <1>2, <1>a DEF Focus, VisitRecord
  <2>3. /\ [visit[v] EXCEPT !.load = "sent", !.page = p] \in VisitSet
        /\ [visit[v] EXCEPT !.load = "sent", !.page = p].share = visit[v].share
    BY <1>a, <2>1, VisitFields DEF VisitRecord
  <2>4. left' \in [Event -> Nat]
    BY <1>2, Spending DEF Focus, Event
  <2> QED
    BY <1>2, <1>b, <1>c, <1>d, <1>f, <1>g, <2>2, <2>3, <2>4 DEF Focus, server
<1>3. CASE GetPublicShare(v)
  <2>1. visit[v].page # "none"
    BY <1>3, <1>a DEF GetPublicShare, VisitSet, Placed
  <2>2. PICK c \in {"ok", "no"} : visit' = [visit EXCEPT ![v] = [visit[v] EXCEPT !.load = c]]
    BY <1>3, <1>a DEF GetPublicShare
  <2>3. [visit[v] EXCEPT !.load = c] \in VisitSet /\ [visit[v] EXCEPT !.load = c].share = visit[v].share
    BY <1>a, <2>1, VisitFields DEF VisitRecord
  <2> QED
    BY <1>3, <1>b, <1>c, <1>d, <1>e, <1>f, <1>g, <2>2, <2>3 DEF GetPublicShare, server
<1>4. CASE Loaded(v)
  <2>1. visit[v].page # "none"
    BY <1>4, <1>a DEF Loaded, VisitSet, Placed
  <2>2. PICK p \in {"found", "error"}, b \in BOOLEAN, f \in BOOLEAN : visit' = [visit EXCEPT ![v] =
           [visit[v] EXCEPT !.load = "idle", !.seen = b, !.failed = f, !.page = p]]
    <3>1. visit' = [visit EXCEPT ![v] = [visit[v] EXCEPT !.load = "idle",
                       !.seen = visit[v].seen \/ visit[v].load = "ok",
                       !.failed = (visit[v].load = "lost"),
                       !.page = IF visit[v].load = "ok" THEN "found" ELSE "error"]]
      BY <1>4 DEF Loaded
    <3>2. (visit[v].seen \/ visit[v].load = "ok") \in BOOLEAN /\ (visit[v].load = "lost") \in BOOLEAN
      OBVIOUS
    <3> QED
      BY <3>1, <3>2
  <2>3. /\ [visit[v] EXCEPT !.load = "idle", !.seen = b, !.failed = f, !.page = p] \in VisitSet
        /\ [visit[v] EXCEPT !.load = "idle", !.seen = b, !.failed = f, !.page = p].share = visit[v].share
    BY <1>a, <2>1, VisitFields DEF VisitRecord
  <2> QED
    BY <1>4, <1>b, <1>c, <1>d, <1>e, <1>f, <1>g, <2>2, <2>3 DEF Loaded, server
<1>5. CASE Download(v)
  <2>1. visit[v].page # "none"
    BY <1>5 DEF Download
  <2>2. PICK b \in BOOLEAN : visit' = [visit EXCEPT ![v] = [visit[v] EXCEPT !.call = "sent", !.late = b]]
    <3>1. visit' = [visit EXCEPT ![v] = [visit[v] EXCEPT !.call = "sent", !.late = Dead(visit[v].share)]]
      BY <1>5 DEF Download
    <3>2. Dead(visit[v].share) \in BOOLEAN
      BY DEF Dead
    <3> QED
      BY <3>1, <3>2
  <2>3. /\ [visit[v] EXCEPT !.call = "sent", !.late = b] \in VisitSet
        /\ [visit[v] EXCEPT !.call = "sent", !.late = b].share = visit[v].share
    BY <1>a, <2>1, VisitFields DEF VisitRecord
  <2> QED
    BY <1>5, <1>b, <1>c, <1>d, <1>e, <1>f, <1>g, <2>2, <2>3 DEF Download, server
<1>h. ASSUME NEW c \in {"resolved", "refused", "signed", "given"}, visit[v].call # "idle",
             visit' = [visit EXCEPT ![v].call = c]
      PROVE  VisitInv' /\ visit[v].share \in Share
  <2>1. visit[v].page # "none"
    BY <1>h, <1>a DEF VisitSet, Placed
  <2>2. visit' = [visit EXCEPT ![v] = [visit[v] EXCEPT !.call = c]]
    BY <1>h
  <2>3. [visit[v] EXCEPT !.call = c] \in VisitSet /\ [visit[v] EXCEPT !.call = c].share = visit[v].share
    BY <1>a, <2>1, VisitFields DEF VisitRecord
  <2> QED
    BY <1>a, <1>b, <1>c, <1>g, <2>1, <2>2, <2>3 DEF VisitSet, Placed
<1>6. CASE Resolve(v)
  <2>1. VisitInv'
    BY <1>6, <1>h DEF Resolve
  <2> QED
    BY <1>6, <1>d, <1>e, <1>f, <2>1 DEF Resolve, server
<1>7. CASE Sign(v)
  <2>1. VisitInv' /\ visit[v].share \in Share
    BY <1>7, <1>h DEF Sign
  <2>2. row' = row /\ given' \in [Share -> Nat]
    BY <1>7, <2>1 DEF Sign, RowInv
  <2> QED
    BY <1>7, <1>c, <1>d, <1>e, <2>1, <2>2 DEF Sign, RowInv
<1>8. CASE Count(v)
  <2>1. VisitInv' /\ visit[v].share \in Share
    BY <1>8, <1>h DEF Count
  <2>2. left' \in [Event -> Nat]
    BY <1>8, Spending DEF Count, Event, OwnerInv
  <2>3. \/ row' = row
        \/ row' = [row EXCEPT ![visit[v].share] = [row[visit[v].share] EXCEPT !.count = @ + 1]]
    BY <1>8 DEF Count
  <2>4. row[visit[v].share] \in RowRecord
    BY <2>1 DEF RowInv
  <2>5. /\ [row[visit[v].share] EXCEPT !.count = @ + 1] \in RowRecord
        /\ [row[visit[v].share] EXCEPT !.count = @ + 1].there = row[visit[v].share].there
    <3>1. [row[visit[v].share] EXCEPT !.count = @ + 1] \in RowRecord
      BY <2>4, RowFields
    <3> QED
      BY <2>4, <3>1 DEF RowRecord
  <2>6. RowInv'
    BY <1>8, <1>c, <2>1, <2>3, <2>5 DEF Count, RowInv
  <2> QED
    BY <1>d, <2>1, <2>2, <2>6
<1>9. CASE Downloaded(v)
  <2>1. visit[v].page # "none"
    BY <1>9, <1>a DEF Downloaded, VisitSet, Placed
  <2>2. visit' = [visit EXCEPT ![v] = [visit[v] EXCEPT !.call = "idle", !.late = FALSE]]
    BY <1>9 DEF Downloaded
  <2>3. /\ [visit[v] EXCEPT !.call = "idle", !.late = FALSE] \in VisitSet
        /\ [visit[v] EXCEPT !.call = "idle", !.late = FALSE].share = visit[v].share
    BY <1>a, <2>1, VisitFields DEF VisitRecord
  <2> QED
    BY <1>9, <1>b, <1>c, <1>d, <1>e, <1>f, <1>g, <2>2, <2>3 DEF Downloaded, server
<1>10. CASE LoadFails(v)
  <2>1. visit[v].page # "none"
    BY <1>10, <1>a DEF LoadFails, VisitSet, Placed
  <2>2. PICK c \in {"lost"} : visit' = [visit EXCEPT ![v] = [visit[v] EXCEPT !.load = c]]
    BY <1>10 DEF LoadFails
  <2>3. [visit[v] EXCEPT !.load = c] \in VisitSet /\ [visit[v] EXCEPT !.load = c].share = visit[v].share
    BY <1>a, <2>1, VisitFields DEF VisitRecord
  <2>4. left' \in [Event -> Nat]
    BY <1>10, Spending DEF LoadFails, Event
  <2> QED
    BY <1>10, <1>b, <1>c, <1>d, <1>f, <1>g, <2>2, <2>3, <2>4 DEF LoadFails, server
<1>11. CASE DownloadFails(v)
  <2>1. VisitInv'
    BY <1>11, <1>h DEF DownloadFails
  <2>2. left' \in [Event -> Nat]
    BY <1>11, Spending DEF DownloadFails, Event
  <2> QED
    BY <1>11, <1>d, <1>f, <2>1, <2>2 DEF DownloadFails, server
<1> QED
  BY <1>1, <1>2, <1>3, <1>4, <1>5, <1>6, <1>7, <1>8, <1>9, <1>10, <1>11 DEF VisitorNext

FetchRecord == [st: {"none", "sent", "answered"}, list: SUBSET Share]

\* What a step makes of the requests for the lists.
LEMMA FetchFields ==
    ASSUME OwnerInv
    PROVE  /\ fetch \in [List -> FetchRecord] /\ Invalidated \in [List -> FetchRecord]
           /\ \A l \in List : MountedList(l) \in [List -> FetchRecord]
           /\ NoFetch \in FetchRecord /\ Requested \in FetchRecord
<1>1. NoFetch \in FetchRecord /\ Requested \in FetchRecord
  BY DEF NoFetch, Requested, FetchRecord
<1>2. fetch \in [List -> FetchRecord]
  BY DEF OwnerInv, FetchRecord
<1>3. Invalidated \in [List -> FetchRecord]
  BY <1>1, <1>2 DEF Invalidated
<1>4. \A l \in List : MountedList(l) \in [List -> FetchRecord]
  BY <1>1, <1>2 DEF MountedList
<1> QED
  BY <1>1, <1>2, <1>3, <1>4

LEMMA OwnerTypes ==
    ASSUME TypeInv, OwnerNext
    PROVE  TypeInv'
<1> USE DEF TypeInv
<1>a. UNCHANGED <<visit, made>> => VisitInv'
  BY DEF VisitInv
<1>b. UNCHANGED <<made, row, given>> => RowInv'
  BY DEF RowInv
<1>c. UNCHANGED <<made, creation>> => CreationInv'
  BY DEF CreationInv
<1>d. UNCHANGED <<file, view, revoke, cache, patient, left>> /\ fetch' \in [List -> FetchRecord]
        => OwnerInv'
  BY DEF OwnerInv, FetchRecord
<1>e. UNCHANGED <<file, view, revoke, cache, patient, left, fetch>> => OwnerInv'
  BY DEF OwnerInv
<1>f. "file" \in List /\ "all" \in List /\ "away" \in Event /\ "net" \in Event
  BY DEF List, Event
<1>g. fetch \in [List -> FetchRecord] /\ OwnerInv
  BY FetchFields
<1>1. CASE OpenDialog
  <2>1. fetch' \in [List -> FetchRecord] /\ view' \in List
    BY <1>1, <1>f, FetchFields DEF OpenDialog
  <2>2. OwnerInv'
    BY <1>1, <2>1 DEF OpenDialog, OwnerInv, FetchRecord, server
  <2> QED
    BY <1>1, <1>a, <1>b, <1>c, <2>2 DEF OpenDialog, server
<1>2. CASE OpenAllLinks
  <2>1. fetch' \in [List -> FetchRecord] /\ view' \in List
    BY <1>2, <1>f, FetchFields DEF OpenAllLinks
  <2>2. left' \in [Event -> Nat]
    BY <1>2, <1>f, Spending DEF OpenAllLinks
  <2>3. OwnerInv'
    BY <1>2, <2>1, <2>2 DEF OpenAllLinks, OwnerInv, FetchRecord, server
  <2> QED
    BY <1>2, <1>a, <1>b, <1>c, <2>3 DEF OpenAllLinks, server
<1>3. CASE Close
  <2>1. OwnerInv'
    BY <1>3 DEF Close, OwnerInv, server
  <2> QED
    BY <1>3, <1>a, <1>b, <1>c, <2>1 DEF Close, server
<1>4. CASE HandleCreate
  <2>1. CreationInv'
    BY <1>4 DEF HandleCreate, CreationInv, server
  <2> QED
    BY <1>4, <1>a, <1>b, <1>e, <2>1 DEF HandleCreate, server
<1>5. CASE CreateShare
  <2>1. CreationInv'
    BY <1>5 DEF CreateShare, CreationInv, CreateRefused, server
  <2> QED
    BY <1>5, <1>a, <1>b, <1>e, <2>1 DEF CreateShare, server
<1>6. CASE InsertShare
  <2>1. made + 1 \in Share /\ made' = made + 1 /\ made' \in 0..MaxShares /\ made \in Nat
    BY <1>6, SharesAssumption DEF InsertShare, CreationInv, RowInv, Share
  <2>2. CreationInv'
    BY <1>6 DEF InsertShare, CreationInv
  <2>3. VisitInv'
    BY <1>6, <2>1, SharesAssumption DEF InsertShare, VisitInv, VisitSet, VisitRecord, Share
  <2>4. creation.form \in [limit: (Nat \ {0}) \cup {NoLimit}, locked: BOOLEAN, expires: BOOLEAN]
    <3>1. creation.form \in Form \cup {NoForm} /\ creation.form.limit # 0
      BY <1>6 DEF InsertShare, CreationInv
    <3>2. creation.form \in [limit: Nat \cup {NoLimit}, locked: BOOLEAN, expires: BOOLEAN]
      <4>1. NoForm \in [limit: Nat \cup {NoLimit}, locked: BOOLEAN, expires: BOOLEAN]
        BY DEF NoForm
      <4>2. Form \subseteq [limit: Nat \cup {NoLimit}, locked: BOOLEAN, expires: BOOLEAN]
        BY SharesAssumption
      <4> QED
        BY <3>1, <4>1, <4>2
    <3> QED
      BY <3>1, <3>2
  <2>5. /\ NoRow \in RowRecord
        /\ [NoRow EXCEPT !.limit = creation.form.limit, !.locked = creation.form.locked,
                         !.expires = creation.form.expires, !.there = TRUE] \in RowRecord
    BY <2>4 DEF NoRow, RowRecord
  <2>6. row' = [row EXCEPT ![made + 1] =
                   [NoRow EXCEPT !.limit = creation.form.limit, !.locked = creation.form.locked,
                                 !.expires = creation.form.expires, !.there = TRUE]]
    BY <1>6 DEF InsertShare
  <2>7. row' \in [Share -> RowRecord] /\ given' \in [Share -> Nat]
    BY <1>6, <2>1, <2>5, <2>6 DEF RowInv, InsertShare
  <2>8. \A s \in Share : row'[s].there => s <= made'
    <3> SUFFICES ASSUME NEW s \in Share, row'[s].there PROVE s <= made'
      OBVIOUS
    <3>1. CASE s = made + 1
      BY <2>1, <3>1
    <3>2. CASE s # made + 1
      BY <2>1, <2>6, <3>2, SharesAssumption DEF RowInv, Share
    <3> QED
      BY <3>1, <3>2
  <2>9. RowInv'
    BY <2>1, <2>7, <2>8 DEF RowInv
  <2> QED
    BY <1>6, <1>e, <2>2, <2>3, <2>9 DEF InsertShare
<1>7. CASE Created
  <2>1. CreationInv'
    BY <1>7 DEF Created, CreationInv, NoCreation, server
  <2> QED
    BY <1>7, <1>a, <1>b, <1>d, <2>1, FetchFields DEF Created, server
<1>8. CASE CreateFailed
  <2>1. CreationInv'
    BY <1>8 DEF CreateFailed, CreationInv, NoCreation, server
  <2>2. left' \in [Event -> Nat]
    BY <1>8, <1>f, Spending DEF CreateFailed, OwnerInv
  <2>3. OwnerInv'
    BY <1>8, <2>2 DEF CreateFailed, OwnerInv, server
  <2> QED
    BY <1>8, <1>a, <1>b, <2>1, <2>3 DEF CreateFailed, server
<1>9. ASSUME NEW s \in Share, HandleRevoke(s)
      PROVE  TypeInv'
  <2>1. OwnerInv'
    BY <1>9 DEF HandleRevoke, OwnerInv, server
  <2> QED
    BY <1>9, <1>a, <1>b, <1>c, <2>1 DEF HandleRevoke, server
<1>10. ASSUME NEW s \in Share, DeleteShare(s)
       PROVE  TypeInv'
  <2>1. OwnerInv'
    BY <1>10 DEF DeleteShare, OwnerInv
  <2>2. row' = [row EXCEPT ![s] = [row[s] EXCEPT !.there = FALSE]]
    BY <1>10 DEF DeleteShare
  <2>3. [row[s] EXCEPT !.there = FALSE] \in RowRecord /\ ~[row[s] EXCEPT !.there = FALSE].there
    <3>1. row[s] \in RowRecord
      BY DEF RowInv
    <3>2. [row[s] EXCEPT !.there = FALSE] \in RowRecord
      BY <3>1, RowFields
    <3> QED
      BY <3>1, <3>2 DEF RowRecord
  <2>4. RowInv'
    BY <1>10, <2>2, <2>3 DEF DeleteShare, RowInv
  <2> QED
    BY <1>10, <1>a, <1>c, <2>1, <2>4 DEF DeleteShare
<1>11. ASSUME NEW s \in Share, Revoked(s)
       PROVE  TypeInv'
  <2>1. fetch' \in [List -> FetchRecord]
    BY <1>11, <1>g, FetchFields DEF Revoked
  <2>2. OwnerInv'
    BY <1>11, <2>1 DEF Revoked, OwnerInv, FetchRecord, server
  <2> QED
    BY <1>11, <1>a, <1>b, <1>c, <2>2 DEF Revoked, server
<1>12. ASSUME NEW l \in List, ListShares(l)
       PROVE  TypeInv'
  <2>1. [st |-> "answered", list |-> {s \in Share : row[s].there}] \in FetchRecord
    BY DEF FetchRecord
  <2>2. fetch' \in [List -> FetchRecord]
    BY <1>12, <1>g, <2>1, FetchFields DEF ListShares
  <2> QED
    BY <1>12, <1>a, <1>b, <1>c, <1>d, <2>2 DEF ListShares, server
<1>13. ASSUME NEW l \in List, Listed(l)
       PROVE  TypeInv'
  <2>1. fetch' \in [List -> FetchRecord]
    BY <1>13, <1>g, FetchFields DEF Listed
  <2>2. cache' \in [List -> [loaded: BOOLEAN, list: SUBSET Share]]
    BY <1>13, <1>g DEF Listed, OwnerInv, FetchRecord
  <2>3. OwnerInv'
    BY <1>13, <2>1, <2>2 DEF Listed, OwnerInv, FetchRecord, server
  <2> QED
    BY <1>13, <1>a, <1>b, <1>c, <2>3 DEF Listed, server
<1> QED
  BY <1>1, <1>2, <1>3, <1>4, <1>5, <1>6, <1>7, <1>8, <1>9, <1>10, <1>11, <1>12, <1>13
  DEF OwnerNext

\* Expiry, the file's removal and its processing.
LEMMA OtherTypes ==
    ASSUME TypeInv, (\E s \in Share : Expire(s)) \/ RemoveFile \/ Reprocess
    PROVE  TypeInv'
<1> USE DEF TypeInv
<1>a. UNCHANGED <<visit, made>> /\ CreationInv'
  BY DEF Expire, RemoveFile, Reprocess, owner, CreationInv
<1>b. VisitInv'
  BY <1>a DEF VisitInv
<1>c. left' \in [Event -> Nat]
  BY Spending DEF Expire, RemoveFile, Reprocess, Event, OwnerInv
<1>d. OwnerInv'
  BY <1>c DEF Expire, RemoveFile, Reprocess, owner, OwnerInv
<1>1. CASE \E s \in Share : Expire(s)
  <2>1. PICK s \in Share : Expire(s)
    BY <1>1
  <2>2. row' = [row EXCEPT ![s] = [row[s] EXCEPT !.past = TRUE]]
    BY <2>1 DEF Expire
  <2>3. /\ [row[s] EXCEPT !.past = TRUE] \in RowRecord
        /\ [row[s] EXCEPT !.past = TRUE].there = row[s].there
    <3>1. row[s] \in RowRecord
      BY DEF RowInv
    <3>2. [row[s] EXCEPT !.past = TRUE] \in RowRecord
      BY <3>1, RowFields
    <3> QED
      BY <3>1, <3>2 DEF RowRecord
  <2>4. RowInv'
    BY <2>1, <2>2, <2>3 DEF Expire, RowInv
  <2> QED
    BY <1>a, <1>b, <1>d, <2>4
<1>2. CASE RemoveFile
  <2>1. \A s \in Share : [row[s] EXCEPT !.there = FALSE] \in RowRecord /\ ~[row[s] EXCEPT !.there = FALSE].there
    <3> SUFFICES ASSUME NEW s \in Share
                 PROVE  [row[s] EXCEPT !.there = FALSE] \in RowRecord /\ ~[row[s] EXCEPT !.there = FALSE].there
      OBVIOUS
    <3>1. row[s] \in RowRecord
      BY DEF RowInv
    <3>2. [row[s] EXCEPT !.there = FALSE] \in RowRecord
      BY <3>1, RowFields
    <3> QED
      BY <3>1, <3>2 DEF RowRecord
  <2>2. RowInv'
    BY <1>2, <2>1 DEF RemoveFile, RowInv
  <2> QED
    BY <1>a, <1>b, <1>d, <2>2
<1>3. CASE Reprocess
  BY <1>3, <1>a, <1>b, <1>d DEF Reprocess, RowInv
<1> QED
  BY <1>1, <1>2, <1>3

LEMMA NextTypes ==
    ASSUME TypeInv, [Next]_vars
    PROVE  TypeInv'
<1>1. CASE UNCHANGED vars
  BY <1>1 DEF vars, TypeInv, VisitInv, RowInv, CreationInv, OwnerInv
<1> QED
  BY <1>1, VisitorTypes, OwnerTypes, OtherTypes DEF Next

\* Type correctness: a listed link is one that was created, and no link has a limit of zero.
THEOREM SharesTypeCorrect == Spec => []TypeOK
BY InitTypes, NextTypes, TypesOk, PTL DEF Spec

-----------------------------------------------------------------------------
(* A link that is dead stays dead.                                          *)

Aged(s) ==
    /\ row'[s].limit = row[s].limit /\ row'[s].count >= row[s].count
    /\ row[s].past => row'[s].past
    /\ row'[s].there => row[s].there

LEMMA RowsAge ==
    ASSUME TypeInv, [Next]_vars, NEW s \in Share, s <= made \/ ~InsertShare
    PROVE  Aged(s) /\ (file = "gone" => file' = "gone")
<1> USE DEF TypeInv
<1>a. /\ row \in [Share -> RowRecord] /\ row[s] \in RowRecord /\ row[s].count \in Nat
      /\ made \in Nat /\ s \in Nat
  BY SharesAssumption DEF RowInv, RowRecord, Share
<1>b. row' = row => Aged(s)
  BY <1>a DEF Aged
<1>1. CASE UNCHANGED vars
  BY <1>1, <1>b DEF vars
<1>2. CASE \E t \in Share : Expire(t)
  <2>1. PICK t \in Share : Expire(t)
    BY <1>2
  <2>2. row'[s] = IF s = t THEN [row[s] EXCEPT !.past = TRUE] ELSE row[s]
    BY <1>a, <2>1 DEF Expire
  <2> QED
    BY <1>a, <2>1, <2>2 DEF Expire, Aged, RowRecord
<1>3. CASE RemoveFile
  <2>1. row'[s] = [row[s] EXCEPT !.there = FALSE]
    BY <1>3, <1>a DEF RemoveFile
  <2> QED
    BY <1>3, <1>a, <2>1 DEF RemoveFile, Aged, RowRecord
<1>4. CASE Reprocess
  BY <1>4, <1>b DEF Reprocess
<1>5. CASE InsertShare
  <2>1. row'[s] = row[s]
    BY <1>5, <1>a DEF InsertShare
  <2> QED
    BY <1>5, <1>a, <2>1 DEF InsertShare, Aged
<1>6. ASSUME NEW t \in Share, DeleteShare(t) PROVE Aged(s) /\ (file = "gone" => file' = "gone")
  <2>1. row'[s] = IF s = t THEN [row[s] EXCEPT !.there = FALSE] ELSE row[s]
    BY <1>6, <1>a DEF DeleteShare
  <2> QED
    BY <1>6, <1>a, <2>1 DEF DeleteShare, Aged, RowRecord
<1>7. ASSUME NEW v \in Visitor, Count(v) PROVE Aged(s) /\ (file = "gone" => file' = "gone")
  <2>1. row'[s] = row[s] \/ row'[s] = [row[s] EXCEPT !.count = @ + 1]
    BY <1>7, <1>a DEF Count
  <2> QED
    BY <1>7, <1>a, <2>1 DEF Count, Aged, RowRecord
<1>8. ASSUME NEW v \in Visitor, VisitorNext(v), ~Count(v) PROVE row' = row /\ file' = file
  BY <1>8 DEF VisitorNext, Visit, Focus, GetPublicShare, LoadFails, Loaded, Download, Resolve, Sign,
              DownloadFails, Downloaded, server
<1>9. ASSUME OwnerNext, ~InsertShare, ~\E t \in Share : DeleteShare(t)
      PROVE  row' = row /\ file' = file
  BY <1>9 DEF OwnerNext, OpenDialog, OpenAllLinks, Close, HandleCreate, CreateShare, Created,
              CreateFailed, HandleRevoke, Revoked, ListShares, Listed, server
<1> QED
  BY <1>1, <1>2, <1>3, <1>4, <1>5, <1>6, <1>7, <1>8, <1>9, <1>b DEF Next

LEMMA DeadForGood ==
    ASSUME TypeInv, [Next]_vars, NEW s \in Share, s <= made, Dead(s)
    PROVE  Dead(s)'
<1>1. Aged(s) /\ (file = "gone" => file' = "gone")
  BY RowsAge
<1>2. row[s] \in RowRecord /\ row'[s] \in RowRecord
  BY NextTypes DEF TypeInv, RowInv
<1>3. row[s].count \in Nat /\ row'[s].count \in Nat
      /\ (row[s].limit # NoLimit => row[s].limit \in Nat)
  BY <1>2 DEF RowRecord
<1> QED
  BY <1>1, <1>3 DEF Dead, Aged

LEMMA ActiveOrDead ==
    ASSUME TypeInv, NEW s \in Share
    PROVE  /\ ~Active(s) => Dead(s)
           /\ Active(s) /\ Dead(s) => file = "gone"
<1>1. row[s] \in RowRecord
  BY DEF TypeInv, RowInv
<1>2. row[s].count \in Nat /\ (row[s].limit # NoLimit => row[s].limit \in Nat)
  BY <1>1 DEF RowRecord
<1> QED
  BY <1>2 DEF Active, Dead

-----------------------------------------------------------------------------
(* What a page knows of its link.                                          *)

Informed(r) ==
    /\ r.load = "no" \/ (r.page = "error" /\ ~r.failed) => Dead(r.share)
    /\ r.late =>
          /\ Dead(r.share) /\ r.call \notin {"signed", "given"}
          /\ r.call = "resolved" => file = "gone"

PageInv == \A v \in Visitor : Informed(visit[v])

\* The page of another visitor, or of this one when its visit is as it was.
LEMMA StaysInformed ==
    ASSUME TypeInv, PageInv, [Next]_vars, NEW w \in Visitor, visit'[w] = visit[w]
    PROVE  Informed(visit[w])'
<1>1. visit[w] \in VisitSet /\ visit[w].share <= made
  BY DEF TypeInv, VisitInv
<1>2. Informed(visit[w])
  BY DEF PageInv
<1>3. visit[w].page = "error" \/ visit[w].load = "no" \/ visit[w].late => visit[w].share \in Share
  BY <1>1 DEF VisitSet, Placed
<1>4. (visit[w].share \in Share /\ Dead(visit[w].share)) => Dead(visit[w].share)'
  BY <1>1, DeadForGood
<1>5. file = "gone" /\ visit[w].share \in Share => file' = "gone"
  BY <1>1, RowsAge
<1> QED
  BY <1>2, <1>3, <1>4, <1>5 DEF Informed

LEMMA VisitorInformed ==
    ASSUME TypeInv, PageInv, NEW v \in Visitor, VisitorNext(v)
    PROVE  Informed(visit[v])'
<1>a. [Next]_vars
  BY DEF Next
<1>b. /\ visit \in [Visitor -> VisitSet] /\ visit[v] \in VisitSet /\ visit[v] \in VisitRecord
      /\ visit[v].share <= made
  BY DEF TypeInv, VisitInv, VisitSet
<1>c. Informed(visit[v])
  BY DEF PageInv
<1>d. ASSUME visit[v].page # "none"
      PROVE  /\ visit[v].share \in Share
             /\ \A s \in Share : s = visit[v].share /\ Dead(s) => Dead(s)'
             /\ file = "gone" => file' = "gone"
  <2>1. visit[v].share \in Share
    BY <1>b, <1>d DEF VisitSet, Placed
  <2> QED
    BY <1>a, <1>b, <2>1, DeadForGood, RowsAge
<1>1. CASE Visit(v)
  <2>1. PICK s \in 1..made : visit' = [visit EXCEPT ![v] =
           [NoVisit EXCEPT !.share = s, !.page = "loading", !.load = "sent"]]
    BY <1>1 DEF Visit
  <2>2. visit'[v] = [NoVisit EXCEPT !.share = s, !.page = "loading", !.load = "sent"]
    BY <1>b, <2>1
  <2>3. visit'[v].page = "loading" /\ visit'[v].load = "sent" /\ visit'[v].late = FALSE
    BY <2>2 DEF NoVisit
  <2> QED
    BY <2>3 DEF Informed
<1>2. CASE Focus(v)
  <2>1. /\ visit'[v].share = visit[v].share /\ visit'[v].load = "sent"
        /\ visit'[v].page \in {visit[v].page, "loading"} /\ visit'[v].failed = visit[v].failed
        /\ visit'[v].late = visit[v].late /\ visit'[v].call = visit[v].call
    BY <1>2, <1>b DEF Focus, VisitRecord
  <2> QED
    BY <1>2, <1>c, <1>d, <2>1 DEF Focus, Informed
<1>3. CASE GetPublicShare(v)
  <2>1. /\ visit'[v].share = visit[v].share /\ visit'[v].page = visit[v].page
        /\ visit'[v].late = visit[v].late /\ visit'[v].call = visit[v].call
        /\ visit'[v].failed = visit[v].failed
        /\ visit'[v].load = IF Active(visit[v].share) /\ file # "gone" THEN "ok" ELSE "no"
    BY <1>3, <1>b DEF GetPublicShare, VisitRecord
  <2>2. visit[v].page # "none"
    BY <1>3, <1>b DEF GetPublicShare, VisitSet, Placed
  <2>3. visit'[v].load = "no" => Dead(visit[v].share)
    BY <1>d, <2>1, <2>2, ActiveOrDead DEF Dead
  <2> QED
    BY <1>c, <1>d, <2>1, <2>2, <2>3 DEF Informed
<1>4. CASE Loaded(v)
  <2>1. /\ visit'[v].share = visit[v].share /\ visit'[v].load = "idle"
        /\ visit'[v].late = visit[v].late /\ visit'[v].call = visit[v].call
        /\ visit'[v].page = IF visit[v].load = "ok" THEN "found" ELSE "error"
        /\ visit[v].load = "lost" => visit'[v].failed = TRUE
    BY <1>4, <1>b DEF Loaded, VisitRecord
  <2>2. visit[v].page # "none"
    BY <1>4, <1>b DEF Loaded, VisitSet, Placed
  <2>3. visit'[v].page = "error" /\ ~visit'[v].failed => visit[v].load = "no"
    BY <1>4, <2>1 DEF Loaded
  <2> QED
    BY <1>c, <1>d, <2>1, <2>2, <2>3 DEF Informed
<1>5. CASE Download(v)
  <2>1. /\ visit'[v].share = visit[v].share /\ visit'[v].load = visit[v].load
        /\ visit'[v].page = "found" /\ visit'[v].call = "sent"
        /\ visit'[v].late = Dead(visit[v].share)
    BY <1>5, <1>b DEF Download, VisitRecord
  <2>2. visit[v].page # "none"
    BY <1>5 DEF Download
  <2> QED
    BY <1>c, <1>d, <2>1, <2>2 DEF Informed
<1>e. ASSUME NEW c \in {"resolved", "refused", "signed", "given"}, visit[v].call # "idle",
             visit' = [visit EXCEPT ![v].call = c],
             visit[v].late => c = "refused" \/ (c = "resolved" /\ file = "gone")
      PROVE  Informed(visit[v])'
  <2>1. /\ visit'[v].share = visit[v].share /\ visit'[v].load = visit[v].load
        /\ visit'[v].page = visit[v].page /\ visit'[v].failed = visit[v].failed
        /\ visit'[v].late = visit[v].late /\ visit'[v].call = c
    BY <1>e, <1>b DEF VisitRecord
  <2>2. visit[v].page # "none"
    BY <1>e, <1>b DEF VisitSet, Placed
  <2> QED
    BY <1>c, <1>d, <1>e, <2>1, <2>2 DEF Informed
<1>6. CASE Resolve(v)
  <2>1. visit[v].page # "none" /\ visit[v].call # "idle"
    BY <1>6, <1>b DEF Resolve, VisitSet, Placed
  <2>2. PICK c \in {"resolved", "refused"} : /\ visit' = [visit EXCEPT ![v].call = c]
                                             /\ c = "resolved" => Active(visit[v].share)
    BY <1>6 DEF Resolve
  <2>3. visit[v].late => c = "refused" \/ (c = "resolved" /\ file = "gone")
    <3>1. visit[v].share \in Share
      BY <1>d, <2>1
    <3>2. Active(visit[v].share) /\ Dead(visit[v].share) => file = "gone"
      BY <3>1, ActiveOrDead
    <3>3. visit[v].late => Dead(visit[v].share)
      BY <1>c DEF Informed
    <3> QED
      BY <2>2, <3>2, <3>3
  <2> QED
    BY <1>e, <2>1, <2>2, <2>3
<1>7. CASE Sign(v)
  <2>1. visit[v].late => file = "gone"
    BY <1>7, <1>c DEF Sign, Informed
  <2> QED
    BY <1>7, <1>e, <2>1 DEF Sign
<1>8. CASE Count(v)
  <2>1. ~visit[v].late
    BY <1>8, <1>c DEF Count, Informed
  <2> QED
    BY <1>8, <1>e, <2>1 DEF Count
<1>9. CASE Downloaded(v)
  <2>1. /\ visit'[v].share = visit[v].share /\ visit'[v].load = visit[v].load
        /\ visit'[v].page = visit[v].page /\ visit'[v].failed = visit[v].failed
        /\ visit'[v].late = FALSE
    BY <1>9, <1>b DEF Downloaded, VisitRecord
  <2>2. visit[v].page # "none"
    BY <1>9, <1>b DEF Downloaded, VisitSet, Placed
  <2> QED
    BY <1>c, <1>d, <2>1, <2>2 DEF Informed
<1>10. CASE LoadFails(v)
  <2>1. /\ visit'[v].share = visit[v].share /\ visit'[v].load = "lost"
        /\ visit'[v].page = visit[v].page /\ visit'[v].failed = visit[v].failed
        /\ visit'[v].late = visit[v].late /\ visit'[v].call = visit[v].call
    BY <1>10, <1>b DEF LoadFails, VisitRecord
  <2>2. visit[v].page # "none"
    BY <1>10, <1>b DEF LoadFails, VisitSet, Placed
  <2> QED
    BY <1>c, <1>d, <2>1, <2>2 DEF Informed
<1>11. CASE DownloadFails(v)
  BY <1>11, <1>e DEF DownloadFails
<1> QED
  BY <1>1, <1>2, <1>3, <1>4, <1>5, <1>6, <1>7, <1>8, <1>9, <1>10, <1>11 DEF VisitorNext

LEMMA PageInit == Init => PageInv
BY DEF Init, PageInv, Informed, NoVisit

LEMMA PageNext ==
    ASSUME TypeInv, PageInv, [Next]_vars
    PROVE  PageInv'
<1> SUFFICES ASSUME NEW w \in Visitor PROVE Informed(visit[w])'
  BY DEF PageInv
<1>1. CASE visit'[w] = visit[w]
  BY <1>1, StaysInformed
<1>2. CASE visit'[w] # visit[w]
  <2>1. PICK v \in Visitor : VisitorNext(v)
    BY <1>2 DEF vars, Next, Expire, RemoveFile, Reprocess, OwnerNext, OpenDialog, OpenAllLinks,
                Close, HandleCreate, CreateShare, InsertShare, Created, CreateFailed, HandleRevoke,
                DeleteShare, Revoked, ListShares, Listed
  <2>2. w = v
    BY <1>2, <2>1 DEF VisitorNext, Visit, Focus, GetPublicShare, LoadFails, Loaded, Download, Resolve, Sign,
                      Count, DownloadFails, Downloaded, TypeInv, VisitInv
  <2> QED
    BY <2>1, <2>2, VisitorInformed
<1> QED
  BY <1>1, <1>2

\* "Link not found" is shown only for a link that is, and stays, dead, or while the latest
\* request for it that ended is one that failed.
THEOREM ErrorsAreFinal == Spec => []ErrorIsFinal
<1>1. PageInv => ErrorIsFinal
  BY DEF PageInv, Informed, ErrorIsFinal
<1> QED
  BY <1>1, InitTypes, NextTypes, PageInit, PageNext, PTL DEF Spec

\* A download that is clicked once its link is dead gets no URL.
THEOREM LateGetsNothing == Spec => []NoLateUrl
<1>1. PageInv => NoLateUrl
  BY DEF PageInv, Informed, NoLateUrl
<1> QED
  BY <1>1, InitTypes, NextTypes, PageInit, PageNext, PTL DEF Spec

-----------------------------------------------------------------------------
(* How many URLs a link gives.  A URL that was signed is in the count of   *)
(* the link's row, or about to be, or its update failed.  A visitor whose  *)
(* call has passed the check holds one more: it passed with the count below *)
(* the limit, when those about to be counted were other visitors.          *)

Signed(s) == {v \in Visitor : visit[v].share = s /\ visit[v].call = "signed"}
Resolved(s) == {v \in Visitor : visit[v].share = s /\ visit[v].call = "resolved"}

Counted(s) ==
    row[s].there => given[s] <= row[s].count + Cardinality(Signed(s)) + Uncounted

Bounded(s) ==
    row[s].limit # NoLimit =>
        given[s] + Cardinality(Resolved(s)) <= row[s].limit + Uncounted + Cardinality(Visitor) - 1

CountInv ==
    /\ left["uncounted"] <= Budget["uncounted"]
    /\ \A s \in Share : s > made => given[s] = 0
    /\ \A s \in Share : Counted(s) /\ Bounded(s)

\* A visitor is in one of the two sets.
LEMMA Visitors ==
    ASSUME NEW s
    PROVE  /\ IsFiniteSet(Signed(s)) /\ IsFiniteSet(Resolved(s))
           /\ Cardinality(Signed(s)) \in Nat /\ Cardinality(Resolved(s)) \in Nat
           /\ Cardinality(Visitor) \in Nat /\ Cardinality(Visitor) >= 1
           /\ Cardinality(Signed(s)) + Cardinality(Resolved(s)) <= Cardinality(Visitor)
<1>1. IsFiniteSet(Visitor) /\ Visitor # {}
  BY SharesAssumption
<1>2. Signed(s) \subseteq Visitor /\ Resolved(s) \subseteq Visitor /\ Signed(s) \cap Resolved(s) = {}
  BY DEF Signed, Resolved
<1>3. IsFiniteSet(Signed(s)) /\ IsFiniteSet(Resolved(s))
  BY <1>1, <1>2, FS_Subset
<1>4. /\ Cardinality(Signed(s)) \in Nat /\ Cardinality(Resolved(s)) \in Nat
      /\ Cardinality(Visitor) \in Nat
  BY <1>1, <1>3, FS_CardinalityType
<1>5. Cardinality(Visitor) >= 1
  BY <1>1, <1>4, FS_EmptySet
<1>6. Cardinality(Signed(s) \cup Resolved(s)) =
        Cardinality(Signed(s)) + Cardinality(Resolved(s)) - Cardinality(Signed(s) \cap Resolved(s))
  BY <1>3, FS_Union
<1>7. Cardinality({}) = 0
  BY FS_EmptySet
<1>8. Cardinality(Signed(s) \cup Resolved(s)) <= Cardinality(Visitor)
  BY <1>1, <1>2, FS_Subset
<1>9. Cardinality(Signed(s) \cap Resolved(s)) = 0
  BY <1>2, <1>7
<1>10. Cardinality(Signed(s)) + Cardinality(Resolved(s)) <= Cardinality(Visitor)
  BY <1>4, <1>6, <1>8, <1>9
<1> QED
  BY <1>3, <1>4, <1>5, <1>10

LEMMA CountsTyped ==
    ASSUME TypeInv, NEW s \in Share
    PROVE  /\ given[s] \in Nat /\ row[s].count \in Nat /\ left["uncounted"] \in Nat
           /\ row[s].limit # NoLimit => row[s].limit \in Nat
           /\ Budget["uncounted"] \in Nat /\ made \in Nat /\ s \in Nat
<1>1. row[s] \in RowRecord /\ given[s] \in Nat /\ made \in Nat /\ s \in Nat
  BY SharesAssumption DEF TypeInv, RowInv, Share
<1>2. left["uncounted"] \in Nat /\ Budget["uncounted"] \in Nat
  BY SharesAssumption DEF TypeInv, OwnerInv, Event
<1> QED
  BY <1>1, <1>2 DEF RowRecord

LEMMA BudgetShrinks ==
    ASSUME TypeInv, [Next]_vars, NEW x \in Event
    PROVE  left'[x] <= left[x] /\ left[x] \in Nat
<1>1. left[x] \in Nat /\ left \in [Event -> Nat]
  BY DEF TypeInv, OwnerInv
<1>2. ASSUME NEW e \in Event, Spend(e) PROVE left'[x] <= left[x]
  <2>1. left'[x] = IF x = e THEN left[x] - 1 ELSE left[x]
    BY <1>1, <1>2 DEF Spend
  <2> QED
    BY <1>1, <2>1
<1>3. UNCHANGED left \/ \E e \in Event : Spend(e)
  BY DEF vars, Next, Expire, RemoveFile, Reprocess, OwnerNext, OpenDialog, OpenAllLinks,
         Close, HandleCreate, CreateShare, InsertShare, Created, CreateFailed, HandleRevoke,
         DeleteShare, Revoked, ListShares, Listed, VisitorNext, Visit, Focus, GetPublicShare,
         LoadFails, Loaded, Download, Resolve, Sign, Count, DownloadFails, Downloaded, Event
<1> QED
  BY <1>1, <1>2, <1>3

LEMMA MadeKept ==
    ASSUME [Next]_vars, ~InsertShare
    PROVE  made' = made
BY DEF vars, Next, Expire, RemoveFile, Reprocess, OwnerNext, OpenDialog, OpenAllLinks,
       Close, HandleCreate, CreateShare, InsertShare, Created, CreateFailed, HandleRevoke,
       DeleteShare, Revoked, ListShares, Listed, VisitorNext, Visit, Focus, GetPublicShare,
       LoadFails, Loaded, Download, Resolve, Sign, Count, DownloadFails, Downloaded, server

LEMMA CountInit == Init => CountInv
<1> SUFFICES ASSUME Init PROVE CountInv
  OBVIOUS
<1>1. left["uncounted"] <= Budget["uncounted"]
  BY SharesAssumption DEF Init, Event
<1> QED
  BY <1>1 DEF Init, CountInv, Counted, Bounded, NoRow

\* A step that signs nothing and lets no visitor pass, or fail, the check.
LEMMA CountKept ==
    ASSUME TypeInv, CountInv, [Next]_vars, ~InsertShare, given' = given,
           \A s \in Share : Signed(s)' = Signed(s) /\ Resolved(s)' = Resolved(s)
    PROVE  CountInv'
<1>1. left'["uncounted"] <= left["uncounted"] /\ TypeInv' /\ made' = made
  <2>1. "uncounted" \in Event
    BY DEF Event
  <2> QED
    BY <2>1, BudgetShrinks, NextTypes, MadeKept
<1>2. SUFFICES ASSUME NEW s \in Share PROVE (s > made' => given'[s] = 0) /\ Counted(s)' /\ Bounded(s)'
  <2>1. left'["uncounted"] <= Budget["uncounted"]
    BY <1>1, SharesAssumption DEF CountInv, TypeInv, OwnerInv, Event
  <2> QED
    BY <1>2, <2>1 DEF CountInv
<1>3. Aged(s)
  BY RowsAge
<1>4. /\ given[s] \in Nat /\ row[s].count \in Nat /\ left["uncounted"] \in Nat
      /\ row[s].limit # NoLimit => row[s].limit \in Nat
      /\ Budget["uncounted"] \in Nat
  BY CountsTyped
<1>5. row'[s].count \in Nat /\ left'["uncounted"] \in Nat
  BY <1>1 DEF TypeInv, RowInv, RowRecord, OwnerInv, Event
<1>6. /\ Cardinality(Signed(s)) \in Nat /\ Cardinality(Resolved(s)) \in Nat
      /\ Cardinality(Visitor) \in Nat
  BY Visitors
<1>7. Counted(s) /\ Bounded(s) /\ (s > made => given[s] = 0)
  BY DEF CountInv
<1>8. Counted(s)'
  BY <1>1, <1>3, <1>4, <1>5, <1>6, <1>7 DEF Counted, Uncounted, Aged
<1>9. Bounded(s)'
  BY <1>1, <1>3, <1>4, <1>5, <1>6, <1>7 DEF Bounded, Uncounted, Aged
<1> QED
  BY <1>1, <1>7, <1>8, <1>9

\* The sets of the next state, when visitor v's call has become c.
LEMMA CallSets ==
    ASSUME TypeInv, NEW v \in Visitor, NEW c, visit' = [visit EXCEPT ![v].call = c]
    PROVE  \A s \in Share :
              /\ Signed(s)' = IF visit[v].share = s /\ c = "signed" THEN Signed(s) \cup {v} ELSE Signed(s) \ {v}
              /\ Resolved(s)' = IF visit[v].share = s /\ c = "resolved" THEN Resolved(s) \cup {v}
                                ELSE Resolved(s) \ {v}
<1>1. /\ visit \in [Visitor -> VisitSet] /\ visit[v] \in VisitRecord
  BY DEF TypeInv, VisitInv, VisitSet
<1>2. /\ visit'[v].share = visit[v].share /\ visit'[v].call = c
      /\ \A w \in Visitor : w # v => visit'[w] = visit[w]
  BY <1>1 DEF VisitRecord
<1> QED
  BY <1>2 DEF Signed, Resolved

\* The visitor's steps but those of a download under way.
LEMMA CountQuiet ==
    ASSUME TypeInv, CountInv, NEW v \in Visitor,
           \/ Visit(v) \/ Focus(v) \/ GetPublicShare(v) \/ LoadFails(v) \/ Loaded(v)
           \/ Download(v) \/ Downloaded(v)
    PROVE  CountInv'
<1>1. [Next]_vars /\ given' = given /\ made' = made
  BY DEF Next, VisitorNext, Visit, Focus, GetPublicShare, LoadFails, Loaded, Download, Downloaded, server
<1>2. visit \in [Visitor -> VisitSet] /\ visit[v] \in VisitSet /\ visit[v] \in VisitRecord
  BY DEF TypeInv, VisitInv, VisitSet
<1>3. \/ visit[v].call \notin {"signed", "resolved"} /\ visit'[v].call \notin {"signed", "resolved"}
      \/ visit'[v].call = visit[v].call /\ visit'[v].share = visit[v].share
  <2>1. CASE Visit(v)
    <3>1. PICK s \in 1..made : visit' = [visit EXCEPT ![v] =
             [NoVisit EXCEPT !.share = s, !.page = "loading", !.load = "sent"]]
      BY <2>1 DEF Visit
    <3>2. visit'[v].call = "idle"
      BY <1>2, <3>1 DEF NoVisit
    <3>3. visit[v].call = "idle"
      BY <2>1 DEF Visit
    <3> QED
      BY <3>2, <3>3
  <2>2. CASE Focus(v) \/ GetPublicShare(v) \/ LoadFails(v) \/ Loaded(v)
    BY <1>2, <2>2 DEF Focus, GetPublicShare, LoadFails, Loaded, VisitRecord
  <2>3. CASE Download(v) \/ Downloaded(v)
    BY <1>2, <2>3 DEF Download, Downloaded, VisitRecord
  <2> QED
    BY <2>1, <2>2, <2>3
<1>4. \A w \in Visitor : w # v => visit'[w] = visit[w]
  BY <1>2 DEF Visit, Focus, GetPublicShare, LoadFails, Loaded, Download, Downloaded
<1>5. \A s \in Share : Signed(s)' = Signed(s) /\ Resolved(s)' = Resolved(s)
  BY <1>3, <1>4 DEF Signed, Resolved
<1>6. ~InsertShare
  BY <1>1 DEF InsertShare, TypeInv, RowInv
<1> QED
  BY <1>1, <1>5, <1>6, CountKept

LEMMA CountResolve ==
    ASSUME TypeInv, CountInv, NEW v \in Visitor, Resolve(v)
    PROVE  CountInv'
<1>a. visit[v].share \in Share
  BY DEF Resolve, TypeInv, VisitInv, VisitSet, Placed
<1>b. UNCHANGED <<row, given, made, left>>
  BY DEF Resolve, server
<1>1. PICK c \in {"resolved", "refused"} : /\ visit' = [visit EXCEPT ![v].call = c]
                                           /\ c = "resolved" => Active(visit[v].share)
  BY DEF Resolve
<1>2. SUFFICES ASSUME NEW s \in Share PROVE Counted(s)' /\ Bounded(s)'
  BY <1>b, <1>2 DEF CountInv
<1>3. /\ Signed(s)' = Signed(s) \ {v}
      /\ Resolved(s)' = IF visit[v].share = s /\ c = "resolved" THEN Resolved(s) \cup {v}
                        ELSE Resolved(s) \ {v}
  BY <1>1, CallSets
<1>4. v \notin Signed(s) /\ v \notin Resolved(s)
  BY DEF Resolve, Signed, Resolved
<1>5. Signed(s)' = Signed(s)
  BY <1>3, <1>4
<1>6. Counted(s) /\ Bounded(s)
  BY DEF CountInv
<1>7. Counted(s)'
  BY <1>5, <1>6, <1>b DEF Counted, Uncounted
<1>8. CASE visit[v].share = s /\ c = "resolved"
  <2>1. row[s].there /\ (row[s].limit = NoLimit \/ row[s].count < row[s].limit)
    BY <1>1, <1>8 DEF Active
  <2>2. /\ given[s] \in Nat /\ row[s].count \in Nat /\ left["uncounted"] \in Nat
        /\ row[s].limit # NoLimit => row[s].limit \in Nat
        /\ Budget["uncounted"] \in Nat
    BY CountsTyped
  <2>3. Resolved(s)' = Resolved(s) \cup {v} /\ Resolved(s)' \subseteq Visitor /\ Signed(s) \cap Resolved(s)' = {}
    BY <1>3, <1>4, <1>8 DEF Resolved, Signed
  <2>4. /\ IsFiniteSet(Signed(s)) /\ IsFiniteSet(Resolved(s)) /\ IsFiniteSet(Visitor)
        /\ Cardinality(Signed(s)) \in Nat /\ Cardinality(Resolved(s)) \in Nat
        /\ Cardinality(Visitor) \in Nat
    BY Visitors, SharesAssumption
  <2>5. IsFiniteSet(Resolved(s) \cup {v}) /\ Cardinality(Resolved(s) \cup {v}) = Cardinality(Resolved(s)) + 1
    BY <1>4, <2>4, FS_AddElement
  <2>6. Cardinality(Signed(s)) + Cardinality(Resolved(s)) + 1 <= Cardinality(Visitor)
    <3>1. Cardinality(Signed(s) \cup (Resolved(s) \cup {v})) =
            Cardinality(Signed(s)) + Cardinality(Resolved(s) \cup {v})
              - Cardinality(Signed(s) \cap (Resolved(s) \cup {v}))
      BY <2>4, <2>5, FS_Union
    <3>2. Cardinality(Signed(s) \cap (Resolved(s) \cup {v})) = 0
      BY <2>3, FS_EmptySet
    <3>3. Signed(s) \cup (Resolved(s) \cup {v}) \subseteq Visitor
      BY DEF Signed, Resolved
    <3>4. Cardinality(Signed(s) \cup (Resolved(s) \cup {v})) <= Cardinality(Visitor)
      BY <2>4, <3>3, FS_Subset
    <3> QED
      BY <2>4, <2>5, <3>1, <3>2, <3>4
  <2>7. Bounded(s)'
    BY <1>6, <1>b, <2>1, <2>2, <2>3, <2>4, <2>5, <2>6 DEF Bounded, Counted, Uncounted
  <2> QED
    BY <1>7, <2>7
<1>9. CASE ~(visit[v].share = s /\ c = "resolved")
  <2>1. Resolved(s)' = Resolved(s)
    BY <1>3, <1>4, <1>9
  <2> QED
    BY <1>6, <1>7, <1>b, <2>1 DEF Bounded, Uncounted
<1> QED
  BY <1>8, <1>9

LEMMA CountSign ==
    ASSUME TypeInv, CountInv, NEW v \in Visitor, Sign(v)
    PROVE  CountInv'
<1>a. visit[v].share \in Share /\ visit[v].share <= made
  BY DEF Sign, TypeInv, VisitInv, VisitSet, Placed
<1>b. UNCHANGED <<row, made, left>>
  BY DEF Sign
<1>1. PICK c \in {"signed", "refused"} :
         /\ visit' = [visit EXCEPT ![v].call = c]
         /\ given' = IF c = "signed" THEN [given EXCEPT ![visit[v].share] = @ + 1] ELSE given
  BY DEF Sign
<1>2. \A s \in Share : given'[s] = IF c = "signed" /\ s = visit[v].share THEN given[s] + 1 ELSE given[s]
  BY <1>1, <1>a DEF TypeInv, RowInv
<1>3. \A s \in Share : s > made' => given'[s] = 0
  BY <1>2, <1>a, <1>b, SharesAssumption DEF CountInv, TypeInv, RowInv, Share
<1>4. SUFFICES ASSUME NEW s \in Share PROVE Counted(s)' /\ Bounded(s)'
  BY <1>b, <1>3, <1>4 DEF CountInv
<1>5. /\ Signed(s)' = IF visit[v].share = s /\ c = "signed" THEN Signed(s) \cup {v} ELSE Signed(s) \ {v}
      /\ Resolved(s)' = Resolved(s) \ {v}
  BY <1>1, CallSets
<1>6. v \notin Signed(s) /\ (v \in Resolved(s) <=> visit[v].share = s)
  BY DEF Sign, Signed, Resolved
<1>7. Counted(s) /\ Bounded(s)
  BY DEF CountInv
<1>8. /\ given[s] \in Nat /\ row[s].count \in Nat /\ left["uncounted"] \in Nat
      /\ row[s].limit # NoLimit => row[s].limit \in Nat
      /\ Budget["uncounted"] \in Nat
  BY CountsTyped
<1>9. /\ IsFiniteSet(Signed(s)) /\ IsFiniteSet(Resolved(s))
      /\ Cardinality(Signed(s)) \in Nat /\ Cardinality(Resolved(s)) \in Nat
      /\ Cardinality(Visitor) \in Nat
  BY Visitors
<1>10. CASE visit[v].share = s
  <2>1. Cardinality(Resolved(s)') = Cardinality(Resolved(s)) - 1
    BY <1>5, <1>6, <1>9, <1>10, FS_RemoveElement
  <2>2. CASE c = "signed"
    <3>1. Cardinality(Signed(s)') = Cardinality(Signed(s)) + 1
      BY <1>5, <1>6, <1>9, <1>10, <2>2, FS_AddElement
    <3>2. given'[s] = given[s] + 1
      BY <1>2, <1>10, <2>2
    <3>3. Counted(s)'
      BY <1>7, <1>8, <1>9, <1>b, <3>1, <3>2 DEF Counted, Uncounted
    <3>4. Bounded(s)'
      BY <1>7, <1>8, <1>9, <1>b, <2>1, <3>2 DEF Bounded, Uncounted
    <3> QED
      BY <3>3, <3>4
  <2>3. CASE c = "refused"
    <3>1. Signed(s)' = Signed(s) /\ given'[s] = given[s]
      BY <1>2, <1>5, <1>6, <2>3
    <3>2. Counted(s)'
      BY <1>7, <1>b, <3>1 DEF Counted, Uncounted
    <3>3. Bounded(s)'
      BY <1>7, <1>8, <1>9, <1>b, <2>1, <3>1 DEF Bounded, Uncounted
    <3> QED
      BY <3>2, <3>3
  <2> QED
    BY <2>2, <2>3
<1>11. CASE visit[v].share # s
  <2>1. Signed(s)' = Signed(s) /\ Resolved(s)' = Resolved(s) /\ given'[s] = given[s]
    BY <1>2, <1>5, <1>6, <1>11
  <2> QED
    BY <1>7, <1>b, <2>1 DEF Counted, Bounded, Uncounted
<1> QED
  BY <1>10, <1>11

\* A download that fails before its URL is signed: the visitor is no longer past the check.
LEMMA CountFails ==
    ASSUME TypeInv, CountInv, NEW v \in Visitor, DownloadFails(v)
    PROVE  CountInv'
<1>a. UNCHANGED <<row, given, made>> /\ visit' = [visit EXCEPT ![v].call = "refused"]
  BY DEF DownloadFails, server
<1>b. left'["uncounted"] = left["uncounted"]
  BY DEF DownloadFails, Spend, TypeInv, OwnerInv, Event
<1>1. SUFFICES ASSUME NEW s \in Share PROVE Counted(s)' /\ Bounded(s)'
  BY <1>a, <1>b, <1>1 DEF CountInv
<1>2. Signed(s)' = Signed(s) \ {v} /\ Resolved(s)' = Resolved(s) \ {v}
  <2>1. PICK c \in {"refused"} : visit' = [visit EXCEPT ![v].call = c]
    BY <1>a
  <2> QED
    BY <2>1, CallSets
<1>3. v \notin Signed(s)
  BY DEF DownloadFails, Signed
<1>4. Signed(s)' = Signed(s)
  BY <1>2, <1>3
<1>5. Counted(s) /\ Bounded(s)
  BY DEF CountInv
<1>6. /\ given[s] \in Nat /\ row[s].count \in Nat /\ left["uncounted"] \in Nat
      /\ row[s].limit # NoLimit => row[s].limit \in Nat
      /\ Budget["uncounted"] \in Nat
  BY CountsTyped
<1>7. /\ IsFiniteSet(Resolved(s)) /\ Cardinality(Signed(s)) \in Nat
      /\ Cardinality(Resolved(s)) \in Nat /\ Cardinality(Visitor) \in Nat
  BY Visitors
<1>8. /\ Cardinality(Resolved(s)') \in Nat
      /\ Cardinality(Resolved(s)') <= Cardinality(Resolved(s))
  <2>1. Resolved(s)' \subseteq Resolved(s)
    BY <1>2
  <2> QED
    BY <1>7, <2>1, FS_Subset, FS_CardinalityType
<1>9. Counted(s)'
  BY <1>4, <1>5, <1>a, <1>b DEF Counted, Uncounted
<1>10. Bounded(s)'
  BY <1>5, <1>6, <1>7, <1>8, <1>a, <1>b DEF Bounded, Uncounted
<1> QED
  BY <1>9, <1>10

LEMMA CountCount ==
    ASSUME TypeInv, CountInv, NEW v \in Visitor, Count(v)
    PROVE  CountInv'
<1>a. visit[v].share \in Share
  BY DEF Count, TypeInv, VisitInv, VisitSet, Placed
<1>b. UNCHANGED <<given, made>> /\ visit' = [visit EXCEPT ![v].call = "given"]
  BY DEF Count
<1>c. left["uncounted"] \in Nat /\ left \in [Event -> Nat] /\ "uncounted" \in Event
  BY DEF TypeInv, OwnerInv, Event
<1>1. \/ /\ UNCHANGED left
         /\ row' = IF row[visit[v].share].there
                   THEN [row EXCEPT ![visit[v].share] = [row[visit[v].share] EXCEPT !.count = @ + 1]]
                   ELSE row
      \/ row' = row /\ left'["uncounted"] = left["uncounted"] - 1
  BY <1>c DEF Count, Spend
<1>2. left'["uncounted"] <= Budget["uncounted"]
  BY <1>1, <1>c, SharesAssumption DEF CountInv, Event
<1>3. SUFFICES ASSUME NEW s \in Share PROVE Counted(s)' /\ Bounded(s)'
  BY <1>b, <1>2, <1>3 DEF CountInv
<1>4. /\ Signed(s)' = Signed(s) \ {v} /\ Resolved(s)' = Resolved(s)
      /\ v \in Signed(s) <=> visit[v].share = s
  <2>1. Signed(s)' = Signed(s) \ {v} /\ Resolved(s)' = Resolved(s) \ {v}
    <3>1. PICK c \in {"given"} : visit' = [visit EXCEPT ![v].call = c]
      BY <1>b
    <3> QED
      BY <3>1, CallSets
  <2>2. v \notin Resolved(s) /\ (v \in Signed(s) <=> visit[v].share = s)
    BY DEF Count, Signed, Resolved
  <2> QED
    BY <2>1, <2>2
<1>5. Counted(s) /\ Bounded(s)
  BY DEF CountInv
<1>6. /\ given[s] \in Nat /\ row[s].count \in Nat
      /\ row[s].limit # NoLimit => row[s].limit \in Nat
      /\ Budget["uncounted"] \in Nat
  BY CountsTyped
<1>7. /\ IsFiniteSet(Signed(s)) /\ IsFiniteSet(Resolved(s))
      /\ Cardinality(Signed(s)) \in Nat /\ Cardinality(Resolved(s)) \in Nat
      /\ Cardinality(Visitor) \in Nat
  BY Visitors
<1>8. row \in [Share -> RowRecord] /\ row[s] \in RowRecord
  BY DEF TypeInv, RowInv
<1>9. row'[s].limit = row[s].limit /\ row'[s].there = row[s].there
  BY <1>1, <1>8, <1>a DEF RowRecord
<1>10. Bounded(s)'
  BY <1>1, <1>4, <1>5, <1>6, <1>7, <1>9, <1>b, <1>c DEF Bounded, Uncounted
<1>11. CASE visit[v].share = s
  <2>1. Cardinality(Signed(s)') = Cardinality(Signed(s)) - 1
    BY <1>4, <1>7, <1>11, FS_RemoveElement
  <2>2. CASE row' = row /\ left'["uncounted"] = left["uncounted"] - 1
    BY <1>5, <1>6, <1>7, <1>10, <1>b, <1>c, <2>1, <2>2 DEF Counted, Uncounted
  <2>3. CASE UNCHANGED left /\ (row[s].there => row'[s].count = row[s].count + 1)
    BY <1>5, <1>6, <1>7, <1>9, <1>10, <1>b, <1>c, <2>1, <2>3 DEF Counted, Uncounted
  <2>4. row[s].there /\ UNCHANGED left => row'[s].count = row[s].count + 1
    BY <1>1, <1>8, <1>11, <1>c DEF RowRecord
  <2> QED
    BY <1>1, <2>2, <2>3, <2>4
<1>12. CASE visit[v].share # s
  <2>1. Signed(s)' = Signed(s) /\ row'[s] = row[s]
    BY <1>1, <1>4, <1>8, <1>12
  <2>2. left'["uncounted"] \in {left["uncounted"], left["uncounted"] - 1}
    BY <1>1
  <2> QED
    BY <1>5, <1>6, <1>7, <1>10, <1>b, <1>c, <2>1, <2>2 DEF Counted, Uncounted
<1> QED
  BY <1>11, <1>12

\* A new link has given nothing, and nobody has opened it.
LEMMA CountInsert ==
    ASSUME TypeInv, CountInv, InsertShare
    PROVE  CountInv'
<1>a. UNCHANGED <<given, visit, left>> /\ made' = made + 1
  BY DEF InsertShare
<1>b. made \in Nat /\ made + 1 \in Share /\ row \in [Share -> RowRecord] /\ visit \in [Visitor -> VisitSet]
  BY SharesAssumption DEF TypeInv, RowInv, VisitInv, CreationInv, InsertShare, Share
<1>1. SUFFICES ASSUME NEW s \in Share PROVE (s > made' => given'[s] = 0) /\ Counted(s)' /\ Bounded(s)'
  BY <1>a, <1>1 DEF CountInv
<1>2. s \in Nat
  BY SharesAssumption DEF Share
<1>3. s > made' => given'[s] = 0
  BY <1>a, <1>b, <1>2 DEF CountInv
<1>4. Signed(s)' = Signed(s) /\ Resolved(s)' = Resolved(s)
  BY <1>a DEF Signed, Resolved
<1>5. Counted(s) /\ Bounded(s)
  BY DEF CountInv
<1>6. CASE s # made + 1
  <2>1. row'[s] = row[s]
    BY <1>b, <1>6 DEF InsertShare
  <2> QED
    BY <1>a, <1>3, <1>4, <1>5, <2>1 DEF Counted, Bounded, Uncounted
<1>7. CASE s = made + 1
  <2>1. given[s] = 0
    BY <1>b, <1>7 DEF CountInv
  <2>2. \A v \in Visitor : visit[v].share # s
    <3> SUFFICES ASSUME NEW v \in Visitor PROVE visit[v].share # s
      OBVIOUS
    <3>1. visit[v].share <= made /\ visit[v].share \in Nat
      BY SharesAssumption DEF TypeInv, VisitInv, VisitSet, VisitRecord, Share
    <3> QED
      BY <1>7, <1>b, <3>1
  <2>3. Cardinality(Signed(s)) = 0 /\ Cardinality(Resolved(s)) = 0
    BY <2>2, FS_EmptySet DEF Signed, Resolved
  <2>4. TypeInv'
    BY NextTypes DEF Next, OwnerNext
  <2>5. row'[s].count \in Nat /\ (row'[s].limit # NoLimit => row'[s].limit \in Nat)
    BY <2>4 DEF TypeInv, RowInv, RowRecord
  <2>6. left["uncounted"] \in Nat /\ Budget["uncounted"] \in Nat /\ left["uncounted"] <= Budget["uncounted"]
    BY CountsTyped DEF CountInv
  <2>7. Cardinality(Visitor) \in Nat /\ Cardinality(Visitor) >= 1
    BY Visitors
  <2>8. Counted(s)'
    BY <1>a, <1>4, <2>1, <2>3, <2>5, <2>6 DEF Counted, Uncounted
  <2>9. Bounded(s)'
    BY <1>a, <1>4, <2>1, <2>3, <2>5, <2>6, <2>7 DEF Bounded, Uncounted
  <2> QED
    BY <1>3, <2>8, <2>9
<1> QED
  BY <1>6, <1>7

LEMMA CountNext ==
    ASSUME TypeInv, CountInv, [Next]_vars
    PROVE  CountInv'
<1>1. CASE InsertShare
  BY <1>1, CountInsert
<1>2. CASE \E v \in Visitor : VisitorNext(v)
  BY <1>2, CountQuiet, CountResolve, CountSign, CountFails, CountCount DEF VisitorNext
<1>3. CASE ~InsertShare /\ ~\E v \in Visitor : VisitorNext(v)
  <2>1. given' = given /\ visit' = visit
    BY <1>3 DEF vars, Next, Expire, RemoveFile, Reprocess, OwnerNext, OpenDialog, OpenAllLinks,
                Close, HandleCreate, CreateShare, Created, CreateFailed, HandleRevoke, DeleteShare,
                Revoked, ListShares, Listed, server
  <2>2. \A s \in Share : Signed(s)' = Signed(s) /\ Resolved(s)' = Resolved(s)
    BY <2>1 DEF Signed, Resolved
  <2> QED
    BY <1>3, <2>1, <2>2, CountKept
<1> QED
  BY <1>1, <1>2, <1>3

\* However the calls of N visitors interleave, a link for n downloads gives at most
\* n + N - 1 URLs, and one more for each count that failed.
THEOREM OvershootBounded == Spec => []Overshoot
<1>1. TypeInv /\ CountInv => Overshoot
  <2> SUFFICES ASSUME TypeInv, CountInv, NEW s \in Share, row[s].limit # NoLimit
               PROVE  given[s] <= row[s].limit + Uncounted + Cardinality(Visitor) - 1
    BY DEF Overshoot
  <2>1. Bounded(s)
    BY DEF CountInv
  <2>2. Cardinality(Resolved(s)) \in Nat /\ Cardinality(Visitor) \in Nat
    BY Visitors
  <2>3. /\ given[s] \in Nat /\ left["uncounted"] \in Nat /\ row[s].limit \in Nat
        /\ Budget["uncounted"] \in Nat
    BY CountsTyped
  <2> QED
    BY <2>1, <2>2, <2>3 DEF Bounded, Uncounted
<1> QED
  BY <1>1, InitTypes, NextTypes, CountInit, CountNext, PTL DEF Spec

-----------------------------------------------------------------------------
(* The lists the owner sees.  An owner who is patient has calls in flight   *)
(* only with a loaded list in view, so that a call that is done invalidates *)
(* it; and a list, or an answer, that is not what is there is followed by   *)
(* such a call, whose answer has yet to come.                               *)

There == {s \in Share : row[s].there}
Busy == creation.st # "idle" \/ \E s \in Share : revoke[s] # "idle"
Outstanding == creation.st = "done" \/ \E s \in Share : revoke[s] = "done"

EmptyAtFirst == \A l \in List : ~cache[l].loaded => cache[l].list = {}
AloneInFlight == patient => \A l \in List : l # view => fetch[l].st = "none"
BusyInView == patient /\ Busy => view # "none" /\ cache[view].loaded

Followed(l) ==
    /\ (fetch[l].st = "answered" /\ fetch[l].list # There) => Outstanding
    /\ (fetch[l].st = "none" /\ cache[l].loaded /\ cache[l].list # There) => Outstanding

Relied == patient /\ view # "none" /\ file # "gone" /\ left["net"] = Budget["net"]

ListInv ==
    /\ left["net"] <= Budget["net"] /\ EmptyAtFirst /\ AloneInFlight /\ BusyInView
    /\ Relied => Followed(view)

LEMMA ListInit == Init => ListInv
<1> SUFFICES ASSUME Init PROVE ListInv
  OBVIOUS
<1>1. left["net"] <= Budget["net"]
  BY SharesAssumption DEF Init, Event
<1> QED
  BY <1>1 DEF Init, ListInv, EmptyAtFirst, AloneInFlight, BusyInView, Busy, Relied, NoCache,
              NoFetch, NoCreation

\* What of the owner's state, of the lists and of the budget a step leaves as it was.
LEMMA NetShrinks ==
    ASSUME TypeInv, [Next]_vars, left["net"] <= Budget["net"]
    PROVE  /\ left'["net"] <= Budget["net"]
           /\ left'["net"] = Budget["net"] => left["net"] = Budget["net"]
<1>1. left'["net"] <= left["net"] /\ left["net"] \in Nat /\ left'["net"] \in Nat /\ Budget["net"] \in Nat
  <2>1. "net" \in Event
    BY DEF Event
  <2> QED
    BY <2>1, BudgetShrinks, NextTypes, SharesAssumption DEF TypeInv, OwnerInv
<1> QED
  BY <1>1

LEMMA ListQuiet ==
    ASSUME TypeInv, ListInv, [Next]_vars, UNCHANGED owner, There' = There, file = "gone" => file' = "gone"
    PROVE  ListInv'
<1>1. /\ left'["net"] <= Budget["net"]
      /\ left'["net"] = Budget["net"] => left["net"] = Budget["net"]
  BY NetShrinks DEF ListInv
<1>2. UNCHANGED <<view, creation, revoke, cache, fetch, patient>>
  BY DEF owner
<1>3. EmptyAtFirst' /\ AloneInFlight' /\ BusyInView'
  BY <1>2 DEF ListInv, EmptyAtFirst, AloneInFlight, BusyInView, Busy
<1>4. Relied' => Followed(view)'
  BY <1>1, <1>2 DEF ListInv, Relied, Followed, Outstanding
<1> QED
  BY <1>1, <1>3, <1>4 DEF ListInv

LEMMA ListOthers ==
    ASSUME TypeInv, ListInv, [Next]_vars, ~OwnerNext
    PROVE  ListInv'
<1>1. UNCHANGED owner
  BY DEF vars, owner, Next, Expire, RemoveFile, Reprocess, VisitorNext, Visit, Focus,
         GetPublicShare, LoadFails, Loaded, Download, Resolve, Sign, Count, DownloadFails, Downloaded
<1>2. CASE RemoveFile
  <2>1. file' = "gone" /\ EmptyAtFirst' /\ AloneInFlight' /\ BusyInView' /\ ~Relied'
    BY <1>1, <1>2 DEF RemoveFile, owner, ListInv, EmptyAtFirst, AloneInFlight, BusyInView, Busy, Relied
  <2> QED
    BY <2>1, NetShrinks DEF ListInv
<1>3. CASE ~RemoveFile
  <2>1. file = "gone" => file' = "gone"
    BY <1>3 DEF vars, Next, Expire, Reprocess, VisitorNext, Visit, Focus, GetPublicShare,
                LoadFails, Loaded, Download, Resolve, Sign, Count, DownloadFails, Downloaded, server
  <2>2. There' = There
    <3>1. row \in [Share -> RowRecord] /\ \A s \in Share : row[s] \in RowRecord
      BY DEF TypeInv, RowInv
    <3>2. CASE row' = row
      BY <3>2 DEF There
    <3>3. CASE \E s \in Share : Expire(s)
      <4>1. \A s \in Share : row'[s].there = row[s].there
        BY <3>1, <3>3 DEF Expire, RowRecord
      <4> QED
        BY <4>1 DEF There
    <3>4. CASE \E v \in Visitor : Count(v)
      <4>1. \A s \in Share : row'[s].there = row[s].there
        BY <3>1, <3>4 DEF Count, RowRecord
      <4> QED
        BY <4>1 DEF There
    <3> QED
      BY <1>3, <3>2, <3>3, <3>4 DEF vars, Next, Reprocess, VisitorNext, Visit, Focus,
         GetPublicShare, LoadFails, Loaded, Download, Resolve, Sign, DownloadFails, Downloaded, server
  <2> QED
    BY <1>1, <2>1, <2>2, ListQuiet
<1> QED
  BY <1>2, <1>3

\* A list that is invalidated while it is in view and loaded is asked for again.
LEMMA InvalidatedView ==
    ASSUME TypeInv, AloneInFlight, patient, view # "none", cache[view].loaded
    PROVE  /\ Invalidated[view].st = "sent"
           /\ \A l \in List : l # view => Invalidated[l].st = "none"
<1>1. view \in List
  BY DEF TypeInv, OwnerInv
<1>2. \A l \in List : l # view => fetch[l].st = "none"
  BY DEF AloneInFlight
<1> QED
  BY <1>1, <1>2 DEF Invalidated, Requested, NoFetch

\* An answer that invalidates, of an owner who was busy.
LEMMA ListRefreshed ==
    ASSUME TypeInv, ListInv, [Next]_vars, Busy, Busy' => Busy,
           UNCHANGED <<view, cache, patient>>, fetch' = Invalidated
    PROVE  ListInv'
<1>1. EmptyAtFirst' /\ BusyInView'
  BY DEF ListInv, EmptyAtFirst, BusyInView
<1>2. CASE patient
  <2>1. view # "none" /\ cache[view].loaded /\ AloneInFlight
    BY <1>2 DEF ListInv, BusyInView
  <2>2. fetch'[view].st = "sent" /\ \A l \in List : l # view => fetch'[l].st = "none"
    BY <1>2, <2>1, InvalidatedView
  <2>3. AloneInFlight' /\ Followed(view)'
    BY <2>2 DEF AloneInFlight, Followed
  <2> QED
    BY <1>1, <2>3, NetShrinks DEF ListInv
<1>3. CASE ~patient
  BY <1>1, <1>3, NetShrinks DEF ListInv, AloneInFlight, Relied
<1> QED
  BY <1>2, <1>3

\* A page is opened that shows list l.
LEMMA ListOpened ==
    ASSUME TypeInv, ListInv, [Next]_vars, NEW l \in List, view = "none", view' = l,
           fetch' = MountedList(l), UNCHANGED <<creation, revoke, cache, patient>>
    PROVE  ListInv'
<1>1. EmptyAtFirst'
  BY DEF ListInv, EmptyAtFirst
<1>2. CASE patient
  <2>1. ~Busy /\ \A k \in List : fetch[k].st = "none"
    BY <1>2 DEF ListInv, BusyInView, AloneInFlight, List
  <2>2. BusyInView'
    BY <2>1 DEF BusyInView, Busy
  <2>3. fetch' = [fetch EXCEPT ![l] = Requested] /\ fetch \in [List -> FetchRecord]
    BY <2>1, FetchFields DEF MountedList, InFlight, TypeInv
  <2>4. fetch'[l].st = "sent" /\ \A k \in List : k # l => fetch'[k].st = "none"
    BY <2>1, <2>3 DEF Requested, NoFetch
  <2>5. AloneInFlight' /\ Followed(view)'
    BY <2>4 DEF AloneInFlight, Followed
  <2> QED
    BY <1>1, <2>2, <2>5, NetShrinks DEF ListInv
<1>3. CASE ~patient
  BY <1>1, <1>3, NetShrinks DEF ListInv, AloneInFlight, BusyInView, Relied
<1> QED
  BY <1>2, <1>3

\* The owner's calls while the lists stay as they are: none that was done is forgotten.
LEMMA ListCalls ==
    ASSUME TypeInv, ListInv, [Next]_vars, UNCHANGED <<file, view, cache, fetch, patient>>,
           patient /\ Busy' => view # "none" /\ cache[view].loaded,
           Relied' /\ (Outstanding \/ There' # There) => Outstanding'
    PROVE  ListInv'
<1>1. EmptyAtFirst' /\ AloneInFlight' /\ BusyInView'
  BY DEF ListInv, EmptyAtFirst, AloneInFlight, BusyInView
<1>2. Relied' => Relied
  BY NetShrinks DEF ListInv, Relied
<1>3. Relied' => Followed(view)'
  BY <1>2 DEF ListInv, Followed
<1> QED
  BY <1>1, <1>3, NetShrinks DEF ListInv

LEMMA ListOwner ==
    ASSUME TypeInv, ListInv, OwnerNext
    PROVE  ListInv'
<1>a. [Next]_vars
  BY DEF Next
<1>b. patient /\ Busy => view # "none" /\ cache[view].loaded
  BY DEF ListInv, BusyInView
<1>c. revoke \in [Share -> {"idle", "sent", "done", "missing"}] /\ view \in List \cup {"none"}
  BY DEF TypeInv, OwnerInv
<1>d. row' = row => There' = There
  BY DEF There
<1>1. CASE OpenDialog
  <2>1. "file" \in List
    BY DEF List
  <2> QED
    BY <1>1, <1>a, <2>1, ListOpened DEF OpenDialog
<1>2. CASE OpenAllLinks
  <2>1. "all" \in List
    BY DEF List
  <2> QED
    BY <1>2, <1>a, <2>1, ListOpened DEF OpenAllLinks
<1>3. CASE Close
  <2>1. UNCHANGED <<cache, fetch, patient, creation, revoke>> /\ view' = "none" /\ view \in List
    BY <1>3, <1>c DEF Close
  <2>2. patient => ~Busy /\ ~InFlight(view)
    BY <1>3 DEF Close, Busy
  <2>3. EmptyAtFirst' /\ BusyInView' /\ ~Relied'
    BY <2>1, <2>2 DEF ListInv, EmptyAtFirst, BusyInView, Busy, Relied
  <2>4. AloneInFlight'
    BY <2>1, <2>2 DEF ListInv, AloneInFlight, InFlight
  <2> QED
    BY <1>a, <2>3, <2>4, NetShrinks DEF ListInv
<1>4. CASE HandleCreate
  <2>1. patient => view # "none" /\ cache[view].loaded
    BY <1>4 DEF HandleCreate
  <2>2. Outstanding \/ There' # There => Outstanding'
    BY <1>4, <1>d DEF HandleCreate, Outstanding, server
  <2> QED
    BY <1>4, <1>a, <2>1, <2>2, ListCalls DEF HandleCreate, server
<1>5. CASE CreateShare
  <2>1. Busy
    BY <1>5 DEF CreateShare, Busy
  <2>2. Outstanding \/ There' # There => Outstanding'
    BY <1>5, <1>d DEF CreateShare, Outstanding, server
  <2> QED
    BY <1>5, <1>a, <1>b, <2>1, <2>2, ListCalls DEF CreateShare, server
<1>6. CASE InsertShare
  <2>1. Busy
    BY <1>6 DEF InsertShare, Busy
  <2>2. creation' = [creation EXCEPT !.st = "done"]
        /\ creation \in [st: {"idle", "sent", "checked", "done", "refused"}, form: Form \cup {NoForm}]
    BY <1>6 DEF InsertShare, TypeInv, CreationInv
  <2>3. Outstanding'
    BY <2>2 DEF Outstanding
  <2> QED
    BY <1>6, <1>a, <1>b, <2>1, <2>3, ListCalls DEF InsertShare
<1>7. CASE Created
  <2>1. Busy
    BY <1>7 DEF Created, Busy
  <2> QED
    BY <1>7, <1>a, <2>1, ListRefreshed DEF Created
<1>8. CASE CreateFailed
  <2>1. Busy
    BY <1>8 DEF CreateFailed, Busy
  <2>2. There' = There
    BY <1>8, <1>d DEF CreateFailed, server
  <2>3. CASE UNCHANGED left /\ creation.st = "refused"
    <3>1. Outstanding => Outstanding'
      BY <1>8, <2>3 DEF CreateFailed, Outstanding
    <3> QED
      BY <1>8, <1>a, <1>b, <2>1, <2>2, <3>1, ListCalls DEF CreateFailed, server
  <2>4. CASE Spend("net")
    <3>1. left["net"] \in Nat /\ Budget["net"] \in Nat /\ left["net"] <= Budget["net"]
          /\ left'["net"] = left["net"] - 1
      BY <2>4, SharesAssumption DEF Spend, ListInv, TypeInv, OwnerInv, Event
    <3>2. ~Relied'
      BY <3>1 DEF Relied
    <3> QED
      BY <1>8, <1>a, <1>b, <2>1, <3>2, ListCalls DEF CreateFailed, server
  <2> QED
    BY <1>8, <2>3, <2>4 DEF CreateFailed
<1>9. ASSUME NEW s \in Share, HandleRevoke(s)
      PROVE  ListInv'
  <2>1. view # "none" /\ cache[view].loaded
    BY <1>9, <1>c DEF HandleRevoke, ListInv, EmptyAtFirst
  <2>2. Outstanding \/ There' # There => Outstanding'
    BY <1>9, <1>c, <1>d DEF HandleRevoke, Outstanding, server
  <2> QED
    BY <1>9, <1>a, <2>1, <2>2, ListCalls DEF HandleRevoke, server
<1>10. ASSUME NEW s \in Share, DeleteShare(s)
       PROVE  ListInv'
  <2>1. Busy
    BY <1>10 DEF DeleteShare, Busy
  <2>2. Outstanding => Outstanding'
    BY <1>10, <1>c DEF DeleteShare, Outstanding
  <2>3. There' # There => Outstanding'
    <3>1. CASE row[s].there
      BY <1>10, <1>c, <3>1 DEF DeleteShare, Outstanding
    <3>2. CASE ~row[s].there
      <4>1. \A t \in Share : row'[t].there <=> row[t].there
        <5>1. row \in [Share -> RowRecord] /\ \A t \in Share : row[t] \in RowRecord
          BY DEF TypeInv, RowInv
        <5> QED
          BY <1>10, <3>2, <5>1 DEF DeleteShare, RowRecord
      <4> QED
        BY <4>1 DEF There
    <3> QED
      BY <3>1, <3>2
  <2> QED
    BY <1>10, <1>a, <1>b, <2>1, <2>2, <2>3, ListCalls DEF DeleteShare
<1>11. ASSUME NEW s \in Share, Revoked(s)
       PROVE  ListInv'
  <2>1. Busy
    BY <1>11 DEF Revoked, Busy
  <2>2. CASE revoke[s] = "done"
    BY <1>11, <1>a, <2>1, <2>2, ListRefreshed DEF Revoked
  <2>3. CASE revoke[s] = "missing"
    <3>1. Outstanding \/ There' # There => Outstanding'
      BY <1>11, <1>c, <1>d, <2>3 DEF Revoked, Outstanding, server
    <3>2. fetch' = fetch
      BY <1>11, <2>3 DEF Revoked
    <3> QED
      BY <1>11, <1>a, <1>b, <2>1, <3>1, <3>2, ListCalls DEF Revoked, server
  <2> QED
    BY <1>11, <2>2, <2>3 DEF Revoked
<1>12. ASSUME NEW l \in List, ListShares(l)
       PROVE  ListInv'
  <2>1. /\ UNCHANGED <<file, view, cache, patient, creation, revoke, left>> /\ There' = There
    BY <1>12, <1>d DEF ListShares, server
  <2>2. fetch \in [List -> FetchRecord] /\ fetch[l].st = "sent"
    BY <1>12, FetchFields DEF ListShares, TypeInv
  <2>3. fetch'[l] = IF l = "file" /\ file = "gone" THEN NoFetch ELSE [st |-> "answered", list |-> There]
    BY <1>12, <2>2 DEF ListShares, There
  <2>4. \A k \in List : k # l => fetch'[k] = fetch[k]
    BY <1>12, <2>2 DEF ListShares
  <2>5. EmptyAtFirst' /\ BusyInView'
    BY <2>1 DEF ListInv, EmptyAtFirst, BusyInView, Busy
  <2>6. patient => l = view
    BY <2>2 DEF ListInv, AloneInFlight
  <2>7. AloneInFlight'
    BY <2>1, <2>4, <2>6 DEF ListInv, AloneInFlight
  <2>8. Relied' => Followed(view)'
    <3> SUFFICES ASSUME Relied' PROVE Followed(view)'
      OBVIOUS
    <3>1. fetch'[view'].st = "answered" /\ fetch'[view'].list = There'
      BY <2>1, <2>3, <2>6 DEF Relied
    <3> QED
      BY <3>1 DEF Followed
  <2> QED
    BY <1>a, <2>5, <2>7, <2>8, NetShrinks DEF ListInv
<1>13. ASSUME NEW l \in List, Listed(l)
       PROVE  ListInv'
  <2>1. /\ UNCHANGED <<file, view, patient, creation, revoke, left>> /\ There' = There
    BY <1>13, <1>d DEF Listed, server
  <2>2. fetch \in [List -> FetchRecord] /\ fetch[l].st = "answered"
        /\ cache \in [List -> [loaded: BOOLEAN, list: SUBSET Share]]
    BY <1>13, FetchFields DEF Listed, TypeInv, OwnerInv
  <2>3. /\ fetch'[l].st = "none" /\ cache'[l] = [loaded |-> TRUE, list |-> fetch[l].list]
        /\ \A k \in List : k # l => fetch'[k] = fetch[k] /\ cache'[k] = cache[k]
    BY <1>13, <2>2 DEF Listed, NoFetch
  <2>4. cache'[l].loaded /\ cache'[l].list = fetch[l].list
    BY <2>3
  <2>5. EmptyAtFirst'
    BY <2>3, <2>4 DEF ListInv, EmptyAtFirst
  <2>6. patient => l = view
    BY <2>2 DEF ListInv, AloneInFlight
  <2>7. AloneInFlight' /\ BusyInView'
    BY <2>1, <2>3, <2>4, <2>6 DEF ListInv, AloneInFlight, BusyInView, Busy
  <2>8. Relied' => Followed(view)'
    <3> SUFFICES ASSUME Relied' PROVE Followed(view)'
      OBVIOUS
    <3>1. l = view /\ Followed(l)
      BY <2>1, <2>6 DEF Relied, ListInv
    <3>2. cache'[l].list # There' => Outstanding'
      BY <2>1, <2>2, <2>4, <3>1 DEF Followed, Outstanding
    <3> QED
      BY <2>1, <2>3, <3>1, <3>2 DEF Followed
  <2> QED
    BY <1>a, <2>5, <2>7, <2>8, NetShrinks DEF ListInv
<1> QED
  BY <1>1, <1>2, <1>3, <1>4, <1>5, <1>6, <1>7, <1>8, <1>9, <1>10, <1>11, <1>12, <1>13 DEF OwnerNext

\* The owner who waits sees the links there are once no call is in flight.
THEOREM ListsAreCurrent == Spec => []ListCurrent
<1>1. TypeInv /\ ListInv => ListCurrent
  BY DEF TypeInv, OwnerInv, ListInv, Relied, Followed, Outstanding, ListCurrent, There, InFlight
<1>2. TypeInv /\ ListInv /\ [Next]_vars => ListInv'
  BY ListOwner, ListOthers
<1> QED
  BY <1>1, <1>2, InitTypes, NextTypes, ListInit, PTL DEF Spec
=============================================================================
