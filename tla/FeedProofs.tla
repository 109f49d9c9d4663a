----------------------------- MODULE FeedProofs -----------------------------
(***************************************************************************)
(* Theorems about Feed for any number of sockets, marks and notifications. *)
(***************************************************************************)
EXTENDS Feed, TLAPS, SequenceTheorems

-----------------------------------------------------------------------------
(* Lists of notifications with numbers up to n.                            *)

EntryTo(n) == [id: 1..n, read: BOOLEAN]
ListTo(n) == Seq(EntryTo(n))

LEMMA ListsGrow ==
    ASSUME NEW n \in Nat, NEW list \in ListTo(n)
    PROVE  list \in ListTo(n + 1)
<1>1. EntryTo(n) \subseteq EntryTo(n + 1)
  BY DEF EntryTo
<1> QED
  BY <1>1, SeqMonotonic DEF ListTo

LEMMA ListFields ==
    ASSUME NEW n \in Nat, NEW list \in ListTo(n)
    PROVE  /\ Len(list) \in Nat /\ DOMAIN list = 1..Len(list)
           /\ \A k \in DOMAIN list : list[k].id \in 1..n /\ list[k].read \in BOOLEAN
<1>1. Len(list) \in Nat /\ DOMAIN list = 1..Len(list)
  BY LenProperties DEF ListTo
<1>2. \A k \in DOMAIN list : list[k] \in EntryTo(n)
  BY <1>1, ElementOfSeq DEF ListTo
<1> QED
  BY <1>1, <1>2 DEF EntryTo

\* listNotifications: the newest, in order.
LEMMA ListedFields ==
    ASSUME stored \in Nat
    PROVE  /\ Listed \in ListTo(stored)
           /\ \A k \in DOMAIN Listed : /\ k \in Nat /\ Listed[k].id = stored + 1 - k
                                       /\ Listed[k].read => Listed[k].id \in read
<1> DEFINE e(k) == [id |-> stored + 1 - k, read |-> (stored + 1 - k) \in read]
           n == Min2(Limit, stored)
<1>1. n \in Nat /\ n <= stored
  BY FeedAssumption DEF Min2
<1>2. \A k \in 1..n : e(k) \in EntryTo(stored)
  BY <1>1 DEF EntryTo
<1>3. Listed = [k \in 1..n |-> e(k)]
  BY DEF Listed
<1>4. Listed \in [1..n -> EntryTo(stored)]
  BY <1>2, <1>3
<1>5. Listed \in ListTo(stored)
  BY <1>1, <1>4, SeqDef DEF ListTo
<1>6. DOMAIN Listed = 1..n
  BY <1>3
<1>7. ASSUME NEW k \in DOMAIN Listed
      PROVE  /\ k \in Nat /\ Listed[k].id = stored + 1 - k
             /\ Listed[k].read => Listed[k].id \in read
  <2>1. k \in 1..n
    BY <1>6, <1>7
  <2>2. Listed[k] = e(k)
    BY <1>3, <2>1
  <2>3. Listed[k].id = stored + 1 - k
    BY <2>2
  <2>4. e(k).read = ((stored + 1 - k) \in read)
    BY Zenon
  <2>5. Listed[k].read => (stored + 1 - k) \in read
    <3> HIDE DEF e
    <3> QED
      BY <2>2, <2>4
  <2> QED
    BY <1>1, <2>1, <2>3, <2>5
<1> QED
  BY <1>5, <1>7

\* A push to the front.
LEMMA PushedFields ==
    ASSUME NEW n \in Nat, NEW list \in ListTo(n), NEW i \in 1..n
    PROVE  /\ PushedTo(list, i) \in ListTo(n)
           /\ DOMAIN PushedTo(list, i) = 1..(Len(list) + 1)
           /\ PushedTo(list, i)[1] = NewEntry(i)
           /\ \A k \in 1..Len(list) : PushedTo(list, i)[k + 1] = list[k]
<1>1. NewEntry(i) \in EntryTo(n)
  BY DEF NewEntry, EntryTo
<1>2. <<NewEntry(i)>> \in Seq(EntryTo(n)) /\ Len(<<NewEntry(i)>>) = 1
  BY <1>1
<1>3. Len(list) \in Nat /\ list \in Seq(EntryTo(n))
  BY LenProperties DEF ListTo
<1>4. /\ PushedTo(list, i) \in Seq(EntryTo(n))
      /\ Len(PushedTo(list, i)) = 1 + Len(list)
      /\ \A k \in 1..(1 + Len(list)) :
            PushedTo(list, i)[k] = IF k <= 1 THEN <<NewEntry(i)>>[k] ELSE list[k - 1]
  BY <1>2, <1>3, ConcatProperties DEF PushedTo
<1>5. DOMAIN PushedTo(list, i) = 1..(Len(list) + 1)
  BY <1>3, <1>4, LenProperties
<1>6. PushedTo(list, i)[1] = NewEntry(i)
  BY <1>3, <1>4
<1>7. \A k \in 1..Len(list) : PushedTo(list, i)[k + 1] = list[k]
  BY <1>3, <1>4
<1> QED
  BY <1>4, <1>5, <1>6, <1>7 DEF ListTo

\* An entry marked read.
LEMMA MarkedFields ==
    ASSUME NEW n \in Nat, NEW list \in ListTo(n), NEW i
    PROVE  /\ MarkedIn(list, i) \in ListTo(n) /\ DOMAIN MarkedIn(list, i) = DOMAIN list
           /\ \A k \in DOMAIN list :
                 /\ MarkedIn(list, i)[k].id = list[k].id
                 /\ MarkedIn(list, i)[k].read => list[k].read \/ list[k].id = i
<1>1. Len(list) \in Nat /\ DOMAIN list = 1..Len(list)
  BY ListFields
<1>2. \A k \in DOMAIN list : list[k] \in EntryTo(n)
  BY <1>1, ElementOfSeq DEF ListTo
<1>3. DOMAIN MarkedIn(list, i) = DOMAIN list
  BY DEF MarkedIn
<1>4. ASSUME NEW k \in DOMAIN list
      PROVE  /\ MarkedIn(list, i)[k] \in EntryTo(n) /\ MarkedIn(list, i)[k].id = list[k].id
             /\ MarkedIn(list, i)[k].read => list[k].read \/ list[k].id = i
  <2>1. MarkedIn(list, i)[k] = IF list[k].id = i THEN [list[k] EXCEPT !.read = TRUE] ELSE list[k]
    BY <1>4 DEF MarkedIn
  <2>2. list[k] \in EntryTo(n)
    BY <1>2, <1>4
  <2> QED
    BY <2>1, <2>2 DEF EntryTo
<1>5. MarkedIn(list, i) \in [1..Len(list) -> EntryTo(n)]
  BY <1>1, <1>4 DEF MarkedIn
<1>6. MarkedIn(list, i) \in ListTo(n)
  BY <1>1, <1>5, SeqDef DEF ListTo
<1> QED
  BY <1>3, <1>4, <1>6

-----------------------------------------------------------------------------
(* Types.  A notification in a list, on its way or being marked is stored, *)
(* a list that is not loaded is empty, a mark was made in a loaded one, and *)
(* only the mounted page's socket is connected or will be.                 *)

SocketRecord == [alive: BOOLEAN, tok: Nat, timer: BOOLEAN, ws: {"none", "connecting", "open", "closing"}]
ListRecord(n) == [loaded: BOOLEAN, list: ListTo(n)]

\* A socket that neither is connected nor will be.
Quiet(o) == ~o.alive /\ ~o.timer /\ o.ws \notin {"connecting", "open"}

SocketsInv ==
    /\ socket \in [Socket -> SocketRecord] /\ current \in Socket \cup {None}
    /\ token \in [newest: Nat, session: Nat] /\ expired \in Nat
    /\ \A s \in Socket : s # current => Quiet(socket[s])

RowsInv ==
    /\ stored \in 0..MaxStored /\ read \subseteq 1..stored
    /\ posted \subseteq 1..stored /\ bus \in Seq(1..stored)
    /\ calm \in Disciplines /\ left \in [Event -> Nat]

ListsInv ==
    /\ cache \in ListRecord(stored) /\ (~cache.loaded => cache.list = <<>>)
    /\ fetch \in [st: {"none", "sent", "answered"}, list: ListTo(stored)]
    /\ mark \in [Mark -> [pc: {"idle", "sent", "applied"}, id: 0..stored, prev: ListRecord(stored)]]
    /\ \A m \in Mark : mark[m].pc # "idle" => mark[m].id \in 1..stored /\ mark[m].prev.loaded

TypeInv == SocketsInv /\ RowsInv /\ ListsInv

LEMMA TypesOk == TypeInv => TypeOK
<1> SUFFICES ASSUME TypeInv PROVE TypeOK
  OBVIOUS
<1>1. stored \in Nat /\ 1..stored \subseteq Id /\ stored \in 0..MaxStored
  BY FeedAssumption DEF TypeInv, RowsInv, Id
<1>2. EntryTo(stored) \subseteq Entry
  BY <1>1 DEF EntryTo, Entry
<1>3. \A list \in ListTo(stored) : list \in Seq(Entry)
  BY <1>2, SeqMonotonic DEF ListTo
<1>4. 0..stored \subseteq Id \cup {0}
  BY <1>1
<1>5. /\ cache \in [loaded: BOOLEAN, list: Seq(Entry)]
      /\ fetch \in [st: {"none", "sent", "answered"}, list: Seq(Entry)]
  BY <1>3 DEF TypeInv, ListsInv, ListRecord
<1>6. mark \in [Mark -> [pc: {"idle", "sent", "applied"}, id: Id \cup {0},
                         prev: [loaded: BOOLEAN, list: Seq(Entry)]]]
  BY <1>3, <1>4 DEF TypeInv, ListsInv, ListRecord
<1> QED
  BY <1>5, <1>6 DEF TypeInv, SocketsInv, RowsInv, TypeOK, SocketRecord

LEMMA EmptyList == \A n : <<>> \in ListTo(n)
BY DEF ListTo

LEMMA InitTypes == Init => TypeInv
<1> SUFFICES ASSUME Init PROVE TypeInv
  OBVIOUS
<1>1. SocketsInv
  BY DEF Init, SocketsInv, SocketRecord, Unused, Quiet
<1>2. RowsInv
  BY FeedAssumption DEF Init, RowsInv
<1>3. ListsInv
  BY EmptyList DEF Init, ListsInv, ListRecord, NoCache, NoFetch, NoMark
<1> QED
  BY <1>1, <1>2, <1>3 DEF TypeInv

LEMMA Spending ==
    ASSUME RowsInv, NEW e \in Event, Spend(e)
    PROVE  left' \in [Event -> Nat]
BY DEF RowsInv, Spend

LEMMA Events ==
    "drop" \in Event /\ "refresh" \in Event /\ "expire" \in Event /\ "net" \in Event /\ "leave" \in Event
BY DEF Event

\* What becomes of a socket.
LEMMA SocketFields ==
    ASSUME NEW o \in SocketRecord, NEW tok \in Nat
    PROVE  /\ AfterClose(o) \in SocketRecord /\ (Quiet(o) => Quiet(AfterClose(o)))
           /\ Opened(o) \in SocketRecord /\ Connected(tok) \in SocketRecord
           /\ Closed(o) \in SocketRecord /\ Quiet(Closed(o))
           /\ Reconnecting(o, tok) \in SocketRecord
           /\ [o EXCEPT !.ws = "open"] \in SocketRecord
<1>1. AfterClose(o) \in SocketRecord /\ (Quiet(o) => Quiet(AfterClose(o)))
  BY DEF AfterClose, SocketRecord, Quiet
<1>2. Opened(o) \in SocketRecord /\ [o EXCEPT !.ws = "open"] \in SocketRecord
  BY DEF Opened, SocketRecord
<1>3. Connected(tok) \in SocketRecord
  BY DEF Connected, Opened, Unused, SocketRecord
<1>4. Closed(o) \in SocketRecord /\ Quiet(Closed(o))
  BY DEF Closed, Shut, SocketRecord, Quiet
<1>5. Reconnecting(o, tok) \in SocketRecord
  BY DEF Reconnecting, Shut, SocketRecord
<1> QED
  BY <1>1, <1>2, <1>3, <1>4, <1>5

LEMMA SocketsNext ==
    ASSUME SocketsInv, Next
    PROVE  SocketsInv'
<1>0. /\ \A s \in Socket : socket[s] \in SocketRecord
      /\ token.newest \in Nat /\ token.session \in Nat /\ token.newest + 1 \in Nat
      /\ None \notin Socket
  BY FeedAssumption DEF SocketsInv
<1>1. ASSUME NEW s \in Socket, Accept(s) PROVE SocketsInv'
  <2>1. s = current
    BY <1>1 DEF Accept, SocketsInv, Quiet
  <2>2. [socket[s] EXCEPT !.ws = "open"] \in SocketRecord
    BY <1>0, SocketFields
  <2> QED
    BY <1>1, <2>1, <2>2 DEF Accept, SocketsInv
<1>2. ASSUME NEW s \in Socket, socket' = [socket EXCEPT ![s] = AfterClose(@)],
             UNCHANGED <<current, token, expired>>
      PROVE  SocketsInv'
  <2>1. AfterClose(socket[s]) \in SocketRecord /\ (Quiet(socket[s]) => Quiet(AfterClose(socket[s])))
    BY <1>0, SocketFields
  <2> QED
    BY <1>2, <2>1 DEF SocketsInv
<1>3. ASSUME NEW s \in Socket, OnClose(s) \/ ConnectionLost(s) PROVE SocketsInv'
  BY <1>2, <1>3 DEF OnClose, ConnectionLost
<1>4. ASSUME NEW s \in Socket, ReconnectTimer(s) PROVE SocketsInv'
  <2>1. s = current
    BY <1>4 DEF ReconnectTimer, SocketsInv, Quiet
  <2>2. Opened(socket[s]) \in SocketRecord
    BY <1>0, SocketFields
  <2> QED
    BY <1>4, <2>1, <2>2 DEF ReconnectTimer, SocketsInv
<1>5. CASE Mount
  <2>1. PICK s \in Socket : current' = s /\ socket' = [socket EXCEPT ![s] = Connected(token.session)]
    BY <1>5 DEF Mount
  <2>2. Connected(token.session) \in SocketRecord
    BY <1>0, SocketFields
  <2> QED
    BY <1>0, <1>5, <2>1, <2>2 DEF Mount, SocketsInv
<1>6. CleanedUp \in [Socket -> SocketRecord] /\ \A s \in Socket : Quiet(CleanedUp[s])
  <2>1. CASE current = None
    BY <1>0, <2>1 DEF CleanedUp, SocketsInv
  <2>2. CASE current # None
    <3>1. current \in Socket
      BY <2>2 DEF SocketsInv
    <3>2. Closed(socket[current]) \in SocketRecord /\ Quiet(Closed(socket[current]))
      BY <1>0, <3>1, SocketFields
    <3> QED
      BY <2>2, <3>1, <3>2 DEF CleanedUp, SocketsInv
  <2> QED
    BY <2>1, <2>2
<1>7. CASE Unmount
  BY <1>6, <1>7 DEF Unmount, SocketsInv
<1>8. CASE TokenRefreshed
  <2>1. token' \in [newest: Nat, session: Nat]
    BY <1>0, <1>8 DEF TokenRefreshed, SocketsInv
  <2>2. CASE current = None
    BY <1>8, <2>1, <2>2 DEF TokenRefreshed, SocketsInv
  <2>3. CASE current # None
    <3>1. current \in Socket
      BY <2>3 DEF SocketsInv
    <3>2. Reconnecting(socket[current], token.newest + 1) \in SocketRecord
      BY <1>0, <3>1, SocketFields
    <3> QED
      BY <1>8, <2>1, <2>3, <3>1, <3>2 DEF TokenRefreshed, SocketsInv
  <2> QED
    BY <2>2, <2>3
<1>9. CASE SessionUpdated
  <2>1. token' \in [newest: Nat, session: Nat]
    BY <1>0, <1>9 DEF SessionUpdated, SocketsInv
  <2>2. CASE UNCHANGED <<socket, current>>
    BY <1>9, <2>1, <2>2 DEF SessionUpdated, SocketsInv
  <2>3. ASSUME NEW s \in Socket, current' = s, socket' = [CleanedUp EXCEPT ![s] = Connected(token.newest)]
        PROVE  SocketsInv'
    <3>1. Connected(token.newest) \in SocketRecord
      BY <1>0, SocketFields
    <3> QED
      BY <1>6, <1>9, <2>1, <2>3, <3>1 DEF SessionUpdated, SocketsInv
  <2> QED
    BY <1>9, <2>2, <2>3 DEF SessionUpdated
<1>10. CASE TokenExpires
  BY <1>0, <1>10 DEF TokenExpires, SocketsInv
<1>11. ASSUME UNCHANGED <<socket, current, token, expired>> PROVE SocketsInv'
  BY <1>11 DEF SocketsInv
<1>12. CASE InternalNotify \/ PublishStep \/ DeliverLocal \/ Refetch \/ FetchStep
  BY <1>11, <1>12 DEF InternalNotify, PublishStep, Publish, DeliverLocal, Refetch, FetchStep, ListNotifications, FetchDone
<1>13. ASSUME NEW m \in Mark, MarkRead(m) \/ MarkStep(m) \/ MarkFails(m) PROVE SocketsInv'
  BY <1>11, <1>13 DEF MarkRead, MarkStep, MarkServed, MarkAnswered, MarkFails
<1> QED
  BY <1>1, <1>3, <1>4, <1>5, <1>7, <1>8, <1>9, <1>10, <1>12, <1>13 DEF Next, SocketStep

LEMMA RowsNext ==
    ASSUME TypeInv, Next
    PROVE  RowsInv'
<1>0. RowsInv /\ stored \in Nat
  BY FeedAssumption DEF TypeInv, RowsInv
<1>1. ASSUME left' \in [Event -> Nat], UNCHANGED <<stored, read, posted, bus, calm>> PROVE RowsInv'
  BY <1>0, <1>1 DEF RowsInv
<1>2. ASSUME UNCHANGED <<stored, read, posted, bus, calm, left>> PROVE RowsInv'
  BY <1>0, <1>2 DEF RowsInv
<1>3. CASE InternalNotify
  <2>1. stored' \in 0..MaxStored /\ read' \subseteq 1..stored' /\ posted' \subseteq 1..stored'
    BY <1>0, <1>3, FeedAssumption DEF InternalNotify, RowsInv
  <2>2. 1..stored \subseteq 1..(stored + 1) /\ bus \in Seq(1..stored)
    BY <1>0 DEF RowsInv
  <2>3. bus \in Seq(1..(stored + 1))
    BY <2>2, SeqMonotonic
  <2> QED
    BY <1>0, <1>3, <2>1, <2>3 DEF InternalNotify, RowsInv
<1>12. ASSUME NEW n \in Id, Publish(n) PROVE RowsInv'
  <2>1. left' \in [Event -> Nat]
    BY <1>0, <1>12, Spending, Events DEF Publish, RowsInv
  <2>2. n \in 1..stored /\ bus \in Seq(1..stored)
    BY <1>0, <1>12 DEF Publish, RowsInv
  <2>3. Append(bus, n) \in Seq(1..stored)
    BY <2>2, AppendProperties
  <2> QED
    BY <1>0, <1>12, <2>1, <2>3 DEF Publish, RowsInv
<1>4. CASE DeliverLocal
  <2>1. bus' \in Seq(1..stored)
    BY <1>0, <1>4, HeadTailProperties DEF DeliverLocal, RowsInv
  <2> QED
    BY <1>0, <1>4, <2>1 DEF DeliverLocal, RowsInv
<1>5. ASSUME NEW s \in Socket, SocketStep(s) \/ ConnectionLost(s) PROVE RowsInv'
  BY <1>0, <1>1, <1>2, <1>5, Spending, Events
    DEF SocketStep, Accept, OnClose, ReconnectTimer, ConnectionLost
<1>6. CASE Mount \/ SessionUpdated \/ Refetch \/ FetchStep
  BY <1>2, <1>6 DEF Mount, SessionUpdated, Refetch, FetchStep, ListNotifications, FetchDone
<1>7. CASE Unmount \/ TokenRefreshed \/ TokenExpires
  BY <1>0, <1>1, <1>7, Spending, Events DEF Unmount, TokenRefreshed, TokenExpires
<1>8. ASSUME NEW m \in Mark, MarkServed(m) PROVE RowsInv'
  <2>1. mark[m].id \in 1..stored
    BY <1>8 DEF MarkServed, TypeInv, ListsInv
  <2> QED
    BY <1>0, <1>8, <2>1 DEF MarkServed, RowsInv
<1>9. ASSUME NEW m \in Mark, MarkRead(m) \/ MarkAnswered(m) PROVE RowsInv'
  BY <1>2, <1>9 DEF MarkRead, MarkAnswered
<1>10. ASSUME NEW m \in Mark, MarkFails(m) PROVE RowsInv'
  BY <1>0, <1>1, <1>10, Spending, Events DEF MarkFails
<1> QED
  BY <1>3, <1>4, <1>5, <1>6, <1>7, <1>8, <1>9, <1>10, <1>12 DEF Next, MarkStep, PublishStep

LEMMA ListsNext ==
    ASSUME TypeInv, Next
    PROVE  ListsInv'
<1>00. RowsInv /\ ListsInv /\ stored \in Nat
  BY FeedAssumption DEF TypeInv, RowsInv
<1>0. /\ RowsInv /\ ListsInv /\ stored \in Nat
      /\ cache.loaded \in BOOLEAN /\ cache.list \in ListTo(stored) /\ fetch.list \in ListTo(stored)
      /\ NoFetch \in [st: {"none", "sent", "answered"}, list: ListTo(stored)]
      /\ [NoFetch EXCEPT !.st = "sent"] \in [st: {"none", "sent", "answered"}, list: ListTo(stored)]
      /\ NoMark \in [pc: {"idle", "sent", "applied"}, id: 0..stored, prev: ListRecord(stored)]
  BY <1>00, EmptyList DEF ListsInv, ListRecord, NoFetch, NoMark, NoCache
<1>1. ASSUME UNCHANGED <<stored, cache, fetch, mark>> PROVE ListsInv'
  BY <1>0, <1>1 DEF ListsInv, ListRecord
<1>2. CASE InternalNotify
  <2>1. \A list \in ListTo(stored) : list \in ListTo(stored + 1)
    BY <1>0, ListsGrow
  <2>2. ListRecord(stored) \subseteq ListRecord(stored + 1)
    BY <2>1 DEF ListRecord
  <2>3. 0..stored \subseteq 0..(stored + 1) /\ 1..stored \subseteq 1..(stored + 1)
    BY <1>0
  <2>4. fetch \in [st: {"none", "sent", "answered"}, list: ListTo(stored + 1)]
    BY <1>0, <2>1 DEF ListsInv
  <2>5. mark \in [Mark -> [pc: {"idle", "sent", "applied"}, id: 0..(stored + 1), prev: ListRecord(stored + 1)]]
    BY <1>0, <2>2, <2>3 DEF ListsInv
  <2>6. cache \in ListRecord(stored + 1)
    BY <1>0, <2>2 DEF ListsInv
  <2> QED
    BY <1>0, <1>2, <2>3, <2>4, <2>5, <2>6 DEF InternalNotify, ListsInv
<1>3. CASE DeliverLocal
  <2>1. Head(bus) \in 1..stored
    BY <1>0, <1>3, HeadTailProperties DEF DeliverLocal, RowsInv
  <2>2. PushedTo(cache.list, Head(bus)) \in ListTo(stored)
    BY <1>0, <2>1, PushedFields
  <2>3. cache' \in ListRecord(stored) /\ (~cache'.loaded => cache'.list = <<>>)
    BY <1>0, <1>3, <2>2 DEF DeliverLocal, ListsInv, ListRecord
  <2> QED
    BY <1>0, <1>3, <2>3 DEF DeliverLocal, ListsInv, ListRecord
<1>4. CASE ListNotifications
  <2>1. Listed \in ListTo(stored)
    BY <1>0, ListedFields
  <2> QED
    BY <1>0, <1>4, <2>1 DEF ListNotifications, ListsInv, ListRecord
<1>5. CASE FetchDone
  BY <1>0, <1>5 DEF FetchDone, Fetched, ListsInv, ListRecord
<1>6. CASE Mount \/ Refetch
  BY <1>0, <1>6 DEF Mount, Refetch, ListsInv, ListRecord
<1>7. ASSUME NEW s \in Socket, SocketStep(s) \/ ConnectionLost(s) PROVE ListsInv'
  BY <1>1, <1>7 DEF SocketStep, Accept, OnClose, ReconnectTimer, ConnectionLost
<1>8. CASE PublishStep \/ SessionUpdated \/ Unmount \/ TokenRefreshed \/ TokenExpires
  BY <1>1, <1>8 DEF PublishStep, Publish, SessionUpdated, Unmount, TokenRefreshed, TokenExpires
<1>9. ASSUME NEW m \in Mark, MarkRead(m) PROVE ListsInv'
  <2>1. PICK k \in DOMAIN cache.list :
           /\ mark' = [mark EXCEPT ![m] = [pc |-> "sent", id |-> cache.list[k].id, prev |-> cache]]
           /\ cache' = [cache EXCEPT !.list = MarkedIn(@, cache.list[k].id)]
    BY <1>9 DEF MarkRead
  <2>2. cache.list[k].id \in 1..stored
    BY <1>0, <2>1, ListFields
  <2>3. cache.loaded
    BY <1>0, <2>1 DEF ListsInv
  <2>4. MarkedIn(cache.list, cache.list[k].id) \in ListTo(stored)
    BY <1>0, MarkedFields
  <2>5. cache' \in ListRecord(stored) /\ cache'.loaded
    BY <1>0, <2>1, <2>3, <2>4 DEF ListsInv, ListRecord
  <2>6. [pc |-> "sent", id |-> cache.list[k].id, prev |-> cache]
           \in [pc: {"idle", "sent", "applied"}, id: 0..stored, prev: ListRecord(stored)]
    BY <1>0, <2>2 DEF ListsInv
  <2> QED
    BY <1>0, <1>9, <2>1, <2>2, <2>3, <2>5, <2>6 DEF MarkRead, ListsInv
<1>10. ASSUME NEW m \in Mark, MarkServed(m) \/ MarkAnswered(m) PROVE ListsInv'
  <2>1. CASE MarkServed(m)
    BY <1>0, <2>1 DEF MarkServed, ListsInv, ListRecord
  <2>2. CASE MarkAnswered(m)
    <3>1. /\ mark' \in [Mark -> [pc: {"idle", "sent", "applied"}, id: 0..stored, prev: ListRecord(stored)]]
          /\ \A o \in Mark : mark'[o].pc # "idle" => mark'[o] = mark[o]
      BY <1>0, <2>2 DEF MarkAnswered, ListsInv, NoMark
    <3> QED
      BY <1>0, <2>2, <3>1 DEF MarkAnswered, ListsInv, ListRecord
  <2> QED
    BY <1>10, <2>1, <2>2
<1>11. ASSUME NEW m \in Mark, MarkFails(m) PROVE ListsInv'
  <2>1. RolledBack(m) \in ListRecord(stored) /\ (~RolledBack(m).loaded => RolledBack(m).list = <<>>)
    BY <1>0 DEF RolledBack, ListsInv, ListRecord
  <2> QED
    BY <1>0, <1>11, <2>1 DEF MarkFails, ListsInv, NoMark
<1> QED
  BY <1>2, <1>3, <1>4, <1>5, <1>6, <1>7, <1>8, <1>9, <1>10, <1>11 DEF Next, FetchStep, MarkStep

LEMMA NextTypes == TypeInv /\ [Next]_vars => TypeInv'
<1> SUFFICES ASSUME TypeInv, [Next]_vars PROVE TypeInv'
  OBVIOUS
<1>1. CASE Next
  BY <1>1, SocketsNext, RowsNext, ListsNext DEF TypeInv
<1>2. CASE UNCHANGED vars
  <2>1. SocketsInv'
    BY <1>2 DEF TypeInv, SocketsInv, vars
  <2>2. RowsInv'
    BY <1>2 DEF TypeInv, RowsInv, vars
  <2>3. ListsInv'
    BY <1>2 DEF TypeInv, ListsInv, ListRecord, vars
  <2> QED
    BY <2>1, <2>2, <2>3 DEF TypeInv
<1> QED
  BY <1>1, <1>2

LEMMA TypeInvariant == Spec => []TypeInv
<1> QED
  BY InitTypes, NextTypes, PTL DEF Spec

\* Every variable keeps its type: what is listed, pushed or being marked is stored.
THEOREM FeedTypeCorrect == Spec => []TypeOK
<1> QED
  BY TypeInvariant, TypesOk, PTL

\* Whatever is lost, expires, is refreshed, mounted or left, a tab never has two live
\* connections, and none when no page shows the bell.
THEOREM OneSocketAtATime == Spec => []OneLiveSocket
<1>1. TypeInv => OneLiveSocket
  BY DEF TypeInv, SocketsInv, OneLiveSocket, Live, Quiet
<1> QED
  BY <1>1, TypeInvariant, PTL

-----------------------------------------------------------------------------
(* FeedInOrder.  Where nothing is inserted or on its way during a fetch, what *)
(* is still to be delivered is not in a list or a snapshot yet; where calls of *)
(* internalNotify do not overlap, it is newer than all of those.            *)

\* What a number has to be with respect to those that were delivered before it.
Newer(n, older) == n # older /\ ("notify" \in calm => n > older)

Descending(list) == \A i, j \in DOMAIN list : i < j => Newer(list[i].id, list[j].id)
Older(list) ==
    \A k \in DOMAIN list : /\ \A i \in DOMAIN bus : Newer(bus[i], list[k].id)
                           /\ \A n \in posted : Newer(n, list[k].id)
InOrder(list) == Descending(list) /\ Older(list)

OrderInv ==
    /\ InOrder(cache.list)
    /\ \A m \in Mark : InOrder(mark[m].prev.list)
    /\ fetch.st # "none" => bus = <<>> /\ posted = {}
    /\ Descending(fetch.list)
    /\ \A i, j \in DOMAIN bus : i < j => Newer(bus[j], bus[i])
    /\ \A n \in posted : \A i \in DOMAIN bus : Newer(n, bus[i])
    /\ "notify" \in calm => \A m, n \in posted : m = n

CalmOrder == "fetch" \in calm => OrderInv

LEMMA InitOrder == Init => CalmOrder
BY DEF Init, CalmOrder, OrderInv, InOrder, Descending, Older, NoCache, NoFetch, NoMark

LEMMA BusFields ==
    ASSUME RowsInv
    PROVE  /\ Len(bus) \in Nat /\ DOMAIN bus = 1..Len(bus) /\ stored \in Nat
           /\ \A i \in DOMAIN bus : bus[i] \in 1..stored
<1>1. bus \in Seq(1..stored) /\ stored \in Nat
  BY FeedAssumption DEF RowsInv
<1>2. Len(bus) \in Nat /\ DOMAIN bus = 1..Len(bus)
  BY <1>1, LenProperties
<1>3. \A i \in 1..Len(bus) : bus[i] \in 1..stored
  BY <1>1, ElementOfSeq
<1> QED
  BY <1>1, <1>2, <1>3

\* The notification that is inserted is newer than every other.
LEMMA OrderOnInsert ==
    ASSUME TypeInv, OrderInv, "fetch" \in calm, InternalNotify
    PROVE  OrderInv'
<1>0. ListsInv /\ RowsInv
  BY DEF TypeInv
<1>1. /\ stored \in Nat /\ posted \subseteq 1..stored
      /\ \A i \in DOMAIN bus : bus[i] \in 1..stored
  BY <1>0, BusFields DEF RowsInv
<1>2. /\ posted' = posted \cup {stored + 1} /\ fetch.st = "none"
      /\ ("notify" \in calm => posted = {}) /\ UNCHANGED <<bus, cache, fetch, mark, calm>>
  BY DEF InternalNotify
<1>3. \A n \in 1..stored : Newer(stored + 1, n)
  BY <1>1 DEF Newer
<1>4. ASSUME NEW list \in ListTo(stored), InOrder(list)
      PROVE  /\ Descending(list)
             /\ \A k \in DOMAIN list : /\ \A i \in DOMAIN bus : Newer(bus[i], list[k].id)
                                       /\ \A n \in posted' : Newer(n, list[k].id)
  <2>1. \A k \in DOMAIN list : list[k].id \in 1..stored
    BY <1>1, ListFields
  <2> QED
    BY <1>2, <1>3, <1>4, <2>1 DEF InOrder, Older
<1>5. cache.list \in ListTo(stored) /\ \A m \in Mark : mark[m].prev.list \in ListTo(stored)
  BY <1>0 DEF ListsInv, ListRecord
<1>6. InOrder(cache.list)'
  BY <1>2, <1>4, <1>5 DEF OrderInv, InOrder, Older, Descending, Newer
<1>7. \A m \in Mark : InOrder(mark[m].prev.list)'
  <2> SUFFICES ASSUME NEW m \in Mark PROVE InOrder(mark[m].prev.list)'
    OBVIOUS
  <2>1. mark[m].prev.list \in ListTo(stored) /\ InOrder(mark[m].prev.list)
    BY <1>5 DEF OrderInv
  <2> QED
    BY <1>2, <1>4, <2>1 DEF InOrder, Older, Descending, Newer
<1>8. /\ \A n \in posted' : \A i \in DOMAIN bus : Newer(n, bus[i])
      /\ "notify" \in calm => \A m, n \in posted' : m = n
  BY <1>1, <1>2, <1>3 DEF OrderInv
<1> QED
  BY <1>2, <1>6, <1>7, <1>8 DEF OrderInv, Descending, Newer

\* What is published goes behind what was published before: of calls that overlap in
\* any order, and otherwise the newest.
LEMMA OrderOnPublish ==
    ASSUME TypeInv, OrderInv, NEW n \in Id, Publish(n)
    PROVE  OrderInv'
<1>0. RowsInv /\ bus \in Seq(1..stored)
  BY DEF TypeInv, RowsInv
<1>1. Len(bus) \in Nat /\ DOMAIN bus = 1..Len(bus) /\ stored \in Nat
  BY <1>0, BusFields
<1>2. n \in posted /\ posted' = posted \ {n} /\ UNCHANGED <<cache, fetch, mark, calm>>
  BY DEF Publish
<1>3. \A i \in DOMAIN bus' : \/ i \in DOMAIN bus /\ bus'[i] = bus[i]
                             \/ i \notin DOMAIN bus /\ i = Len(bus) + 1 /\ bus'[i] = n
  <2>1. CASE bus' = bus
    BY <2>1
  <2>2. CASE bus' = Append(bus, n)
    <3>1. n \in 1..stored
      BY <1>0, <1>2 DEF RowsInv
    <3>2. /\ bus' \in Seq(1..stored) /\ Len(bus') = Len(bus) + 1
          /\ \A i \in 1..Len(bus) : bus'[i] = bus[i]
          /\ bus'[Len(bus) + 1] = n
      BY <1>0, <2>2, <3>1, AppendProperties
    <3>3. DOMAIN bus' = 1..(Len(bus) + 1)
      BY <3>2, LenProperties
    <3> QED
      BY <1>1, <3>2, <3>3
  <2> QED
    BY <2>1, <2>2 DEF Publish
<1>4. \A i, j \in DOMAIN bus' : i < j => Newer(bus'[j], bus'[i])
  BY <1>1, <1>2, <1>3 DEF OrderInv
<1>5. \A o \in posted' : o \in posted /\ o # n
  BY <1>2
<1>6. \A o \in posted' : Newer(o, n)
  BY <1>2, <1>5 DEF OrderInv, Newer
<1>7. \A o \in posted' : \A i \in DOMAIN bus' : Newer(o, bus'[i])
  BY <1>3, <1>5, <1>6 DEF OrderInv
<1>8. ASSUME NEW list, InOrder(list)
      PROVE  /\ Descending(list)
             /\ \A k \in DOMAIN list : /\ \A i \in DOMAIN bus' : Newer(bus'[i], list[k].id)
                                       /\ \A o \in posted' : Newer(o, list[k].id)
  BY <1>2, <1>3, <1>5, <1>8 DEF InOrder, Older
<1>9. InOrder(cache.list)'
  BY <1>2, <1>8 DEF OrderInv, InOrder, Older, Descending, Newer
<1>10. \A m \in Mark : InOrder(mark[m].prev.list)'
  <2> SUFFICES ASSUME NEW m \in Mark PROVE InOrder(mark[m].prev.list)'
    OBVIOUS
  <2>1. InOrder(mark[m].prev.list)
    BY DEF OrderInv
  <2> QED
    BY <1>2, <1>8, <2>1 DEF InOrder, Older, Descending, Newer
<1>11. fetch.st = "none"
  BY <1>2 DEF OrderInv
<1> QED
  BY <1>2, <1>4, <1>5, <1>7, <1>9, <1>10, <1>11 DEF OrderInv, Descending, Newer

\* What is delivered next is newer than the list and older than the rest of the bus.
LEMMA OrderOnDelivery ==
    ASSUME TypeInv, OrderInv, DeliverLocal
    PROVE  OrderInv'
<1>0. /\ RowsInv /\ ListsInv /\ bus \in Seq(1..stored) /\ cache.list \in ListTo(stored)
      /\ \A m \in Mark : mark[m].prev.list \in ListTo(stored)
  BY DEF TypeInv, RowsInv, ListsInv, ListRecord
<1>1. /\ Len(bus) \in Nat /\ DOMAIN bus = 1..Len(bus) /\ stored \in Nat
      /\ \A i \in DOMAIN bus : bus[i] \in 1..stored
  BY <1>0, BusFields
<1>2. /\ bus' \in Seq(1..stored) /\ Len(bus') = Len(bus) - 1 /\ Head(bus) = bus[1] /\ bus # <<>>
      /\ \A i \in 1..Len(bus') : bus'[i] = bus[i + 1]
  BY <1>0, HeadTailProperties DEF DeliverLocal
<1>3. Len(bus) > 0
  BY <1>0, <1>2, EmptySeq
<1>4. DOMAIN bus' = 1..(Len(bus) - 1)
  BY <1>2, LenProperties
<1>5. \A i \in DOMAIN bus' : i + 1 \in DOMAIN bus /\ 1 \in DOMAIN bus /\ 1 < i + 1 /\ bus'[i] = bus[i + 1]
  BY <1>1, <1>2, <1>3, <1>4
<1>12. posted' = posted /\ calm' = calm /\ mark' = mark
  BY DEF DeliverLocal
<1>6. \A i, j \in DOMAIN bus' : i < j => Newer(bus'[j], bus'[i])
  BY <1>1, <1>4, <1>5 DEF OrderInv
<1>7. /\ \A i \in DOMAIN bus' : Newer(bus'[i], Head(bus))
      /\ \A n \in posted : Newer(n, Head(bus)) /\ \A i \in DOMAIN bus' : Newer(n, bus'[i])
  <2>1. 1 \in DOMAIN bus
    BY <1>1, <1>3
  <2> QED
    BY <1>2, <1>5, <2>1 DEF OrderInv
<1>8. \A list : Older(list) => \A i \in DOMAIN bus' : \A k \in DOMAIN list : Newer(bus'[i], list[k].id)
  BY <1>5 DEF Older
<1>9. \A m \in Mark : InOrder(mark[m].prev.list)'
  BY <1>8, <1>12 DEF OrderInv, InOrder, Older, Descending, Newer
<1>10. InOrder(cache.list)'
  <2>1. CASE cache' = cache
    BY <1>8, <1>12, <2>1 DEF OrderInv, InOrder, Older, Descending, Newer
  <2>2. CASE cache'.list = PushedTo(cache.list, Head(bus))
    <3> DEFINE old == cache.list  list == cache'.list
    <3>1. /\ DOMAIN list = 1..(Len(old) + 1) /\ list[1] = NewEntry(Head(bus))
          /\ \A k \in 1..Len(old) : list[k + 1] = old[k]
      <4>1. Head(bus) \in 1..stored
        BY <1>1, <1>2, <1>3
      <4>2. /\ DOMAIN PushedTo(old, Head(bus)) = 1..(Len(old) + 1)
            /\ PushedTo(old, Head(bus))[1] = NewEntry(Head(bus))
            /\ \A k \in 1..Len(old) : PushedTo(old, Head(bus))[k + 1] = old[k]
        <5> HIDE DEF old
        <5> QED
          BY <1>0, <1>1, <4>1, PushedFields DEF old
      <4> HIDE DEF old
      <4> QED
        BY <2>2, <4>2 DEF old
    <3>2. /\ Len(old) \in Nat /\ DOMAIN old = 1..Len(old)
          /\ \A k \in DOMAIN old : old[k].id \in 1..stored
      BY <1>0, <1>1, ListFields
    <3>3. list[1].id = Head(bus) /\ Head(bus) \in 1..stored
      BY <1>1, <1>2, <1>3, <3>1 DEF NewEntry
    <3>4. \A k \in DOMAIN list : k = 1 \/ (k - 1 \in DOMAIN old /\ list[k] = old[k - 1])
      BY <3>1, <3>2
    <3>5. \A k \in DOMAIN old : Newer(Head(bus), old[k].id)
      <4>1. 1 \in DOMAIN bus /\ Head(bus) = bus[1]
        BY <1>1, <1>2, <1>3
      <4> QED
        BY <4>1 DEF OrderInv, InOrder, Older
    <3>6. Descending(old) /\ Older(old)
      BY DEF OrderInv, InOrder
    <3>7. Descending(list)
      <4> SUFFICES ASSUME NEW i \in DOMAIN list, NEW j \in DOMAIN list, i < j
                   PROVE  Newer(list[i].id, list[j].id)
        BY DEF Descending
      <4>1. j # 1 /\ j - 1 \in DOMAIN old /\ list[j] = old[j - 1]
        BY <3>1, <3>2, <3>4
      <4>2. CASE i = 1
        BY <3>2, <3>3, <3>5, <4>1, <4>2
      <4>3. CASE i # 1
        <5>1. i - 1 \in DOMAIN old /\ list[i] = old[i - 1] /\ i - 1 < j - 1
          BY <3>1, <3>2, <3>4, <4>3
        <5> QED
          BY <3>6, <4>1, <5>1 DEF Descending
      <4> QED
        BY <4>2, <4>3
    <3>8. \A k \in DOMAIN list : /\ \A i \in DOMAIN bus' : Newer(bus'[i], list[k].id)
                                 /\ \A n \in posted : Newer(n, list[k].id)
      BY <1>7, <1>8, <3>3, <3>4, <3>6 DEF Older
    <3> QED
      BY <1>12, <3>7, <3>8 DEF InOrder, Descending, Older, Newer
  <2> QED
    BY <2>1, <2>2 DEF DeliverLocal
<1>11. fetch' = fetch /\ fetch.st = "none"
  BY <1>2 DEF DeliverLocal, OrderInv
<1> QED
  BY <1>6, <1>7, <1>9, <1>10, <1>11, <1>12 DEF OrderInv, Descending, Newer

\* A rollback brings back an older list in order, a fetch the newest, and a mark
\* changes no number.
LEMMA OrderOnList ==
    ASSUME TypeInv, OrderInv, "fetch" \in calm,
           \/ Mount \/ Refetch \/ FetchStep
           \/ \E m \in Mark : MarkRead(m) \/ MarkStep(m) \/ MarkFails(m)
    PROVE  OrderInv'
<1>0. /\ RowsInv /\ ListsInv /\ stored \in Nat /\ cache.list \in ListTo(stored)
      /\ \A m \in Mark : mark[m].prev.list \in ListTo(stored)
  BY FeedAssumption DEF TypeInv, RowsInv, ListsInv, ListRecord
<1>1. ASSUME UNCHANGED <<posted, bus, cache, mark, calm>>,
             fetch'.st # "none" => bus = <<>> /\ posted = {}, Descending(fetch'.list)
      PROVE  OrderInv'
  BY <1>1 DEF OrderInv, InOrder, Older, Descending, Newer
<1>2. Descending(<<>>) /\ InOrder(<<>>)
  BY DEF Descending, InOrder, Older
<1>3. CASE Mount \/ Refetch
  BY <1>1, <1>2, <1>3 DEF Mount, Refetch, NoFetch, OrderInv, Descending
<1>4. CASE ListNotifications
  <2>1. Descending(Listed)
    BY <1>0, ListedFields DEF Descending, Newer
  <2> QED
    BY <1>1, <1>4, <2>1 DEF ListNotifications, OrderInv
<1>5. CASE FetchDone
  <2>1. bus = <<>> /\ posted = {} /\ InOrder(fetch.list)
    BY <1>5 DEF FetchDone, OrderInv, InOrder, Older
  <2>2. /\ UNCHANGED <<posted, bus, mark, calm>> /\ cache'.list = fetch.list
        /\ fetch'.st = "none" /\ fetch'.list = <<>>
    BY <1>5 DEF FetchDone, Fetched, NoFetch
  <2> QED
    BY <2>1, <2>2 DEF OrderInv, InOrder, Older, Descending, Newer
<1>6. ASSUME NEW m \in Mark, MarkRead(m) PROVE OrderInv'
  <2>1. PICK k \in DOMAIN cache.list :
           /\ mark' = [mark EXCEPT ![m] = [pc |-> "sent", id |-> cache.list[k].id, prev |-> cache]]
           /\ cache' = [cache EXCEPT !.list = MarkedIn(@, cache.list[k].id)]
    BY <1>6 DEF MarkRead
  <2>2. cache'.list = MarkedIn(cache.list, cache.list[k].id)
    BY <1>0, <2>1 DEF ListsInv, ListRecord
  <2>3. /\ DOMAIN cache'.list = DOMAIN cache.list
        /\ \A j \in DOMAIN cache.list : cache'.list[j].id = cache.list[j].id
    BY <1>0, <2>2, MarkedFields
  <2>4. UNCHANGED <<posted, bus, calm>> /\ fetch' = NoFetch
    BY <1>6 DEF MarkRead
  <2>5. InOrder(cache.list)'
    BY <2>3, <2>4 DEF OrderInv, InOrder, Descending, Older, Newer
  <2>6. \A o \in Mark : mark'[o].prev.list = mark[o].prev.list \/ mark'[o].prev.list = cache.list
    BY <1>0, <2>1 DEF ListsInv
  <2>7. \A o \in Mark : InOrder(mark[o].prev.list)'
    BY <2>4, <2>6 DEF OrderInv, InOrder, Descending, Older, Newer
  <2> QED
    BY <1>2, <2>4, <2>5, <2>7 DEF OrderInv, NoFetch, Descending, Newer
<1>7. ASSUME \A o \in Mark : mark'[o].prev.list = mark[o].prev.list \/ mark'[o].prev.list = <<>>,
             UNCHANGED <<posted, bus, fetch, calm>>, cache' = cache \/ \E m \in Mark : cache' = mark[m].prev
      PROVE  OrderInv'
  <2>1. InOrder(cache.list)'
    BY <1>7 DEF OrderInv, InOrder, Descending, Older, Newer
  <2>2. \A o \in Mark : InOrder(mark[o].prev.list)'
    BY <1>2, <1>7 DEF OrderInv, InOrder, Descending, Older, Newer
  <2> QED
    BY <1>7, <2>1, <2>2 DEF OrderInv, Descending, Newer
<1>8. ASSUME NEW m \in Mark, MarkStep(m) \/ MarkFails(m) PROVE OrderInv'
  <2>1. \A o \in Mark : mark'[o].prev.list = mark[o].prev.list \/ mark'[o].prev.list = <<>>
    <3>1. CASE MarkServed(m)
      BY <1>0, <3>1 DEF MarkServed, ListsInv
    <3>2. CASE MarkAnswered(m) \/ MarkFails(m)
      <4>1. mark' = [mark EXCEPT ![m] = NoMark] /\ DOMAIN mark = Mark
        BY <1>0, <3>2 DEF MarkAnswered, MarkFails, ListsInv
      <4>2. NoMark.prev.list = <<>>
        BY DEF NoMark, NoCache
      <4> QED
        BY <4>1, <4>2
    <3> QED
      BY <1>8, <3>1, <3>2 DEF MarkStep
  <2> QED
    BY <1>7, <1>8, <2>1 DEF MarkStep, MarkServed, MarkAnswered, MarkFails, RolledBack
<1> QED
  BY <1>3, <1>4, <1>5, <1>6, <1>8 DEF FetchStep

LEMMA NextOrder == TypeInv /\ CalmOrder /\ [Next]_vars => CalmOrder'
<1> SUFFICES ASSUME TypeInv, CalmOrder, [Next]_vars, "fetch" \in calm' PROVE OrderInv'
  BY DEF CalmOrder
<1>1. ASSUME UNCHANGED <<posted, bus, cache, fetch, mark, calm>> PROVE OrderInv'
  BY <1>1 DEF CalmOrder, OrderInv, InOrder, Older, Descending, Newer
<1>2. CASE InternalNotify
  BY <1>2, OrderOnInsert DEF InternalNotify, CalmOrder
<1>8. ASSUME NEW n \in Id, Publish(n) PROVE OrderInv'
  BY <1>8, OrderOnPublish DEF Publish, CalmOrder
<1>3. CASE DeliverLocal
  BY <1>3, OrderOnDelivery DEF DeliverLocal, CalmOrder
<1>4. ASSUME NEW s \in Socket, SocketStep(s) \/ ConnectionLost(s) PROVE OrderInv'
  BY <1>1, <1>4 DEF SocketStep, Accept, OnClose, ReconnectTimer, ConnectionLost
<1>5. CASE Unmount \/ TokenRefreshed \/ SessionUpdated \/ TokenExpires
  BY <1>1, <1>5 DEF Unmount, TokenRefreshed, SessionUpdated, TokenExpires
<1>6. CASE \/ Mount \/ Refetch \/ FetchStep
           \/ \E m \in Mark : MarkRead(m) \/ MarkStep(m) \/ MarkFails(m)
  <2>1. "fetch" \in calm
    BY <1>6 DEF Mount, Refetch, FetchStep, ListNotifications, FetchDone,
                MarkRead, MarkStep, MarkServed, MarkAnswered, MarkFails
  <2> QED
    BY <1>6, <2>1, OrderOnList DEF CalmOrder
<1>7. CASE UNCHANGED vars
  BY <1>1, <1>7 DEF vars
<1> QED
  BY <1>2, <1>3, <1>4, <1>5, <1>6, <1>7, <1>8 DEF Next, PublishStep

\* Where nothing is inserted or on its way during a fetch, pushes, fetches, marks and
\* rollbacks leave the list without duplicates, though internalNotify publishes some time
\* after it inserts and calls overtake each other; where they do not, newest first.
THEOREM ListsStayInOrder == Spec => []FeedInOrder
<1>1. TypeInv /\ CalmOrder => FeedInOrder
  <2> SUFFICES ASSUME TypeInv, CalmOrder, "fetch" \in calm PROVE FeedInOrder
    BY DEF FeedInOrder
  <2>1. stored \in Nat /\ cache.list \in ListTo(stored)
    BY FeedAssumption DEF TypeInv, RowsInv, ListsInv, ListRecord
  <2>2. DOMAIN cache.list \subseteq Nat
    BY <2>1, ListFields
  <2>3. \A i, j \in DOMAIN cache.list : i < j => Newer(cache.list[i].id, cache.list[j].id)
    BY DEF CalmOrder, OrderInv, InOrder, Descending
  <2> QED
    BY <2>2, <2>3 DEF FeedInOrder, Newer
<1> QED
  BY <1>1, InitOrder, NextOrder, TypeInvariant, PTL DEF Spec

-----------------------------------------------------------------------------
(* ReadIsTrue.  Where marks do not overlap, the snapshot a rollback brings *)
(* back shows as read only what is read in the database.                    *)

TrueIn(list) == \A k \in DOMAIN list : list[k].read => list[k].id \in read
Sent(id) == \E m \in Mark : mark[m].pc = "sent" /\ mark[m].id = id

ReadInv ==
    /\ \A m, o \in Mark : mark[m].pc # "idle" /\ mark[o].pc # "idle" => m = o
    /\ \A k \in DOMAIN cache.list :
          cache.list[k].read => cache.list[k].id \in read \/ Sent(cache.list[k].id)
    /\ \A m \in Mark : TrueIn(mark[m].prev.list)
    /\ \A m \in Mark : mark[m].pc = "applied" => mark[m].id \in read
    /\ TrueIn(fetch.list)

CalmRead == "mark" \in calm => ReadInv

LEMMA InitRead == Init => CalmRead
BY DEF Init, CalmRead, ReadInv, TrueIn, NoCache, NoFetch, NoMark

LEMMA ReadOnDelivery ==
    ASSUME TypeInv, ReadInv, DeliverLocal
    PROVE  ReadInv'
<1>0. RowsInv /\ stored \in Nat /\ cache.list \in ListTo(stored) /\ bus \in Seq(1..stored)
  BY FeedAssumption DEF TypeInv, RowsInv, ListsInv, ListRecord
<1>1. CASE cache' = cache
  BY <1>1 DEF DeliverLocal, ReadInv, TrueIn, Sent
<1>2. CASE cache'.list = PushedTo(cache.list, Head(bus))
  <2> DEFINE old == cache.list  list == cache'.list
  <2>1. Head(bus) \in 1..stored
    BY <1>0, HeadTailProperties DEF DeliverLocal
  <2>2. /\ DOMAIN list = 1..(Len(old) + 1) /\ list[1] = NewEntry(Head(bus))
        /\ \A k \in 1..Len(old) : list[k + 1] = old[k]
    <3>1. /\ DOMAIN PushedTo(cache.list, Head(bus)) = 1..(Len(cache.list) + 1)
          /\ PushedTo(cache.list, Head(bus))[1] = NewEntry(Head(bus))
          /\ \A k \in 1..Len(cache.list) : PushedTo(cache.list, Head(bus))[k + 1] = cache.list[k]
      BY <1>0, <2>1, PushedFields
    <3> QED
      BY <1>2, <3>1
  <2>3. Len(old) \in Nat /\ DOMAIN old = 1..Len(old)
    BY <1>0, ListFields
  <2>4. \A k \in DOMAIN list : k = 1 \/ (k - 1 \in DOMAIN old /\ list[k] = old[k - 1])
    BY <2>2, <2>3
  <2>5. ~list[1].read
    BY <2>2 DEF NewEntry
  <2>6. \A k \in DOMAIN list : list[k].read => list[k].id \in read \/ Sent(list[k].id)
    BY <2>4, <2>5 DEF ReadInv
  <2> QED
    BY <2>6 DEF DeliverLocal, ReadInv, TrueIn, Sent
<1> QED
  BY <1>1, <1>2 DEF DeliverLocal

LEMMA ReadOnMark ==
    ASSUME TypeInv, ReadInv, "mark" \in calm, NEW m \in Mark, MarkRead(m) \/ MarkStep(m) \/ MarkFails(m)
    PROVE  ReadInv'
<1>0. /\ ListsInv /\ stored \in Nat /\ cache.list \in ListTo(stored) /\ DOMAIN mark = Mark
  BY FeedAssumption DEF TypeInv, RowsInv, ListsInv, ListRecord
<1>1. CASE MarkRead(m)
  <2>1. PICK k \in DOMAIN cache.list :
           /\ mark' = [mark EXCEPT ![m] = [pc |-> "sent", id |-> cache.list[k].id, prev |-> cache]]
           /\ cache' = [cache EXCEPT !.list = MarkedIn(@, cache.list[k].id)]
    BY <1>1 DEF MarkRead
  <2> DEFINE i == cache.list[k].id
  <2>2. \A o \in Mark : mark[o].pc = "idle"
    BY <1>1 DEF MarkRead
  <2>3. TrueIn(cache.list)
    BY <2>2 DEF ReadInv, TrueIn, Sent
  <2>4. /\ mark'[m].pc = "sent" /\ mark'[m].id = i /\ mark'[m].prev.list = cache.list
        /\ \A o \in Mark \ {m} : mark'[o] = mark[o]
    BY <1>0, <2>1
  <2>5. cache'.list = MarkedIn(cache.list, i)
    BY <1>0, <2>1 DEF ListsInv, ListRecord
  <2>6. /\ DOMAIN cache'.list = DOMAIN cache.list
        /\ \A j \in DOMAIN cache.list :
              /\ cache'.list[j].id = cache.list[j].id
              /\ cache'.list[j].read => cache.list[j].read \/ cache.list[j].id = i
    BY <1>0, <2>5, MarkedFields
  <2>7. read' = read /\ fetch'.list = <<>>
    BY <1>1 DEF MarkRead, NoFetch
  <2>8. \A j \in DOMAIN cache'.list :
           cache'.list[j].read => \/ cache'.list[j].id \in read'
                                  \/ mark'[m].pc = "sent" /\ mark'[m].id = cache'.list[j].id
    BY <2>3, <2>4, <2>6, <2>7 DEF TrueIn
  <2>9. \A o \in Mark : TrueIn(mark[o].prev.list)'
    BY <2>3, <2>4, <2>7 DEF ReadInv, TrueIn
  <2>10. \A o \in Mark : mark'[o].pc # "idle" => o = m
    BY <2>2, <2>4
  <2> QED
    BY <2>4, <2>7, <2>8, <2>9, <2>10 DEF ReadInv, TrueIn, Sent
<1>2. CASE MarkServed(m)
  <2>1. /\ mark[m].pc = "sent" /\ read' = read \cup {mark[m].id} /\ UNCHANGED <<cache, fetch>>
        /\ mark'[m].pc = "applied" /\ mark'[m].id = mark[m].id /\ mark'[m].prev = mark[m].prev
        /\ \A o \in Mark \ {m} : mark'[o] = mark[o]
    BY <1>0, <1>2 DEF MarkServed, ListsInv
  <2>2. \A o \in Mark : mark[o].pc # "idle" => o = m
    BY <2>1 DEF ReadInv
  <2>3. \A o \in Mark : mark'[o].pc # "idle" => o = m
    BY <2>1, <2>2
  <2>4. \A j \in DOMAIN cache.list : cache.list[j].read => cache.list[j].id \in read'
    BY <2>1, <2>2 DEF ReadInv, Sent
  <2>5. \A o \in Mark : TrueIn(mark[o].prev.list)'
    BY <2>1 DEF ReadInv, TrueIn
  <2>6. TrueIn(fetch.list)'
    BY <2>1 DEF ReadInv, TrueIn
  <2> QED
    BY <2>1, <2>3, <2>4, <2>5, <2>6 DEF ReadInv
<1>3. CASE MarkAnswered(m) \/ MarkFails(m)
  <2>1. /\ mark[m].pc \in {"sent", "applied"} /\ UNCHANGED <<read, fetch>>
        /\ mark'[m].pc = "idle" /\ mark'[m].prev.list = <<>>
        /\ \A o \in Mark \ {m} : mark'[o] = mark[o]
    <3>1. NoMark.pc = "idle" /\ NoMark.prev.list = <<>>
      BY DEF NoMark, NoCache
    <3>2. /\ mark[m].pc \in {"sent", "applied"} /\ UNCHANGED <<read, fetch>>
          /\ mark' = [mark EXCEPT ![m] = NoMark]
      BY <1>3 DEF MarkAnswered, MarkFails
    <3> QED
      BY <1>0, <3>1, <3>2
  <2>2. \A o \in Mark : mark[o].pc # "idle" => o = m
    BY <2>1 DEF ReadInv
  <2>3. TrueIn(cache'.list)
    <3>1. CASE MarkAnswered(m)
      BY <2>2, <3>1 DEF MarkAnswered, ReadInv, TrueIn, Sent
    <3>2. CASE MarkFails(m)
      <4>1. mark[m].prev.loaded
        BY <1>0, <2>1 DEF ListsInv
      <4> QED
        BY <3>2, <4>1 DEF MarkFails, RolledBack, ReadInv
    <3> QED
      BY <1>3, <3>1, <3>2
  <2>4. \A j \in DOMAIN cache'.list : cache'.list[j].read => cache'.list[j].id \in read'
    BY <2>1, <2>3 DEF TrueIn
  <2>5. \A o \in Mark : TrueIn(mark[o].prev.list)'
    BY <2>1 DEF ReadInv, TrueIn
  <2>6. TrueIn(fetch.list)' /\ \A o \in Mark : mark'[o].pc = "idle"
    BY <2>1, <2>2 DEF ReadInv, TrueIn
  <2> QED
    BY <2>4, <2>5, <2>6 DEF ReadInv
<1> QED
  BY <1>1, <1>2, <1>3 DEF MarkStep

LEMMA NextRead == TypeInv /\ CalmRead /\ [Next]_vars => CalmRead'
<1> SUFFICES ASSUME TypeInv, CalmRead, [Next]_vars, "mark" \in calm' PROVE ReadInv'
  BY DEF CalmRead
<1>1. ASSUME UNCHANGED <<read, cache, mark, calm>>, TrueIn(fetch.list) => TrueIn(fetch'.list)
      PROVE  ReadInv'
  BY <1>1 DEF CalmRead, ReadInv, TrueIn, Sent
<1>2. TrueIn(<<>>) /\ NoFetch.list = <<>> /\ [NoFetch EXCEPT !.st = "sent"].list = <<>>
  BY DEF TrueIn, NoFetch
<1>3. CASE InternalNotify \/ PublishStep \/ Unmount \/ TokenRefreshed \/ SessionUpdated \/ TokenExpires
  BY <1>1, <1>3 DEF InternalNotify, PublishStep, Publish, Unmount, TokenRefreshed, SessionUpdated, TokenExpires
<1>4. ASSUME NEW s \in Socket, SocketStep(s) \/ ConnectionLost(s) PROVE ReadInv'
  BY <1>1, <1>4 DEF SocketStep, Accept, OnClose, ReconnectTimer, ConnectionLost
<1>5. CASE Mount \/ Refetch
  BY <1>1, <1>2, <1>5 DEF Mount, Refetch
<1>6. CASE ListNotifications
  <2>1. stored \in Nat
    BY FeedAssumption DEF TypeInv, RowsInv
  <2>2. TrueIn(Listed)
    BY <2>1, ListedFields DEF TrueIn
  <2> QED
    BY <1>1, <1>6, <2>2 DEF ListNotifications
<1>7. CASE FetchDone
  BY <1>2, <1>7 DEF FetchDone, Fetched, CalmRead, ReadInv, TrueIn, Sent
<1>8. CASE DeliverLocal
  BY <1>8, ReadOnDelivery DEF DeliverLocal, CalmRead
<1>9. ASSUME NEW m \in Mark, MarkRead(m) \/ MarkStep(m) \/ MarkFails(m) PROVE ReadInv'
  <2>1. "mark" \in calm
    BY <1>9 DEF MarkRead, MarkStep, MarkServed, MarkAnswered, MarkFails
  <2> QED
    BY <1>9, <2>1, ReadOnMark DEF CalmRead
<1>10. CASE UNCHANGED vars
  BY <1>1, <1>10 DEF vars
<1> QED
  BY <1>3, <1>4, <1>5, <1>6, <1>7, <1>8, <1>9, <1>10 DEF Next, FetchStep

\* Where marks do not overlap, what the bell shows as read is read in the database or
\* being marked, however many marks failed and were rolled back.
THEOREM MarksAreTrue == Spec => []ReadIsTrue
<1>1. CalmRead => ReadIsTrue
  BY DEF CalmRead, ReadInv, Sent, ReadIsTrue
<1> QED
  BY <1>1, InitRead, NextRead, TypeInvariant, PTL DEF Spec
=============================================================================
