-------------------------------- MODULE Feed --------------------------------
(***************************************************************************)
(* Notifications from notify-svc to the bell of one browser tab.            *)
(*                                                                         *)
(*   internalNotify   inserts a row, then publishes it on Redis            *)
(*   hub              writes what Redis delivers to each registered socket *)
(*   NotificationSocket   reconnects with backoff, and with a new token    *)
(*   use-notifications    the cached list: fetched, pushed to, and marked  *)
(*                        read before the server has answered              *)
(*                                                                         *)
(* Notifications are numbered in the order they are inserted, tokens in the *)
(* order they are issued; how the tokens come about is Session's subject.  *)
(* A page that shows the bell creates one NotificationSocket per session   *)
(* token; sockets come from the pool Socket and are used again once closed.*)
(***************************************************************************)
EXTENDS Naturals, Sequences, FiniteSets

CONSTANTS
    Socket,    \* NotificationSocket objects
    Mark,      \* mark-as-read calls
    MaxStored, \* bound: notifications ever inserted
    Limit,     \* GET /notifications answers with the newest Limit (50)
    Budget,    \* how often each Event may happen
    Mix,       \* bound: different events in one behaviour
    Disciplines, \* what may be kept apart, as sets of Care
    None

Event == {"drop", "refresh", "expire", "net", "leave"}

\* "fetch": nothing is inserted or on its way during a fetch; "notify": calls of
\* internalNotify do not overlap; "mark": mark-as-read calls do not overlap.
Care == {"fetch", "notify", "mark"}

ASSUME FeedAssumption ==
    /\ MaxStored \in Nat /\ Limit \in Nat \ {0} /\ Mix \in Nat
    /\ Budget \in [Event -> Nat] /\ None \notin Socket /\ Disciplines \subseteq SUBSET Care

VARIABLES
    stored,   \* Postgres: how many notifications there are
    read,     \* Postgres: those that have been read
    posted,   \* those whose call of internalNotify has still to publish them
    bus,      \* Redis: published, not yet taken by the hub's subscribeLoop
    socket,   \* the NotificationSockets, with their WebSocket and its server side
    current,  \* the one of the mounted page
    token,    \* the newest access token, and the one the session has
    expired,  \* the newest token that has expired
    cache,    \* the list React Query caches
    fetch,    \* the GET /notifications in flight
    mark,     \* the mark-as-read calls, with the snapshots they took
    calm,     \* what is kept apart in this behaviour
    left      \* what remains of the budget

vars == <<stored, read, posted, bus, socket, current, token, expired, cache, fetch,
          mark, calm, left>>

-----------------------------------------------------------------------------
Id == 1..MaxStored
Entry == [id: Id, read: BOOLEAN]

\* alive is not closedByCaller, ws the state of the WebSocket.
Unused == [alive |-> FALSE, tok |-> 0, timer |-> FALSE, ws |-> "none"]
NoFetch == [st |-> "none", list |-> <<>>]
NoCache == [loaded |-> FALSE, list |-> <<>>]
NoMark == [pc |-> "idle", id |-> 0, prev |-> NoCache]

TypeOK ==
    /\ stored \in 0..MaxStored /\ read \subseteq 1..stored
    /\ posted \subseteq 1..stored /\ bus \in Seq(1..stored)
    /\ socket \in [Socket -> [alive: BOOLEAN, tok: Nat, timer: BOOLEAN,
                              ws: {"none", "connecting", "open", "closing"}]]
    /\ current \in Socket \cup {None}
    /\ token \in [newest: Nat, session: Nat] /\ expired \in Nat
    /\ cache \in [loaded: BOOLEAN, list: Seq(Entry)]
    /\ fetch \in [st: {"none", "sent", "answered"}, list: Seq(Entry)]
    /\ mark \in [Mark -> [pc: {"idle", "sent", "applied"}, id: Id \cup {0},
                          prev: [loaded: BOOLEAN, list: Seq(Entry)]]]
    /\ calm \in Disciplines /\ left \in [Event -> Nat]

Init ==
    /\ stored = 0 /\ read = {} /\ posted = {} /\ bus = <<>>
    /\ socket = [s \in Socket |-> Unused] /\ current = None
    /\ token = [newest |-> 1, session |-> 1] /\ expired = 0
    /\ cache = NoCache /\ fetch = NoFetch
    /\ mark = [m \in Mark |-> NoMark]
    /\ calm \in Disciplines /\ left = Budget

Happened == {e \in Event : left[e] < Budget[e]}
Spend(event) ==
    /\ left[event] > 0 /\ Cardinality(Happened \cup {event}) <= Mix
    /\ left' = [left EXCEPT ![event] = @ - 1]

Min2(x, y) == IF x <= y THEN x ELSE y

\* Mutant: the list is numbered from one place too low.
ListedTooLow == [k \in 1..Min2(Limit, stored) |->
                    [id |-> stored - k, read |-> (stored - k) \in read]]

\* listNotifications: newest first, at most Limit.
Listed == [k \in 1..Min2(Limit, stored) |->
              [id |-> stored + 1 - k, read |-> (stored + 1 - k) \in read]]

-----------------------------------------------------------------------------
(* notify-svc.                                                             *)

\* internalNotify inserts the row ...
InternalNotify ==
    /\ stored < MaxStored /\ stored' = stored + 1 /\ posted' = posted \cup {stored + 1}
    /\ "fetch" \in calm => fetch.st = "none"
    /\ "notify" \in calm => posted = {}
    /\ UNCHANGED <<read, bus, socket, current, token, expired, cache, fetch, mark, calm, left>>

\* ... and then publishes it, which calls that overlap do in any order.  A publish
\* that fails is logged, and one that notify-svc did not live to make is lost as well.
Publish(n) ==
    /\ n \in posted /\ posted' = posted \ {n}
    /\ \/ bus' = Append(bus, n) /\ UNCHANGED left
       \/ bus' = bus /\ Spend("net")
    /\ UNCHANGED <<stored, read, socket, current, token, expired, cache, fetch, mark, calm>>

PublishStep == \E n \in Id : Publish(n)

\* ws: a valid access token is upgraded and registered with the hub until the
\* connection ends.
Accept(s) ==
    /\ socket[s].ws = "connecting" /\ socket[s].tok > expired
    /\ socket' = [socket EXCEPT ![s].ws = "open"]
    /\ UNCHANGED <<stored, read, posted, bus, current, token, expired, cache, fetch, mark, calm, left>>

-----------------------------------------------------------------------------
(* NotificationSocket.                                                     *)

Live(s) == socket[s].ws \in {"connecting", "open"}

\* WebSocket.close(): nothing received afterwards is delivered.
Shut(o) == IF o.ws \in {"connecting", "open"} THEN [o EXCEPT !.ws = "closing"] ELSE o

\* open()
Opened(o) == [o EXCEPT !.timer = FALSE, !.ws = "connecting"]

\* connect()
Connected(tok) == Opened([Unused EXCEPT !.alive = TRUE, !.tok = tok])

\* reconnectWithToken(): onclose will reconnect.
Reconnecting(o, tok) ==
    IF o.alive THEN Shut([o EXCEPT !.tok = tok]) ELSE [o EXCEPT !.tok = tok]

\* Mutant: close() forgets the reconnect timer.
ClosedLater(o) == Shut([o EXCEPT !.alive = FALSE])

\* close()
Closed(o) == Shut([o EXCEPT !.alive = FALSE, !.timer = FALSE])

\* Mutant: a lost connection is not tried again.
GivenUp(o) == [o EXCEPT !.ws = "none"]

\* onclose, for a WebSocket that was shut, refused or lost: scheduleReconnect
\* unless the caller closed it.
AfterClose(o) == [o EXCEPT !.ws = "none", !.timer = o.alive]

OnClose(s) ==
    /\ \/ socket[s].ws = "closing"
       \/ socket[s].ws = "connecting" /\ socket[s].tok <= expired
    /\ socket' = [socket EXCEPT ![s] = AfterClose(@)]
    /\ UNCHANGED <<stored, read, posted, bus, current, token, expired, cache, fetch, mark, calm, left>>

ConnectionLost(s) ==
    /\ Live(s) /\ Spend("drop")
    /\ socket' = [socket EXCEPT ![s] = AfterClose(@)]
    /\ UNCHANGED <<stored, read, posted, bus, current, token, expired, cache, fetch, mark, calm>>

ReconnectTimer(s) ==
    /\ socket[s].timer
    /\ socket' = [socket EXCEPT ![s] = Opened(@)]
    /\ UNCHANGED <<stored, read, posted, bus, current, token, expired, cache, fetch, mark, calm, left>>

-----------------------------------------------------------------------------
(* useNotificationSocket: one effect, keyed on the session's access token. *)

Reusable(s) == ~socket[s].alive /\ socket[s].ws = "none"

\* Which of them becomes the new NotificationSocket makes no difference.
Spare(pool) == CHOOSE s \in pool : Reusable(s)

CleanedUp == IF current = None THEN socket ELSE [socket EXCEPT ![current] = Closed(@)]

\* A page with the bell is mounted; its useQuery fetches.
Mount ==
    /\ current = None
    /\ "fetch" \in calm => bus = <<>> /\ posted = {}
    /\ \E s \in Socket :
          /\ Reusable(s) /\ s = Spare(Socket) /\ current' = s
          /\ socket' = [socket EXCEPT ![s] = Connected(token.session)]
    /\ fetch' = IF fetch.st = "none" THEN [NoFetch EXCEPT !.st = "sent"] ELSE fetch
    /\ UNCHANGED <<stored, read, posted, bus, token, expired, cache, mark, calm, left>>

Unmount ==
    /\ current # None /\ Spend("leave")
    /\ socket' = CleanedUp /\ current' = None
    /\ UNCHANGED <<stored, read, posted, bus, token, expired, cache, fetch, mark, calm>>

\* A silent refresh: the listener of token.ts reconnects the socket.
TokenRefreshed ==
    /\ Spend("refresh")
    /\ token' = [token EXCEPT !.newest = @ + 1]
    /\ socket' = IF current = None THEN socket
                 ELSE [socket EXCEPT ![current] = Reconnecting(@, token.newest + 1)]
    /\ UNCHANGED <<stored, read, posted, bus, current, expired, cache, fetch, mark, calm>>

\* The session has the new token too: the effect closes its socket and opens another.
SessionUpdated ==
    /\ token.session # token.newest
    /\ token' = [token EXCEPT !.session = token.newest]
    /\ \/ current = None /\ UNCHANGED <<socket, current>>
       \/ /\ current # None
          /\ \E s \in Socket \ {current} :
                /\ Reusable(s) /\ s = Spare(Socket \ {current}) /\ current' = s
                /\ socket' = [CleanedUp EXCEPT ![s] = Connected(token.newest)]
    /\ UNCHANGED <<stored, read, posted, bus, expired, cache, fetch, mark, calm, left>>

TokenExpires ==
    /\ expired < token.newest /\ Spend("expire") /\ expired' = token.newest
    /\ UNCHANGED <<stored, read, posted, bus, socket, current, token, cache, fetch, mark, calm>>

-----------------------------------------------------------------------------
(* The cached list.                                                        *)

NewEntry(n) == [id |-> n, read |-> FALSE]

\* Mutant: a push goes to the end of the list.
PushedBehind(list, n) == Append(list, NewEntry(n))

\* onMessage: in front of the list, which it becomes when none is loaded.
PushedTo(list, n) == <<NewEntry(n)>> \o list

\* The hub takes a message from Redis and writes it to the connections it holds; a
\* tab without one misses it.  What a connection loses on the way is lost with it.

DeliverLocal ==
    /\ bus # <<>> /\ bus' = Tail(bus)
    /\ cache' = IF \E s \in Socket : socket[s].ws = "open"
                THEN [loaded |-> TRUE, list |-> PushedTo(cache.list, Head(bus))] ELSE cache
    /\ UNCHANGED <<stored, read, posted, socket, current, token, expired, fetch, mark, calm, left>>

\* React Query fetches again when the window gets the focus.
Refetch ==
    /\ current # None /\ fetch.st = "none"
    /\ "fetch" \in calm => bus = <<>> /\ posted = {}
    /\ fetch' = [NoFetch EXCEPT !.st = "sent"]
    /\ UNCHANGED <<stored, read, posted, bus, socket, current, token, expired, cache, mark, calm, left>>

ListNotifications ==
    /\ fetch.st = "sent"
    /\ fetch' = [st |-> "answered", list |-> Listed]
    /\ UNCHANGED <<stored, read, posted, bus, socket, current, token, expired, cache, mark, calm, left>>

\* Mutant: a list that is already there is kept.
FetchedOnce == IF cache.loaded THEN cache.list ELSE fetch.list

\* The answer replaces the list, whatever was pushed meanwhile.
Fetched == fetch.list

FetchDone ==
    /\ fetch.st = "answered" /\ fetch' = NoFetch
    /\ cache' = [loaded |-> TRUE, list |-> Fetched]
    /\ UNCHANGED <<stored, read, posted, bus, socket, current, token, expired, mark, calm, left>>

MarkedIn(list, n) == [k \in DOMAIN list |-> IF list[k].id = n THEN [list[k] EXCEPT !.read = TRUE]
                                            ELSE list[k]]

\* handleNotificationClick on an unread entry, then onMutate: cancel the fetch,
\* keep the list, mark the entry.
MarkRead(m) ==
    /\ current # None /\ mark[m].pc = "idle"
    /\ "mark" \in calm => \A o \in Mark : mark[o].pc = "idle"
    /\ \E k \in DOMAIN cache.list :
          /\ ~cache.list[k].read
          /\ mark' = [mark EXCEPT ![m] = [pc |-> "sent", id |-> cache.list[k].id, prev |-> cache]]
          /\ cache' = [cache EXCEPT !.list = MarkedIn(@, cache.list[k].id)]
    /\ fetch' = NoFetch
    /\ UNCHANGED <<stored, read, posted, bus, socket, current, token, expired, calm, left>>

\* PATCH /notifications/{id}/read in notify-svc.
MarkServed(m) ==
    /\ mark[m].pc = "sent"
    /\ mark' = [mark EXCEPT ![m].pc = "applied"] /\ read' = read \cup {mark[m].id}
    /\ UNCHANGED <<stored, posted, bus, socket, current, token, expired, cache, fetch, calm, left>>

MarkAnswered(m) ==
    /\ mark[m].pc = "applied"
    /\ mark' = [mark EXCEPT ![m] = NoMark]
    /\ UNCHANGED <<stored, read, posted, bus, socket, current, token, expired, cache, fetch, calm, left>>

\* Mutant: an error leaves the optimistic list.
KeptAnyway(m) == cache

\* onError: the snapshot comes back.
RolledBack(m) == IF mark[m].prev.loaded THEN mark[m].prev ELSE cache

\* The call or its answer is lost.
MarkFails(m) ==
    /\ mark[m].pc \in {"sent", "applied"} /\ Spend("net")
    /\ cache' = RolledBack(m)
    /\ mark' = [mark EXCEPT ![m] = NoMark]
    /\ UNCHANGED <<stored, read, posted, bus, socket, current, token, expired, fetch, calm>>

-----------------------------------------------------------------------------
SocketStep(s) == Accept(s) \/ OnClose(s) \/ ReconnectTimer(s)
MarkStep(m) == MarkServed(m) \/ MarkAnswered(m)
FetchStep == ListNotifications \/ FetchDone

Next ==
    \/ InternalNotify \/ PublishStep \/ DeliverLocal
    \/ \E s \in Socket : SocketStep(s) \/ ConnectionLost(s)
    \/ Mount \/ Unmount \/ TokenRefreshed \/ SessionUpdated \/ TokenExpires
    \/ Refetch \/ FetchStep
    \/ \E m \in Mark : MarkRead(m) \/ MarkStep(m) \/ MarkFails(m)

Spec == Init /\ [][Next]_vars

\* Calls go on and are answered, the hub delivers, timers fire and effects run.  Nothing
\* obliges the user to open a page, to return to it or to mark anything.
FairSpec ==
    /\ Spec
    /\ WF_vars(PublishStep) /\ WF_vars(DeliverLocal) /\ WF_vars(SessionUpdated) /\ WF_vars(FetchStep)
    /\ \A s \in Socket : WF_vars(SocketStep(s))
    /\ \A m \in Mark : WF_vars(MarkStep(m))

-----------------------------------------------------------------------------
(* Properties.                                                             *)

\* A tab never has two live connections, and none when no page shows the bell: no
\* timer, late close or effect reopens a socket its page has closed.
OneLiveSocket ==
    /\ \A s, t \in Socket : Live(s) /\ Live(t) => s = t
    /\ \A s \in Socket : Live(s) => s = current

\* Where marks do not overlap, what the bell shows as read is read in the database,
\* or on its way there: a rollback never brings back a read mark that failed.
ReadIsTrue ==
    "mark" \in calm => \A k \in DOMAIN cache.list : cache.list[k].read =>
        cache.list[k].id \in read \/ \E m \in Mark : mark[m].pc = "sent" /\ mark[m].id = cache.list[k].id

\* Where nothing is inserted or on its way during a fetch, the list shows no notification
\* twice, in whatever order calls that overlap publish, and whatever connections, marks and
\* rollbacks do; where the calls do not overlap either, it is newest first.
FeedInOrder ==
    "fetch" \in calm =>
        /\ \A i, j \in DOMAIN cache.list : cache.list[i].id = cache.list[j].id => i = j
        /\ "notify" \in calm =>
              \A i, j \in DOMAIN cache.list : i < j => cache.list[i].id > cache.list[j].id

\* plan.md:119, ws.ts:64-66: while a page shows the bell and the newest token is valid,
\* the socket ends up connected with that token, however many times it was lost.
FreshSocket ==
    <>[](current # None /\ token.newest > expired)
        => <>[](current # None /\ socket[current].ws = "open" /\ socket[current].tok = token.newest)

\* A feed that is fetched again and again ends up equal to the database, whatever
\* was lost, pushed twice, overwritten by a late answer or rolled back before.
Converges == []<>(fetch.st = "sent") => <>[](cache.list = Listed)
=============================================================================
