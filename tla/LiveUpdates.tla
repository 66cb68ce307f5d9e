----------------------------- MODULE LiveUpdates -----------------------------
(***************************************************************************)
(* How a change reaches the screen: a request commits and publishes          *)
(* (WebSocketEventPublisher), ConnectionManager sends the message to the    *)
(* topic's connections one await at a time, the browser's socket for the    *)
(* path (services/websocket.ts) hands it to the mounted components, and     *)
(* they refetch over REST (invalidateQueries).  One topic, one browser tab; *)
(* any number of sockets, because the client may open more than one.        *)
(*                                                                          *)
(* Nothing is sent twice, and nothing is sent again after a reconnect: what *)
(* was published while the tab had no socket is lost on it.                 *)
(***************************************************************************)
EXTENDS Naturals, FiniteSets

CONSTANTS
    Sockets,      \* WebSocket objects, used again once both ends forgot them
    Components,   \* users of useWebSocketTopic for the path
    NoSocket,
    MaxChanges,   \* bound: commits
    MaxDrops      \* bound: lost connections and restarts of the server

ASSUME LiveAssumption == NoSocket \notin Sockets /\ MaxChanges \in Nat /\ MaxDrops \in Nat

VARIABLES
    committed,    \* commits so far, which is what a fetch returns
    unpublished,  \* requests between their commit and their publish
    sequence,     \* _sequences[topic]
    subscribers,  \* _subscribers[topic]
    casts,        \* broadcasts under way: [number, todo, dead]
    sockets,      \* socket -> [state, up, owned, inbox, reached: the number sent last]
    entry,        \* the client's ManagedSocket: [ws, handlers, timer, lost]
    orphans,      \* timers whose entry has been deleted
    view,         \* the cached query: [shown, fetch]
    missed,       \* history: did a change pass the tab by since it last asked?
    doubled,      \* history: did a component subscribe while a timer was pending?
    drops

server == <<unpublished, sequence, subscribers, casts>>
vars == <<committed, server, sockets, entry, orphans, view, missed, doubled, drops>>

NoEntry == [ws |-> NoSocket, handlers |-> {}, timer |-> FALSE, lost |-> 0]
Unused == [state |-> "closed", up |-> FALSE, owned |-> FALSE, inbox |-> 0, reached |-> 0]
NoFetch == [phase |-> "none", value |-> 0]

\* The sockets that hand messages to handlers: those of the entry in the map.
Owned == {c \in Sockets : sockets[c].owned}
Heard == {c \in subscribers : sockets[c].owned /\ sockets[c].up}
Connected == Heard # {}

-----------------------------------------------------------------------------
(* The server                                                               *)

\* A request commits; its publish comes after an await.
Commit ==
    /\ committed < MaxChanges
    /\ committed' = committed + 1 /\ unpublished' = unpublished + 1
    /\ UNCHANGED <<sequence, subscribers, casts, sockets, entry, orphans, view, missed, doubled, drops>>

\* Slip: a connection that is still being sent the last message is skipped.
PublishToIdle ==
    /\ unpublished > 0
    /\ unpublished' = unpublished - 1
    /\ sequence' = sequence + 1
    /\ casts' = casts \cup {[number |-> sequence + 1, dead |-> {},
                             todo |-> subscribers \ UNION {m.todo : m \in casts}]}
    /\ missed' = (missed \/ ~ Connected)
    /\ UNCHANGED <<committed, subscribers, sockets, entry, orphans, view, doubled, drops>>

\* publish and the start of broadcast: the number and the copy of the
\* subscribers are taken in one go.
Publish ==
    /\ unpublished > 0
    /\ unpublished' = unpublished - 1
    /\ sequence' = sequence + 1
    /\ casts' = casts \cup {[number |-> sequence + 1, todo |-> subscribers, dead |-> {}]}
    /\ missed' = (missed \/ ~ Connected)
    /\ UNCHANGED <<committed, subscribers, sockets, entry, orphans, view, doubled, drops>>

\* One turn of the loop.  A connection that is gone raises and is noted.
Send(m, c) ==
    /\ c \in m.todo
    /\ casts' = (casts \ {m}) \cup
                {[m EXCEPT !.todo = @ \ {c}, !.dead = IF sockets[c].up THEN @ ELSE @ \cup {c}]}
    /\ IF sockets[c].up
       THEN sockets' = [sockets EXCEPT ![c].reached = @ + 1,
                                       ![c].inbox = IF sockets[c].owned THEN @ + 1 ELSE 0]
       ELSE UNCHANGED sockets
    /\ UNCHANGED <<committed, unpublished, sequence, subscribers, entry, orphans, view, missed, doubled, drops>>

\* Slip: the topic goes with its dead connections.
SendEndDropsAll(m) ==
    /\ m.todo = {}
    /\ casts' = casts \ {m}
    /\ subscribers' = IF m.dead = {} THEN subscribers ELSE {}
    /\ UNCHANGED <<committed, unpublished, sequence, sockets, entry, orphans, view, missed, doubled, drops>>

\* The loop is over: the dead are unsubscribed.
SendEnd(m) ==
    /\ m.todo = {}
    /\ casts' = casts \ {m}
    /\ subscribers' = subscribers \ m.dead
    /\ UNCHANGED <<committed, unpublished, sequence, sockets, entry, orphans, view, missed, doubled, drops>>

\* _serve: accept, and subscribe.
Accept(c) ==
    /\ sockets[c].state = "connecting" /\ sockets[c].up
    /\ subscribers' = subscribers \cup {c}
    /\ sockets' = [sockets EXCEPT ![c].state = "open", ![c].reached = sequence]
    /\ UNCHANGED <<committed, unpublished, sequence, casts, entry, orphans, view, missed, doubled, drops>>

\* receive_text raises WebSocketDisconnect; finally, unsubscribe.
Disconnect(c) ==
    /\ c \in subscribers /\ ~ sockets[c].up
    /\ subscribers' = subscribers \ {c}
    /\ UNCHANGED <<committed, unpublished, sequence, casts, sockets, entry, orphans, view, missed, doubled, drops>>

\* The connection breaks, with what was on its way.
Drop(c) ==
    /\ drops < MaxDrops /\ sockets[c].up
    /\ drops' = drops + 1
    /\ sockets' = [sockets EXCEPT ![c].up = FALSE, ![c].inbox = 0, ![c].reached = 0]
    /\ missed' = (missed \/ sockets[c].owned)
    /\ UNCHANGED <<committed, server, entry, orphans, view, doubled>>

\* The server restarts: connections, broadcasts and sequence numbers live in
\* the process.
Restart ==
    /\ drops < MaxDrops
    /\ drops' = drops + 1
    /\ unpublished' = 0 /\ sequence' = 0 /\ subscribers' = {} /\ casts' = {}
    /\ sockets' = [c \in Sockets |-> [sockets[c] EXCEPT !.up = FALSE, !.inbox = 0, !.reached = 0]]
    /\ missed' = TRUE
    /\ UNCHANGED <<committed, entry, orphans, view, doubled>>

-----------------------------------------------------------------------------
(* The browser tab                                                          *)

\* Slip: a fetch that is under way is always left to finish.
NeverCancels(v) == v.fetch.phase = "none"

\* invalidateQueries cancels the fetch under way, except the very first, which
\* the query cache goes on waiting for.
Cancels(v) == v.fetch.phase = "none" \/ v.shown > 0

Ask(v) == [v EXCEPT !.fetch = [NoFetch EXCEPT !.phase = "asked"]]

\* What the REST answer holds is read now, and shown later.
Answer ==
    /\ view.fetch.phase = "asked"
    /\ view' = [view EXCEPT !.fetch = [phase |-> "answered", value |-> committed]]
    /\ UNCHANGED <<committed, server, sockets, entry, orphans, missed, doubled, drops>>

Show ==
    /\ view.fetch.phase = "answered"
    /\ view' = [shown |-> view.fetch.value, fetch |-> NoFetch]
    /\ UNCHANGED <<committed, server, sockets, entry, orphans, missed, doubled, drops>>

\* onmessage: every handler of the entry refetches (without handlers, nothing
\* happens, and such messages are not counted).
Message(c) ==
    /\ sockets[c].state = "open" /\ sockets[c].inbox > 0
    /\ sockets' = [sockets EXCEPT ![c].inbox = @ - 1]
    /\ view' = IF Cancels(view) THEN Ask(view) ELSE view
    /\ missed' = (view.fetch.phase # "none" /\ view.shown = 0)
    /\ UNCHANGED <<committed, server, entry, orphans, doubled, drops>>

\* A WebSocket object neither end remembers.
Free(c) ==
    /\ sockets[c].state = "closed" /\ c \notin subscribers
    /\ \A m \in casts : c \notin m.todo \cup m.dead

Opened(c, owned) ==
    [sockets EXCEPT ![c] = [Unused EXCEPT !.state = "connecting", !.up = TRUE, !.owned = owned]]

\* openSocket for the entry; its old socket, if any, is no longer entry.ws.
OpenSocket(c) == Free(c) /\ sockets' = Opened(c, TRUE)

\* Slip: a socket that is still connecting will not do.
NeedsOpen(e) == e.ws = NoSocket \/ sockets[e.ws].state # "open"

NeedsSocket(e) == e.ws = NoSocket \/ sockets[e.ws].state = "closed"

\* A component mounts: ensureSocket, its handler, and its query, which is
\* fetched unless it is being fetched or what is cached is young (staleTime).
Subscribe(k) ==
    /\ k \notin entry.handlers
    /\ doubled' = (doubled \/ (NeedsSocket(entry) /\ (entry.timer \/ entry.lost > 0)))
    /\ IF NeedsSocket(entry)
       THEN \E c \in Sockets :
              /\ OpenSocket(c)
              /\ entry' = [entry EXCEPT !.ws = c, !.handlers = @ \cup {k}]
       ELSE entry' = [entry EXCEPT !.handlers = @ \cup {k}] /\ UNCHANGED sockets
    /\ \/ view.fetch.phase = "none" /\ view' = Ask(view) /\ missed' = FALSE
       \/ (view.fetch.phase # "none" \/ view.shown > 0) /\ UNCHANGED <<view, missed>>
    /\ UNCHANGED <<committed, server, orphans, drops>>

\* It unmounts.  The last one clears the timer the entry knows, closes the
\* socket the entry knows, and deletes the entry.
Unsubscribe(k) ==
    /\ k \in entry.handlers
    /\ IF entry.handlers # {k}
       THEN /\ entry' = [entry EXCEPT !.handlers = @ \ {k}]
            /\ UNCHANGED <<sockets, orphans, missed>>
       ELSE /\ entry' = NoEntry
            /\ orphans' = orphans + entry.lost
            /\ sockets' = [c \in Sockets |->
                             IF c = entry.ws
                             THEN Unused
                             ELSE [sockets[c] EXCEPT !.owned = FALSE, !.inbox = 0]]
            /\ missed' = TRUE
    /\ UNCHANGED <<committed, server, view, doubled, drops>>

\* onclose: while anybody listens, a reconnect is scheduled; a timer that is
\* pending already goes on, but the entry forgets it.
Close(c) ==
    /\ sockets[c].state # "closed" /\ ~ sockets[c].up
    /\ sockets' = [sockets EXCEPT ![c].state = "closed", ![c].owned = FALSE]
    /\ entry' = IF sockets[c].owned
                THEN [entry EXCEPT !.timer = TRUE, !.lost = IF entry.timer THEN @ + 1 ELSE @]
                ELSE entry
    /\ UNCHANGED <<committed, server, orphans, view, missed, doubled, drops>>

\* The entry's timer fires, or one it has forgotten.
Reconnect(c) ==
    /\ OpenSocket(c)
    /\ \/ entry.timer /\ entry' = [entry EXCEPT !.ws = c, !.timer = FALSE]
       \/ entry.lost > 0 /\ entry' = [entry EXCEPT !.ws = c, !.lost = @ - 1]
    /\ UNCHANGED <<committed, server, orphans, view, missed, doubled, drops>>

\* A timer of a deleted entry fires and opens a socket nobody listens to.
Haunt(c) ==
    /\ orphans > 0 /\ Free(c) /\ c # entry.ws
    /\ orphans' = orphans - 1
    /\ sockets' = Opened(c, FALSE)
    /\ UNCHANGED <<committed, server, entry, view, missed, doubled, drops>>

-----------------------------------------------------------------------------

Init ==
    /\ committed = 1 /\ unpublished = 0 /\ sequence = 0 /\ subscribers = {} /\ casts = {}
    /\ sockets = [c \in Sockets |-> Unused]
    /\ entry = NoEntry /\ orphans = 0
    /\ view = [shown |-> 0, fetch |-> NoFetch]
    /\ missed = FALSE /\ doubled = FALSE /\ drops = 0

Next ==
    \/ Commit \/ Publish \/ Restart
    \/ \E m \in casts : SendEnd(m) \/ \E c \in Sockets : Send(m, c)
    \/ \E c \in Sockets : Accept(c) \/ Disconnect(c) \/ Drop(c)
    \/ Answer \/ Show
    \/ \E k \in Components : Subscribe(k) \/ Unsubscribe(k)
    \/ \E c \in Sockets : Message(c) \/ Close(c) \/ Reconnect(c) \/ Haunt(c)

Spec == Init /\ [][Next]_vars

-----------------------------------------------------------------------------
(* Properties                                                               *)

\* "sequence is per-topic and monotonically increasing, so clients can detect
\* gaps" (WebSocketEventPublisher): once no broadcast is under way, a connection
\* that is up has been sent every number since it subscribed, each of them
\* once, although broadcasts overlap and connections come, go and die in them.
NoGap ==
    casts = {} => \A c \in subscribers :
        sockets[c].up => sockets[c].reached = sequence

\* When all is quiet, the tab shows what is committed, unless something was
\* published while it had no connection, or a message came before the first
\* answer (after which nothing tells it to ask again): the message follows the
\* commit, every message makes the tab ask again, and an answer that is older
\* than the message is thrown away.
Quiet ==
    /\ unpublished = 0 /\ casts = {} /\ view.fetch.phase = "none"
    /\ \A c \in Owned : sockets[c].inbox = 0
FreshUnlessMissed ==
    entry.handlers # {} /\ Quiet /\ ~ missed => view.shown = committed

\* "Multiple subscribers to the same path share one socket ... the socket
\* closes once the last subscriber leaves" (subscribeTopic), unless one of them
\* came while a reconnect was pending.
SharesOneSocket ==
    ~ doubled =>
        /\ Cardinality({c \in Owned : sockets[c].state # "closed"}) <= 1
        /\ \A c \in Sockets \ Owned : sockets[c].state = "closed"

\* A mounted component is never left in silence: its entry has a socket that is
\* not closed (and whose close would set a timer) or a timer pending, and the
\* server sends to every connection that both ends hold open; no interleaving
\* of timers, closes, broadcasts to dead connections and mounts breaks this.
NeverSilent ==
    /\ entry.handlers # {} =>
         entry.timer \/ entry.lost > 0 \/ \E c \in Owned : sockets[c].state # "closed"
    /\ \A c \in Sockets : sockets[c].state = "open" /\ sockets[c].up => c \in subscribers
===============================================================================
