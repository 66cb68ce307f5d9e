--------------------------- MODULE LiveUpdatesProofs ---------------------------
(***************************************************************************)
(* Theorems about LiveUpdates, for every number of sockets, components,     *)
(* commits and lost connections.                                            *)
(***************************************************************************)
EXTENDS LiveUpdates, FiniteSetTheorems, TLAPS

-----------------------------------------------------------------------------
(* The inductive invariant behind NoGap, SharesOneSocket and NeverSilent     *)

SocketStates ==
    [state : {"closed", "connecting", "open"}, up : BOOLEAN, owned : BOOLEAN,
     inbox : Nat, reached : Nat]
Entries ==
    [ws : Sockets \cup {NoSocket}, handlers : SUBSET Components, timer : BOOLEAN, lost : Nat]
Casts == [number : Nat, todo : SUBSET Sockets, dead : SUBSET Sockets]

LiveTypeOK ==
    /\ sequence \in Nat /\ orphans \in Nat /\ doubled \in BOOLEAN
    /\ subscribers \subseteq Sockets /\ casts \subseteq Casts
    /\ sockets \in [Sockets -> SocketStates] /\ entry \in Entries

\* The numbers a connection has yet to be sent by the broadcasts under way.
Unsent(c) == {m.number : m \in {m \in casts : c \in m.todo}}

\* Broadcasts have numbers of their own; the connections they found dead are.
Broadcasts ==
    /\ \A m \in casts : m.number \in 1 .. sequence /\ \A c \in m.dead : ~ sockets[c].up
    /\ \A m, n \in casts : m.number = n.number => m = n

\* A connection is sent what is published from its Accept on, and counts it.
Counted(c) ==
    /\ sockets[c].state = "connecting" => c \notin subscribers /\ Unsent(c) = {}
    /\ sockets[c].state = "open" /\ sockets[c].up => c \in subscribers
    /\ c \in subscribers /\ sockets[c].up => sockets[c].reached + Cardinality(Unsent(c)) = sequence

\* Only the mounted have an entry, with a socket or a timer.
Listening ==
    /\ entry.handlers = {} => entry.ws = NoSocket /\ ~ entry.timer /\ entry.lost = 0 /\ Owned = {}
    /\ entry.handlers # {} => entry.timer \/ entry.lost > 0 \/ Owned # {}
    /\ \A c \in Owned : sockets[c].state # "closed"

\* Until a component has come while a timer was pending, the entry's socket is
\* the only one, and there is none while the timer runs.
Single ==
    ~ doubled =>
        /\ orphans = 0 /\ entry.lost = 0
        /\ Owned \subseteq {entry.ws} /\ (entry.timer => Owned = {})
        /\ \A c \in Sockets \ Owned : sockets[c].state = "closed"

LiveInv == LiveTypeOK /\ Broadcasts /\ (\A c \in Sockets : Counted(c)) /\ Listening /\ Single

-----------------------------------------------------------------------------
(* The inductive invariant behind FreshUnlessMissed                         *)

ViewTypeOK ==
    /\ committed \in Nat /\ unpublished \in Nat /\ missed \in BOOLEAN
    /\ view \in [shown : Nat, fetch : [phase : {"none", "asked", "answered"}, value : Nat]]

\* What is on its way to the handlers: a publish, a message the server has yet
\* to send to one of their sockets, or one that has been sent.
WillBeTold ==
    \/ unpublished > 0
    \/ \E m \in casts : \E c \in m.todo : sockets[c].owned /\ sockets[c].up
    \/ \E c \in Owned : sockets[c].inbox > 0

\* What is on the screen, or will be once the fetch is over, is what is committed.
UpToDate ==
    CASE view.fetch.phase = "none" -> view.shown = committed
      [] view.fetch.phase = "answered" -> view.fetch.value = committed
      [] OTHER -> TRUE

\* While nobody is mounted nothing is asked for: what is cached may be old, or
\* nothing is.
FreshInv ==
    /\ ViewTypeOK
    /\ \A c \in Sockets : sockets[c].inbox > 0 => sockets[c].owned /\ sockets[c].up
    /\ entry.handlers = {} => missed \/ (view.fetch.phase = "none" /\ view.shown = 0)
    /\ entry.handlers # {} => missed \/ WillBeTold \/ UpToDate


-----------------------------------------------------------------------------
(* Shapes                                                                   *)

\* What LiveTypeOK says of a socket.
LEMMA SocketShape ==
  ASSUME LiveTypeOK, NEW c \in Sockets
  PROVE  /\ sockets[c] \in SocketStates
         /\ sockets[c].state \in {"closed", "connecting", "open"}
         /\ sockets[c].up \in BOOLEAN /\ sockets[c].owned \in BOOLEAN
         /\ sockets[c].inbox \in Nat /\ sockets[c].reached \in Nat
  BY DEF LiveTypeOK, SocketStates

\* The registry's entry.
LEMMA EntryShape ==
  ASSUME LiveTypeOK
  PROVE  /\ entry.ws \in Sockets \cup {NoSocket} /\ entry.handlers \subseteq Components
         /\ entry.timer \in BOOLEAN /\ entry.lost \in Nat
  BY DEF LiveTypeOK, Entries

\* A broadcast under way.
LEMMA CastShape ==
  ASSUME LiveTypeOK, NEW m \in casts
  PROVE  m \in Casts /\ m.number \in Nat /\ m.todo \subseteq Sockets /\ m.dead \subseteq Sockets
  BY DEF LiveTypeOK, Casts

\* A socket that was never used.
LEMMA UnusedShape ==
  /\ Unused \in SocketStates /\ Unused.state = "closed" /\ Unused.up = FALSE
  /\ Unused.owned = FALSE /\ NoEntry \in Entries
<1>1. Unused \in SocketStates /\ Unused.state = "closed" /\ Unused.up = FALSE /\ Unused.owned = FALSE
  BY DEF Unused, SocketStates
<1>2. NoEntry \in Entries
  BY DEF NoEntry, Entries
<1>. QED BY <1>1, <1>2

\* A socket that has just been opened, the others being as they were.
LEMMA OpenedShape ==
  ASSUME LiveTypeOK, NEW c \in Sockets, NEW o \in BOOLEAN
  PROVE  /\ Opened(c, o) \in [Sockets -> SocketStates]
         /\ Opened(c, o)[c].state = "connecting" /\ Opened(c, o)[c].up = TRUE
         /\ Opened(c, o)[c].owned = o
         /\ \A d \in Sockets \ {c} : Opened(c, o)[d] = sockets[d]
<1>. DEFINE q == [Unused EXCEPT !.state = "connecting", !.up = TRUE, !.owned = o]
<1>1. q \in SocketStates /\ q.state = "connecting" /\ q.up = TRUE /\ q.owned = o
  BY UnusedShape DEF SocketStates
<1>2. Opened(c, o) = [sockets EXCEPT ![c] = q]
  BY DEF Opened
<1>. HIDE DEF q
<1>. QED BY <1>1, <1>2 DEF LiveTypeOK

\* The numbers that a connection has yet to be sent are finitely many.
LEMMA UnsentFinite ==
  ASSUME LiveTypeOK, Broadcasts, NEW c \in Sockets
  PROVE  /\ Unsent(c) \subseteq 1 .. sequence /\ IsFiniteSet(Unsent(c))
         /\ Cardinality(Unsent(c)) \in Nat
<1>1. Unsent(c) \subseteq 1 .. sequence
  BY DEF Unsent, Broadcasts
<1>2. IsFiniteSet(1 .. sequence)
  BY FS_Interval DEF LiveTypeOK
<1>3. IsFiniteSet(Unsent(c))
  BY <1>1, <1>2, FS_Subset
<1>. QED BY <1>1, <1>3, FS_CardinalityType

-----------------------------------------------------------------------------
(* What a step leaves alone                                                 *)

\* A step that leaves the server alone, and opens only free sockets, keeps what
\* the server knows of its connections.
LEMMA SameServer ==
  ASSUME LiveInv, UNCHANGED <<sequence, subscribers, casts>>,
         \A c \in Sockets : sockets'[c].up =>
            \/ sockets[c].up /\ sockets'[c].state = sockets[c].state
               /\ sockets'[c].reached = sockets[c].reached
            \/ Free(c) /\ sockets'[c].state = "connecting",
         \A c \in Sockets : sockets'[c].state = "connecting" =>
            sockets[c].state = "connecting" \/ Free(c)
  PROVE  Broadcasts' /\ \A c \in Sockets : Counted(c)'
<1>1. Broadcasts'
  <2>1. ASSUME NEW m \in casts, NEW c \in m.dead PROVE ~ sockets'[c].up
    <3>1. c \in Sockets
      BY <2>1, CastShape DEF LiveInv
    <3>2. ~ sockets[c].up /\ ~ Free(c)
      BY <2>1 DEF LiveInv, Broadcasts, Free
    <3>. QED BY <3>1, <3>2
  <2>. QED BY <2>1 DEF LiveInv, Broadcasts
<1>2. ASSUME NEW c \in Sockets PROVE Counted(c)'
  <2>1. Unsent(c)' = Unsent(c)
    BY DEF Unsent
  <2>2. Free(c) => c \notin subscribers /\ Unsent(c) = {}
    BY DEF Free, Unsent
  <2>3. Counted(c)
    BY DEF LiveInv
  <2>4. sockets'[c].state = "connecting" => c \notin subscribers /\ Unsent(c) = {}
    BY <2>2, <2>3 DEF Counted
  <2>5. sockets'[c].state = "open" /\ sockets'[c].up => c \in subscribers
    BY <2>3 DEF Counted
  <2>6. c \in subscribers /\ sockets'[c].up
          => sockets'[c].reached + Cardinality(Unsent(c)) = sequence
    BY <2>2, <2>3 DEF Counted
  <2>. QED BY <2>1, <2>4, <2>5, <2>6 DEF Counted
<1>. QED BY <1>1, <1>2

\* A step that leaves the entry alone, and whose sockets it is, keeps what the
\* tab knows of them.
LEMMA SameTab ==
  ASSUME LiveInv, UNCHANGED <<entry, orphans, doubled>>,
         \A c \in Sockets : /\ sockets'[c].owned = sockets[c].owned
                            /\ sockets'[c].state = "closed" <=> sockets[c].state = "closed"
  PROVE  Listening' /\ Single'
<1>1. Owned' = Owned
  BY DEF Owned
<1>2. Owned \subseteq Sockets
  BY DEF Owned
<1>3. Listening'
  BY <1>1, <1>2 DEF LiveInv, Listening
<1>4. Single'
  BY <1>1, <1>2 DEF LiveInv, Single
<1>. QED BY <1>3, <1>4

-----------------------------------------------------------------------------
(* Steps of the server                                                      *)

\* publish: the subscribers of this moment have one more number to be sent.
LEMMA PublishKeeps ==
  ASSUME LiveInv, Publish
  PROVE  LiveInv'
<1>. DEFINE m == [number |-> sequence + 1, todo |-> subscribers, dead |-> {}]
<1>1. /\ sequence' = sequence + 1 /\ casts' = casts \cup {m}
      /\ UNCHANGED <<subscribers, sockets, entry, orphans, doubled>>
  BY DEF Publish
<1>2. m \in Casts /\ m.number = sequence + 1 /\ m.todo = subscribers /\ m.dead = {}
  BY DEF LiveInv, LiveTypeOK, Casts
<1>3. \A n \in casts : n.number \in 1 .. sequence
  BY DEF LiveInv, Broadcasts
<1>4. sequence \in Nat
  BY DEF LiveInv, LiveTypeOK
<1>. HIDE DEF m
<1>5. LiveTypeOK'
  BY <1>1, <1>2 DEF LiveInv, LiveTypeOK
<1>6. Broadcasts'
  <2>1. \A n \in casts' : n.number \in 1 .. sequence' /\ \A c \in n.dead : ~ sockets'[c].up
    BY <1>1, <1>2, <1>3, <1>4 DEF LiveInv, Broadcasts
  <2>2. \A n \in casts : n.number # m.number
    BY <1>2, <1>3, <1>4
  <2>3. \A n, o \in casts' : n.number = o.number => n = o
    BY <1>1, <2>2 DEF LiveInv, Broadcasts
  <2>. QED BY <2>1, <2>3 DEF Broadcasts
<1>7. ASSUME NEW c \in Sockets PROVE Counted(c)'
  <2>1. Unsent(c)' = IF c \in subscribers THEN Unsent(c) \cup {sequence + 1} ELSE Unsent(c)
    BY <1>1, <1>2 DEF Unsent
  <2>2. IsFiniteSet(Unsent(c)) /\ sequence + 1 \notin Unsent(c) /\ Cardinality(Unsent(c)) \in Nat
    BY <1>4, UnsentFinite DEF LiveInv
  <2>3. Counted(c)
    BY DEF LiveInv
  <2>4. CASE c \in subscribers
    <3>1. Cardinality(Unsent(c)') = Cardinality(Unsent(c)) + 1
      BY <2>1, <2>2, <2>4, FS_AddElement
    <3>2. sockets[c].reached \in Nat
      BY SocketShape DEF LiveInv
    <3>. QED BY <1>1, <1>4, <2>2, <2>3, <2>4, <3>1, <3>2 DEF Counted
  <2>5. CASE c \notin subscribers
    BY <1>1, <2>1, <2>3, <2>5 DEF Counted
  <2>. QED BY <2>4, <2>5
<1>8. Listening' /\ Single'
  BY <1>1, SameTab
<1>. QED BY <1>5, <1>6, <1>7, <1>8 DEF LiveInv

\* send_json: the connection counts the number, or is noted as dead.
LEMMA SendKeeps ==
  ASSUME LiveInv, NEW m \in casts, NEW c \in Sockets, Send(m, c)
  PROVE  LiveInv'
<1>. DEFINE up == sockets[c].up
            dead == IF up THEN m.dead ELSE m.dead \cup {c}
            n == [m EXCEPT !.todo = @ \ {c}, !.dead = dead]
            inbox == IF sockets[c].owned THEN sockets[c].inbox + 1 ELSE 0
            s == [sockets[c] EXCEPT !.reached = @ + 1, !.inbox = inbox]
<1>1. m \in Casts /\ m.number \in Nat /\ m.todo \subseteq Sockets /\ m.dead \subseteq Sockets
  BY CastShape DEF LiveInv
<1>2. n \in Casts /\ n.number = m.number /\ n.todo = m.todo \ {c} /\ n.dead = dead
  BY <1>1 DEF Casts
<1>3. casts' = (casts \ {m}) \cup {n}
  BY DEF Send
<1>4. c \in m.todo /\ UNCHANGED <<sequence, subscribers, entry, orphans, doubled>>
  BY DEF Send
<1>5. sockets[c] \in SocketStates /\ sockets[c].reached \in Nat /\ inbox \in Nat
  BY SocketShape DEF LiveInv
<1>6. sockets' = IF up THEN [sockets EXCEPT ![c] = s] ELSE sockets
  BY DEF Send
<1>7. /\ s \in SocketStates /\ s.reached = sockets[c].reached + 1 /\ s.state = sockets[c].state
      /\ s.up = sockets[c].up /\ s.owned = sockets[c].owned
  <2>1. sockets[c].reached + 1 \in Nat
    BY <1>5
  <2>. DEFINE reached == sockets[c].reached + 1
  <2>. HIDE DEF inbox, reached, up, dead, n
  <2>2. /\ [sockets[c] EXCEPT !.reached = reached, !.inbox = inbox] \in SocketStates
        /\ [sockets[c] EXCEPT !.reached = reached, !.inbox = inbox].reached = reached
        /\ [sockets[c] EXCEPT !.reached = reached, !.inbox = inbox].state = sockets[c].state
        /\ [sockets[c] EXCEPT !.reached = reached, !.inbox = inbox].up = sockets[c].up
        /\ [sockets[c] EXCEPT !.reached = reached, !.inbox = inbox].owned = sockets[c].owned
    <3>1. reached \in Nat
      BY <2>1 DEF reached
    <3>. QED BY <1>5, <3>1 DEF SocketStates
  <2>. QED BY <2>2 DEF reached
<1>. HIDE DEF n, s, inbox
<1>8. ASSUME NEW d \in Sockets
      PROVE  sockets'[d] = IF d = c /\ up THEN s ELSE sockets[d]
  BY <1>6 DEF LiveInv, LiveTypeOK
<1>9. LiveTypeOK'
  BY <1>2, <1>3, <1>4, <1>6, <1>7 DEF LiveInv, LiveTypeOK
<1>10. Broadcasts'
  <2>1. ASSUME NEW k \in casts' PROVE k.number \in 1 .. sequence' /\ \A d \in k.dead : ~ sockets'[d].up
    <3>1. CASE k \in casts
      <4>1. k.dead \subseteq Sockets /\ k.number \in 1 .. sequence /\ \A d \in k.dead : ~ sockets[d].up
        BY <3>1, CastShape DEF LiveInv, Broadcasts
      <4>. QED BY <1>4, <1>7, <1>8, <4>1
    <3>2. CASE k = n
      <4>1. m.number \in 1 .. sequence /\ \A d \in m.dead : ~ sockets[d].up
        BY DEF LiveInv, Broadcasts
      <4>2. \A d \in dead : d \in Sockets /\ ~ sockets[d].up
        BY <1>1, <4>1
      <4>. QED BY <1>2, <1>4, <1>7, <1>8, <3>2, <4>1, <4>2
    <3>. QED BY <1>3, <3>1, <3>2
  <2>2. \A k \in casts \ {m} : k.number # n.number
    BY <1>2 DEF LiveInv, Broadcasts
  <2>3. \A k, l \in casts' : k.number = l.number => k = l
    BY <1>3, <2>2 DEF LiveInv, Broadcasts
  <2>. QED BY <2>1, <2>3 DEF Broadcasts
<1>11. ASSUME NEW d \in Sockets PROVE Counted(d)'
  <2>1. Counted(d)
    BY DEF LiveInv
  <2>2. IsFiniteSet(Unsent(d)) /\ Cardinality(Unsent(d)) \in Nat
    BY UnsentFinite DEF LiveInv
  <2>3. CASE d # c
    <3>1. Unsent(d)' = Unsent(d)
      BY <1>2, <1>3, <2>3 DEF Unsent
    <3>. QED BY <1>4, <1>8, <2>1, <2>3, <3>1 DEF Counted
  <2>4. CASE d = c
    <3>1. Unsent(d)' = Unsent(d) \ {m.number}
      <4>1. \A k \in casts \ {m} : k.number # m.number
        BY DEF LiveInv, Broadcasts
      <4>2. Unsent(d)' = {k.number : k \in {k \in casts \ {m} : d \in k.todo}}
        BY <1>2, <1>3, <2>4 DEF Unsent
      <4>. QED BY <4>1, <4>2 DEF Unsent
    <3>2. m.number \in Unsent(d)
      BY <1>4, <2>4 DEF Unsent
    <3>3. Cardinality(Unsent(d)') = Cardinality(Unsent(d)) - 1
      BY <2>2, <3>1, <3>2, FS_RemoveElement
    <3>4. sockets[c].state # "connecting"
      BY <2>1, <2>4, <3>2 DEF Counted
    <3>5. CASE up
      BY <1>4, <1>5, <1>7, <1>8, <2>1, <2>2, <2>4, <3>3, <3>4, <3>5 DEF Counted
    <3>6. CASE ~ up
      BY <1>4, <1>8, <2>1, <2>4, <3>4, <3>6 DEF Counted
    <3>. QED BY <3>5, <3>6
  <2>. QED BY <2>3, <2>4
<1>12. Listening' /\ Single'
  BY <1>4, <1>7, <1>8, SameTab
<1>. QED BY <1>9, <1>10, <1>11, <1>12 DEF LiveInv

\* The broadcast is over, and its dead are unsubscribed.
LEMMA SendEndKeeps ==
  ASSUME LiveInv, NEW m \in casts, SendEnd(m)
  PROVE  LiveInv'
<1>1. /\ m.todo = {} /\ casts' = casts \ {m} /\ subscribers' = subscribers \ m.dead
      /\ UNCHANGED <<sequence, sockets, entry, orphans, doubled>>
  BY DEF SendEnd
<1>2. LiveTypeOK'
  BY <1>1 DEF LiveInv, LiveTypeOK
<1>3. Broadcasts'
  BY <1>1 DEF LiveInv, Broadcasts
<1>4. ASSUME NEW c \in Sockets PROVE Counted(c)'
  <2>1. Unsent(c)' = Unsent(c)
    BY <1>1 DEF Unsent
  <2>2. c \in m.dead => ~ sockets[c].up
    BY DEF LiveInv, Broadcasts
  <2>3. Counted(c)
    BY DEF LiveInv
  <2>. QED BY <1>1, <2>1, <2>2, <2>3 DEF Counted
<1>5. Listening' /\ Single'
  BY <1>1, SameTab
<1>. QED BY <1>2, <1>3, <1>4, <1>5 DEF LiveInv

\* _serve: the connection subscribes, with nothing owed to it.
LEMMA AcceptKeeps ==
  ASSUME LiveInv, NEW c \in Sockets, Accept(c)
  PROVE  LiveInv'
<1>. DEFINE s == [sockets[c] EXCEPT !.state = "open", !.reached = sequence]
<1>1. /\ sockets[c].state = "connecting" /\ sockets[c].up
      /\ subscribers' = subscribers \cup {c}
      /\ UNCHANGED <<sequence, casts, entry, orphans, doubled>>
  BY DEF Accept
<1>2. sockets' = [sockets EXCEPT ![c] = s]
  BY DEF Accept
<1>3. sockets[c] \in SocketStates /\ sequence \in Nat
  BY SocketShape DEF LiveInv, LiveTypeOK
<1>4. /\ s \in SocketStates /\ s.state = "open" /\ s.reached = sequence
      /\ s.up = sockets[c].up /\ s.owned = sockets[c].owned
  BY <1>3 DEF SocketStates
<1>. HIDE DEF s
<1>5. ASSUME NEW d \in Sockets PROVE sockets'[d] = IF d = c THEN s ELSE sockets[d]
  BY <1>2 DEF LiveInv, LiveTypeOK
<1>6. LiveTypeOK'
  BY <1>1, <1>2, <1>4 DEF LiveInv, LiveTypeOK
<1>7. Broadcasts'
  <2>1. ASSUME NEW m \in casts, NEW d \in m.dead PROVE ~ sockets'[d].up
    BY <1>4, <1>5, <2>1, CastShape DEF LiveInv, Broadcasts
  <2>. QED BY <1>1, <2>1 DEF LiveInv, Broadcasts
<1>8. ASSUME NEW d \in Sockets PROVE Counted(d)'
  <2>1. Unsent(d)' = Unsent(d)
    BY <1>1 DEF Unsent
  <2>2. Counted(d)
    BY DEF LiveInv
  <2>3. CASE d # c
    BY <1>1, <1>5, <2>1, <2>2, <2>3 DEF Counted
  <2>4. CASE d = c
    <3>1. Unsent(d) = {} /\ Cardinality({}) = 0
      BY <1>1, <2>2, <2>4, FS_EmptySet DEF Counted
    <3>. QED BY <1>1, <1>3, <1>4, <1>5, <2>1, <2>4, <3>1 DEF Counted
  <2>. QED BY <2>3, <2>4
<1>9. Listening' /\ Single'
  BY <1>1, <1>4, <1>5, SameTab
<1>. QED BY <1>6, <1>7, <1>8, <1>9 DEF LiveInv

\* WebSocketDisconnect.
LEMMA DisconnectKeeps ==
  ASSUME LiveInv, NEW c \in Sockets, Disconnect(c)
  PROVE  LiveInv'
<1>1. /\ ~ sockets[c].up /\ subscribers' = subscribers \ {c}
      /\ UNCHANGED <<sequence, casts, sockets, entry, orphans, doubled>>
  BY DEF Disconnect
<1>2. LiveTypeOK'
  BY <1>1 DEF LiveInv, LiveTypeOK
<1>3. Broadcasts'
  BY <1>1 DEF LiveInv, Broadcasts
<1>4. ASSUME NEW d \in Sockets PROVE Counted(d)'
  <2>1. Unsent(d)' = Unsent(d) /\ Counted(d)
    BY <1>1 DEF Unsent, LiveInv
  <2>. QED BY <1>1, <2>1 DEF Counted
<1>5. Listening' /\ Single'
  BY <1>1, SameTab
<1>. QED BY <1>2, <1>3, <1>4, <1>5 DEF LiveInv

\* A connection breaks.
LEMMA DropKeeps ==
  ASSUME LiveInv, NEW c \in Sockets, Drop(c)
  PROVE  LiveInv'
<1>. DEFINE s == [sockets[c] EXCEPT !.up = FALSE, !.inbox = 0, !.reached = 0]
<1>1. sockets' = [sockets EXCEPT ![c] = s]
  BY DEF Drop
<1>2. UNCHANGED <<sequence, subscribers, casts, entry, orphans, doubled>>
  BY DEF Drop, server
<1>3. sockets[c] \in SocketStates
  BY SocketShape DEF LiveInv
<1>4. /\ s \in SocketStates /\ s.up = FALSE /\ s.state = sockets[c].state
      /\ s.owned = sockets[c].owned
  BY <1>3 DEF SocketStates
<1>. HIDE DEF s
<1>5. ASSUME NEW d \in Sockets PROVE sockets'[d] = IF d = c THEN s ELSE sockets[d]
  BY <1>1 DEF LiveInv, LiveTypeOK
<1>6. LiveTypeOK'
  BY <1>1, <1>2, <1>4 DEF LiveInv, LiveTypeOK
<1>7. Broadcasts' /\ \A d \in Sockets : Counted(d)'
  BY <1>2, <1>4, <1>5, SameServer
<1>8. Listening' /\ Single'
  BY <1>2, <1>4, <1>5, SameTab
<1>. QED BY <1>6, <1>7, <1>8 DEF LiveInv

\* The server restarts: nothing of it is left, and no connection is up.
LEMMA RestartKeeps ==
  ASSUME LiveInv, Restart
  PROVE  LiveInv'
<1>1. /\ sequence' = 0 /\ subscribers' = {} /\ casts' = {}
      /\ UNCHANGED <<entry, orphans, doubled>>
  BY DEF Restart
<1>. DEFINE cut(c) == [sockets[c] EXCEPT !.up = FALSE, !.inbox = 0, !.reached = 0]
<1>2. sockets' = [c \in Sockets |-> cut(c)]
  BY DEF Restart
<1>3. ASSUME NEW c \in Sockets
      PROVE  /\ sockets'[c] \in SocketStates /\ sockets'[c].up = FALSE
             /\ sockets'[c].owned = sockets[c].owned /\ sockets'[c].state = sockets[c].state
  <2>1. sockets[c] \in SocketStates
    BY SocketShape DEF LiveInv
  <2>2. /\ cut(c) \in SocketStates /\ cut(c).up = FALSE
        /\ cut(c).owned = sockets[c].owned /\ cut(c).state = sockets[c].state
    BY <2>1 DEF SocketStates
  <2>. HIDE DEF cut
  <2>. QED BY <1>2, <2>2
<1>. HIDE DEF cut
<1>4. sockets' \in [Sockets -> SocketStates]
  BY <1>2, <1>3
<1>5. LiveTypeOK'
  BY <1>1, <1>4 DEF LiveInv, LiveTypeOK
<1>6. Broadcasts'
  BY <1>1 DEF Broadcasts
<1>7. ASSUME NEW c \in Sockets PROVE Counted(c)'
  BY <1>1, <1>3 DEF Counted, Unsent
<1>8. Listening' /\ Single'
  BY <1>1, <1>3, SameTab
<1>. QED BY <1>5, <1>6, <1>7, <1>8 DEF LiveInv

-----------------------------------------------------------------------------
(* Steps of the tab                                                         *)

\* A step that is about neither sockets nor the entry (Commit, Answer, Show).
LEMMA SameAll ==
  ASSUME LiveInv, UNCHANGED <<sequence, subscribers, casts, sockets, entry, orphans, doubled>>
  PROVE  LiveInv'
<1>1. LiveTypeOK'
  BY DEF LiveInv, LiveTypeOK
<1>2. Broadcasts' /\ \A c \in Sockets : Counted(c)'
  BY SameServer
<1>3. Listening' /\ Single'
  BY SameTab
<1>. QED BY <1>1, <1>2, <1>3 DEF LiveInv

\* onmessage.
LEMMA MessageKeeps ==
  ASSUME LiveInv, NEW c \in Sockets, Message(c)
  PROVE  LiveInv'
<1>. DEFINE s == [sockets[c] EXCEPT !.inbox = @ - 1]
<1>1. sockets' = [sockets EXCEPT ![c] = s] /\ sockets[c].inbox > 0
  BY DEF Message
<1>2. UNCHANGED <<sequence, subscribers, casts, entry, orphans, doubled>>
  BY DEF Message, server
<1>3. sockets[c] \in SocketStates /\ sockets[c].inbox - 1 \in Nat
  BY <1>1, SocketShape DEF LiveInv
<1>4. /\ s \in SocketStates /\ s.state = sockets[c].state /\ s.up = sockets[c].up
      /\ s.owned = sockets[c].owned /\ s.reached = sockets[c].reached
  BY <1>3 DEF SocketStates
<1>. HIDE DEF s
<1>5. ASSUME NEW d \in Sockets PROVE sockets'[d] = IF d = c THEN s ELSE sockets[d]
  BY <1>1 DEF LiveInv, LiveTypeOK
<1>6. LiveTypeOK'
  BY <1>1, <1>2, <1>4 DEF LiveInv, LiveTypeOK
<1>7. Broadcasts' /\ \A d \in Sockets : Counted(d)'
  BY <1>2, <1>4, <1>5, SameServer
<1>8. Listening' /\ Single'
  BY <1>2, <1>4, <1>5, SameTab
<1>. QED BY <1>6, <1>7, <1>8 DEF LiveInv

\* What follows from opening a free socket, whoever opens it.
LEMMA OpeningKeeps ==
  ASSUME LiveInv, NEW c \in Sockets, NEW o \in BOOLEAN, Free(c), sockets' = Opened(c, o),
         UNCHANGED <<sequence, subscribers, casts>>
  PROVE  /\ sockets' \in [Sockets -> SocketStates]
         /\ Broadcasts' /\ \A d \in Sockets : Counted(d)'
         /\ Owned' = IF o THEN Owned \cup {c} ELSE Owned
         /\ sockets'[c].state # "closed"
         /\ \A d \in Sockets \ {c} : sockets'[d] = sockets[d]
<1>1. /\ sockets' \in [Sockets -> SocketStates]
      /\ sockets'[c].state = "connecting" /\ sockets'[c].owned = o
      /\ \A d \in Sockets \ {c} : sockets'[d] = sockets[d]
  BY OpenedShape DEF LiveInv
<1>2. Broadcasts' /\ \A d \in Sockets : Counted(d)'
  BY <1>1, SameServer
<1>3. c \notin Owned
  BY DEF LiveInv, Listening, Free
<1>4. Owned' = IF o THEN Owned \cup {c} ELSE Owned
  BY <1>1, <1>3 DEF Owned
<1>. QED BY <1>1, <1>2, <1>4

\* A component mounts.
LEMMA SubscribeKeeps ==
  ASSUME LiveInv, NEW k \in Components, Subscribe(k)
  PROVE  LiveInv'
<1>1. /\ doubled' = (doubled \/ (NeedsSocket(entry) /\ (entry.timer \/ entry.lost > 0)))
      /\ UNCHANGED <<sequence, subscribers, casts, orphans>>
  BY DEF Subscribe, server
<1>2. /\ entry \in Entries /\ entry.ws \in Sockets \cup {NoSocket}
      /\ entry.handlers \subseteq Components /\ entry.timer \in BOOLEAN /\ entry.lost \in Nat
  BY EntryShape DEF LiveInv, LiveTypeOK
<1>3. doubled' \in BOOLEAN
  BY <1>1 DEF LiveInv, LiveTypeOK
<1>4. CASE NeedsSocket(entry)
  <2>1. PICK c \in Sockets : /\ OpenSocket(c)
                             /\ entry' = [entry EXCEPT !.ws = c, !.handlers = @ \cup {k}]
    BY <1>4 DEF Subscribe
  <2>2. /\ entry' \in Entries /\ entry'.ws = c /\ entry'.handlers = entry.handlers \cup {k}
        /\ entry'.timer = entry.timer /\ entry'.lost = entry.lost
    BY <1>2, <2>1 DEF Entries
  <2>3. Free(c) /\ sockets' = Opened(c, TRUE)
    BY <2>1 DEF OpenSocket
  <2>4. /\ sockets' \in [Sockets -> SocketStates] /\ Broadcasts' /\ \A d \in Sockets : Counted(d)'
        /\ Owned' = Owned \cup {c} /\ sockets'[c].state # "closed"
        /\ \A d \in Sockets \ {c} : sockets'[d] = sockets[d]
    BY <1>1, <2>3, OpeningKeeps
  <2>5. LiveTypeOK'
    BY <1>1, <1>3, <2>2, <2>4 DEF LiveInv, LiveTypeOK
  <2>6. \A d \in Owned' : sockets'[d].state # "closed"
    BY <2>4 DEF LiveInv, Listening, Owned
  <2>7. Listening'
    BY <2>2, <2>4, <2>6 DEF Listening
  <2>8. Single'
    <3>1. SUFFICES ASSUME ~ doubled' PROVE Single'
      BY DEF Single
    <3>2. ~ doubled /\ ~ entry.timer /\ entry.lost = 0
      <4>1. ~ (doubled \/ (NeedsSocket(entry) /\ (entry.timer \/ entry.lost > 0)))
        BY <1>1, <3>1
      <4>2. ~ doubled /\ ~ entry.timer /\ ~ (entry.lost > 0)
        BY <1>4, <4>1
      <4>. QED BY <1>2, <4>2
    <3>3. Owned = {}
      BY <1>4, <3>2, LiveAssumption DEF LiveInv, Single, Listening, NeedsSocket, Owned
    <3>. QED BY <1>1, <2>2, <2>4, <3>2, <3>3 DEF LiveInv, Single
  <2>. QED BY <2>4, <2>5, <2>7, <2>8 DEF LiveInv
<1>5. CASE ~ NeedsSocket(entry)
  <2>1. entry' = [entry EXCEPT !.handlers = @ \cup {k}] /\ UNCHANGED sockets
    BY <1>5 DEF Subscribe
  <2>2. /\ entry' \in Entries /\ entry'.ws = entry.ws /\ entry'.handlers = entry.handlers \cup {k}
        /\ entry'.timer = entry.timer /\ entry'.lost = entry.lost
    BY <1>2, <2>1 DEF Entries
  <2>3. LiveTypeOK'
    BY <1>1, <1>3, <2>1, <2>2 DEF LiveInv, LiveTypeOK
  <2>4. Broadcasts' /\ \A d \in Sockets : Counted(d)'
    BY <1>1, <2>1, SameServer
  <2>5. Owned' = Owned
    BY <2>1 DEF Owned
  <2>6. entry.handlers # {}
    BY <1>5 DEF LiveInv, Listening, NeedsSocket
  <2>7. Listening'
    BY <2>1, <2>2, <2>5, <2>6 DEF LiveInv, Listening
  <2>8. Single'
    BY <1>1, <1>5, <2>1, <2>2, <2>5 DEF LiveInv, Single
  <2>. QED BY <2>3, <2>4, <2>7, <2>8 DEF LiveInv
<1>. QED BY <1>4, <1>5

\* A component unmounts.
LEMMA UnsubscribeKeeps ==
  ASSUME LiveInv, NEW k \in Components, Unsubscribe(k)
  PROVE  LiveInv'
<1>1. UNCHANGED <<sequence, subscribers, casts, doubled>>
  BY DEF Unsubscribe, server
<1>2. /\ entry \in Entries /\ entry.handlers \subseteq Components /\ entry.lost \in Nat
  BY EntryShape DEF LiveInv, LiveTypeOK
<1>3. CASE entry.handlers # {k}
  <2>1. entry' = [entry EXCEPT !.handlers = @ \ {k}] /\ UNCHANGED <<sockets, orphans>>
    BY <1>3 DEF Unsubscribe
  <2>2. /\ entry' \in Entries /\ entry'.ws = entry.ws /\ entry'.handlers = entry.handlers \ {k}
        /\ entry'.timer = entry.timer /\ entry'.lost = entry.lost
    BY <1>2, <2>1 DEF Entries
  <2>3. LiveTypeOK'
    BY <1>1, <2>1, <2>2 DEF LiveInv, LiveTypeOK
  <2>4. Broadcasts' /\ \A d \in Sockets : Counted(d)'
    BY <1>1, <2>1, SameServer
  <2>5. Owned' = Owned
    BY <2>1 DEF Owned
  <2>6. entry.handlers # {} /\ entry'.handlers # {}
    BY <1>3, <2>2 DEF Unsubscribe
  <2>7. Listening'
    BY <2>1, <2>2, <2>5, <2>6 DEF LiveInv, Listening
  <2>8. Single'
    BY <1>1, <2>1, <2>2, <2>5 DEF LiveInv, Single
  <2>. QED BY <2>3, <2>4, <2>7, <2>8 DEF LiveInv
<1>4. CASE entry.handlers = {k}
  <2>. DEFINE left(c) == [sockets[c] EXCEPT !.owned = FALSE, !.inbox = 0]
  <2>1. /\ entry' = NoEntry /\ orphans' = orphans + entry.lost
        /\ sockets' = [c \in Sockets |-> IF c = entry.ws THEN Unused ELSE left(c)]
    BY <1>4 DEF Unsubscribe
  <2>2. ASSUME NEW c \in Sockets
        PROVE  /\ left(c) \in SocketStates /\ left(c).owned = FALSE
               /\ left(c).state = sockets[c].state /\ left(c).up = sockets[c].up
               /\ left(c).reached = sockets[c].reached
    <3>1. sockets[c] \in SocketStates
      BY SocketShape DEF LiveInv
    <3>. QED BY <3>1 DEF SocketStates
  <2>. HIDE DEF left
  <2>3. ASSUME NEW c \in Sockets
        PROVE  sockets'[c] = IF c = entry.ws THEN Unused ELSE left(c)
    BY <2>1
  <2>4. sockets' \in [Sockets -> SocketStates]
    BY <2>1, <2>2, UnusedShape
  <2>5. LiveTypeOK'
    BY <1>1, <1>2, <2>1, <2>4, UnusedShape DEF LiveInv, LiveTypeOK
  <2>6. Broadcasts' /\ \A d \in Sockets : Counted(d)'
    BY <1>1, <2>2, <2>3, UnusedShape, SameServer
  <2>7. Owned' = {}
    BY <2>2, <2>3, UnusedShape DEF Owned
  <2>8. entry'.handlers = {} /\ entry'.ws = NoSocket /\ entry'.timer = FALSE /\ entry'.lost = 0
    BY <2>1 DEF NoEntry
  <2>9. Listening'
    BY <2>7, <2>8 DEF Listening
  <2>10. Single'
    <3>1. SUFFICES ASSUME ~ doubled' PROVE Single'
      BY DEF Single
    <3>2. /\ orphans = 0 /\ entry.lost = 0 /\ Owned \subseteq {entry.ws}
          /\ \A c \in Sockets \ Owned : sockets[c].state = "closed"
      BY <1>1, <3>1 DEF LiveInv, Single
    <3>3. \A c \in Sockets : sockets'[c].state = "closed"
      BY <2>2, <2>3, <3>2, UnusedShape
    <3>. QED BY <2>1, <2>7, <2>8, <3>2, <3>3 DEF Single
  <2>. QED BY <2>5, <2>6, <2>9, <2>10 DEF LiveInv
<1>. QED BY <1>3, <1>4

\* onclose.
LEMMA CloseKeeps ==
  ASSUME LiveInv, NEW c \in Sockets, Close(c)
  PROVE  LiveInv'
<1>. DEFINE s == [sockets[c] EXCEPT !.state = "closed", !.owned = FALSE]
            lost == IF entry.timer THEN entry.lost + 1 ELSE entry.lost
<1>1. /\ sockets[c].state # "closed" /\ ~ sockets[c].up
      /\ UNCHANGED <<sequence, subscribers, casts, orphans, doubled>>
      /\ sockets' = [sockets EXCEPT ![c] = s]
      /\ entry' = IF sockets[c].owned THEN [entry EXCEPT !.timer = TRUE, !.lost = lost] ELSE entry
  BY DEF Close, server
<1>2. /\ entry \in Entries /\ entry.ws \in Sockets \cup {NoSocket}
      /\ entry.handlers \subseteq Components /\ entry.timer \in BOOLEAN /\ entry.lost \in Nat
  BY EntryShape DEF LiveInv, LiveTypeOK
<1>3. lost \in Nat /\ (~ entry.timer => lost = entry.lost)
  BY <1>2
<1>4. sockets[c] \in SocketStates
  BY SocketShape DEF LiveInv
<1>5. s \in SocketStates /\ s.state = "closed" /\ s.owned = FALSE /\ s.up = sockets[c].up
  BY <1>4 DEF SocketStates
<1>. HIDE DEF s, lost
<1>6. ASSUME NEW d \in Sockets PROVE sockets'[d] = IF d = c THEN s ELSE sockets[d]
  BY <1>1 DEF LiveInv, LiveTypeOK
<1>7. Broadcasts' /\ \A d \in Sockets : Counted(d)'
  BY <1>1, <1>5, <1>6, SameServer
<1>8. Owned' = Owned \ {c} /\ Owned \subseteq Sockets
  BY <1>5, <1>6 DEF Owned
<1>9. \A d \in Owned' : sockets'[d].state # "closed"
  BY <1>6, <1>8 DEF LiveInv, Listening
<1>10. CASE sockets[c].owned
  <2>1. /\ entry' \in Entries /\ entry'.ws = entry.ws /\ entry'.handlers = entry.handlers
        /\ entry'.timer = TRUE /\ entry'.lost = lost
    BY <1>1, <1>2, <1>3, <1>10 DEF Entries
  <2>2. LiveTypeOK'
    BY <1>1, <1>5, <2>1 DEF LiveInv, LiveTypeOK
  <2>3. c \in Owned
    BY <1>10 DEF Owned
  <2>4. entry.handlers # {}
    BY <2>3 DEF LiveInv, Listening
  <2>5. Listening'
    BY <1>9, <2>1, <2>4 DEF Listening
  <2>6. Single'
    <3>1. SUFFICES ASSUME ~ doubled' PROVE Single'
      BY DEF Single
    <3>2. /\ orphans = 0 /\ entry.lost = 0 /\ Owned \subseteq {entry.ws} /\ ~ entry.timer
          /\ \A d \in Sockets \ Owned : sockets[d].state = "closed"
      BY <1>1, <2>3, <3>1 DEF LiveInv, Single
    <3>3. Owned' = {}
      BY <1>8, <2>3, <3>2
    <3>4. \A d \in Sockets : sockets'[d].state = "closed"
      BY <1>5, <1>6, <2>3, <3>2
    <3>. QED BY <1>1, <1>3, <2>1, <3>2, <3>3, <3>4 DEF Single
  <2>. QED BY <1>7, <2>2, <2>5, <2>6 DEF LiveInv
<1>11. CASE ~ sockets[c].owned
  <2>1. entry' = entry /\ Owned' = Owned
    BY <1>1, <1>8, <1>11 DEF Owned
  <2>2. LiveTypeOK'
    BY <1>1, <1>5, <2>1 DEF LiveInv, LiveTypeOK
  <2>3. Listening'
    BY <1>9, <2>1 DEF LiveInv, Listening
  <2>4. c \notin Owned
    BY <1>11 DEF Owned
  <2>5. Single'
    BY <1>1, <2>1, <2>4 DEF LiveInv, Single
  <2>. QED BY <1>7, <2>2, <2>3, <2>5 DEF LiveInv
<1>. QED BY <1>10, <1>11

\* A timer of the entry fires.
LEMMA ReconnectKeeps ==
  ASSUME LiveInv, NEW c \in Sockets, Reconnect(c)
  PROVE  LiveInv'
<1>1. Free(c) /\ sockets' = Opened(c, TRUE) /\ UNCHANGED <<sequence, subscribers, casts, orphans, doubled>>
  BY DEF Reconnect, OpenSocket, server
<1>2. /\ entry \in Entries /\ entry.handlers \subseteq Components
      /\ entry.timer \in BOOLEAN /\ entry.lost \in Nat
  BY EntryShape DEF LiveInv, LiveTypeOK
<1>3. /\ sockets' \in [Sockets -> SocketStates] /\ Broadcasts' /\ \A d \in Sockets : Counted(d)'
      /\ Owned' = Owned \cup {c} /\ sockets'[c].state # "closed"
      /\ \A d \in Sockets \ {c} : sockets'[d] = sockets[d]
  BY <1>1, OpeningKeeps
<1>4. /\ entry' \in Entries /\ entry'.ws = c /\ entry'.handlers = entry.handlers
      /\ \/ entry.timer /\ entry'.timer = FALSE /\ entry'.lost = entry.lost
         \/ entry.lost > 0 /\ entry'.timer = entry.timer
  <2>1. CASE entry.timer /\ entry' = [entry EXCEPT !.ws = c, !.timer = FALSE]
    BY <1>2, <2>1 DEF Entries
  <2>2. CASE entry.lost > 0 /\ entry' = [entry EXCEPT !.ws = c, !.lost = @ - 1]
    <3>1. entry.lost - 1 \in Nat
      BY <1>2, <2>2
    <3>. QED BY <1>2, <2>2, <3>1 DEF Entries
  <2>. QED BY <2>1, <2>2 DEF Reconnect
<1>5. LiveTypeOK'
  BY <1>1, <1>3, <1>4 DEF LiveInv, LiveTypeOK
<1>6. entry.handlers # {}
  BY <1>2, <1>4 DEF LiveInv, Listening
<1>7. \A d \in Owned' : sockets'[d].state # "closed"
  BY <1>3 DEF LiveInv, Listening, Owned
<1>8. Listening'
  BY <1>3, <1>4, <1>6, <1>7 DEF Listening
<1>9. Single'
  <2>1. SUFFICES ASSUME ~ doubled' PROVE Single'
    BY DEF Single
  <2>2. /\ orphans = 0 /\ entry.lost = 0 /\ (entry.timer => Owned = {})
        /\ \A d \in Sockets \ Owned : sockets[d].state = "closed"
    BY <1>1, <2>1 DEF LiveInv, Single
  <2>3. entry.timer /\ entry'.timer = FALSE /\ entry'.lost = 0
    BY <1>4, <2>2
  <2>. QED BY <1>1, <1>3, <1>4, <2>2, <2>3 DEF Single
<1>. QED BY <1>3, <1>5, <1>8, <1>9 DEF LiveInv

\* A timer of a deleted entry fires: there is one only once doubled.
LEMMA HauntKeeps ==
  ASSUME LiveInv, NEW c \in Sockets, Haunt(c)
  PROVE  LiveInv'
<1>1. /\ orphans > 0 /\ Free(c) /\ sockets' = Opened(c, FALSE) /\ orphans' = orphans - 1
      /\ UNCHANGED <<sequence, subscribers, casts, entry, doubled>>
  BY DEF Haunt, server
<1>2. /\ sockets' \in [Sockets -> SocketStates] /\ Broadcasts' /\ \A d \in Sockets : Counted(d)'
      /\ Owned' = Owned /\ \A d \in Sockets \ {c} : sockets'[d] = sockets[d]
  BY <1>1, OpeningKeeps
<1>3. LiveTypeOK'
  <2>1. orphans \in Nat
    BY DEF LiveInv, LiveTypeOK
  <2>2. orphans' \in Nat
    BY <1>1, <2>1
  <2>. QED BY <1>1, <1>2, <2>2 DEF LiveInv, LiveTypeOK
<1>4. c \notin Owned /\ Owned \subseteq Sockets
  BY <1>1 DEF LiveInv, Listening, Free, Owned
<1>5. Listening'
  BY <1>1, <1>2, <1>4 DEF LiveInv, Listening
<1>6. Single'
  BY <1>1 DEF LiveInv, Single
<1>. QED BY <1>2, <1>3, <1>5, <1>6 DEF LiveInv

-----------------------------------------------------------------------------
(* The invariant, and what it gives                                         *)

\* The invariant holds at the start: nothing is open, nobody listens.
LEMMA LiveInit ==
  ASSUME Init
  PROVE  LiveInv
<1>1. /\ sequence = 0 /\ subscribers = {} /\ casts = {} /\ entry = NoEntry /\ orphans = 0
      /\ doubled = FALSE /\ sockets = [c \in Sockets |-> Unused]
  BY DEF Init
<1>2. \A c \in Sockets : sockets[c] = Unused
  BY <1>1
<1>3. entry.handlers = {} /\ entry.ws = NoSocket /\ entry.timer = FALSE /\ entry.lost = 0
  BY <1>1 DEF NoEntry
<1>4. Owned = {}
  BY <1>2, UnusedShape DEF Owned
<1>5. LiveTypeOK
  BY <1>1, UnusedShape DEF LiveTypeOK
<1>6. Broadcasts
  BY <1>1 DEF Broadcasts
<1>7. ASSUME NEW c \in Sockets PROVE Counted(c)
  BY <1>1, <1>2, UnusedShape DEF Counted
<1>8. Listening
  BY <1>3, <1>4 DEF Listening
<1>9. Single
  BY <1>1, <1>2, <1>3, <1>4, UnusedShape DEF Single
<1>. QED BY <1>5, <1>6, <1>7, <1>8, <1>9 DEF LiveInv

\* Every step of the server and of the tab keeps it.
LEMMA LiveNext ==
  ASSUME LiveInv, [Next]_vars
  PROVE  LiveInv'
<1>1. CASE Commit \/ Answer \/ Show
  BY <1>1, SameAll DEF Commit, Answer, Show, server
<1>2. CASE Publish
  BY <1>2, PublishKeeps
<1>3. CASE Restart
  BY <1>3, RestartKeeps
<1>4. CASE \E m \in casts : SendEnd(m) \/ \E c \in Sockets : Send(m, c)
  BY <1>4, SendEndKeeps, SendKeeps
<1>5. CASE \E c \in Sockets : Accept(c) \/ Disconnect(c) \/ Drop(c)
  BY <1>5, AcceptKeeps, DisconnectKeeps, DropKeeps
<1>6. CASE \E k \in Components : Subscribe(k) \/ Unsubscribe(k)
  BY <1>6, SubscribeKeeps, UnsubscribeKeeps
<1>7. CASE \E c \in Sockets : Message(c) \/ Close(c) \/ Reconnect(c) \/ Haunt(c)
  BY <1>7, MessageKeeps, CloseKeeps, ReconnectKeeps, HauntKeeps
<1>8. CASE UNCHANGED vars
  BY <1>8, SameAll DEF vars, server
<1>. QED BY <1>1, <1>2, <1>3, <1>4, <1>5, <1>6, <1>7, <1>8 DEF Next

\* The server's count of what each connection was sent, and the tab's hold on
\* its sockets and timers, survive every interleaving of publishes, sends,
\* drops, restarts, mounts and timers.
THEOREM LiveInvariant == Spec => []LiveInv
<1>1. Init => LiveInv
  BY LiveInit
<1>2. LiveInv /\ [Next]_vars => LiveInv'
  BY LiveNext
<1>. QED BY <1>1, <1>2, PTL DEF Spec

\* No connection that is up has a gap in what it was sent, once the broadcasts
\* under way are over.
THEOREM GapFree == Spec => []NoGap
<1>1. LiveInv => NoGap
  <2>1. SUFFICES ASSUME LiveInv, casts = {}, NEW c \in subscribers, sockets[c].up
                 PROVE  sockets[c].reached = sequence
    BY DEF NoGap
  <2>2. c \in Sockets
    BY <2>1 DEF LiveInv, LiveTypeOK
  <2>3. Unsent(c) = {} /\ Cardinality({}) = 0
    BY <2>1, FS_EmptySet DEF Unsent
  <2>4. sockets[c].reached + 0 = sequence /\ sockets[c].reached \in Nat
    BY <2>1, <2>2, <2>3, SocketShape DEF LiveInv, Counted
  <2>. QED BY <2>4
<1>. QED BY <1>1, LiveInvariant, PTL

\* Components that mount while no reconnect is pending share one socket.
THEOREM OneSocket == Spec => []SharesOneSocket
<1>1. LiveInv => SharesOneSocket
  <2>1. SUFFICES ASSUME LiveInv, ~ doubled PROVE SharesOneSocket
    BY DEF SharesOneSocket
  <2>. DEFINE live == {c \in Owned : sockets[c].state # "closed"}
  <2>2. Owned \subseteq {entry.ws} /\ \A c \in Sockets \ Owned : sockets[c].state = "closed"
    BY <2>1 DEF LiveInv, Single
  <2>3. IsFiniteSet({entry.ws}) /\ Cardinality({entry.ws}) = 1
    BY FS_Singleton
  <2>4. live \subseteq {entry.ws}
    BY <2>2
  <2>5. Cardinality(live) <= 1
    BY <2>3, <2>4, FS_Subset
  <2>. QED BY <2>2, <2>5 DEF SharesOneSocket
<1>. QED BY <1>1, LiveInvariant, PTL

\* A mounted component always has a socket or a timer, and the server sends to
\* every connection that both ends hold open.
THEOREM NeverLeftSilent == Spec => []NeverSilent
<1>1. LiveInv => NeverSilent
  <2>1. SUFFICES ASSUME LiveInv PROVE NeverSilent
    OBVIOUS
  <2>2. entry.handlers # {} =>
          entry.timer \/ entry.lost > 0 \/ \E c \in Owned : sockets[c].state # "closed"
    BY <2>1 DEF LiveInv, Listening
  <2>3. \A c \in Sockets : sockets[c].state = "open" /\ sockets[c].up => c \in subscribers
    BY <2>1 DEF LiveInv, Counted
  <2>. QED BY <2>2, <2>3 DEF NeverSilent
<1>. QED BY <1>1, LiveInvariant, PTL

-----------------------------------------------------------------------------
(* What the tab shows                                                       *)

\* What FreshInv says of the view, field by field.
LEMMA ViewShape ==
  ASSUME ViewTypeOK
  PROVE  /\ view.shown \in Nat /\ view.fetch.phase \in {"none", "asked", "answered"}
         /\ view.fetch.value \in Nat
  BY DEF ViewTypeOK

\* invalidateQueries and a mount ask.
LEMMA AskShape ==
  ASSUME ViewTypeOK
  PROVE  /\ Ask(view) \in [shown : Nat, fetch : [phase : {"none", "asked", "answered"}, value : Nat]]
         /\ Ask(view).fetch.phase = "asked"
<1>. DEFINE f == [NoFetch EXCEPT !.phase = "asked"]
<1>1. f \in [phase : {"none", "asked", "answered"}, value : Nat] /\ f.phase = "asked"
  BY DEF NoFetch
<1>2. Ask(view) = [view EXCEPT !.fetch = f]
  BY DEF Ask
<1>. HIDE DEF f
<1>. QED BY <1>1, <1>2 DEF ViewTypeOK

\* A step that leaves the view, the sockets and the mounted components alone.
LEMMA SameScreen ==
  ASSUME FreshInv, UNCHANGED <<committed, sockets, view>>, ViewTypeOK',
         entry'.handlers = entry.handlers, missed => missed',
         ~ missed' /\ WillBeTold => WillBeTold'
  PROVE  FreshInv'
<1>1. \A c \in Sockets : sockets'[c].inbox > 0 => sockets'[c].owned /\ sockets'[c].up
  BY DEF FreshInv
<1>2. entry'.handlers = {} => missed' \/ (view'.fetch.phase = "none" /\ view'.shown = 0)
  BY DEF FreshInv
<1>3. UpToDate' <=> UpToDate
  BY DEF UpToDate
<1>4. entry'.handlers # {} => missed' \/ WillBeTold' \/ UpToDate'
  BY <1>3 DEF FreshInv
<1>. QED BY <1>1, <1>2, <1>4 DEF FreshInv

\* A change that is committed will be published.
LEMMA CommitFresh ==
  ASSUME FreshInv, Commit
  PROVE  FreshInv'
<1>1. /\ committed' = committed + 1 /\ unpublished' = unpublished + 1
      /\ UNCHANGED <<sockets, entry, view, missed>>
  BY DEF Commit
<1>2. ViewTypeOK' /\ unpublished' > 0
  BY <1>1 DEF FreshInv, ViewTypeOK
<1>3. WillBeTold'
  BY <1>2 DEF WillBeTold
<1>. QED BY <1>1, <1>2, <1>3 DEF FreshInv

\* It is published to the sockets of the handlers, or passes the tab by.
LEMMA PublishFresh ==
  ASSUME FreshInv, Publish
  PROVE  FreshInv'
<1>. DEFINE m == [number |-> sequence + 1, todo |-> subscribers, dead |-> {}]
<1>1. /\ unpublished > 0 /\ unpublished' = unpublished - 1
      /\ casts' = casts \cup {m} /\ missed' = (missed \/ ~ Connected)
      /\ UNCHANGED <<committed, sockets, entry, view>>
  BY DEF Publish
<1>2. ViewTypeOK'
  BY <1>1 DEF FreshInv, ViewTypeOK
<1>3. ASSUME ~ missed' PROVE WillBeTold'
  <2>1. PICK c \in subscribers : sockets[c].owned /\ sockets[c].up
    BY <1>1, <1>3 DEF Connected, Heard
  <2>2. m \in casts' /\ c \in m.todo /\ sockets'[c].owned /\ sockets'[c].up
    BY <1>1, <2>1
  <2>. QED BY <2>2 DEF WillBeTold
<1>. QED BY <1>1, <1>2, <1>3, SameScreen

\* A message that has been sent is in the inbox of a socket that the handlers hear.
LEMMA SendFresh ==
  ASSUME LiveInv, FreshInv, NEW m \in casts, NEW c \in Sockets, Send(m, c)
  PROVE  FreshInv'
<1>. DEFINE n == [m EXCEPT !.todo = @ \ {c}, !.dead = IF sockets[c].up THEN @ ELSE @ \cup {c}]
            q == [sockets[c] EXCEPT !.reached = @ + 1,
                                    !.inbox = IF sockets[c].owned THEN @ + 1 ELSE 0]
<1>1. /\ c \in m.todo /\ casts' = (casts \ {m}) \cup {n}
      /\ sockets[c].up => sockets' = [sockets EXCEPT ![c] = q]
      /\ ~ sockets[c].up => sockets' = sockets
      /\ UNCHANGED <<committed, unpublished, entry, view, missed>>
  BY DEF Send
<1>2. m \in Casts /\ sockets \in [Sockets -> SocketStates] /\ sockets[c] \in SocketStates
  BY CastShape, SocketShape DEF LiveInv, LiveTypeOK
<1>3. n.todo = m.todo \ {c}
  BY <1>2 DEF Casts
<1>4. /\ q.owned = sockets[c].owned /\ q.up = sockets[c].up
      /\ q.inbox = IF sockets[c].owned THEN sockets[c].inbox + 1 ELSE 0
  BY <1>2 DEF SocketStates
<1>. HIDE DEF n, q
<1>5. /\ \A d \in Sockets : sockets'[d].owned = sockets[d].owned /\ sockets'[d].up = sockets[d].up
      /\ \A d \in Sockets \ {c} : sockets'[d] = sockets[d]
      /\ sockets[c].up => sockets'[c] = q
  BY <1>1, <1>2, <1>4
<1>6. ViewTypeOK'
  BY <1>1 DEF FreshInv, ViewTypeOK
<1>7. \A d \in Sockets : sockets'[d].inbox > 0 => sockets'[d].owned /\ sockets'[d].up
  BY <1>1, <1>4, <1>5 DEF FreshInv
<1>8. ASSUME WillBeTold PROVE WillBeTold'
  <2>1. CASE unpublished > 0
    BY <1>1, <2>1 DEF WillBeTold
  <2>2. CASE \E d \in Owned : sockets[d].inbox > 0
    <3>1. PICK d \in Owned : sockets[d].inbox > 0
      BY <2>2
    <3>2. d \in Owned' /\ sockets[d].inbox \in Nat /\ d \in Sockets
      BY <1>5, SocketShape DEF Owned, LiveInv
    <3>3. sockets'[d].inbox > 0
      BY <1>1, <1>4, <1>5, <3>1, <3>2 DEF Owned
    <3>. QED BY <3>2, <3>3 DEF WillBeTold
  <2>3. CASE \E k \in casts : \E d \in k.todo : sockets[d].owned /\ sockets[d].up
    <3>1. PICK k \in casts : \E d \in k.todo : sockets[d].owned /\ sockets[d].up
      BY <2>3
    <3>2. PICK d \in k.todo : sockets[d].owned /\ sockets[d].up
      BY <3>1
    <3>3. d \in Sockets
      BY CastShape DEF LiveInv
    <3>4. CASE d = c /\ k = m
      <4>1. c \in Owned' /\ sockets'[c].inbox = sockets[c].inbox + 1 /\ sockets[c].inbox \in Nat
        BY <1>4, <1>5, <3>2, <3>4, SocketShape DEF Owned, LiveInv
      <4>. QED BY <4>1 DEF WillBeTold
    <3>5. CASE k # m
      BY <1>1, <1>5, <3>2, <3>3, <3>5 DEF WillBeTold
    <3>6. CASE k = m /\ d # c
      <4>1. n \in casts' /\ d \in n.todo
        BY <1>1, <1>3, <3>2, <3>6
      <4>. QED BY <1>5, <3>2, <3>3, <4>1 DEF WillBeTold
    <3>. QED BY <3>4, <3>5, <3>6
  <2>. QED BY <1>8, <2>1, <2>2, <2>3 DEF WillBeTold
<1>9. UpToDate' <=> UpToDate
  BY <1>1 DEF UpToDate
<1>. QED BY <1>1, <1>6, <1>7, <1>8, <1>9 DEF FreshInv

\* A broadcast that is over owes nobody anything.
LEMMA SendEndFresh ==
  ASSUME FreshInv, NEW m \in casts, SendEnd(m)
  PROVE  FreshInv'
<1>1. /\ m.todo = {} /\ casts' = casts \ {m}
      /\ UNCHANGED <<committed, unpublished, sockets, entry, view, missed>>
  BY DEF SendEnd
<1>2. ViewTypeOK'
  BY <1>1 DEF FreshInv, ViewTypeOK
<1>3. WillBeTold => WillBeTold'
  BY <1>1 DEF WillBeTold, Owned
<1>. QED BY <1>1, <1>2, <1>3, SameScreen

\* A step that changes sockets, and keeps those the handlers hear as they were.
LEMMA SameHeard ==
  ASSUME FreshInv, UNCHANGED <<committed, unpublished, casts, view>>, ViewTypeOK',
         entry'.handlers = entry.handlers, missed' = missed,
         \A m \in casts : m.todo \subseteq Sockets,
         \A c \in Sockets : sockets[c].owned /\ sockets[c].up =>
             sockets'[c].owned /\ sockets'[c].up /\ sockets'[c].inbox = sockets[c].inbox,
         \A c \in Sockets : sockets'[c].inbox > 0 => sockets'[c].owned /\ sockets'[c].up
  PROVE  FreshInv'
<1>1. \A c \in Owned : sockets[c].inbox > 0 => c \in Owned' /\ sockets'[c].inbox > 0
  BY DEF FreshInv, Owned
<1>2. WillBeTold => WillBeTold'
  BY <1>1 DEF WillBeTold
<1>3. UpToDate' <=> UpToDate
  BY DEF UpToDate
<1>. QED BY <1>2, <1>3 DEF FreshInv

\* A socket becomes open, or the server forgets it.
LEMMA AcceptFresh ==
  ASSUME LiveInv, FreshInv, NEW c \in Sockets, Accept(c) \/ Disconnect(c)
  PROVE  FreshInv'
<1>1. UNCHANGED <<committed, unpublished, casts, entry, view, missed>>
  BY DEF Accept, Disconnect
<1>2. ViewTypeOK' /\ \A m \in casts : m.todo \subseteq Sockets
  BY <1>1, CastShape DEF FreshInv, ViewTypeOK, LiveInv
<1>3. \A d \in Sockets : /\ sockets'[d].owned = sockets[d].owned /\ sockets'[d].up = sockets[d].up
                         /\ sockets'[d].inbox = sockets[d].inbox
  <2>1. CASE Disconnect(c)
    BY <2>1 DEF Disconnect
  <2>2. CASE Accept(c)
    <3>. DEFINE q == [sockets[c] EXCEPT !.state = "open", !.reached = sequence]
    <3>1. sockets' = [sockets EXCEPT ![c] = q]
      BY <2>2 DEF Accept
    <3>2. sockets \in [Sockets -> SocketStates] /\ sockets[c] \in SocketStates
      BY SocketShape DEF LiveInv, LiveTypeOK
    <3>3. q.owned = sockets[c].owned /\ q.up = sockets[c].up /\ q.inbox = sockets[c].inbox
      BY <3>2 DEF SocketStates
    <3>. HIDE DEF q
    <3>. QED BY <3>1, <3>2, <3>3
  <2>. QED BY <2>1, <2>2
<1>. QED BY <1>1, <1>2, <1>3, SameHeard DEF FreshInv

\* A connection of the tab that breaks, or a restart, makes it miss what is on its way.
LEMMA DropFresh ==
  ASSUME LiveInv, FreshInv, NEW c \in Sockets, Drop(c)
  PROVE  FreshInv'
<1>. DEFINE q == [sockets[c] EXCEPT !.up = FALSE, !.inbox = 0, !.reached = 0]
<1>1. /\ UNCHANGED <<committed, unpublished, casts, entry, view>>
      /\ missed' = (missed \/ sockets[c].owned) /\ sockets' = [sockets EXCEPT ![c] = q]
  BY DEF Drop, server
<1>2. sockets \in [Sockets -> SocketStates] /\ sockets[c] \in SocketStates
  BY SocketShape DEF LiveInv, LiveTypeOK
<1>3. q.owned = sockets[c].owned /\ q.up = FALSE /\ q.inbox = 0
  BY <1>2 DEF SocketStates
<1>. HIDE DEF q
<1>4. ViewTypeOK' /\ \A m \in casts : m.todo \subseteq Sockets
  BY <1>1, <1>2, CastShape DEF FreshInv, ViewTypeOK, LiveInv, SocketStates
<1>5. sockets'[c] = q /\ \A d \in Sockets \ {c} : sockets'[d] = sockets[d]
  BY <1>1, <1>2
<1>6. \A d \in Sockets : sockets'[d].inbox > 0 => sockets'[d].owned /\ sockets'[d].up
  BY <1>3, <1>5 DEF FreshInv
<1>7. CASE sockets[c].owned
  BY <1>1, <1>4, <1>6, <1>7 DEF FreshInv
<1>8. CASE ~ sockets[c].owned
  <2>1. missed' = missed
    BY <1>1, <1>8 DEF FreshInv, ViewTypeOK
  <2>2. \A d \in Sockets : sockets[d].owned /\ sockets[d].up =>
          sockets'[d].owned /\ sockets'[d].up /\ sockets'[d].inbox = sockets[d].inbox
    BY <1>5, <1>8
  <2>. QED BY <1>1, <1>4, <1>6, <2>1, <2>2, SameHeard
<1>. QED BY <1>7, <1>8

\* Restart.
LEMMA RestartFresh ==
  ASSUME LiveInv, FreshInv, Restart
  PROVE  FreshInv'
<1>. DEFINE q(c) == [sockets[c] EXCEPT !.up = FALSE, !.inbox = 0, !.reached = 0]
<1>1. /\ UNCHANGED <<committed, entry, view>> /\ missed' = TRUE /\ unpublished' = 0
      /\ sockets' = [c \in Sockets |-> q(c)]
  BY DEF Restart
<1>2. \A c \in Sockets : q(c).inbox = 0
  BY SocketShape DEF LiveInv, SocketStates
<1>. HIDE DEF q
<1>3. \A c \in Sockets : ~ (sockets'[c].inbox > 0)
  BY <1>1, <1>2
<1>4. ViewTypeOK'
  BY <1>1 DEF FreshInv, ViewTypeOK
<1>. QED BY <1>1, <1>3, <1>4 DEF FreshInv

\* An answer holds what is committed, and is shown unless it was thrown away.
LEMMA AnswerFresh ==
  ASSUME FreshInv, Answer \/ Show
  PROVE  FreshInv'
<1>1. UNCHANGED <<committed, unpublished, casts, sockets, entry, missed>>
  BY DEF Answer, Show, server
<1>2. WillBeTold' <=> WillBeTold
  BY <1>1 DEF WillBeTold, Owned
<1>3. CASE Answer
  <2>. DEFINE f == [phase |-> "answered", value |-> committed]
  <2>1. view.fetch.phase = "asked" /\ view' = [view EXCEPT !.fetch = f]
    BY <1>3 DEF Answer
  <2>2. /\ f \in [phase : {"none", "asked", "answered"}, value : Nat]
        /\ f.phase = "answered" /\ f.value = committed
    BY DEF FreshInv, ViewTypeOK
  <2>. HIDE DEF f
  <2>3. view'.fetch = f /\ ViewTypeOK'
    BY <1>1, <2>1, <2>2 DEF FreshInv, ViewTypeOK
  <2>4. UpToDate'
    BY <1>1, <2>2, <2>3 DEF UpToDate
  <2>. QED BY <1>1, <2>1, <2>3, <2>4 DEF FreshInv
<1>4. CASE Show
  <2>1. view.fetch.phase = "answered" /\ view' = [shown |-> view.fetch.value, fetch |-> NoFetch]
    BY <1>4 DEF Show
  <2>2. /\ NoFetch \in [phase : {"none", "asked", "answered"}, value : Nat]
        /\ NoFetch.phase = "none"
    BY DEF NoFetch
  <2>3. ViewTypeOK' /\ view'.fetch.phase = "none" /\ view'.shown = view.fetch.value
    BY <1>1, <2>1, <2>2, ViewShape DEF FreshInv, ViewTypeOK
  <2>4. UpToDate => UpToDate'
    BY <1>1, <2>1, <2>3 DEF UpToDate
  <2>. QED BY <1>1, <1>2, <2>1, <2>3, <2>4 DEF FreshInv
<1>. QED BY <1>3, <1>4

\* A message makes the handlers ask again, or they go on waiting for a first
\* answer that may be older.
LEMMA MessageFresh ==
  ASSUME LiveInv, FreshInv, NEW c \in Sockets, Message(c)
  PROVE  FreshInv'
<1>. DEFINE q == [sockets[c] EXCEPT !.inbox = @ - 1]
<1>1. /\ sockets[c].inbox > 0 /\ sockets' = [sockets EXCEPT ![c] = q]
      /\ view' = IF Cancels(view) THEN Ask(view) ELSE view
      /\ missed' = (view.fetch.phase # "none" /\ view.shown = 0)
      /\ UNCHANGED <<committed, unpublished, entry>>
  BY DEF Message, server
<1>2. sockets \in [Sockets -> SocketStates] /\ sockets[c] \in SocketStates /\ sockets[c].inbox \in Nat
  BY SocketShape DEF LiveInv, LiveTypeOK
<1>3. q.owned = sockets[c].owned /\ q.up = sockets[c].up /\ q.inbox = sockets[c].inbox - 1
  BY <1>2 DEF SocketStates
<1>. HIDE DEF q
<1>4. \A d \in Sockets : sockets'[d].inbox > 0 => sockets'[d].owned /\ sockets'[d].up
  BY <1>1, <1>2, <1>3 DEF FreshInv
<1>5. ViewTypeOK'
  BY <1>1, AskShape DEF FreshInv, ViewTypeOK
<1>6. entry'.handlers # {}
  BY <1>1 DEF FreshInv, LiveInv, Listening, Owned
<1>7. CASE Cancels(view)
  <2>1. view'.fetch.phase = "asked"
    BY <1>1, <1>7, AskShape DEF FreshInv
  <2>. QED BY <1>4, <1>5, <1>6, <2>1 DEF FreshInv, UpToDate
<1>8. CASE ~ Cancels(view)
  <2>1. view.shown \in Nat
    BY ViewShape DEF FreshInv
  <2>2. view.fetch.phase # "none" /\ view.shown = 0
    BY <1>8, <2>1 DEF Cancels
  <2>3. missed'
    BY <1>1, <2>2
  <2>. QED BY <1>4, <1>5, <1>6, <2>3 DEF FreshInv
<1>. QED BY <1>7, <1>8

\* A socket that is opened anew was not heard before.
LEMMA OpeningFresh ==
  ASSUME LiveInv, FreshInv, NEW c \in Sockets, NEW o \in BOOLEAN, Free(c), sockets' = Opened(c, o)
  PROVE  /\ \A d \in Sockets : sockets[d].owned /\ sockets[d].up =>
              sockets'[d].owned /\ sockets'[d].up /\ sockets'[d].inbox = sockets[d].inbox
         /\ \A d \in Sockets : sockets'[d].inbox > 0 => sockets'[d].owned /\ sockets'[d].up
<1>. DEFINE q == [Unused EXCEPT !.state = "connecting", !.up = TRUE, !.owned = o]
<1>1. q.inbox = 0
  BY DEF Unused
<1>2. sockets' = [sockets EXCEPT ![c] = q]
  BY DEF Opened
<1>. HIDE DEF q
<1>3. sockets'[c].inbox = 0 /\ \A d \in Sockets \ {c} : sockets'[d] = sockets[d]
  BY <1>1, <1>2 DEF LiveInv, LiveTypeOK
<1>4. ~ sockets[c].owned
  BY DEF Free, LiveInv, Listening, Owned
<1>. QED BY <1>3, <1>4 DEF FreshInv

\* subscribeTopic, with the query of the component that mounts.
LEMMA SubscribeFresh ==
  ASSUME LiveInv, FreshInv, NEW k \in Components, Subscribe(k)
  PROVE  FreshInv'
<1>1. /\ UNCHANGED <<committed, unpublished, casts>>
      /\ \/ view.fetch.phase = "none" /\ view' = Ask(view) /\ missed' = FALSE
         \/ (view.fetch.phase # "none" \/ view.shown > 0) /\ UNCHANGED <<view, missed>>
  BY DEF Subscribe, server
<1>2. entry \in Entries
  BY DEF LiveInv, LiveTypeOK
<1>3. /\ entry'.handlers # {}
      /\ \A d \in Sockets : sockets[d].owned /\ sockets[d].up =>
           sockets'[d].owned /\ sockets'[d].up /\ sockets'[d].inbox = sockets[d].inbox
      /\ \A d \in Sockets : sockets'[d].inbox > 0 => sockets'[d].owned /\ sockets'[d].up
  <2>1. CASE NeedsSocket(entry)
    <3>1. PICK c \in Sockets :
            OpenSocket(c) /\ entry' = [entry EXCEPT !.ws = c, !.handlers = @ \cup {k}]
      BY <2>1 DEF Subscribe
    <3>2. entry'.handlers = entry.handlers \cup {k}
      BY <1>2, <3>1 DEF Entries
    <3>. QED BY <3>1, <3>2, OpeningFresh DEF OpenSocket
  <2>2. CASE ~ NeedsSocket(entry)
    <3>1. entry' = [entry EXCEPT !.handlers = @ \cup {k}] /\ UNCHANGED sockets
      BY <2>2 DEF Subscribe
    <3>2. entry'.handlers = entry.handlers \cup {k}
      BY <1>2, <3>1 DEF Entries
    <3>. QED BY <3>1, <3>2 DEF FreshInv
  <2>. QED BY <2>1, <2>2
<1>4. ViewTypeOK'
  BY <1>1, AskShape DEF FreshInv, ViewTypeOK
<1>5. CASE view.fetch.phase = "none" /\ view' = Ask(view) /\ missed' = FALSE
  <2>1. UpToDate'
    BY <1>5, AskShape DEF FreshInv, UpToDate
  <2>. QED BY <1>3, <1>4, <2>1 DEF FreshInv
<1>6. CASE (view.fetch.phase # "none" \/ view.shown > 0) /\ UNCHANGED <<view, missed>>
  <2>1. missed \/ WillBeTold \/ UpToDate
    BY <1>6 DEF FreshInv
  <2>2. \A m \in casts : m.todo \subseteq Sockets
    BY CastShape DEF LiveInv
  <2>3. \A d \in Owned : sockets[d].inbox > 0 => d \in Owned' /\ sockets'[d].inbox > 0
    BY <1>3 DEF FreshInv, Owned
  <2>4. WillBeTold => WillBeTold'
    BY <1>1, <1>3, <2>2, <2>3 DEF WillBeTold
  <2>5. UpToDate' <=> UpToDate
    BY <1>1, <1>6 DEF UpToDate
  <2>. QED BY <1>3, <1>4, <1>6, <2>1, <2>4, <2>5 DEF FreshInv
<1>. QED BY <1>1, <1>5, <1>6

\* The last component to leave misses what comes after.
LEMMA UnsubscribeFresh ==
  ASSUME LiveInv, FreshInv, NEW k \in Components, Unsubscribe(k)
  PROVE  FreshInv'
<1>1. UNCHANGED <<committed, unpublished, casts, view>>
  BY DEF Unsubscribe, server
<1>2. entry \in Entries /\ sockets \in [Sockets -> SocketStates]
  BY DEF LiveInv, LiveTypeOK
<1>3. CASE entry.handlers # {k}
  <2>1. entry' = [entry EXCEPT !.handlers = @ \ {k}] /\ UNCHANGED <<sockets, missed>>
    BY <1>3 DEF Unsubscribe
  <2>2. entry'.handlers = entry.handlers \ {k} /\ entry'.handlers # {} /\ entry.handlers # {}
    BY <1>2, <1>3, <2>1 DEF Entries, Unsubscribe
  <2>3. ViewTypeOK' /\ (WillBeTold' <=> WillBeTold) /\ (UpToDate' <=> UpToDate)
    BY <1>1, <2>1 DEF FreshInv, ViewTypeOK, WillBeTold, UpToDate, Owned
  <2>. QED BY <2>1, <2>2, <2>3 DEF FreshInv
<1>4. CASE entry.handlers = {k}
  <2>. DEFINE left(c) == [sockets[c] EXCEPT !.owned = FALSE, !.inbox = 0]
  <2>1. /\ entry' = NoEntry /\ missed' = TRUE
        /\ sockets' = [c \in Sockets |-> IF c = entry.ws THEN Unused ELSE left(c)]
    BY <1>4 DEF Unsubscribe
  <2>2. Unused.inbox = 0 /\ \A c \in Sockets : left(c).inbox = 0
    BY <1>2 DEF Unused, SocketStates
  <2>. HIDE DEF left
  <2>3. \A c \in Sockets : ~ (sockets'[c].inbox > 0)
    BY <2>1, <2>2
  <2>4. ViewTypeOK' /\ entry'.handlers = {}
    BY <1>1, <2>1 DEF FreshInv, ViewTypeOK, NoEntry
  <2>. QED BY <2>1, <2>3, <2>4 DEF FreshInv
<1>. QED BY <1>3, <1>4

\* onclose, of a connection that is gone.
LEMMA CloseFresh ==
  ASSUME LiveInv, FreshInv, NEW c \in Sockets, Close(c)
  PROVE  FreshInv'
<1>. DEFINE q == [sockets[c] EXCEPT !.state = "closed", !.owned = FALSE]
<1>1. /\ ~ sockets[c].up /\ sockets' = [sockets EXCEPT ![c] = q]
      /\ UNCHANGED <<committed, unpublished, casts, view, missed>>
  BY DEF Close, server
<1>2. /\ sockets \in [Sockets -> SocketStates] /\ sockets[c] \in SocketStates /\ sockets[c].inbox \in Nat
      /\ entry \in Entries
  BY SocketShape DEF LiveInv, LiveTypeOK
<1>3. q.inbox = sockets[c].inbox
  BY <1>2 DEF SocketStates
<1>. HIDE DEF q
<1>4. entry'.handlers = entry.handlers
  BY <1>2 DEF Close, Entries
<1>5. ViewTypeOK' /\ \A m \in casts : m.todo \subseteq Sockets
  BY <1>1, CastShape DEF FreshInv, ViewTypeOK, LiveInv
<1>6. \A d \in Sockets : sockets[d].owned /\ sockets[d].up =>
        sockets'[d].owned /\ sockets'[d].up /\ sockets'[d].inbox = sockets[d].inbox
  BY <1>1, <1>2
<1>7. \A d \in Sockets : sockets'[d].inbox > 0 => sockets'[d].owned /\ sockets'[d].up
  BY <1>1, <1>2, <1>3 DEF FreshInv
<1>. QED BY <1>1, <1>4, <1>5, <1>6, <1>7, SameHeard

\* A timer opens a socket.
LEMMA TimerFresh ==
  ASSUME LiveInv, FreshInv, NEW c \in Sockets, Reconnect(c) \/ Haunt(c)
  PROVE  FreshInv'
<1>1. /\ UNCHANGED <<committed, unpublished, casts, view, missed>>
      /\ Free(c) /\ \E o \in BOOLEAN : sockets' = Opened(c, o)
  BY DEF Reconnect, Haunt, OpenSocket, server
<1>2. entry \in Entries
  BY DEF LiveInv, LiveTypeOK
<1>3. entry'.handlers = entry.handlers
  BY <1>2 DEF Reconnect, Haunt, Entries
<1>4. ViewTypeOK' /\ \A m \in casts : m.todo \subseteq Sockets
  BY <1>1, CastShape DEF FreshInv, ViewTypeOK, LiveInv
<1>. QED BY <1>1, <1>3, <1>4, OpeningFresh, SameHeard

\* Nothing has been asked or broadcast yet.
LEMMA FreshInit == Init => FreshInv
<1>1. SUFFICES ASSUME Init PROVE FreshInv
  OBVIOUS
<1>2. NoFetch \in [phase : {"none", "asked", "answered"}, value : Nat] /\ NoFetch.phase = "none"
  BY DEF NoFetch
<1>3. ViewTypeOK
  BY <1>1, <1>2 DEF Init, ViewTypeOK
<1>4. /\ \A c \in Sockets : ~ (sockets[c].inbox > 0)
      /\ entry.handlers = {} /\ view.fetch.phase = "none" /\ view.shown = 0
  BY <1>1, <1>2 DEF Init, Unused, NoEntry
<1>. QED BY <1>3, <1>4 DEF FreshInv

\* Every step keeps it.
LEMMA FreshNext == LiveInv /\ FreshInv /\ [Next]_vars => FreshInv'
<1>. SUFFICES ASSUME LiveInv, FreshInv, [Next]_vars PROVE FreshInv'
  OBVIOUS
<1>1. CASE Commit \/ Publish \/ Restart
  BY <1>1, CommitFresh, PublishFresh, RestartFresh
<1>2. CASE \E m \in casts : SendEnd(m) \/ \E c \in Sockets : Send(m, c)
  BY <1>2, SendEndFresh, SendFresh
<1>3. CASE \E c \in Sockets : Accept(c) \/ Disconnect(c) \/ Drop(c)
  BY <1>3, AcceptFresh, DropFresh
<1>4. CASE Answer \/ Show
  BY <1>4, AnswerFresh
<1>5. CASE \E k \in Components : Subscribe(k) \/ Unsubscribe(k)
  BY <1>5, SubscribeFresh, UnsubscribeFresh
<1>6. CASE \E c \in Sockets : Message(c) \/ Close(c) \/ Reconnect(c) \/ Haunt(c)
  BY <1>6, MessageFresh, CloseFresh, TimerFresh
<1>7. CASE UNCHANGED vars
  <2>1. UNCHANGED <<committed, unpublished, casts, sockets, entry, view, missed>>
    BY <1>7 DEF vars, server
  <2>2. ViewTypeOK' /\ (WillBeTold => WillBeTold')
    BY <2>1 DEF FreshInv, ViewTypeOK, WillBeTold, Owned
  <2>. QED BY <2>1, <2>2, SameScreen
<1>. QED BY <1>1, <1>2, <1>3, <1>4, <1>5, <1>6, <1>7 DEF Next

\* When all is quiet a mounted component shows what is committed, unless a change
\* passed the tab by: through every interleaving of commits, publishes, messages,
\* fetches and their answers, mounts, drops and reconnects.
THEOREM ScreenFresh == Spec => []FreshUnlessMissed
<1>1. FreshInv => FreshUnlessMissed
  <2>1. SUFFICES ASSUME FreshInv, entry.handlers # {}, Quiet, ~ missed
                 PROVE  view.shown = committed
    BY DEF FreshUnlessMissed
  <2>2. ~ WillBeTold
    BY <2>1 DEF Quiet, WillBeTold
  <2>3. UpToDate
    BY <2>1, <2>2 DEF FreshInv
  <2>. QED BY <2>1, <2>3 DEF Quiet, UpToDate
<1>. QED BY <1>1, FreshInit, FreshNext, LiveInvariant, PTL DEF Spec
===============================================================================
