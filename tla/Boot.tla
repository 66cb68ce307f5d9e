--------------------------------- MODULE Boot ---------------------------------
(***************************************************************************)
(* The start of the server: migrations, app.db.seed, and the lifespan of    *)
(* the application, which resumes the matches left LIVE or starts a new     *)
(* one; then requests that create accounts, sports and matches.  Every one  *)
(* of them looks a row up and inserts it when it is missing, in steps that  *)
(* interleave; a crash or an exception may come between any two.            *)
(*                                                                          *)
(* What runs is a program: the sequence of statements that are still to do. *)
(* A statement that branches puts the statements of its branch in front.    *)
(***************************************************************************)
EXTENDS Naturals, Sequences, FiniteSets, SequencesExt

CONSTANTS
    Sessions,     \* requests and background tasks of the running server
    Fixtures,     \* DEMO_FIXTURES: a sequence of [sport, events: a sequence]
    Depth,        \* orders placed on a seeded market
    NewEvents,    \* events of start_next_demo_match
    Emails,       \* addresses that users register
    NewSports,    \* codes of sports an admin creates
    NewTypes,     \* codes of market types an admin creates
    Cricket,      \* the code of the sport whose competition demo matches go to
    MaxRequests,  \* bound: requests
    MaxFaults     \* bound: crashes and exceptions

ASSUME BootAssumption ==
    /\ "boot" \notin Sessions
    /\ Fixtures \in Seq(ToSet(Fixtures))
    /\ \A f \in ToSet(Fixtures) : f.events \in Seq(ToSet(f.events))
    /\ Len(Fixtures) > 0 /\ Fixtures[1].sport = Cricket /\ Len(Fixtures[1].events) > 0
    /\ Depth \in Nat /\ MaxRequests \in Nat /\ MaxFaults \in Nat

VARIABLES
    db,       \* committed rows: [row, by: the program that inserted it]
    tx,       \* program -> rows it has flushed and not committed
    todo,     \* program -> statements to do
    phase,    \* "down", "seed", "lifespan" or "up"
    loops,    \* _running_tasks
    over,     \* events whose match is COMPLETED
    cut,      \* history: did the seed die with a part of the catalogue committed, and no more?
    lost,     \* history: LIVE events that nothing drove any longer when their start died
    stopped,  \* history: since the boot, did a start of a demo match die, or an admin finish one?
    requests, faults

vars == <<db, tx, todo, phase, loops, over, cut, lost, stopped, requests, faults>>
history == <<cut, lost, stopped, requests, faults>>

Programs == Sessions \cup {"boot"}

-----------------------------------------------------------------------------
(* Rows and statements                                                      *)

Row(table, key) == [table |-> table, key |-> key, n |-> 0]
Order(ev, n) == [table |-> "orders", key |-> ev, n |-> n]

Committed(row) == \E x \in db : x.row = row
\* A query sees what is committed and what its own session has flushed.
Sees(p, row) == \E x \in db \cup tx[p] : x.row = row

Sport(code) == Row("sports", code)    \* with its competition, if it is seeded
MarketType(code) == Row("market_types", code)
Match(ev) == Row("match_states", ev)
MarketOf(ev) == Row("markets", ev)    \* the event, its market and two selections

\* A statement about a set of rows, or about an event or an address.
About(statement, rows) == <<[do |-> statement, rows |-> rows, key |-> Cricket]>>
Do(statement, key) == <<[do |-> statement, rows |-> {}, key |-> key]>>
Insert(row) == About("insert", {row})
CommitNow == About("commit", {})
NextDemo == About("next", {})

\* A user, and create_wallet with the initial grant, in one transaction.
Account(email) == Insert(Row("users", email)) \o Insert(Row("wallets", email)) \o CommitNow

Bots == <<"market-maker-a", "market-maker-b">>
EnsureBots == Do("ensure", Bots[1]) \o Do("ensure", Bots[2])

-----------------------------------------------------------------------------
(* Programs                                                                 *)

\* AuthService.register.
Register(email) == About("unless", {Row("users", email)}) \o Account(email)

\* CatalogService.create_sport and create_market_type.
CreateSport(code) == About("unless", {Sport(code)}) \o Insert(Sport(code)) \o CommitNow
CreateMarketType(code) ==
    About("unless", {MarketType(code)}) \o Insert(MarketType(code)) \o CommitNow

\* The admin's start of a match: start_match, then its task.
StartRequest(ev) == Do("start", ev) \o Do("drive", ev)

\* seed_roles and seed_market_types.
SeedCodes ==
    About("absent", {Row("roles", "user")}) \o CommitNow
    \o About("absent", {MarketType("MATCH_ODDS")}) \o CommitNow

LiveEvent == Fixtures[1].events[1]
DemoEvents == {LiveEvent} \cup NewEvents

\* place_order commits all that the seed's session has flushed so far.
Liquidity(ev) == FlattenSeq([n \in 1 .. Depth |-> Insert(Order(ev, n)) \o CommitNow])
SeedEvent(ev) ==
    Insert(MarketOf(ev)) \o (IF ev = LiveEvent THEN <<>> ELSE Liquidity(ev))
SeedFixture(f) ==
    Insert(Sport(f.sport))
    \o FlattenSeq([n \in 1 .. Len(f.events) |-> SeedEvent(f.events[n])])

SeededSports == {Sport(Fixtures[i].sport) : i \in 1 .. Len(Fixtures)}
AllSports == SeededSports \cup {Sport(code) : code \in NewSports}

Providers == Do("ensure", "liquidity-a") \o Do("ensure", "liquidity-b")
Filled ==
    FlattenSeq([i \in 1 .. Len(Fixtures) |-> SeedFixture(Fixtures[i])])
    \o CommitNow \o Do("start", LiveEvent)

\* Slip: it is the first liquidity provider that is looked up.
SeedUnlessProvider == About("unless", {Row("users", "liquidity-a")}) \o (Providers \o Filled)

\* seed_demo_catalog: nothing, if there is any sport.
SeedCatalog == About("unless", AllSports) \o (Providers \o Filled)

Seed == SeedCodes \o Do("ensure", "demo-admin") \o Do("ensure", "demo-user") \o SeedCatalog

\* What the seed leaves: the sports, the markets of the events, and orders on all
\* but the LIVE one.
Catalogue ==
    SeededSports
    \cup UNION {LET events == Fixtures[i].events
                IN  {MarketOf(events[n]) : n \in 1 .. Len(events)}
                    \cup {Order(events[n], k) :
                            n \in {n \in 1 .. Len(events) : events[n] # LiveEvent}, k \in 1 .. Depth}
                : i \in 1 .. Len(Fixtures)}

-----------------------------------------------------------------------------
(* Statements                                                               *)

At(p, statement) == todo[p] # <<>> /\ Head(todo[p]).do = statement
Key(p) == Head(todo[p]).key
Rows(p) == Head(todo[p]).rows
Goto(p, program) == todo' = [todo EXCEPT ![p] = program]
Rest(p) == Tail(todo[p])

\* The event that p, when it ends well, will have started and registered.
Starting(p) == {st.key : st \in {st \in ToSet(todo[p]) : st.do = "drive"}}
StartsDemo(p) == \E st \in ToSet(todo[p]) : st.do \in {"next", "drive"}

Live == {ev \in {x.row.key : x \in {x \in db : x.row.table = "match_states"}} : ev \notin over}

\* A part of the catalogue is committed, and a part is not.
PartlySeeded ==
    /\ \E x \in db : x.row \in SeededSports
    /\ ~ (Catalogue \subseteq {x.row : x \in db})

\* p ends with an exception: its session is rolled back.  The shell stops when
\* the seed does; the other programs catch it, or answer 500.
Raise(p) ==
    /\ tx' = [tx EXCEPT ![p] = {}] /\ Goto(p, <<>>)
    /\ phase' = IF p = "boot" /\ phase = "seed" THEN "down" ELSE phase
    /\ cut' = (cut \/ (p = "boot" /\ phase = "seed" /\ PartlySeeded))
    /\ lost' = lost \cup ((Starting(p) \cap Live)
                          \ (loops \cup UNION {Starting(q) : q \in Programs \ {p}}))
    /\ stopped' = (stopped \/ StartsDemo(p))
    /\ UNCHANGED <<db, loops, over>>

\* Slip: there is no unique index.
NoIndex(row) == FALSE

\* The unique indexes on codes, addresses, users' wallets and events' matches.
Taken(row) == Committed(row)

\* An INSERT waits for the transaction that has flushed the same key.
InsertRow(p) ==
    /\ At(p, "insert")
    /\ \A row \in Rows(p) :
         ~ Taken(row) /\ \A q \in Programs \ {p} : \A x \in tx[q] : x.row # row
    /\ tx' = [tx EXCEPT ![p] = @ \cup {[row |-> row, by |-> p] : row \in Rows(p)}]
    /\ Goto(p, Rest(p))
    /\ UNCHANGED <<db, phase, loops, over, history>>

InsertRaises(p) ==
    /\ At(p, "insert") /\ \E row \in Rows(p) : Taken(row)
    /\ Raise(p) /\ UNCHANGED <<requests, faults>>

Commit(p) ==
    /\ At(p, "commit")
    /\ db' = db \cup tx[p]
    /\ tx' = [tx EXCEPT ![p] = {}]
    /\ Goto(p, Rest(p))
    /\ UNCHANGED <<phase, loops, over, history>>

\* A lookup, and what follows from it: return early ("unless"), insert the
\* missing code ("absent"), or make the missing account (_ensure_user,
\* _ensure_bot).
LookUp(p) ==
    /\ \/ /\ At(p, "unless")
          /\ Goto(p, IF \E row \in Rows(p) : Sees(p, row) THEN <<>> ELSE Rest(p))
       \/ /\ At(p, "absent")
          /\ Goto(p, IF \E row \in Rows(p) : Sees(p, row) THEN Rest(p)
                     ELSE About("insert", Rows(p)) \o Rest(p))
       \/ /\ At(p, "ensure")
          /\ Goto(p, IF Sees(p, Row("users", Key(p))) THEN Rest(p)
                     ELSE Account(Key(p)) \o Rest(p))
    /\ UNCHANGED <<db, tx, phase, loops, over, history>>

\* start_match: a LIVE match is returned as it is, a COMPLETED one is started
\* again.  The match is committed before the bots are looked up.
Start(p) ==
    /\ At(p, "start")
    /\ LET ev == Key(p)
       IN  Goto(p, CASE Sees(p, Match(ev)) /\ ev \notin over -> Rest(p)
                     [] ev \in over -> Do("again", ev) \o EnsureBots \o Rest(p)
                     [] OTHER -> Insert(Match(ev)) \o CommitNow \o EnsureBots \o Rest(p))
    /\ UNCHANGED <<db, tx, phase, loops, over, history>>

StartAgain(p) ==
    /\ At(p, "again")
    /\ over' = over \ {Key(p)} /\ Goto(p, Rest(p))
    /\ UNCHANGED <<db, tx, phase, loops, history>>

\* start_simulation_task.
Drive(p) ==
    /\ At(p, "drive")
    /\ loops' = loops \cup {Key(p)} /\ Goto(p, Rest(p))
    /\ UNCHANGED <<db, tx, phase, over, history>>

\* start_next_demo_match: nothing, without the cricket competition.
StartNext(p) ==
    /\ At(p, "next")
    /\ IF Committed(Sport(Cricket)) /\ Committed(MarketType("MATCH_ODDS"))
       THEN \E ev \in NewEvents :
              /\ \A q \in Programs : ~ Sees(q, MarketOf(ev)) /\ ev \notin Starting(q)
              /\ Goto(p, Insert(MarketOf(ev)) \o CommitNow \o StartRequest(ev))
       ELSE Goto(p, <<>>)
    /\ UNCHANGED <<db, tx, phase, loops, over, history>>

-----------------------------------------------------------------------------
(* The server                                                               *)

Boot ==
    /\ phase = "down"
    /\ phase' = "seed" /\ Goto("boot", Seed)
    /\ UNCHANGED <<db, tx, loops, over, history>>

\* Slip: the matches left LIVE are not resumed.
LifespanFresh ==
    /\ phase = "seed" /\ todo["boot"] = <<>>
    /\ phase' = "lifespan"
    /\ Goto("boot", NextDemo)
    /\ lost' = {} /\ stopped' = FALSE
    /\ UNCHANGED <<db, tx, loops, over, cut, requests, faults>>

\* lifespan, in a process of its own after the seed's.
Lifespan ==
    /\ phase = "seed" /\ todo["boot"] = <<>>
    /\ phase' = "lifespan"
    /\ loops' = Live
    /\ Goto("boot", IF Live = {} THEN NextDemo ELSE <<>>)
    /\ lost' = {} /\ stopped' = FALSE
    /\ UNCHANGED <<db, tx, over, cut, requests, faults>>

Serve ==
    /\ phase = "lifespan" /\ todo["boot"] = <<>>
    /\ phase' = "up"
    /\ UNCHANGED <<db, tx, todo, loops, over, history>>

Request(s) ==
    /\ phase = "up" /\ todo[s] = <<>> /\ requests < MaxRequests
    /\ requests' = requests + 1
    /\ \E program \in {Register(email) : email \in Emails}
                      \cup {CreateSport(code) : code \in NewSports}
                      \cup {CreateMarketType(code) : code \in NewTypes}
                      \cup {StartRequest(ev) : ev \in {ev \in DemoEvents : Committed(MarketOf(ev))}} :
         Goto(s, program)
    /\ UNCHANGED <<db, tx, phase, loops, over, cut, lost, stopped, faults>>

\* The loop of ev ends with its match, and starts the next one.
MatchOver(ev, s) ==
    /\ ev \in loops \cap Live /\ todo[s] = <<>>
    /\ over' = over \cup {ev} /\ loops' = loops \ {ev}
    /\ Goto(s, NextDemo)
    /\ UNCHANGED <<db, tx, phase, history>>

\* The admin finishes a match, and its loop.
Finish(ev) ==
    /\ phase = "up" /\ ev \in Live /\ requests < MaxRequests
    /\ requests' = requests + 1
    /\ over' = over \cup {ev} /\ loops' = loops \ {ev}
    /\ stopped' = TRUE
    /\ UNCHANGED <<db, tx, todo, phase, cut, lost, faults>>

\* The database or the code raises in p.
Fault(p) ==
    /\ faults < MaxFaults /\ todo[p] # <<>>
    /\ faults' = faults + 1
    /\ Raise(p) /\ UNCHANGED requests

\* The process goes, the seed's or the server's.
Crash ==
    /\ faults < MaxFaults /\ phase # "down"
    /\ faults' = faults + 1
    /\ phase' = "down" /\ loops' = {}
    /\ tx' = [p \in Programs |-> {}] /\ todo' = [p \in Programs |-> <<>>]
    /\ cut' = (cut \/ (phase = "seed" /\ PartlySeeded))
    /\ UNCHANGED <<db, over, lost, stopped, requests>>

Init ==
    /\ db = {} /\ phase = "down" /\ loops = {} /\ over = {}
    /\ tx = [p \in Programs |-> {}] /\ todo = [p \in Programs |-> <<>>]
    /\ cut = FALSE /\ lost = {} /\ stopped = FALSE
    /\ requests = 0 /\ faults = 0

Next ==
    \/ Boot \/ Lifespan \/ Serve \/ Crash
    \/ \E s \in Sessions : Request(s)
    \/ \E ev \in DemoEvents : Finish(ev) \/ \E s \in Sessions : MatchOver(ev, s)
    \/ \E p \in Programs :
         \/ InsertRow(p) \/ InsertRaises(p) \/ Commit(p) \/ LookUp(p)
         \/ Start(p) \/ StartAgain(p) \/ Drive(p) \/ StartNext(p) \/ Fault(p)

Spec == Init /\ [][Next]_vars

-----------------------------------------------------------------------------
(* Properties                                                               *)

Keys(table) == {x \in db : x.row.table = table}

\* However registrations, boots and starts of matches interleave and die, an
\* address has one account, the account has the wallet that was made with it,
\* and a code has one sport (check-then-insert under unique indexes, and one
\* commit for user and wallet).
AccountsWhole ==
    /\ \A x, y \in db : x.row = y.row => x = y
    /\ {[k |-> x.row.key, by |-> x.by] : x \in Keys("users")}
       = {[k |-> x.row.key, by |-> x.by] : x \in Keys("wallets")}

\* When the server is up, the whole demo catalogue is there with its liquidity
\* (seed: "always ends up in the same rich, browsable state"), unless a seed
\* died with a part of it committed.  A seed that died before is made up for.
SeededUnlessCut ==
    phase = "up" /\ ~ cut => Catalogue \subseteq {x.row : x \in db}

\* While the server is up a LIVE match has its loop, or is being started, unless
\* its start died after committing it and nothing else drove it; and there is
\* something live ("so there's always something live to show", lifespan), unless
\* a start died or an admin finished a match: a boot after any crash restores
\* this from what was committed.
LiveIsDriven ==
    phase = "up" =>
        /\ Live \subseteq loops \cup lost \cup UNION {Starting(p) : p \in Programs}
        /\ stopped \/ loops # {} \/ \E p \in Programs : StartsDemo(p)
===============================================================================
