-------------------------- MODULE ExchangeRefinement --------------------------
(***************************************************************************)
(* Exchange implements TradingContract: however the statements of requests  *)
(* interleave, each commit is one step of the contract on the committed     *)
(* rows, and nothing else changes them.  And who waits for whom: placements *)
(* do not deadlock among themselves, and no handler goes back.              *)
(***************************************************************************)
EXTENDS Exchange, FiniteSets

\* The server has a bounded pool of connections (create_async_engine, db/session.py).
ASSUME SessionsAssumption == IsFiniteSet(Sessions)

\* The committed rows, without what only the sessions look at.
Contract ==
    INSTANCE TradingContract WITH
        book <- [r \in Requests |-> [status |-> orders[r].status, matched |-> orders[r].matched]],
        settled <- market.status = "SETTLED"

\* Place, cancel and settle are atomic on the committed rows: order, bets and
\* wallets move together, from the values committed last, and never for a
\* request that failed (WalletService: "an order and its exposure hold are
\* created or rejected atomically").
ImplementsContract == Contract!Spec

-----------------------------------------------------------------------------

\* What the statement a placement is at waits for, and z has: the entry in the unique
\* index, the wallet, or the row that is next in the order of list_matchable_opposite.
HeldUpBy(s, z) ==
    LET t == tx[s]
        v == tx[z]
    IN  \/ /\ t.pc = "insert" /\ v.pc \in PlacePCs \ {"insert"}
           /\ v.order.user = t.order.user /\ v.order.key = t.order.key
        \/ t.pc = "reserve" /\ t.order.user \in v.held
        \/ t.pc = "lock" /\ \E m \in v.locked : FirstOf(t.todo, m)

\* Requests that place orders never deadlock among themselves, however many takers
\* walk the same side of the book from different snapshots, and whoever else works
\* on it: there are no placements each of which is held up by another of them.
\* place_order takes the index entry, then the wallet, then the makers' rows, and
\* list_matchable_opposite takes those in one order for all takers.  (A cancel or a
\* settlement takes a wallet when it has a row: with one, there are cycles.)
PlacementsDoNotDeadlock ==
    ~ \E D \in SUBSET {s \in Sessions : tx[s].pc \in PlacePCs} :
        D # {} /\ \A s \in D : \E z \in D \ {s} : HeldUpBy(s, z)

\* The places in a handler, in the order it comes to them.
Stage ==
    [insert |-> 1, reserve |-> 2, lock |-> 3, match |-> 4, cancelFlush |-> 1, cancelRelease |-> 2,
     settleBets |-> 1, settleOrders |-> 2, transition |-> 1]

\* A handler never goes back: each step of a session ends its request, or takes
\* it to a later place, or leaves less to do at the same one, so a request takes
\* a bounded number of steps.
Nearer(t, v) ==
    \/ v.pc = "idle"
    \/ v.pc # "idle" /\ Stage[v.pc] > Stage[t.pc]
    \/ /\ v.pc = t.pc /\ v.todo \subseteq t.todo /\ v.todoBets \subseteq t.todoBets
       /\ v.todo # t.todo \/ v.todoBets # t.todoBets
    \/ /\ v.pc = t.pc /\ v.todo = t.todo /\ v.todoBets = t.todoBets
       /\ Unsent(v) \subseteq Unsent(t) /\ Unsent(v) # Unsent(t)
StepsOnward ==
    [][\A s \in Sessions : ~ Idle(s) /\ tx'[s] # tx[s] => Nearer(tx[s], tx'[s])]_vars
=============================================================================
