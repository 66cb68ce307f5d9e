-------------------------- MODULE ExchangeInvariant --------------------------
(***************************************************************************)
(* The inductive invariant behind the safety properties of Exchange: how    *)
(* far the private copies of a session may be trusted.                      *)
(*                                                                          *)
(* A copy that was read without a lock may be old, but then its version is  *)
(* old too; a locked copy is the row; what a session is going to write is   *)
(* a row it has locked or must still lock, or the row of its own new order, *)
(* which no other session can have.                                         *)
(***************************************************************************)
EXTENDS ExchangeAccounts

\* The session has inserted its order row and not committed it yet.
Taking(t) == t.pc \in PlacePCs \ {"insert"}

\* A market row that will be written was not SETTLED when it was read, and if
\* its version has not moved it is still the row.
MarketCopyOK(t) ==
    t.pc \in {"settleBets", "settleOrders", "transition"} =>
        /\ t.market.status # "SETTLED"
        /\ t.market.version <= market.version
        /\ t.market.version = market.version => t.market = market

\* A copy not yet changed is not ahead of its row, and at the row's version it
\* is the row.
CopiesOK(t) ==
    \A r \in Requests \ t.dirty :
        /\ t.rows[r].version <= orders[r].version
        /\ t.rows[r].version = orders[r].version => t.rows[r] = orders[r]

\* A locked row is at the version of its copy, and it is no new order's.
LocksOK(t) ==
    \A r \in t.locked : t.rows[r].version = orders[r].version /\ orders[r].version > 0

\* The orders a settlement has cancelled in memory only: at its version, the copy
\* is the row, cancelled.
UnsentOK(t) ==
    t.pc = "settleOrders" => \A r \in Unsent(t) :
        /\ t.rows[r].status = "CANCELLED"
        /\ t.rows[r].version <= orders[r].version
        /\ t.rows[r].version = orders[r].version =>
             /\ orders[r].status \in OpenStatuses
             /\ t.rows[r] = [orders[r] EXCEPT !.status = "CANCELLED"]

\* What is going to be written, if its locks can be had: locked rows that are open
\* in the database, and the new order; and what is written makes sense.
WritesOK(t) ==
    /\ \A r \in t.dirty : \/ /\ r \in t.locked /\ orders[r].status \in OpenStatuses
                             /\ Coherent(r, t.rows[r])
                          \/ Taking(t) /\ r = t.order
                          \/ t.pc = "settleOrders" /\ r \in Unsent(t)
    /\ Taking(t) => /\ t.order \in t.dirty
                    /\ t.rows[t.order].version = 0
                    /\ t.rows[t.order].matched >= 0
                    /\ t.rows[t.order].matched <= t.order.stake
                    /\ ~ KeyTaken(t.order)

\* Two orders that may meet: the same selection, the other side.
Suits(r, m) == m.selection = r.selection /\ m.side = Opposite(r.side)

\* What each point of a handler may rely on.
PhaseOK(t) ==
    /\ t.pc \in {"insert", "cancelFlush", "settleBets"} => t.dirty = {} /\ t.locked = {}
    /\ t.pc = "reserve" => t.dirty = {t.order} /\ t.locked = {}
    /\ t.pc = "lock" =>
         /\ t.dirty = {t.order}
         /\ \A m \in t.todo \cup t.locked : Suits(t.order, m)
         /\ \A m \in t.todo : orders[m].version > 0
    /\ t.pc = "match" =>
         /\ t.todo \subseteq t.locked \ t.dirty
         /\ \A m \in t.todo : orders[m].status \in OpenStatuses
    /\ t.pc = "cancelFlush" => t.rows[t.order].status \in OpenStatuses
    /\ t.pc = "cancelRelease" =>
         /\ t.dirty = {t.order} /\ t.locked = {t.order}
         /\ t.rows[t.order].status = "CANCELLED"
    /\ t.pc = "settleOrders" =>
         /\ t.todo \cap t.dirty = {} /\ t.locked \subseteq t.dirty
         /\ \A r \in t.todo : t.rows[r].status \in OpenStatuses

\* Releases are only pending in a settlement, for rows it has cancelled.
ReleasesOK(t) ==
    \A r \in Requests :
        /\ ReleasesExact(t.entries, r, t.rows[r])
        /\ \A e \in t.entries : e.key \in ReleaseKeys(r) =>
             t.pc = "settleOrders" /\ r \in t.dirty

SessionOK(t) ==
    /\ MarketCopyOK(t)
    /\ CopiesOK(t)
    /\ LocksOK(t)
    /\ UnsentOK(t)
    /\ WritesOK(t)
    /\ PhaseOK(t)
    /\ ReleasesOK(t)

\* Two sessions neither lock the same row nor insert under the same key.
Apart(t, v) ==
    /\ t.locked \cap v.locked = {}
    /\ Taking(t) /\ Taking(v) => ~ (t.order.user = v.order.user /\ t.order.key = v.order.key)

\* A row that was never written is the initial one.
RowsStart == \A r \in Requests : orders[r].version = 0 => orders[r] = NoRow

TablesOK ==
    /\ RowsStart
    /\ RowsCoherent
    /\ ReleaseExact

\* The strengthening of RowsCoherent and ReleaseExact that every step keeps:
\* it says why a commit never writes over what another session committed.
Inv ==
    /\ TypeOK
    /\ TablesOK
    /\ \A s \in Sessions : SessionOK(tx[s])
    /\ \A s, z \in Sessions : s # z => Apart(tx[s], tx[z])
=============================================================================
