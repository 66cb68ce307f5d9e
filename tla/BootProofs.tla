----------------------------- MODULE BootProofs -----------------------------
(***************************************************************************)
(* What is proved of Boot, for every value of the constants: accounts stay  *)
(* whole, the server comes up with the whole catalogue unless a seed was    *)
(* cut, and LIVE matches are driven.                                        *)
(***************************************************************************)
EXTENDS Boot, WellFoundedInduction, SequenceTheorems, TLAPS

-----------------------------------------------------------------------------
(* The inductive invariants                                                 *)

\* What programs are made of.
Names ==
    NewEvents \cup NewSports \cup NewTypes \cup Emails
    \cup {Bots[1], Bots[2]} \cup {"demo-admin", "demo-user", "liquidity-a", "liquidity-b"}
    \cup {"user", "MATCH_ODDS"} \cup {f.sport : f \in ToSet(Fixtures)}
    \cup (UNION {ToSet(f.events) : f \in ToSet(Fixtures)})
Tables ==
    {"roles", "users", "wallets", "sports", "market_types", "markets", "orders", "match_states"}
Verbs ==
    {"insert", "commit", "unless", "absent", "ensure", "start", "again", "drive", "next"}
TableRows == [table : Tables, key : Names, n : Nat]
Statements == [do : Verbs, rows : SUBSET TableRows, key : Names]

Makes(st, table) == st.do = "insert" /\ \E row \in st.rows : row.table = table
CommitsFrom(prog, i) ==
    \E j \in i .. Len(prog) : prog[j].do = "commit" /\ \A k \in i .. j : prog[k].do # "unless"

\* What the i-th statement can rely on: an INSERT is committed before an early
\* return, a user is followed by its wallet, and a program that drives a match
\* ends with that.
StatementOK(prog, i) ==
    /\ prog[i].do \in {"insert", "absent"} =>
         CommitsFrom(prog, i) /\ \E row \in prog[i].rows : prog[i].rows = {row}
    /\ prog[i].do = "absent" =>
         \A row \in prog[i].rows : row.table \notin {"users", "wallets", "match_states"}
    /\ Makes(prog[i], "users") =>
         \E row \in prog[i].rows : i < Len(prog) /\ prog[i] = Insert(Row("users", row.key))[1]
                                   /\ prog[i + 1] = Insert(Row("wallets", row.key))[1]
    /\ i > 1 /\ Makes(prog[i], "wallets") => Makes(prog[i - 1], "users")
    /\ prog[i].do \in {"next", "drive"} =>
         i = Len(prog) /\ \A j \in 1 .. Len(prog) : prog[j].do # "unless"

ProgramOK(prog) == prog \in Seq(Statements) /\ \A i \in 1 .. Len(prog) : StatementOK(prog, i)

Accounts(rows, table) == {[k |-> x.row.key, by |-> x.by] : x \in {x \in rows : x.row.table = table}}

\* The wallet that p is about to insert for the user it has flushed.
Owed(p, prog) ==
    IF prog # <<>> /\ Makes(prog[1], "wallets")
    THEN {[k |-> row.key, by |-> p] : row \in prog[1].rows} ELSE {}

\* What p has flushed gets committed or is lost as a whole.
SessionOK(p, flushed, prog) ==
    /\ ProgramOK(prog)
    /\ \A x \in flushed : x = [row |-> x.row, by |-> p] /\ x.row \in TableRows
    /\ flushed # {} => CommitsFrom(prog, 1)
    /\ Accounts(flushed, "users") = Accounts(flushed, "wallets") \cup Owed(p, prog)

Flushed == db \cup UNION {tx[p] : p \in Programs}

SessionsOK ==
    /\ DOMAIN todo = Programs /\ DOMAIN tx = Programs
    /\ \A p \in Programs : SessionOK(p, tx[p], todo[p])

\* No key is inserted twice, and accounts are whole whenever they are committed.
FlushedInv ==
    /\ SessionsOK
    /\ \A x, y \in Flushed : x.row = y.row => x = y
    /\ Accounts(db, "users") = Accounts(db, "wallets")

\* What runs in each phase: the seed starts no demo match of its own.
PhaseInv ==
    /\ phase \in {"down", "seed", "lifespan", "up"}
    /\ phase = "down" => todo["boot"] = <<>>
    /\ phase \in {"down", "seed"} => loops = {} /\ \A s \in Sessions : todo[s] = <<>>
    /\ phase = "seed" => \A st \in ToSet(todo["boot"]) : st.do \notin {"next", "drive"}

RowsIn(rows) == {x.row : x \in rows}
Held == RowsIn(db \cup tx["boot"])
Brings(prog) == UNION {st.rows : st \in {st \in ToSet(prog) : st.do \in {"insert", "absent"}}}
Seeded == Catalogue \subseteq RowsIn(db)
Needed == {Sport(Cricket), MarketType("MATCH_ODDS")}

\* row is brought by one of the first i statements.
Comes(row, prog, i) == \E j \in 1 .. i : prog[j].do \in {"insert", "absent"} /\ row \in prog[j].rows

\* The rest of the seed, when the rows of h are there: the look at the sports comes
\* before the first of them and after the market type, and cricket is the first.
SeedProg(prog, h) ==
    \A i \in 1 .. Len(prog) :
      /\ prog[i].do = "unless" =>
           /\ prog[i].rows = AllSports /\ \A row \in AllSports : ~ Comes(row, prog, i)
           /\ MarketType("MATCH_ODDS") \in h \/ Comes(MarketType("MATCH_ODDS"), prog, i)
      /\ prog[i].do \in {"insert", "absent"} /\ prog[i].rows \cap AllSports # {} =>
           prog[i].do = "insert" /\ (Sport(Cricket) \in h \/ Comes(Sport(Cricket), prog, i))

\* What is missing of the catalogue is in the rest of the seed.
SeedUnderWay ==
    /\ SeedProg(todo["boot"], Held)
    /\ cut \/ Catalogue \subseteq Held \cup Brings(todo["boot"])
    /\ Needed \subseteq Held \cup Brings(todo["boot"])
    /\ (\E st \in ToSet(todo["boot"]) : st.do = "unless") =>
         /\ RowsIn(tx["boot"]) \cap AllSports = {}
         /\ RowsIn(db) \cap AllSports # {} => cut \/ Seeded
    /\ Held \cap AllSports # {} => Sport(Cricket) \in Held

\* A sport that is found comes with cricket and, if no seed was cut, with the rest.
SeedInv ==
    /\ RowsIn(db) \cap AllSports # {} => Sport(Cricket) \in RowsIn(db)
    /\ phase = "down" /\ RowsIn(db) \cap AllSports # {} => cut \/ Seeded
    /\ phase = "seed" => SeedUnderWay
    /\ phase \in {"lifespan", "up"} => (cut \/ Seeded) /\ Needed \subseteq RowsIn(db)

\* p will have the loop of ev run, or the lifespan will.
Driven(p, ev) == ev \in Starting(p) \/ (p = "boot" /\ phase = "seed")

\* What p makes LIVE, or has flushed, is driven; LIVE matches have a loop to come or
\* running.
DriveInv ==
    /\ \A p \in Programs :
         /\ \A st \in ToSet(todo[p]) :
              /\ st.do \in {"start", "again"} => Driven(p, st.key)
              /\ st.do = "insert" =>
                   \A row \in st.rows : row.table = "match_states" => Driven(p, row.key)
         /\ \A x \in tx[p] : x.row.table = "match_states" => Driven(p, x.row.key)
    /\ phase \in {"lifespan", "up"} =>
         /\ Live \subseteq loops \cup lost \cup UNION {Starting(p) : p \in Programs}
         /\ stopped \/ loops # {} \/ \E p \in Programs : StartsDemo(p)

BootInv == FlushedInv /\ PhaseInv /\ SeedInv /\ DriveInv


-----------------------------------------------------------------------------
(* Sequences. FlattenSeq is a recursive function; its value is the last of  *)
(* the beginnings of the flattened sequence, and least counterexamples take *)
(* the place of induction.                                                  *)

\* f holds the beginnings of the flattened sequence, up to the n-th.
Joins(f, n, seqs) ==
    f = [i \in 1 .. n |-> IF i = 1 THEN seqs[i] ELSE f[i - 1] \o seqs[i]]

\* A set of natural numbers has a least one; the proofs below take a least counterexample.
LEMMA Least ==
    ASSUME NEW T \in SUBSET Nat, T # {}
    PROVE  \E n \in T : \A m \in T : n <= m
<1> DEFINE R == {ss \in Nat \X Nat : ss[1] < ss[2]}
<1>1. IsWellFoundedOn(R, Nat)
  BY NatLessThanWellFounded, Zenon DEF OpToRel
<1> HIDE DEF R
<1>2. PICK n \in T : \A m \in T : ~ (<<m, n>> \in R)
  BY <1>1, WFMin, Zenon
<1>3. \A m \in T : ~ (m < n)
  BY <1>2 DEF R
<1> QED  BY <1>3

\* What the concatenation of two sequences holds, at each place and as a set.
LEMMA JoinIs ==
    ASSUME NEW S, NEW s \in Seq(S), NEW t \in Seq(S)
    PROVE  /\ s \o t \in Seq(S) /\ Len(s \o t) = Len(s) + Len(t)
           /\ \A i \in 1 .. Len(s \o t) : (s \o t)[i] = IF i <= Len(s) THEN s[i] ELSE t[i - Len(s)]
           /\ ToSet(s \o t) = ToSet(s) \cup ToSet(t)
<1>1. /\ s \o t \in Seq(S) /\ Len(s \o t) = Len(s) + Len(t)
      /\ \A i \in 1 .. Len(s \o t) : (s \o t)[i] = IF i <= Len(s) THEN s[i] ELSE t[i - Len(s)]
  OBVIOUS
<1>2. ASSUME NEW i \in 1 .. Len(s) PROVE i \in 1 .. Len(s \o t) /\ (s \o t)[i] = s[i]
  BY <1>1
<1>3. ASSUME NEW i \in 1 .. Len(t)
      PROVE  Len(s) + i \in 1 .. Len(s \o t) /\ (s \o t)[Len(s) + i] = t[i]
  BY <1>1
<1>4. \A u \in Seq(S) : DOMAIN u = 1 .. Len(u)
  OBVIOUS
<1>5. ToSet(s \o t) \subseteq ToSet(s) \cup ToSet(t)
  BY <1>1, <1>4 DEF ToSet
<1>6. ToSet(s) \subseteq ToSet(s \o t)
  BY <1>1, <1>2, <1>4 DEF ToSet
<1>7. ToSet(t) \subseteq ToSet(s \o t)
  <2>1. ASSUME NEW i \in 1 .. Len(t) PROVE t[i] \in {(s \o t)[j] : j \in 1 .. Len(s \o t)}
    BY <1>3, Zenon
  <2> QED  BY <1>1, <1>4, <2>1 DEF ToSet
<1> QED  BY <1>1, <1>5, <1>6, <1>7

\* Beginnings of a flattened sequence exist: nothing shorter is a counterexample.
LEMMA JoinsExist ==
    ASSUME NEW S, NEW seqs \in Seq(Seq(S)), NEW n \in 1 .. Len(seqs)
    PROVE  \E f \in [1 .. n -> Seq(S)] : Joins(f, n, seqs)
<1> DEFINE Bad == {k \in 1 .. Len(seqs) : ~ \E f \in [1 .. k -> Seq(S)] : Joins(f, k, seqs)}
<1>1. SUFFICES ASSUME Bad # {} PROVE FALSE
  OBVIOUS
<1>2. PICK k \in Bad : \A m \in Bad : k <= m
  <2>1. Bad \subseteq Nat
    OBVIOUS
  <2> QED  BY <1>1, <2>1, Least
<1>3. k # 1
  <2>1. SUFFICES ASSUME k = 1 PROVE FALSE
    OBVIOUS
  <2> DEFINE f == [i \in 1 .. 1 |-> seqs[1]]
  <2>2. f \in [1 .. 1 -> Seq(S)]
    OBVIOUS
  <2>3. Joins(f, 1, seqs)
    BY DEF Joins
  <2> QED  BY <1>2, <2>1, <2>2, <2>3
<1> HIDE DEF Bad
<1>4. k \in 2 .. Len(seqs)
  BY <1>2, <1>3 DEF Bad
<1>5. PICK f \in [1 .. k - 1 -> Seq(S)] : Joins(f, k - 1, seqs)
  <2>1. k - 1 \in 1 .. Len(seqs)
    BY <1>4
  <2>2. k - 1 \notin Bad
    BY <1>2, <1>4
  <2> QED  BY <2>1, <2>2 DEF Bad
<1> DEFINE g == [i \in 1 .. k |-> IF i = k THEN f[k - 1] \o seqs[k] ELSE f[i]]
<1>6. seqs[k] \in Seq(S) /\ f[k - 1] \in Seq(S)
  BY <1>4
<1>7. g \in [1 .. k -> Seq(S)]
  BY <1>4, <1>6
<1>8. Joins(g, k, seqs)
  <2> DEFINE h == [i \in 1 .. k |-> IF i = 1 THEN seqs[i] ELSE g[i - 1] \o seqs[i]]
              e == [i \in 1 .. k - 1 |-> IF i = 1 THEN seqs[i] ELSE f[i - 1] \o seqs[i]]
  <2>1. ASSUME NEW i \in 1 .. k PROVE g[i] = h[i]
    <3>1. f = e
      BY <1>5 DEF Joins
    <3>2. i # k => f[i] = IF i = 1 THEN seqs[i] ELSE f[i - 1] \o seqs[i]
      <4> HIDE DEF e
      <4>1. i # k => i \in 1 .. k - 1
        BY <1>4
      <4>2. ASSUME NEW j \in 1 .. k - 1
            PROVE  e[j] = IF j = 1 THEN seqs[j] ELSE f[j - 1] \o seqs[j]
        BY DEF e
      <4> QED  BY <3>1, <4>1, <4>2
    <3>3. i # 1 => g[i - 1] = f[i - 1]
      BY <1>4
    <3> QED  BY <1>4, <3>2, <3>3
  <2>2. g = h
    BY <2>1
  <2> QED  BY <2>2 DEF Joins
<1> QED  BY <1>2, <1>4, <1>7, <1>8 DEF Bad

\* Concatenation associates.
LEMMA Regroup ==
    ASSUME NEW S, NEW a \in Seq(S), NEW b \in Seq(S), NEW c \in Seq(S), NEW s, s = a \o b
    PROVE  s \o c = a \o (b \o c)
OBVIOUS

\* s flattens the first n sequences: it starts with the first of them, and holds what they hold.
Flat(s, S, n, seqs) ==
    /\ s \in Seq(S)
    /\ ToSet(s) = UNION {ToSet(seqs[i]) : i \in 1 .. n}
    /\ \E rest \in Seq(S) : s = seqs[1] \o rest

\* The beginnings of a flattened sequence flatten.
LEMMA BeginningsAre ==
    ASSUME NEW S, NEW n \in Nat \ {0}, NEW seqs \in [1 .. n -> Seq(S)], NEW flat,
           Joins(flat, n, seqs)
    PROVE  Flat(flat[n], S, n, seqs)
<1> DEFINE All(i) == UNION {ToSet(seqs[j]) : j \in 1 .. i}
           Good(i) == /\ flat[i] \in Seq(S) /\ ToSet(flat[i]) = All(i)
                      /\ \E rest \in Seq(S) : flat[i] = seqs[1] \o rest
           Bad == {i \in 1 .. n : ~ Good(i)}
<1>1. flat[1] = seqs[1]
  <2>1. 1 \in 1 .. n
    OBVIOUS
  <2> QED  BY <2>1 DEF Joins
<1>2. ASSUME NEW i \in 2 .. n PROVE flat[i] = flat[i - 1] \o seqs[i]
  <2>1. i \in 1 .. n /\ i # 1
    OBVIOUS
  <2> QED  BY <2>1 DEF Joins
<1>3. Good(1)
  <2>1. seqs[1] \in Seq(S)
    OBVIOUS
  <2>2. seqs[1] = seqs[1] \o <<>> /\ <<>> \in Seq(S)
    BY <2>1
  <2>3. All(1) = ToSet(seqs[1])
    OBVIOUS
  <2> QED  BY <1>1, <2>1, <2>2, <2>3
<1>4. ASSUME NEW i \in 2 .. n, Good(i - 1) PROVE Good(i)
  <2> DEFINE s == flat[i - 1]
             t == seqs[i]
  <2>1. flat[i] = s \o t
    BY <1>2
  <2>2. s \in Seq(S) /\ t \in Seq(S) /\ ToSet(s) = All(i - 1) /\ seqs[1] \in Seq(S)
    <3>1. i \in 1 .. n /\ 1 \in 1 .. n
      OBVIOUS
    <3> QED  BY <1>4, <3>1
  <2>3. PICK rest \in Seq(S) : s = seqs[1] \o rest
    BY <1>4
  <2>4. All(i) = All(i - 1) \cup ToSet(t)
    <3>1. ASSUME NEW j \in 1 .. i PROVE j = i \/ j \in 1 .. i - 1
      OBVIOUS
    <3>2. ASSUME NEW j \in 1 .. i - 1 PROVE j \in 1 .. i
      OBVIOUS
    <3> QED  BY <3>1, <3>2
  <2>0. PICK first : first = seqs[1]
    OBVIOUS
  <2> HIDE DEF s, t, All
  <2>5. s \o t \in Seq(S) /\ ToSet(s \o t) = ToSet(s) \cup ToSet(t)
    BY <2>2, JoinIs
  <2>6. s \o t = first \o (rest \o t)
    <3>1. first \in Seq(S) /\ rest \in Seq(S) /\ t \in Seq(S) /\ s = first \o rest
      BY <2>0, <2>2, <2>3
    <3> HIDE DEF Good, Bad
    <3> QED  BY <3>1, Regroup
  <2>7. rest \o t \in Seq(S)
    BY <2>2
  <2>8. flat[i] = seqs[1] \o (rest \o t)
    BY <2>0, <2>1, <2>6
  <2> QED  BY <2>1, <2>2, <2>4, <2>5, <2>7, <2>8
<1> HIDE DEF Good
<1>5. Bad = {}
  <2>1. SUFFICES ASSUME Bad # {} PROVE FALSE
    OBVIOUS
  <2>2. Bad \subseteq Nat
    OBVIOUS
  <2>3. PICK i \in Bad : \A m \in Bad : i <= m
    BY <2>1, <2>2, Least
  <2>4. i \in 2 .. n
    BY <1>3
  <2>5. i - 1 \in 1 .. n /\ i - 1 \notin Bad
    BY <2>3, <2>4
  <2> QED  BY <1>4, <2>4, <2>5
<1>6. n \in 1 .. n
  OBVIOUS
<1>7. Good(n)
  BY <1>5, <1>6
<1> QED  BY <1>7 DEF Good, Flat

\* FlattenSeq flattens.
LEMMA FlattenIs ==
    ASSUME NEW S, NEW seqs \in Seq(Seq(S)), seqs # <<>>
    PROVE  Flat(FlattenSeq(seqs), S, Len(seqs), seqs)
<1> DEFINE n == Len(seqs)
<1>1. n \in Nat \ {0} /\ seqs \in [1 .. n -> Seq(S)] /\ n \in 1 .. n
  OBVIOUS
<1>2. PICK f \in [1 .. n -> Seq(S)] : Joins(f, n, seqs)
  BY <1>1, JoinsExist
<1> DEFINE flat == CHOOSE flatten : flatten = [i \in 1 .. n |-> IF i = 1 THEN seqs[i] ELSE flatten[i - 1] \o seqs[i]]
<1>3. Joins(flat, n, seqs)
  BY <1>2, Zenon DEF Joins
<1>4. FlattenSeq(seqs) = flat[n]
  BY <1>1, Zenon DEF FlattenSeq
<1> HIDE DEF flat
<1> QED  BY <1>1, <1>3, <1>4, BeginningsAre

-----------------------------------------------------------------------------
(* Programs                                                                 *)

\* What the tail of a sequence holds.
LEMMA RestIs ==
    ASSUME NEW S, NEW s \in Seq(S), s # <<>>
    PROVE  /\ Tail(s) \in Seq(S) /\ Len(Tail(s)) = Len(s) - 1 /\ Len(s) \in Nat \ {0}
           /\ \A i \in 1 .. Len(s) - 1 : Tail(s)[i] = s[i + 1]
           /\ Head(s) = s[1] /\ s[1] \in S
           /\ ToSet(s) = {s[1]} \cup ToSet(Tail(s))
<1>1. /\ Tail(s) \in Seq(S) /\ Len(Tail(s)) = Len(s) - 1 /\ Len(s) \in Nat \ {0}
      /\ \A i \in 1 .. Len(s) - 1 : Tail(s)[i] = s[i + 1]
      /\ Head(s) = s[1] /\ s[1] \in S
  OBVIOUS
<1>2. \A u \in Seq(S) : DOMAIN u = 1 .. Len(u)
  OBVIOUS
<1>3. ToSet(s) \subseteq {s[1]} \cup ToSet(Tail(s))
  <2>1. ASSUME NEW i \in 1 .. Len(s), i # 1
        PROVE  i - 1 \in 1 .. Len(Tail(s)) /\ s[i] = Tail(s)[i - 1]
    BY <1>1, <2>1
  <2>2. ASSUME NEW i \in 1 .. Len(s), i # 1
        PROVE  s[i] \in {Tail(s)[j] : j \in 1 .. Len(Tail(s))}
    BY <2>1, <2>2, Zenon
  <2> QED  BY <1>1, <1>2, <2>2 DEF ToSet
<1>4. ToSet(Tail(s)) \subseteq ToSet(s)
  <2>1. ASSUME NEW i \in 1 .. Len(Tail(s))
        PROVE  i + 1 \in 1 .. Len(s) /\ s[i + 1] = Tail(s)[i]
    BY <1>1
  <2> QED  BY <1>1, <1>2, <2>1 DEF ToSet
<1>5. s[1] \in ToSet(s)
  BY <1>1, <1>2 DEF ToSet
<1> QED  BY <1>1, <1>3, <1>4, <1>5

\* A commit that lies ahead of a statement still does when the program has moved on.
LEMMA CommitsInRest ==
    ASSUME NEW prog \in Seq(Statements), prog # <<>>, NEW i \in 2 .. Len(prog), CommitsFrom(prog, i)
    PROVE  CommitsFrom(Tail(prog), i - 1)
<1>1. PICK j \in i .. Len(prog) : prog[j].do = "commit" /\ \A k \in i .. j : prog[k].do # "unless"
  BY DEF CommitsFrom
<1>2. /\ Len(Tail(prog)) = Len(prog) - 1 /\ Len(prog) \in Nat
      /\ \A k \in 1 .. Len(prog) - 1 : Tail(prog)[k] = prog[k + 1]
  BY RestIs
<1>3. j - 1 \in i - 1 .. Len(Tail(prog)) /\ Tail(prog)[j - 1] = prog[j]
  BY <1>2
<1>4. ASSUME NEW k \in i - 1 .. j - 1 PROVE Tail(prog)[k].do # "unless"
  <2>1. k + 1 \in i .. j /\ k \in 1 .. Len(prog) - 1
    BY <1>2
  <2> QED  BY <1>1, <1>2, <2>1
<1> QED  BY <1>1, <1>3, <1>4 DEF CommitsFrom

\* The rest of a program is a program.
LEMMA RestOK ==
    ASSUME NEW prog, ProgramOK(prog), prog # <<>>
    PROVE  ProgramOK(Tail(prog))
<1> DEFINE rest == Tail(prog)
<1>1. /\ prog \in Seq(Statements) /\ rest \in Seq(Statements)
      /\ Len(rest) = Len(prog) - 1 /\ Len(prog) \in Nat \ {0}
      /\ \A k \in 1 .. Len(prog) - 1 : rest[k] = prog[k + 1]
  BY RestIs DEF ProgramOK
<1>2. ASSUME NEW i \in 1 .. Len(rest) PROVE StatementOK(rest, i)
  <2>1. i + 1 \in 1 .. Len(prog) /\ i + 1 \in 2 .. Len(prog) /\ rest[i] = prog[i + 1] /\ StatementOK(prog, i + 1)
    BY <1>1 DEF ProgramOK
  <2>2. rest[i].do \in {"insert", "absent"} =>
          CommitsFrom(rest, i) /\ \E row \in rest[i].rows : rest[i].rows = {row}
    <3>1. CommitsFrom(prog, i + 1) => CommitsFrom(rest, (i + 1) - 1)
      BY <1>1, <2>1, CommitsInRest
    <3>2. (i + 1) - 1 = i
      OBVIOUS
    <3> HIDE DEF rest
    <3> QED  BY <2>1, <3>1, <3>2 DEF StatementOK
  <2>3. rest[i].do = "absent" =>
          \A row \in rest[i].rows : row.table \notin {"users", "wallets", "match_states"}
    BY <2>1 DEF StatementOK
  <2>4. Makes(rest[i], "users") =>
          \E row \in rest[i].rows :
             /\ i < Len(rest) /\ rest[i] = Insert(Row("users", row.key))[1]
             /\ rest[i + 1] = Insert(Row("wallets", row.key))[1]
    <3>1. SUFFICES ASSUME Makes(rest[i], "users")
                   PROVE  \E row \in rest[i].rows :
                             /\ i < Len(rest) /\ rest[i] = Insert(Row("users", row.key))[1]
                             /\ rest[i + 1] = Insert(Row("wallets", row.key))[1]
      OBVIOUS
    <3>2. PICK row \in prog[i + 1].rows :
             /\ i + 1 < Len(prog) /\ prog[i + 1] = Insert(Row("users", row.key))[1]
             /\ prog[(i + 1) + 1] = Insert(Row("wallets", row.key))[1]
      BY <2>1, <3>1, Zenon DEF StatementOK
    <3>3. i < Len(rest) /\ rest[i + 1] = prog[(i + 1) + 1]
      BY <1>1, <3>2
    <3> QED  BY <2>1, <3>2, <3>3
  <2>5. i > 1 /\ Makes(rest[i], "wallets") => Makes(rest[i - 1], "users")
    <3>1. i > 1 => rest[i - 1] = prog[(i + 1) - 1] /\ i + 1 > 1
      BY <1>1
    <3> HIDE DEF rest
    <3> QED  BY <2>1, <3>1 DEF StatementOK
  <2>6. rest[i].do \in {"next", "drive"} =>
          i = Len(rest) /\ \A j \in 1 .. Len(rest) : rest[j].do # "unless"
    <3>1. SUFFICES ASSUME rest[i].do \in {"next", "drive"}
                   PROVE  i = Len(rest) /\ \A j \in 1 .. Len(rest) : rest[j].do # "unless"
      OBVIOUS
    <3>2. i + 1 = Len(prog) /\ \A j \in 1 .. Len(prog) : prog[j].do # "unless"
      BY <2>1, <3>1 DEF StatementOK
    <3>3. ASSUME NEW j \in 1 .. Len(rest) PROVE rest[j] = prog[j + 1] /\ j + 1 \in 1 .. Len(prog)
      BY <1>1
    <3>4. i \in Nat /\ Len(rest) = Len(prog) - 1 /\ Len(prog) \in Nat
      BY <1>1
    <3> HIDE DEF rest
    <3>5. i = Len(rest)
      BY <3>2, <3>4
    <3> QED  BY <3>2, <3>3, <3>5
  <2> HIDE DEF rest
  <2> QED  BY <2>2, <2>3, <2>4, <2>5, <2>6 DEF StatementOK
<1> QED  BY <1>1, <1>2 DEF ProgramOK

\* A commit that lies ahead still does when something follows or goes in front.
LEMMA CommitsInJoin ==
    ASSUME NEW a \in Seq(Statements), NEW b \in Seq(Statements)
    PROVE  /\ \A i \in 1 .. Len(a) : CommitsFrom(a, i) => CommitsFrom(a \o b, i)
           /\ \A i \in 1 .. Len(b) : CommitsFrom(b, i) => CommitsFrom(a \o b, Len(a) + i)
<1> DEFINE c == a \o b
<1>1. /\ Len(c) = Len(a) + Len(b) /\ Len(a) \in Nat /\ Len(b) \in Nat
      /\ \A k \in 1 .. Len(a) : c[k] = a[k]
      /\ \A k \in 1 .. Len(b) : c[Len(a) + k] = b[k]
  OBVIOUS
<1> HIDE DEF c
<1>2. ASSUME NEW i \in 1 .. Len(a), CommitsFrom(a, i) PROVE CommitsFrom(c, i)
  <2>1. PICK j \in i .. Len(a) : a[j].do = "commit" /\ \A k \in i .. j : a[k].do # "unless"
    BY <1>2 DEF CommitsFrom
  <2>2. j \in i .. Len(c) /\ c[j].do = "commit"
    BY <1>1, <2>1
  <2>3. ASSUME NEW k \in i .. j PROVE c[k].do # "unless"
    BY <1>1, <2>1
  <2> QED  BY <2>2, <2>3 DEF CommitsFrom
<1>3. ASSUME NEW i \in 1 .. Len(b), CommitsFrom(b, i) PROVE CommitsFrom(c, Len(a) + i)
  <2>1. PICK j \in i .. Len(b) : b[j].do = "commit" /\ \A k \in i .. j : b[k].do # "unless"
    BY <1>3 DEF CommitsFrom
  <2>2. Len(a) + j \in Len(a) + i .. Len(c) /\ c[Len(a) + j].do = "commit"
    BY <1>1, <2>1
  <2>3. ASSUME NEW k \in Len(a) + i .. Len(a) + j PROVE c[k].do # "unless"
    <3>1. k - Len(a) \in i .. j /\ k - Len(a) \in 1 .. Len(b) /\ k = Len(a) + (k - Len(a))
      BY <1>1
    <3>2. c[k] = b[k - Len(a)]
      BY <1>1, <3>1
    <3> QED  BY <2>1, <3>1, <3>2
  <2> QED  BY <2>2, <2>3 DEF CommitsFrom
<1> QED  BY <1>2, <1>3 DEF c

\* No statement of prog is one of these.
Free(prog, statements) == \A i \in 1 .. Len(prog) : prog[i].do \notin statements

\* Two programs one after the other are a program, unless the second would start
\* in the middle of an account or the first ends with a demo match.
LEMMA JoinOK ==
    ASSUME NEW a, NEW b, ProgramOK(a), ProgramOK(b),
           b # <<>> => ~ Makes(b[1], "wallets"),
           Free(a, {"next", "drive"}),
           Free(a, {"unless"}) \/ Free(b, {"next", "drive"})
    PROVE  ProgramOK(a \o b)
<1> DEFINE c == a \o b
<1>1. /\ a \in Seq(Statements) /\ b \in Seq(Statements) /\ c \in Seq(Statements)
      /\ Len(c) = Len(a) + Len(b) /\ Len(a) \in Nat /\ Len(b) \in Nat
      /\ \A k \in 1 .. Len(a) : c[k] = a[k]
      /\ \A k \in 1 .. Len(b) : c[Len(a) + k] = b[k]
  BY DEF ProgramOK
<1>2. /\ \A i \in 1 .. Len(a) : CommitsFrom(a, i) => CommitsFrom(c, i)
      /\ \A i \in 1 .. Len(b) : CommitsFrom(b, i) => CommitsFrom(c, Len(a) + i)
  BY <1>1, CommitsInJoin
<1> HIDE DEF c
<1>3. ASSUME NEW i \in 1 .. Len(a) PROVE StatementOK(c, i)
  <2>1. c[i] = a[i] /\ StatementOK(a, i) /\ i \in Nat
    BY <1>1 DEF ProgramOK
  <2>2. i < Len(a) => c[i + 1] = a[i + 1] /\ i < Len(c)
    <3>1. i < Len(a) => i + 1 \in 1 .. Len(a)
      BY <1>1
    <3> QED  BY <1>1, <3>1
  <2>3. i > 1 => c[i - 1] = a[i - 1]
    BY <1>1
  <2>4. c[i].do \notin {"next", "drive"}
    BY <2>1 DEF Free
  <2>5. Makes(c[i], "users") =>
          \E row \in c[i].rows : i < Len(c) /\ c[i] = Insert(Row("users", row.key))[1]
                                /\ c[i + 1] = Insert(Row("wallets", row.key))[1]
    <3>1. SUFFICES ASSUME Makes(c[i], "users")
                   PROVE \E row \in c[i].rows : i < Len(c) /\ c[i] = Insert(Row("users", row.key))[1]
                                /\ c[i + 1] = Insert(Row("wallets", row.key))[1]
      OBVIOUS
    <3>2. PICK row \in a[i].rows : i < Len(a) /\ a[i] = Insert(Row("users", row.key))[1]
                                /\ a[i + 1] = Insert(Row("wallets", row.key))[1]
      BY <2>1, <3>1, Zenon DEF StatementOK
    <3> QED  BY <2>1, <2>2, <3>2
  <2> QED  BY <1>2, <2>1, <2>3, <2>4, <2>5 DEF StatementOK
<1>4. ASSUME NEW i \in 1 .. Len(b) PROVE StatementOK(c, Len(a) + i)
  <2>1. c[Len(a) + i] = b[i] /\ StatementOK(b, i) /\ i \in Nat /\ Len(a) \in Nat
    BY <1>1 DEF ProgramOK
  <2>2. i < Len(b) => c[(Len(a) + i) + 1] = b[i + 1] /\ Len(a) + i < Len(c)
    <3>1. i < Len(b) => i + 1 \in 1 .. Len(b) /\ (Len(a) + i) + 1 = Len(a) + (i + 1)
      BY <1>1
    <3> QED  BY <1>1, <3>1
  <2>3. i > 1 => c[(Len(a) + i) - 1] = b[i - 1]
    <3>1. i > 1 => i - 1 \in 1 .. Len(b) /\ (Len(a) + i) - 1 = Len(a) + (i - 1)
      BY <1>1
    <3> QED  BY <1>1, <3>1
  <2>4. c[Len(a) + i].do \in {"next", "drive"} =>
          Len(a) + i = Len(c) /\ \A j \in 1 .. Len(c) : c[j].do # "unless"
    <3>1. SUFFICES ASSUME b[i].do \in {"next", "drive"}
                   PROVE  Len(a) + i = Len(c) /\ \A j \in 1 .. Len(c) : c[j].do # "unless"
      BY <2>1
    <3>2. i = Len(b) /\ \A j \in 1 .. Len(b) : b[j].do # "unless"
      BY <2>1, <3>1 DEF StatementOK
    <3>3. Free(a, {"unless"})
      BY <3>1 DEF Free
    <3>4. ASSUME NEW j \in 1 .. Len(c) PROVE c[j].do # "unless"
      <4>1. CASE j \in 1 .. Len(a)
        BY <1>1, <3>3, <4>1 DEF Free
      <4>2. CASE j \notin 1 .. Len(a)
        <5>1. j - Len(a) \in 1 .. Len(b) /\ j = Len(a) + (j - Len(a))
          BY <1>1, <4>2
        <5>2. c[j] = b[j - Len(a)]
          BY <1>1, <5>1
        <5> QED  BY <3>2, <5>1, <5>2
      <4> QED  BY <4>1, <4>2
    <3> QED  BY <1>1, <3>2, <3>4
  <2>5. Makes(b[i], "users") =>
          \E row \in b[i].rows :
             /\ Len(a) + i < Len(c) /\ b[i] = Insert(Row("users", row.key))[1]
             /\ c[(Len(a) + i) + 1] = Insert(Row("wallets", row.key))[1]
    <3>1. SUFFICES ASSUME Makes(b[i], "users")
                   PROVE \E row \in b[i].rows :
                           /\ Len(a) + i < Len(c) /\ b[i] = Insert(Row("users", row.key))[1]
                           /\ c[(Len(a) + i) + 1] = Insert(Row("wallets", row.key))[1]
      OBVIOUS
    <3>2. PICK row \in b[i].rows : i < Len(b) /\ b[i] = Insert(Row("users", row.key))[1]
                                /\ b[i + 1] = Insert(Row("wallets", row.key))[1]
      BY <2>1, <3>1, Zenon DEF StatementOK
    <3> QED  BY <2>2, <3>2
  <2>6. Makes(b[i], "wallets") => i > 1 /\ Makes(b[i - 1], "users")
    <3>1. Makes(b[i], "wallets") => i # 1
      BY <1>1
    <3> QED  BY <2>1, <3>1 DEF StatementOK
  <2>7. b[i].do \in {"insert", "absent"} =>
          CommitsFrom(c, Len(a) + i) /\ \E row \in b[i].rows : b[i].rows = {row}
    BY <1>2, <2>1 DEF StatementOK
  <2>8. b[i].do = "absent" =>
          \A row \in b[i].rows : row.table \notin {"users", "wallets", "match_states"}
    BY <2>1 DEF StatementOK
  <2> QED  BY <2>1, <2>3, <2>4, <2>5, <2>6, <2>7, <2>8 DEF StatementOK
<1>5. ASSUME NEW i \in 1 .. Len(c) PROVE StatementOK(c, i)
  <2>1. CASE i \in 1 .. Len(a)
    BY <1>3, <2>1
  <2>2. CASE i \notin 1 .. Len(a)
    <3>1. i - Len(a) \in 1 .. Len(b) /\ i = Len(a) + (i - Len(a))
      BY <1>1, <2>2
    <3> QED  BY <1>4, <3>1
  <2> QED  BY <2>1, <2>2
<1> QED  BY <1>1, <1>5 DEF ProgramOK, c

-----------------------------------------------------------------------------
(* A session and its program                                                *)

\* After anything but the INSERT of a user no wallet is owed.
LEMMA NotOwed ==
    ASSUME NEW p, NEW prog, ProgramOK(prog), prog # <<>>, ~ Makes(prog[1], "users")
    PROVE  /\ Tail(prog) # <<>> => ~ Makes(Tail(prog)[1], "wallets")
           /\ Owed(p, Tail(prog)) = {}
<1>1. /\ prog \in Seq(Statements) /\ Len(Tail(prog)) = Len(prog) - 1 /\ Len(prog) \in Nat \ {0}
      /\ Tail(prog) \in Seq(Statements)
      /\ \A k \in 1 .. Len(prog) - 1 : Tail(prog)[k] = prog[k + 1]
  BY RestIs DEF ProgramOK
<1>2. ASSUME Tail(prog) # <<>>, Makes(Tail(prog)[1], "wallets") PROVE FALSE
  <2>1. 2 \in 1 .. Len(prog) /\ Tail(prog)[1] = prog[2] /\ 2 - 1 = 1 /\ 2 > 1
    BY <1>1, <1>2
  <2>2. StatementOK(prog, 2)
    BY <2>1 DEF ProgramOK
  <2>3. Makes(prog[2], "wallets") => Makes(prog[2 - 1], "users")
    BY <2>1, <2>2 DEF StatementOK
  <2> QED  BY <1>2, <2>1, <2>3
<1> QED  BY <1>2 DEF Owed

\* What is to be committed still is after any statement but the commit.
LEMMA CommitsLater ==
    ASSUME NEW prog \in Seq(Statements), prog # <<>>, CommitsFrom(prog, 1), prog[1].do # "commit"
    PROVE  CommitsFrom(Tail(prog), 1) /\ prog[1].do # "unless"
<1>1. PICK j \in 1 .. Len(prog) : prog[j].do = "commit" /\ \A k \in 1 .. j : prog[k].do # "unless"
  BY DEF CommitsFrom
<1>2. Len(prog) \in Nat /\ j # 1
  BY <1>1
<1>3. 2 \in 2 .. Len(prog) /\ j \in 2 .. Len(prog) /\ 2 - 1 = 1 /\ 1 \in 1 .. j
  BY <1>2
<1>4. CommitsFrom(prog, 2)
  BY <1>1, <1>3 DEF CommitsFrom
<1>5. CommitsFrom(Tail(prog), 2 - 1)
  BY <1>3, <1>4, CommitsInRest
<1> QED  BY <1>1, <1>3, <1>5

\* A session whose statement changes nothing goes on.
LEMMA AdvanceOK ==
    ASSUME NEW p, NEW t, NEW prog, SessionOK(p, t, prog), prog # <<>>,
           prog[1].do \notin {"insert", "commit"}
    PROVE  SessionOK(p, t, Tail(prog)) /\ Owed(p, prog) = {}
<1>1. ProgramOK(prog) /\ prog \in Seq(Statements) /\ ProgramOK(Tail(prog))
  BY RestOK DEF SessionOK, ProgramOK
<1>2. ~ Makes(prog[1], "users") /\ Owed(p, prog) = {}
  BY DEF Makes, Owed
<1>3. Owed(p, Tail(prog)) = {}
  BY <1>1, <1>2, NotOwed
<1>4. t # {} => CommitsFrom(Tail(prog), 1)
  BY <1>1, CommitsLater DEF SessionOK
<1> QED  BY <1>1, <1>2, <1>3, <1>4 DEF SessionOK

\* A session that has ended, or was rolled back, has nothing to account for.
LEMMA EndedOK ==
    ASSUME NEW p
    PROVE  SessionOK(p, {}, <<>>)
<1>1. ProgramOK(<<>>)
  BY DEF ProgramOK
<1>2. Owed(p, <<>>) = {}
  BY DEF Owed
<1>3. Accounts({}, "users") = {} /\ Accounts({}, "wallets") = {}
  BY DEF Accounts
<1> QED  BY <1>1, <1>2, <1>3 DEF SessionOK

\* Nothing is flushed where a program may return early, or ends.
LEMMA NothingFlushed ==
    ASSUME NEW p, NEW t, NEW prog, SessionOK(p, t, prog), prog = <<>> \/ prog[1].do \in {"unless", "next"}
    PROVE  t = {}
<1>1. prog \in Seq(Statements)
  BY DEF SessionOK, ProgramOK
<1>2. SUFFICES ASSUME CommitsFrom(prog, 1) PROVE FALSE
  BY DEF SessionOK
<1>3. PICK j \in 1 .. Len(prog) : prog[j].do = "commit" /\ \A k \in 1 .. j : prog[k].do # "unless"
  BY <1>2 DEF CommitsFrom
<1>4. prog # <<>> /\ 1 \in 1 .. j /\ 1 \in 1 .. Len(prog)
  BY <1>1, <1>3
<1>5. prog[1].do = "next"
  BY <1>3, <1>4
<1>6. StatementOK(prog, 1)
  BY <1>4 DEF SessionOK, ProgramOK
<1>7. Len(prog) = 1
  BY <1>5, <1>6 DEF StatementOK
<1>8. j = 1
  BY <1>7
<1> QED  BY <1>3, <1>5, <1>8

\* A commit leaves nothing flushed, and what it commits has a wallet for each user.
LEMMA CommittedOK ==
    ASSUME NEW p, NEW t, NEW prog, SessionOK(p, t, prog), prog # <<>>, prog[1].do = "commit"
    PROVE  /\ SessionOK(p, {}, Tail(prog))
           /\ Accounts(t, "users") = Accounts(t, "wallets")
<1>1. ProgramOK(prog) /\ ProgramOK(Tail(prog))
  BY RestOK DEF SessionOK
<1>2. ~ Makes(prog[1], "users") /\ Owed(p, prog) = {}
  BY DEF Makes, Owed
<1>3. Owed(p, Tail(prog)) = {}
  BY <1>1, <1>2, NotOwed
<1>4. Accounts({}, "users") = {} /\ Accounts({}, "wallets") = {}
  BY DEF Accounts
<1> QED  BY <1>1, <1>2, <1>3, <1>4 DEF SessionOK

\* An INSERT leaves its rows flushed, and the wallet owed when they are a user.
LEMMA InsertedOK ==
    ASSUME NEW p, NEW t, NEW prog, SessionOK(p, t, prog), prog # <<>>, prog[1].do = "insert"
    PROVE  SessionOK(p, t \cup {[row |-> row, by |-> p] : row \in prog[1].rows}, Tail(prog))
<1>1. ProgramOK(prog) /\ ProgramOK(Tail(prog)) /\ prog \in Seq(Statements) /\ 1 \in 1 .. Len(prog)
  BY RestOK DEF SessionOK, ProgramOK
<1>2. StatementOK(prog, 1) /\ prog[1] \in Statements
  BY <1>1 DEF ProgramOK
<1>3. PICK row \in TableRows : prog[1].rows = {row}
  BY <1>2 DEF StatementOK, Statements
<1>4. CommitsFrom(Tail(prog), 1)
  BY <1>1, <1>2, CommitsLater DEF StatementOK
<1> DEFINE new == [row |-> row, by |-> p]
           account == [k |-> row.key, by |-> p]
           t2 == t \cup {new}
<1>5. {[row |-> r, by |-> p] : r \in prog[1].rows} = {new}
  BY <1>3
<1>6. new.row = row /\ new.by = p
  OBVIOUS
<1>7. \A x \in t2 : x = [row |-> x.row, by |-> p] /\ x.row \in TableRows
  BY <1>6 DEF SessionOK
<1>8. \A table : Accounts(t2, table) = Accounts(t, table) \cup
                    (IF row.table = table THEN {account} ELSE {})
  BY <1>6 DEF Accounts
<1>9. Makes(prog[1], "users") <=> row.table = "users"
  BY <1>3 DEF Makes
<1>10. Makes(prog[1], "wallets") <=> row.table = "wallets"
  BY <1>3 DEF Makes
<1>11. Owed(p, prog) = IF row.table = "wallets" THEN {account} ELSE {}
  BY <1>3, <1>10 DEF Owed
<1>12. Owed(p, Tail(prog)) = IF row.table = "users" THEN {account} ELSE {}
  <2>1. CASE row.table = "users"
    <3>1. 1 < Len(prog) /\ prog[1 + 1] = Insert(Row("wallets", row.key))[1]
      BY <1>2, <1>3, <1>9, <2>1 DEF StatementOK
    <3>2. Tail(prog) # <<>> /\ Tail(prog)[1] = Insert(Row("wallets", row.key))[1]
      BY <1>1, <3>1
    <3>3. Tail(prog)[1].do = "insert" /\ Tail(prog)[1].rows = {Row("wallets", row.key)}
      BY <3>2 DEF Insert, About
    <3>4. Row("wallets", row.key) \in Tail(prog)[1].rows /\ Row("wallets", row.key).table = "wallets"
      BY <3>3 DEF Row
    <3>5. Makes(Tail(prog)[1], "wallets")
      BY <3>3, <3>4 DEF Makes
    <3> QED  BY <2>1, <3>2, <3>3, <3>5 DEF Owed, Row
  <2>2. CASE row.table # "users"
    BY <1>1, <1>9, <2>2, NotOwed
  <2> QED  BY <2>1, <2>2
<1>13. Accounts(t, "users") = Accounts(t, "wallets") \cup Owed(p, prog)
  BY DEF SessionOK
<1> HIDE DEF t2, account, new
<1>14. Accounts(t2, "users") = Accounts(t2, "wallets") \cup Owed(p, Tail(prog))
  BY <1>8, <1>11, <1>12, <1>13
<1>15. SessionOK(p, t2, Tail(prog))
  BY <1>1, <1>4, <1>7, <1>14 DEF SessionOK
<1> QED  BY <1>5, <1>15 DEF t2

\* What is in neither of two programs is not in one after the other.
LEMMA FreeJoin ==
    ASSUME NEW a \in Seq(Statements), NEW b \in Seq(Statements), NEW D, Free(a, D), Free(b, D)
    PROVE  Free(a \o b, D)
<1> DEFINE c == a \o b
<1>1. /\ Len(c) = Len(a) + Len(b) /\ Len(a) \in Nat /\ Len(b) \in Nat
      /\ \A k \in 1 .. Len(a) : c[k] = a[k]
      /\ \A k \in 1 .. Len(b) : c[Len(a) + k] = b[k]
  OBVIOUS
<1> HIDE DEF c
<1>2. ASSUME NEW i \in 1 .. Len(c) PROVE c[i].do \notin D
  <2>1. CASE i \in 1 .. Len(a)
    BY <1>1, <2>1 DEF Free
  <2>2. CASE i \notin 1 .. Len(a)
    <3>1. i - Len(a) \in 1 .. Len(b) /\ i = Len(a) + (i - Len(a))
      BY <1>1, <2>2
    <3>2. c[i] = b[i - Len(a)]
      BY <1>1, <3>1
    <3> QED  BY <3>1, <3>2 DEF Free
  <2> QED  BY <2>1, <2>2
<1> QED  BY <1>2 DEF Free, c

\* Statements that insert nothing and start no demo match are a program.
LEMMA PlainOK ==
    ASSUME NEW prog \in Seq(Statements), Free(prog, {"insert", "absent", "next", "drive"})
    PROVE  ProgramOK(prog)
<1>1. ASSUME NEW i \in 1 .. Len(prog) PROVE StatementOK(prog, i)
  <2>1. prog[i].do \notin {"insert", "absent", "next", "drive"}
    BY DEF Free
  <2> QED  BY <2>1 DEF StatementOK, Makes
<1> QED  BY <1>1 DEF ProgramOK

\* The statements of two programs, one after the other.
LEMMA JoinedAt ==
    ASSUME NEW a \in Seq(Statements), NEW b \in Seq(Statements)
    PROVE  /\ a \o b \in Seq(Statements) /\ Len(a \o b) = Len(a) + Len(b)
           /\ \A k \in 1 .. Len(a) : (a \o b)[k] = a[k]
           /\ \A k \in 1 .. Len(b) : (a \o b)[Len(a) + k] = b[k]
OBVIOUS

\* What has a length is not empty.
LEMMA NotEmpty == \A s : Len(s) # 0 => s # <<>>
<1>1. Len(<<>>) = 0
  OBVIOUS
<1> QED  BY <1>1, Zenon

\* Two programs one after the other start with the first.
LEMMA JoinStarts ==
    ASSUME NEW a \in Seq(Statements), NEW b \in Seq(Statements), a # <<>>
    PROVE  a \o b # <<>> /\ (a \o b)[1] = a[1]
OBVIOUS

\* Row makes rows.
LEMMA RowIs ==
    ASSUME NEW table \in Tables, NEW key \in Names
    PROVE  /\ Row(table, key) \in TableRows
           /\ Row(table, key).table = table /\ Row(table, key).key = key
BY DEF Row, TableRows

\* Sequences of one statement.
LEMMA OneStatement ==
    ASSUME NEW statement \in Verbs, NEW rows \in SUBSET TableRows
    PROVE  /\ About(statement, rows) \in Seq(Statements) /\ Len(About(statement, rows)) = 1
           /\ About(statement, rows)[1].do = statement /\ About(statement, rows)[1].rows = rows
<1>1. Cricket \in Names
  <2>1. Fixtures \in Seq(ToSet(Fixtures)) /\ Len(Fixtures) > 0 /\ Fixtures[1].sport = Cricket
    BY BootAssumption
  <2>2. Fixtures[1] \in ToSet(Fixtures)
    BY <2>1
  <2> QED  BY <2>1, <2>2 DEF Names
<1> QED  BY <1>1 DEF About, Statements

\* Do makes a sequence of one statement.
LEMMA OneDo ==
    ASSUME NEW statement \in Verbs, NEW key \in Names
    PROVE  /\ Do(statement, key) \in Seq(Statements) /\ Len(Do(statement, key)) = 1
           /\ Do(statement, key)[1].do = statement /\ Do(statement, key)[1].rows = {}
           /\ Do(statement, key)[1].key = key
BY DEF Do, Statements

\* A row inserted, or looked up and inserted, and committed: seed_roles and
\* seed_market_types, the creation of a sport, the match of start_match.
LEMMA InsertOK ==
    ASSUME NEW verb \in {"insert", "absent"},
           NEW row \in TableRows, row.table \notin {"users", "wallets"},
           verb = "absent" => row.table # "match_states"
    PROVE  LET c == About(verb, {row}) \o CommitNow
           IN  /\ ProgramOK(c) /\ c \in Seq(Statements) /\ Len(c) = 2
               /\ Free(c, {"next", "drive", "unless", "start", "again"})
               /\ c[1].do = verb /\ c[1].rows = {row} /\ c[2].do = "commit"
<1> DEFINE a == About(verb, {row})
           b == CommitNow
           c == a \o b
<1>1. /\ a \in Seq(Statements) /\ Len(a) = 1 /\ a[1].do = verb /\ a[1].rows = {row}
      /\ b \in Seq(Statements) /\ Len(b) = 1 /\ b[1].do = "commit" /\ b[1].rows = {}
  BY OneStatement DEF CommitNow, Verbs
<1> HIDE DEF a, b
<1>2. c \in Seq(Statements) /\ Len(c) = 2 /\ c[1] = a[1] /\ c[2] = b[1]
  BY <1>1, JoinedAt
<1> HIDE DEF c
<1>3. CommitsFrom(c, 1)
  <2>1. 2 \in 1 .. Len(c) /\ \A k \in 1 .. 2 : c[k].do # "unless"
    BY <1>1, <1>2
  <2> QED  BY <1>1, <1>2, <2>1 DEF CommitsFrom
<1>4. StatementOK(c, 1)
  BY <1>1, <1>2, <1>3 DEF StatementOK, Makes
<1>5. StatementOK(c, 2)
  BY <1>1, <1>2 DEF StatementOK, Makes
<1>6. \A i \in 1 .. Len(c) : i = 1 \/ i = 2
  BY <1>2
<1>7. Free(c, {"next", "drive", "unless", "start", "again"})
  BY <1>1, <1>2, <1>6 DEF Free
<1>8. ProgramOK(c)
  BY <1>2, <1>4, <1>5, <1>6 DEF ProgramOK
<1> QED  BY <1>1, <1>2, <1>7, <1>8 DEF c, a, b

\* A user, its wallet and the commit of both are a program.
LEMMA AccountOK ==
    ASSUME NEW key \in Names
    PROVE  /\ ProgramOK(Account(key)) /\ Account(key) \in Seq(Statements) /\ Len(Account(key)) = 3
           /\ Free(Account(key), {"next", "drive", "unless", "start", "again", "absent"})
           /\ Account(key)[1].do = "insert" /\ Account(key)[1].rows = {Row("users", key)}
           /\ Account(key)[2].do = "insert" /\ Account(key)[2].rows = {Row("wallets", key)}
           /\ Account(key)[3].do = "commit"
<1> DEFINE a == Insert(Row("users", key))
           b == Insert(Row("wallets", key))
           d == CommitNow
           c == Account(key)
<1>1. /\ Row("users", key) \in TableRows /\ Row("wallets", key) \in TableRows
      /\ Row("users", key).table = "users" /\ Row("users", key).key = key
      /\ Row("wallets", key).table = "wallets"
  BY RowIs DEF Tables
<1>2. /\ a \in Seq(Statements) /\ Len(a) = 1 /\ a[1].do = "insert" /\ a[1].rows = {Row("users", key)}
      /\ b \in Seq(Statements) /\ Len(b) = 1 /\ b[1].do = "insert" /\ b[1].rows = {Row("wallets", key)}
      /\ d \in Seq(Statements) /\ Len(d) = 1 /\ d[1].do = "commit" /\ d[1].rows = {}
  BY <1>1, OneStatement DEF Insert, CommitNow, Verbs
<1>3. c = (a \o b) \o d
  BY DEF Account
<1> HIDE DEF a, b, d, c
<1>4. c \in Seq(Statements) /\ Len(c) = 3 /\ c[1] = a[1] /\ c[2] = b[1] /\ c[3] = d[1]
  <2>1. PICK e : e = a \o b
    OBVIOUS
  <2>2. e \in Seq(Statements) /\ Len(e) = 2 /\ e[1] = a[1] /\ e[2] = b[1]
    BY <1>2, <2>1, JoinedAt
  <2>3. c = e \o d
    BY <1>3, <2>1
  <2> QED  BY <1>2, <2>2, <2>3, JoinedAt
<1>5. CommitsFrom(c, 1) /\ CommitsFrom(c, 2)
  <2>1. 3 \in 1 .. Len(c) /\ 3 \in 2 .. Len(c) /\ \A k \in 1 .. 3 : c[k].do # "unless"
    BY <1>2, <1>4
  <2>2. \A k \in 2 .. 3 : k \in 1 .. 3
    OBVIOUS
  <2> QED  BY <1>2, <1>4, <2>1, <2>2 DEF CommitsFrom
<1>6. StatementOK(c, 1)
  <2>1. /\ 1 < Len(c) /\ Row("users", key) \in c[1].rows
        /\ c[1] = Insert(Row("users", key))[1] /\ c[1 + 1] = Insert(Row("wallets", key))[1]
    BY <1>2, <1>4 DEF a, b
  <2>2. ~ Makes(c[1], "wallets")
    BY <1>1, <1>2, <1>4 DEF Makes
  <2> QED  BY <1>1, <1>2, <1>4, <1>5, <2>1, <2>2 DEF StatementOK
<1>7. StatementOK(c, 2)
  <2>1. Makes(c[1], "users") /\ ~ Makes(c[2], "users")
    BY <1>1, <1>2, <1>4 DEF Makes
  <2>2. c[2].do = "insert" /\ c[2].rows = {Row("wallets", key)} /\ 2 - 1 = 1
    BY <1>2, <1>4
  <2> QED  BY <1>5, <2>1, <2>2 DEF StatementOK
<1>8. StatementOK(c, 3)
  BY <1>2, <1>4 DEF StatementOK, Makes
<1>9. \A i \in 1 .. Len(c) : i = 1 \/ i = 2 \/ i = 3
  BY <1>4
<1>10. Free(c, {"next", "drive", "unless", "start", "again", "absent"})
  BY <1>2, <1>4, <1>9 DEF Free
<1>11. ProgramOK(c)
  BY <1>4, <1>6, <1>7, <1>8, <1>9 DEF ProgramOK
<1> QED  BY <1>2, <1>4, <1>10, <1>11 DEF c

\* A commit behind statements that never return early is certain from their start.
LEMMA CommitsBehind ==
    ASSUME NEW a \in Seq(Statements), NEW b \in Seq(Statements), Free(a, {"unless"}), CommitsFrom(b, 1)
    PROVE  CommitsFrom(a \o b, 1)
<1> DEFINE c == a \o b
<1>1. PICK j \in 1 .. Len(b) : b[j].do = "commit" /\ \A k \in 1 .. j : b[k].do # "unless"
  BY DEF CommitsFrom
<1>2. /\ Len(c) = Len(a) + Len(b) /\ Len(a) \in Nat /\ Len(b) \in Nat
      /\ \A k \in 1 .. Len(a) : c[k] = a[k]
      /\ \A k \in 1 .. Len(b) : c[Len(a) + k] = b[k]
  BY JoinedAt
<1> HIDE DEF c
<1>3. Len(a) + j \in 1 .. Len(c) /\ c[Len(a) + j].do = "commit"
  BY <1>1, <1>2
<1>4. ASSUME NEW k \in 1 .. Len(a) + j PROVE c[k].do # "unless"
  <2>1. CASE k \in 1 .. Len(a)
    BY <1>2, <2>1 DEF Free
  <2>2. CASE k \notin 1 .. Len(a)
    <3>1. k - Len(a) \in 1 .. j /\ k - Len(a) \in 1 .. Len(b) /\ k = Len(a) + (k - Len(a))
      BY <1>2, <2>2
    <3>2. c[k] = b[k - Len(a)]
      BY <1>2, <3>1
    <3> QED  BY <1>1, <3>1, <3>2
  <2> QED  BY <2>1, <2>2
<1> QED  BY <1>3, <1>4 DEF CommitsFrom, c

\* A branch in front of the rest.
LEMMA BranchOK ==
    ASSUME NEW p, NEW t, NEW prog, SessionOK(p, t, prog), prog # <<>>,
           prog[1].do \notin {"insert", "commit"},
           NEW piece, ProgramOK(piece), piece # <<>>, Free(piece, {"next", "drive", "unless"}),
           ~ Makes(piece[1], "wallets")
    PROVE  SessionOK(p, t, piece \o Tail(prog))
<1>1. ProgramOK(prog) /\ prog \in Seq(Statements) /\ ProgramOK(Tail(prog))
  BY RestOK DEF SessionOK, ProgramOK
<1>2. ~ Makes(prog[1], "users")
  BY DEF Makes
<1>3. Tail(prog) # <<>> => ~ Makes(Tail(prog)[1], "wallets")
  BY <1>1, <1>2, NotOwed
<1>4. Free(piece, {"next", "drive"}) /\ Free(piece, {"unless"})
  BY DEF Free
<1>5. ProgramOK(piece \o Tail(prog))
  BY <1>1, <1>3, <1>4, JoinOK
<1>6. piece \in Seq(Statements) /\ Tail(prog) \in Seq(Statements)
  BY <1>1 DEF ProgramOK
<1>7. (piece \o Tail(prog))[1] = piece[1]
  BY <1>6
<1>8. Owed(p, piece \o Tail(prog)) = {} /\ Owed(p, prog) = {}
  BY <1>7 DEF Owed, Makes
<1>9. t # {} => CommitsFrom(piece \o Tail(prog), 1)
  <2>1. t # {} => CommitsFrom(Tail(prog), 1)
    BY <1>1, CommitsLater DEF SessionOK
  <2> QED  BY <1>4, <1>6, <2>1, CommitsBehind
<1> QED  BY <1>5, <1>8, <1>9 DEF SessionOK

\* A session that has flushed nothing may take up any program.
LEMMA FreshOK ==
    ASSUME NEW p, NEW prog, ProgramOK(prog), prog # <<>>, ~ Makes(prog[1], "wallets")
    PROVE  SessionOK(p, {}, prog)
<1>1. Accounts({}, "users") = {} /\ Accounts({}, "wallets") = {}
  BY DEF Accounts
<1> QED  BY <1>1 DEF SessionOK, Owed

\* A missing code is inserted.
LEMMA AbsentOK ==
    ASSUME NEW p, NEW t, NEW prog, SessionOK(p, t, prog), prog # <<>>, prog[1].do = "absent"
    PROVE  SessionOK(p, t, About("insert", prog[1].rows) \o Tail(prog))
<1> DEFINE a == About("insert", prog[1].rows)
           c == a \o Tail(prog)
<1>1. ProgramOK(prog) /\ prog \in Seq(Statements) /\ 1 \in 1 .. Len(prog) /\ prog[1] \in Statements
  BY DEF SessionOK, ProgramOK
<1>2. /\ a \in Seq(Statements) /\ Len(a) = 1 /\ a[1].do = "insert" /\ a[1].rows = prog[1].rows
  <2>1. prog[1].rows \in SUBSET TableRows
    BY <1>1 DEF Statements
  <2> QED  BY <2>1, OneStatement DEF Verbs
<1>3. /\ Tail(prog) \in Seq(Statements) /\ Len(Tail(prog)) = Len(prog) - 1 /\ Len(prog) \in Nat \ {0}
      /\ \A k \in 1 .. Len(prog) - 1 : Tail(prog)[k] = prog[k + 1]
  BY <1>1, RestIs
<1>4. StatementOK(prog, 1)
  BY <1>1 DEF ProgramOK
<1>5. CommitsFrom(Tail(prog), 1)
  BY <1>1, <1>4, CommitsLater DEF StatementOK
<1> HIDE DEF a
<1>6. Free(a, {"unless"})
  BY <1>2 DEF Free
<1>7. CommitsFrom(c, 1)
  BY <1>2, <1>3, <1>5, <1>6, CommitsBehind
<1>8. c \in Seq(Statements) /\ Len(c) = Len(prog) /\ c[1] = a[1] /\ \A i \in 2 .. Len(prog) : c[i] = prog[i]
  <2>1. /\ c \in Seq(Statements) /\ Len(c) = 1 + Len(Tail(prog)) /\ c[1] = a[1]
        /\ \A k \in 1 .. Len(Tail(prog)) : c[1 + k] = Tail(prog)[k]
    <3>1. PICK rest \in Seq(Statements) : rest = Tail(prog)
      BY <1>3
    <3>2. /\ a \o rest \in Seq(Statements) /\ Len(a \o rest) = Len(a) + Len(rest)
          /\ \A k \in 1 .. Len(a) : (a \o rest)[k] = a[k]
          /\ \A k \in 1 .. Len(rest) : (a \o rest)[Len(a) + k] = rest[k]
      BY <1>2, JoinedAt
    <3>3. c = a \o rest
      BY <3>1
    <3> HIDE DEF c
    <3> QED  BY <1>2, <3>1, <3>2, <3>3
  <2> HIDE DEF c
  <2>2. ASSUME NEW i \in 2 .. Len(prog) PROVE c[i] = prog[i]
    <3>1. i - 1 \in 1 .. Len(Tail(prog)) /\ i = 1 + (i - 1) /\ i = (i - 1) + 1
      BY <1>3
    <3> QED  BY <1>3, <2>1, <3>1
  <2> QED  BY <1>3, <2>1, <2>2
<1> HIDE DEF c
<1>9. /\ \A row \in c[1].rows : row.table \notin {"users", "wallets", "match_states"}
      /\ \E row \in c[1].rows : c[1].rows = {row}
  BY <1>1, <1>2, <1>4, <1>8 DEF StatementOK
<1>10. ~ Makes(c[1], "users") /\ ~ Makes(c[1], "wallets") /\ ~ Makes(prog[1], "users")
  BY <1>9 DEF Makes
<1>11. StatementOK(c, 1)
  BY <1>2, <1>7, <1>8, <1>9, <1>10 DEF StatementOK
<1>12. ASSUME NEW i \in 2 .. Len(prog) PROVE StatementOK(c, i)
  <2>1. StatementOK(prog, i) /\ c[i] = prog[i] /\ i > 1 /\ Len(c) = Len(prog)
    <3>1. i \in 1 .. Len(prog) /\ i > 1
      OBVIOUS
    <3> QED  BY <1>1, <1>8, <3>1 DEF ProgramOK
  <2>2. CommitsFrom(prog, i) => CommitsFrom(c, i)
    <3>1. SUFFICES ASSUME NEW j \in i .. Len(prog), prog[j].do = "commit",
                          \A k \in i .. j : prog[k].do # "unless"
                   PROVE  CommitsFrom(c, i)
      BY DEF CommitsFrom
    <3>2. \A k \in i .. j : c[k] = prog[k]
      BY <1>3, <1>8
    <3>3. j \in i .. Len(c) /\ c[j] = prog[j]
      BY <1>3, <1>8
    <3> QED  BY <3>1, <3>2, <3>3 DEF CommitsFrom
  <2>3. i < Len(prog) => c[i + 1] = prog[i + 1]
    BY <1>3, <1>8
  <2>4. Makes(c[i], "wallets") => Makes(c[i - 1], "users")
    <3>1. i = 2 \/ c[i - 1] = prog[i - 1]
      BY <1>3, <1>8
    <3>2. i = 2 => i - 1 = 1
      OBVIOUS
    <3> QED  BY <1>10, <2>1, <3>1, <3>2 DEF StatementOK
  <2>5. prog[i].do \in {"next", "drive"} => \A j \in 1 .. Len(c) : c[j].do # "unless"
    <3>1. ASSUME NEW j \in 1 .. Len(c), prog[i].do \in {"next", "drive"} PROVE c[j].do # "unless"
      <4>1. j = 1 \/ (j \in 2 .. Len(prog) /\ c[j] = prog[j])
        BY <1>3, <1>8
      <4>2. \A k \in 1 .. Len(prog) : prog[k].do # "unless"
        BY <2>1, <3>1 DEF StatementOK
      <4> QED  BY <1>2, <1>3, <1>8, <4>1, <4>2
    <3> QED  BY <3>1
  <2>6. Makes(c[i], "users") =>
          \E row \in c[i].rows :
             /\ i < Len(c) /\ c[i] = Insert(Row("users", row.key))[1]
             /\ c[i + 1] = Insert(Row("wallets", row.key))[1]
    <3>1. SUFFICES ASSUME Makes(prog[i], "users")
                   PROVE \E row \in prog[i].rows :
                           /\ i < Len(c) /\ prog[i] = Insert(Row("users", row.key))[1]
                           /\ c[i + 1] = Insert(Row("wallets", row.key))[1]
      BY <2>1
    <3>2. PICK row \in prog[i].rows : i < Len(prog) /\ prog[i] = Insert(Row("users", row.key))[1]
                                /\ prog[i + 1] = Insert(Row("wallets", row.key))[1]
      BY <2>1, <3>1, Zenon DEF StatementOK
    <3> QED  BY <2>1, <2>3, <3>2
  <2> QED  BY <2>1, <2>2, <2>4, <2>5, <2>6 DEF StatementOK
<1>13. ASSUME NEW i \in 1 .. Len(c) PROVE StatementOK(c, i)
  <2>1. i = 1 \/ i \in 2 .. Len(prog)
    BY <1>3, <1>8
  <2> QED  BY <1>11, <1>12, <2>1
<1>14. Owed(p, c) = {} /\ Owed(p, prog) = {}
  BY <1>10 DEF Owed, Makes
<1>15. ProgramOK(c)
  BY <1>8, <1>13 DEF ProgramOK
<1>16. SessionOK(p, t, c)
  BY <1>7, <1>14, <1>15 DEF SessionOK
<1> QED  BY <1>16 DEF c, a

-----------------------------------------------------------------------------
(* The programs of the server                                               *)

\* The names that the fixtures and the constants give.
LEMMA NamesAre ==
    /\ Cricket \in Names /\ LiveEvent \in Names /\ DemoEvents \subseteq Names
    /\ \A i \in 1 .. Len(Fixtures) :
         /\ Fixtures[i].sport \in Names
         /\ Fixtures[i].events \in Seq(Names)
    /\ Emails \subseteq Names /\ NewSports \subseteq Names /\ NewTypes \subseteq Names
<1>1. /\ Fixtures \in Seq(ToSet(Fixtures)) /\ Len(Fixtures) > 0 /\ Fixtures[1].sport = Cricket
      /\ Len(Fixtures[1].events) > 0
      /\ \A f \in ToSet(Fixtures) : f.events \in Seq(ToSet(f.events))
  BY BootAssumption
<1>2. ASSUME NEW i \in 1 .. Len(Fixtures)
      PROVE  /\ Fixtures[i] \in ToSet(Fixtures)
             /\ Fixtures[i].sport \in Names /\ Fixtures[i].events \in Seq(Names)
  <2>1. Fixtures[i] \in ToSet(Fixtures)
    BY <1>1
  <2>2. Fixtures[i].sport \in Names
    BY <2>1 DEF Names
  <2>3. ToSet(Fixtures[i].events) \subseteq Names
    BY <2>1 DEF Names
  <2> QED  BY <1>1, <2>1, <2>2, <2>3
<1>3. 1 \in 1 .. Len(Fixtures)
  BY <1>1
<1>4. Fixtures[1].events[1] \in Names
  BY <1>1, <1>2, <1>3
<1>5. NewEvents \subseteq Names /\ Emails \subseteq Names /\ NewSports \subseteq Names /\ NewTypes \subseteq Names
  BY DEF Names
<1> QED  BY <1>1, <1>2, <1>3, <1>4, <1>5 DEF LiveEvent, DemoEvents

\* The names that the code gives.
LEMMA NamesGiven == {"demo-admin", "demo-user", "liquidity-a", "liquidity-b", "user", "MATCH_ODDS"} \subseteq Names
  BY DEF Names

\* The rows of the catalogue, and their tables.
LEMMA RowsAre ==
    ASSUME NEW key \in Names
    PROVE  /\ Sport(key) \in TableRows /\ Sport(key).table = "sports"
           /\ MarketType(key) \in TableRows /\ MarketType(key).table = "market_types"
           /\ Match(key) \in TableRows /\ Match(key).table = "match_states" /\ Match(key).key = key
           /\ MarketOf(key) \in TableRows /\ MarketOf(key).table = "markets"
           /\ \A n \in Nat : Order(key, n) \in TableRows /\ Order(key, n).table = "orders"
BY DEF Sport, MarketType, Match, MarketOf, Order, Row, TableRows, Tables

\* A statement that stands for a branch is a program.
LEMMA DoOK ==
    ASSUME NEW verb \in {"ensure", "start", "again"}, NEW key \in Names
    PROVE  /\ ProgramOK(Do(verb, key)) /\ Do(verb, key) # <<>>
           /\ Free(Do(verb, key), {"next", "drive", "unless"})
           /\ ~ Makes(Do(verb, key)[1], "wallets")
<1>1. /\ Do(verb, key) \in Seq(Statements) /\ Len(Do(verb, key)) = 1 /\ Do(verb, key)[1].do = verb
  BY OneDo DEF Verbs
<1>2. /\ Free(Do(verb, key), {"insert", "absent", "next", "drive"})
      /\ Free(Do(verb, key), {"next", "drive", "unless"})
  BY <1>1 DEF Free
<1> QED  BY <1>1, <1>2, PlainOK DEF Makes

\* A lookup with an early return goes in front of any program that starts no demo match.
LEMMA UnlessOK ==
    ASSUME NEW rows \in SUBSET TableRows, NEW b, ProgramOK(b), Free(b, {"next", "drive"}),
           b # <<>> => ~ Makes(b[1], "wallets")
    PROVE  /\ ProgramOK(About("unless", rows) \o b) /\ About("unless", rows) \o b # <<>>
           /\ (About("unless", rows) \o b)[1].do = "unless"
           /\ Free(About("unless", rows) \o b, {"next", "drive"})
<1> DEFINE a == About("unless", rows)
<1>1. a \in Seq(Statements) /\ Len(a) = 1 /\ a[1].do = "unless"
  BY OneStatement DEF Verbs
<1> HIDE DEF a
<1>2. Free(a, {"insert", "absent", "next", "drive"}) /\ Free(a, {"next", "drive"})
  BY <1>1 DEF Free
<1>3. ProgramOK(a) /\ b \in Seq(Statements)
  BY <1>1, <1>2, PlainOK DEF ProgramOK
<1>4. ProgramOK(a \o b) /\ Free(a \o b, {"next", "drive"})
  BY <1>1, <1>2, <1>3, JoinOK, FreeJoin
<1>5. a \o b # <<>> /\ (a \o b)[1] = a[1]
  <2>1. a # <<>>
    <3>1. Len(a) # 0
      BY <1>1
    <3> QED  BY <3>1, NotEmpty, Zenon
  <2> QED  BY <1>1, <1>3, <2>1, JoinStarts
<1> QED  BY <1>1, <1>4, <1>5 DEF a

\* AuthService.register is a program.
LEMMA RegisterOK ==
    ASSUME NEW email \in Names
    PROVE  /\ ProgramOK(Register(email)) /\ Register(email) # <<>>
           /\ Register(email)[1].do = "unless"
<1>1. {Row("users", email)} \in SUBSET TableRows
  BY RowIs DEF Tables
<1>2. /\ ProgramOK(Account(email)) /\ Free(Account(email), {"next", "drive"})
      /\ ~ Makes(Account(email)[1], "wallets")
  <2>1. Row("users", email).table = "users"
    BY RowIs DEF Tables
  <2> QED  BY <2>1, AccountOK DEF Free, Makes
<1> QED  BY <1>1, <1>2, UnlessOK DEF Register

\* So are create_sport and create_market_type.
LEMMA CreateOK ==
    ASSUME NEW row \in TableRows, row.table \notin {"users", "wallets"}
    PROVE  LET prog == About("unless", {row}) \o Insert(row) \o CommitNow
           IN  ProgramOK(prog) /\ prog # <<>> /\ prog[1].do = "unless"
<1> DEFINE b == Insert(row) \o CommitNow
<1>1. ProgramOK(b) /\ Free(b, {"next", "drive"}) /\ (b # <<>> => ~ Makes(b[1], "wallets"))
  <2>1. /\ ProgramOK(b) /\ Free(b, {"next", "drive", "unless", "start", "again"})
        /\ b[1].do = "insert" /\ b[1].rows = {row}
    BY InsertOK DEF Insert
  <2> HIDE DEF b
  <2> QED  BY <2>1 DEF Free, Makes
<1>2. /\ ProgramOK(About("unless", {row}) \o b) /\ About("unless", {row}) \o b # <<>>
      /\ (About("unless", {row}) \o b)[1].do = "unless"
  BY <1>1, UnlessOK
<1>3. About("unless", {row}) \o Insert(row) \o CommitNow = About("unless", {row}) \o b
  <2>1. /\ About("unless", {row}) \in Seq(Statements) /\ Insert(row) \in Seq(Statements)
        /\ CommitNow \in Seq(Statements)
    BY OneStatement DEF Insert, CommitNow, Verbs
  <2> QED  BY <2>1, Regroup
<1> QED  BY <1>2, <1>3

\* So is the admin's start of a match,
LEMMA StartRequestOK ==
    ASSUME NEW ev \in Names
    PROVE  /\ ProgramOK(StartRequest(ev)) /\ Len(StartRequest(ev)) = 2
           /\ Free(StartRequest(ev), {"unless"})
           /\ StartRequest(ev)[1] = Do("start", ev)[1] /\ StartRequest(ev)[2] = Do("drive", ev)[1]
           /\ StartRequest(ev)[1].do = "start" /\ StartRequest(ev)[2].do = "drive"
           /\ StartRequest(ev)[2].key = ev /\ StartRequest(ev)[1].key = ev
<1> DEFINE c == StartRequest(ev)
<1>1. /\ Do("start", ev) \in Seq(Statements) /\ Len(Do("start", ev)) = 1
      /\ Do("start", ev)[1].do = "start" /\ Do("start", ev)[1].key = ev
      /\ Do("drive", ev) \in Seq(Statements) /\ Len(Do("drive", ev)) = 1
      /\ Do("drive", ev)[1].do = "drive" /\ Do("drive", ev)[1].key = ev
  BY OneDo DEF Verbs
<1>2. c \in Seq(Statements) /\ Len(c) = 2 /\ c[1] = Do("start", ev)[1] /\ c[2] = Do("drive", ev)[1]
  BY <1>1, JoinedAt DEF StartRequest
<1> HIDE DEF c
<1>3. \A i \in 1 .. Len(c) : i = 1 \/ i = 2
  BY <1>2
<1>4. Free(c, {"unless"})
  BY <1>1, <1>2, <1>3 DEF Free
<1>5. StatementOK(c, 1)
  BY <1>1, <1>2 DEF StatementOK, Makes
<1>6. StatementOK(c, 2)
  BY <1>1, <1>2, <1>4 DEF StatementOK, Makes, Free
<1>7. ProgramOK(c)
  BY <1>2, <1>3, <1>5, <1>6 DEF ProgramOK
<1> QED  BY <1>1, <1>2, <1>4, <1>7 DEF c

\* and the start of the next demo match,
LEMMA NextDemoOK ==
    ProgramOK(NextDemo) /\ Len(NextDemo) = 1 /\ NextDemo[1].do = "next"
<1>1. NextDemo \in Seq(Statements) /\ Len(NextDemo) = 1 /\ NextDemo[1].do = "next"
  BY OneStatement DEF NextDemo, Verbs
<1>2. StatementOK(NextDemo, 1)
  <2>1. \A i \in 1 .. Len(NextDemo) : i = 1
    BY <1>1
  <2> QED  BY <1>1, <2>1 DEF StatementOK, Makes
<1>3. \A i \in 1 .. Len(NextDemo) : i = 1
  BY <1>1
<1> QED  BY <1>1, <1>2, <1>3 DEF ProgramOK

\* What start_next_demo_match goes on to do for the event it has chosen.
NextMatch(ev) == Insert(MarketOf(ev)) \o CommitNow \o StartRequest(ev)

\* which goes on as a program.
LEMMA NextMatchOK ==
    ASSUME NEW ev \in Names
    PROVE  /\ ProgramOK(NextMatch(ev)) /\ Len(NextMatch(ev)) = 4
           /\ NextMatch(ev)[1].do = "insert" /\ NextMatch(ev)[1].rows = {MarketOf(ev)}
           /\ NextMatch(ev)[2].do = "commit"
           /\ NextMatch(ev)[3].do = "start" /\ NextMatch(ev)[3].key = ev
           /\ NextMatch(ev)[4].do = "drive" /\ NextMatch(ev)[4].key = ev
<1> DEFINE a == Insert(MarketOf(ev)) \o CommitNow
           b == StartRequest(ev)
<1>1. /\ ProgramOK(a) /\ a \in Seq(Statements) /\ Len(a) = 2
      /\ Free(a, {"next", "drive", "unless", "start", "again"})
      /\ a[1].do = "insert" /\ a[1].rows = {MarketOf(ev)} /\ a[2].do = "commit"
  BY RowsAre, InsertOK DEF Insert
<1>2. /\ ProgramOK(b) /\ b \in Seq(Statements) /\ Len(b) = 2
      /\ b[1].do = "start" /\ b[2].do = "drive" /\ b[2].key = ev /\ b[1].key = ev
  BY StartRequestOK DEF ProgramOK
<1> HIDE DEF a, b
<1>3. Free(a, {"next", "drive"}) /\ Free(a, {"unless"})
  BY <1>1 DEF Free
<1>4. b # <<>> => ~ Makes(b[1], "wallets")
  BY <1>2 DEF Makes
<1>5. ProgramOK(a \o b)
  BY <1>1, <1>2, <1>3, <1>4, JoinOK
<1>6. PICK c : c = a \o b
  OBVIOUS
<1>7. /\ Len(c) = 4 /\ c[1] = a[1] /\ c[2] = a[2] /\ c[3] = b[1] /\ c[4] = b[2]
  <2>1. /\ Len(c) = 4 /\ \A k \in 1 .. Len(a) : c[k] = a[k]
        /\ \A k \in 1 .. Len(b) : c[Len(a) + k] = b[k]
    <3>1. /\ Len(a \o b) = Len(a) + Len(b)
          /\ \A k \in 1 .. Len(a) : (a \o b)[k] = a[k]
          /\ \A k \in 1 .. Len(b) : (a \o b)[Len(a) + k] = b[k]
      BY <1>1, <1>2, JoinedAt, Zenon
    <3>. QED BY <1>1, <1>2, <1>6, <3>1
  <2>2. 1 \in 1 .. Len(a) /\ 2 \in 1 .. Len(a) /\ 1 \in 1 .. Len(b) /\ 2 \in 1 .. Len(b)
    BY <1>1, <1>2
  <2>3. c[Len(a) + 1] = c[3] /\ c[Len(a) + 2] = c[4]
    BY <1>1
  <2> QED  BY <2>1, <2>2, <2>3
<1>8. NextMatch(ev) = c
  BY <1>6 DEF NextMatch, a, b
<1> QED  BY <1>1, <1>2, <1>5, <1>6, <1>7, <1>8

\* Two accounts ensured one after the other are a program.
LEMMA TwoDos ==
    ASSUME NEW k \in Names, NEW l \in Names
    PROVE  LET c == Do("ensure", k) \o Do("ensure", l)
           IN  /\ ProgramOK(c) /\ c \in Seq(Statements) /\ c # <<>>
               /\ Free(c, {"next", "drive", "unless", "insert", "absent", "commit", "start", "again"})
               /\ ~ Makes(c[1], "wallets")
<1> DEFINE a == Do("ensure", k)
           b == Do("ensure", l)
<1>1. /\ a \in Seq(Statements) /\ Len(a) = 1 /\ a[1].do = "ensure"
      /\ b \in Seq(Statements) /\ Len(b) = 1 /\ b[1].do = "ensure"
  BY OneDo DEF Verbs
<1> HIDE DEF a, b
<1>2. \A i \in 1 .. Len(a) : i = 1
  BY <1>1
<1>3. \A i \in 1 .. Len(b) : i = 1
  BY <1>1
<1>4. /\ Free(a, {"next", "drive", "unless", "insert", "absent", "commit", "start", "again"})
      /\ Free(b, {"next", "drive", "unless", "insert", "absent", "commit", "start", "again"})
  BY <1>1, <1>2, <1>3 DEF Free
<1>5. Free(a \o b, {"next", "drive", "unless", "insert", "absent", "commit", "start", "again"})
  BY <1>1, <1>4, FreeJoin
<1>6. a \o b \in Seq(Statements) /\ a \o b # <<>> /\ (a \o b)[1] = a[1]
  <2>1. a # <<>>
    <3>1. Len(a) # 0
      BY <1>1
    <3> QED  BY <3>1, NotEmpty, Zenon
  <2> QED  BY <1>1, <2>1, JoinStarts, JoinedAt
<1>7. Free(a \o b, {"insert", "absent", "next", "drive"})
  BY <1>5 DEF Free
<1>8. ProgramOK(a \o b)
  BY <1>6, <1>7, PlainOK
<1>9. ~ Makes((a \o b)[1], "wallets")
  BY <1>1, <1>6 DEF Makes
<1> QED  BY <1>5, <1>6, <1>8, <1>9 DEF a, b

\* _ensure_bot, for both bots.
LEMMA EnsureBotsOK ==
    /\ ProgramOK(EnsureBots) /\ EnsureBots \in Seq(Statements) /\ EnsureBots # <<>>
    /\ Free(EnsureBots, {"next", "drive", "unless", "insert", "absent", "commit", "start", "again"})
    /\ ~ Makes(EnsureBots[1], "wallets")
<1>1. {Bots[1], Bots[2]} \subseteq Names
  BY DEF Names
<1> QED  BY <1>1, TwoDos DEF EnsureBots

\* What start_match puts in front.
Anew(ev) == Insert(Match(ev)) \o CommitNow \o EnsureBots
Again(ev) == Do("again", ev) \o EnsureBots

\* What start_match puts in front, a match to insert or to start again, is a program.
LEMMA StartsOK ==
    ASSUME NEW ev \in Names
    PROVE  /\ ProgramOK(Anew(ev)) /\ Anew(ev) # <<>> /\ Free(Anew(ev), {"next", "drive", "unless"})
           /\ ~ Makes(Anew(ev)[1], "wallets")
           /\ ProgramOK(Again(ev)) /\ Again(ev) # <<>> /\ Free(Again(ev), {"next", "drive", "unless"})
           /\ ~ Makes(Again(ev)[1], "wallets")
<1>1. Free(EnsureBots, {"next", "drive", "unless"})
  BY EnsureBotsOK DEF Free
<1>2. ASSUME NEW a, ProgramOK(a), a # <<>>, Free(a, {"next", "drive", "unless"}), ~ Makes(a[1], "wallets")
      PROVE  /\ ProgramOK(a \o EnsureBots) /\ a \o EnsureBots # <<>>
             /\ Free(a \o EnsureBots, {"next", "drive", "unless"})
             /\ ~ Makes((a \o EnsureBots)[1], "wallets")
  <2>1. Free(a, {"next", "drive"}) /\ Free(a, {"unless"}) /\ a \in Seq(Statements)
    BY <1>2 DEF Free, ProgramOK
  <2>2. ProgramOK(a \o EnsureBots)
    BY <1>2, <2>1, EnsureBotsOK, JoinOK
  <2>3. Free(a \o EnsureBots, {"next", "drive", "unless"})
    BY <1>1, <1>2, <2>1, EnsureBotsOK, FreeJoin
  <2>4. a \o EnsureBots # <<>> /\ (a \o EnsureBots)[1] = a[1]
    BY <1>2, <2>1, EnsureBotsOK, JoinStarts
  <2> QED  BY <1>2, <2>2, <2>3, <2>4
<1>3. /\ ProgramOK(Anew(ev)) /\ Anew(ev) # <<>> /\ Free(Anew(ev), {"next", "drive", "unless"})
      /\ ~ Makes(Anew(ev)[1], "wallets")
  <2> DEFINE a == Insert(Match(ev)) \o CommitNow
  <2>1. /\ ProgramOK(a) /\ a \in Seq(Statements) /\ Len(a) = 2
        /\ Free(a, {"next", "drive", "unless", "start", "again"})
        /\ a[1].rows = {Match(ev)} /\ Match(ev).table = "match_states"
    BY RowsAre, InsertOK DEF Insert
  <2>2. Anew(ev) = a \o EnsureBots
    BY DEF Anew
  <2> HIDE DEF a
  <2>3. Len(a) # 0 /\ Free(a, {"next", "drive", "unless"}) /\ ~ Makes(a[1], "wallets")
    BY <2>1 DEF Free, Makes
  <2>4. a # <<>>
    BY <2>3, NotEmpty, Zenon
  <2> QED  BY <1>2, <2>1, <2>2, <2>3, <2>4
<1>4. /\ ProgramOK(Again(ev)) /\ Again(ev) # <<>> /\ Free(Again(ev), {"next", "drive", "unless"})
      /\ ~ Makes(Again(ev)[1], "wallets")
  BY <1>2, DoOK DEF Again
<1> QED  BY <1>3, <1>4

-----------------------------------------------------------------------------
(* The program of the seed                                                  *)

\* The statements that fill the catalogue.
Filling ==
    {st \in Statements :
        \/ st.do = "commit" /\ st.rows = {}
        \/ /\ st.do = "insert"
           /\ \E row \in TableRows : /\ st.rows = {row} /\ row.table \in {"sports", "markets", "orders"}
                                     /\ row.table = "sports" => row \in SeededSports}

\* A function of the first n numbers is a sequence of length n.
LEMMA ListIs ==
    ASSUME NEW S, NEW n \in Nat, NEW f \in [1 .. n -> S]
    PROVE  f \in Seq(S) /\ Len(f) = n
OBVIOUS

\* The elements of a flattened sequence are those of its parts.
LEMMA FlattenType ==
    ASSUME NEW S, NEW seqs \in Seq(Seq(S))
    PROVE  FlattenSeq(seqs) \in Seq(S)
<1>1. CASE seqs = <<>>
  <2>1. Len(seqs) = 0
    BY <1>1
  <2>2. FlattenSeq(seqs) = seqs
    BY <2>1, Zenon DEF FlattenSeq
  <2>3. <<>> \in Seq(S)
    OBVIOUS
  <2> QED  BY <1>1, <2>2, <2>3, Zenon
<1>2. CASE seqs # <<>>
  <2>1. Flat(FlattenSeq(seqs), S, Len(seqs), seqs)
    BY <1>2, FlattenIs
  <2> QED  BY <2>1, Zenon DEF Flat
<1> QED  BY <1>1, <1>2

\* One INSERT of a sport, a market or an order.
LEMMA InsertFills ==
    ASSUME NEW row \in TableRows, row.table \in {"sports", "markets", "orders"},
           row.table = "sports" => row \in SeededSports
    PROVE  /\ Insert(row) \in Seq(Filling) /\ Len(Insert(row)) = 1 /\ Insert(row) # <<>>
           /\ Insert(row)[1].do = "insert" /\ Insert(row)[1].rows = {row}
           /\ CommitNow \in Seq(Filling)
<1>1. /\ Insert(row) \in Seq(Statements) /\ Len(Insert(row)) = 1
      /\ Insert(row)[1].do = "insert" /\ Insert(row)[1].rows = {row}
      /\ CommitNow \in Seq(Statements) /\ Len(CommitNow) = 1
      /\ CommitNow[1].do = "commit" /\ CommitNow[1].rows = {}
  BY OneStatement DEF Insert, CommitNow, Verbs
<1>2. Insert(row)[1] \in Filling /\ CommitNow[1] \in Filling
  BY <1>1 DEF Filling
<1>3. \A s \in Seq(Statements) : Len(s) = 1 /\ s[1] \in Filling => s \in Seq(Filling)
  <2>1. SUFFICES ASSUME NEW s \in Seq(Statements), Len(s) = 1, s[1] \in Filling
                 PROVE  s \in Seq(Filling)
    OBVIOUS
  <2>2. \A i \in 1 .. Len(s) : s[i] \in Filling
    BY <2>1
  <2> QED  BY <2>2
<1>4. Len(Insert(row)) # 0
  BY <1>1
<1>5. Insert(row) # <<>>
  BY <1>4, NotEmpty, Zenon
<1> QED  BY <1>1, <1>2, <1>3, <1>5

\* The seed of an event inserts its market, and all orders on it unless it is the live event.
LEMMA SeedEventFills ==
    ASSUME NEW ev \in Names
    PROVE  /\ SeedEvent(ev) \in Seq(Filling)
           /\ \E st \in ToSet(SeedEvent(ev)) : st.do = "insert" /\ st.rows = {MarketOf(ev)}
           /\ ev # LiveEvent => \A n \in 1 .. Depth :
                \E st \in ToSet(SeedEvent(ev)) : st.do = "insert" /\ st.rows = {Order(ev, n)}
<1> DEFINE seqs == [n \in 1 .. Depth |-> Insert(Order(ev, n)) \o CommitNow]
<1>1. Depth \in Nat
  BY BootAssumption
<1>2. ASSUME NEW n \in 1 .. Depth
      PROVE  /\ seqs[n] = Insert(Order(ev, n)) \o CommitNow /\ seqs[n] \in Seq(Filling)
             /\ \E st \in ToSet(seqs[n]) : st.do = "insert" /\ st.rows = {Order(ev, n)}
  <2> DEFINE a == Insert(Order(ev, n))
  <2>1. n \in Nat
    BY <1>1
  <2>2. Order(ev, n) \in TableRows /\ Order(ev, n).table = "orders"
    BY <2>1, RowsAre
  <2>3. /\ a \in Seq(Filling) /\ Len(a) = 1 /\ CommitNow \in Seq(Filling)
        /\ a[1].do = "insert" /\ a[1].rows = {Order(ev, n)}
    BY <2>2, InsertFills
  <2>4. seqs[n] = a \o CommitNow
    OBVIOUS
  <2> HIDE DEF a, seqs
  <2>5. a[1] \in ToSet(a)
    BY <2>3 DEF ToSet
  <2>6. ToSet(seqs[n]) = ToSet(a) \cup ToSet(CommitNow) /\ seqs[n] \in Seq(Filling)
    BY <2>3, <2>4, JoinIs
  <2> QED  BY <2>3, <2>4, <2>5, <2>6 DEF a
<1>3. seqs \in Seq(Seq(Filling)) /\ Len(seqs) = Depth
  <2>1. seqs \in [1 .. Depth -> Seq(Filling)]
    BY <1>2
  <2> HIDE DEF seqs
  <2> QED  BY <1>1, <2>1, ListIs
<1>4. Liquidity(ev) = FlattenSeq(seqs)
  BY DEF Liquidity
<1> HIDE DEF seqs
<1>5. Liquidity(ev) \in Seq(Filling)
  BY <1>3, <1>4, FlattenType
<1>6. ASSUME NEW n \in 1 .. Depth
      PROVE  \E st \in ToSet(Liquidity(ev)) : st.do = "insert" /\ st.rows = {Order(ev, n)}
  <2>1. seqs # <<>>
    <3>1. Len(seqs) # 0
      BY <1>1, <1>3
    <3> QED  BY <3>1, NotEmpty, Zenon
  <2>2. ToSet(Liquidity(ev)) = UNION {ToSet(seqs[i]) : i \in 1 .. Depth}
    BY <1>3, <1>4, <2>1, FlattenIs DEF Flat
  <2> QED  BY <1>2, <2>2
<1> DEFINE a == Insert(MarketOf(ev))
           b == IF ev = LiveEvent THEN <<>> ELSE Liquidity(ev)
<1>7. /\ a \in Seq(Filling) /\ Len(a) = 1 /\ a[1].do = "insert" /\ a[1].rows = {MarketOf(ev)}
  BY RowsAre, InsertFills
<1>8. b \in Seq(Filling)
  BY <1>5
<1>9. SeedEvent(ev) = a \o b
  BY DEF SeedEvent
<1>10. ev # LiveEvent => b = Liquidity(ev)
  OBVIOUS
<1> HIDE DEF a, b
<1>11. a[1] \in ToSet(a)
  BY <1>7 DEF ToSet
<1>12. ToSet(a \o b) = ToSet(a) \cup ToSet(b) /\ a \o b \in Seq(Filling)
  BY <1>7, <1>8, JoinIs
<1> QED  BY <1>6, <1>7, <1>9, <1>10, <1>11, <1>12

\* The seed of a fixture starts with its sport, and has what the seeds of its events have.
LEMMA SeedFixtureFills ==
    ASSUME NEW i \in 1 .. Len(Fixtures)
    PROVE  LET f == Fixtures[i]
           IN  /\ SeedFixture(f) \in Seq(Filling)
               /\ SeedFixture(f) # <<>> /\ SeedFixture(f)[1] = Insert(Sport(f.sport))[1]
               /\ \A k \in 1 .. Len(f.events) :
                    \A st \in ToSet(SeedEvent(f.events[k])) : st \in ToSet(SeedFixture(f))
<1> DEFINE f == Fixtures[i]
           seqs == [n \in 1 .. Len(f.events) |-> SeedEvent(f.events[n])]
           a == Insert(Sport(f.sport))
           b == FlattenSeq(seqs)
<1>1. f.sport \in Names /\ f.events \in Seq(Names) /\ Sport(f.sport) \in SeededSports
  BY NamesAre DEF SeededSports
<1>2. a \in Seq(Filling) /\ a # <<>>
  BY <1>1, RowsAre, InsertFills
<1>3. Len(f.events) \in Nat /\ \A n \in 1 .. Len(f.events) : f.events[n] \in Names
  BY <1>1
<1>4. \A n \in 1 .. Len(f.events) : seqs[n] = SeedEvent(f.events[n]) /\ seqs[n] \in Seq(Filling)
  BY <1>3, SeedEventFills
<1>5. seqs \in Seq(Seq(Filling)) /\ Len(seqs) = Len(f.events)
  <2>1. seqs \in [1 .. Len(f.events) -> Seq(Filling)]
    BY <1>4
  <2> HIDE DEF seqs, f
  <2> QED  BY <1>3, <2>1, ListIs
<1>6. SeedFixture(f) = a \o b
  BY DEF SeedFixture
<1> HIDE DEF f, a, seqs
<1>7. b \in Seq(Filling)
  BY <1>5, FlattenType
<1>8. ASSUME NEW k \in 1 .. Len(f.events), NEW st \in ToSet(SeedEvent(f.events[k])) PROVE st \in ToSet(b)
  <2>1. seqs # <<>>
    <3>1. Len(seqs) # 0
      BY <1>3, <1>5
    <3> QED  BY <3>1, NotEmpty, Zenon
  <2>2. ToSet(b) = UNION {ToSet(seqs[n]) : n \in 1 .. Len(seqs)}
    BY <1>5, <2>1, FlattenIs DEF Flat
  <2> QED  BY <1>4, <1>5, <2>2
<1> HIDE DEF b
<1>9. ToSet(a \o b) = ToSet(a) \cup ToSet(b) /\ a \o b \in Seq(Filling)
  BY <1>2, <1>7, JoinIs
<1>10. a \in Seq(Statements) /\ b \in Seq(Statements)
  <2>1. Filling \subseteq Statements
    BY DEF Filling
  <2> QED  BY <1>2, <1>7, <2>1
<1>11. a \o b # <<>> /\ (a \o b)[1] = a[1]
  BY <1>2, <1>10, JoinStarts
<1> QED  BY <1>6, <1>8, <1>9, <1>11 DEF f, a

\* The fixtures, before the commit that ends them.
CatalogueSeed == FlattenSeq([i \in 1 .. Len(Fixtures) |-> SeedFixture(Fixtures[i])])

\* The seed of the fixtures starts with cricket, and has what each fixture has.
LEMMA CatalogueFills ==
    /\ CatalogueSeed \in Seq(Filling) /\ CatalogueSeed # <<>>
    /\ CatalogueSeed[1].do = "insert" /\ CatalogueSeed[1].rows = {Sport(Cricket)}
    /\ \A i \in 1 .. Len(Fixtures) :
         \A st \in ToSet(SeedFixture(Fixtures[i])) : st \in ToSet(CatalogueSeed)
<1> DEFINE seqs == [i \in 1 .. Len(Fixtures) |-> SeedFixture(Fixtures[i])]
<1>1. Len(Fixtures) \in Nat \ {0} /\ Fixtures[1].sport = Cricket
  BY BootAssumption
<1>2. ASSUME NEW i \in 1 .. Len(Fixtures)
      PROVE  /\ seqs[i] = SeedFixture(Fixtures[i]) /\ seqs[i] \in Seq(Filling)
             /\ seqs[i] # <<>> /\ seqs[i][1] = Insert(Sport(Fixtures[i].sport))[1]
  BY SeedFixtureFills
<1>3. seqs \in Seq(Seq(Filling)) /\ Len(seqs) = Len(Fixtures)
  <2>1. seqs \in [1 .. Len(Fixtures) -> Seq(Filling)]
    BY <1>2
  <2> HIDE DEF seqs
  <2> QED  BY <1>1, <2>1, ListIs
<1>4. CatalogueSeed = FlattenSeq(seqs)
  BY DEF CatalogueSeed
<1> HIDE DEF seqs
<1>5. seqs # <<>>
  <2>1. Len(seqs) # 0
    BY <1>1, <1>3
  <2> QED  BY <2>1, NotEmpty, Zenon
<1>6. Flat(CatalogueSeed, Filling, Len(Fixtures), seqs)
  BY <1>3, <1>4, <1>5, FlattenIs
<1>7. PICK rest \in Seq(Filling) : CatalogueSeed = seqs[1] \o rest
  BY <1>6 DEF Flat
<1>8. 1 \in 1 .. Len(Fixtures)
  BY <1>1
<1>9. CatalogueSeed # <<>> /\ CatalogueSeed[1] = seqs[1][1]
  <2>1. Filling \subseteq Statements
    BY DEF Filling
  <2>2. seqs[1] \in Seq(Statements) /\ rest \in Seq(Statements) /\ seqs[1] # <<>>
    BY <1>2, <1>8, <2>1
  <2> QED  BY <1>7, <2>2, JoinStarts
<1>10. seqs[1][1] = Insert(Sport(Cricket))[1]
  BY <1>1, <1>2, <1>8
<1>11. Insert(Sport(Cricket))[1].do = "insert" /\ Insert(Sport(Cricket))[1].rows = {Sport(Cricket)}
  BY NamesAre, RowsAre, OneStatement DEF Insert, Verbs
<1>12. ASSUME NEW i \in 1 .. Len(Fixtures), NEW st \in ToSet(SeedFixture(Fixtures[i]))
       PROVE  st \in ToSet(CatalogueSeed)
  BY <1>2, <1>6 DEF Flat
<1>13. CatalogueSeed \in Seq(Filling)
  BY <1>6 DEF Flat
<1> QED  BY <1>9, <1>10, <1>11, <1>12, <1>13

\* The fixtures, committed.
CatalogueThenCommit == CatalogueSeed \o CommitNow

\* The seed of the fixtures, with its commit, is a program.
LEMMA CatalogueCommits ==
    /\ ProgramOK(CatalogueThenCommit) /\ CatalogueThenCommit # <<>>
    /\ CatalogueThenCommit[1].do = "insert" /\ CatalogueThenCommit[1].rows = {Sport(Cricket)}
    /\ Free(CatalogueThenCommit, {"next", "drive", "unless", "absent"})
    /\ ToSet(CatalogueSeed) \subseteq ToSet(CatalogueThenCommit)
<1> DEFINE a == CatalogueSeed
           c == CatalogueThenCommit
<1>1. /\ CommitNow \in Seq(Statements) /\ Len(CommitNow) = 1
      /\ CommitNow[1].do = "commit" /\ CommitNow[1].rows = {}
  BY OneStatement DEF CommitNow, Verbs
<1>2. CommitNow \in Seq(Filling)
  <2>1. CommitNow[1] \in Filling
    BY <1>1 DEF Filling
  <2>2. \A t \in Seq(Statements) : Len(t) = 1 /\ t[1] \in Filling => t \in Seq(Filling)
    <3>1. SUFFICES ASSUME NEW t \in Seq(Statements), Len(t) = 1, t[1] \in Filling
                   PROVE  t \in Seq(Filling)
      OBVIOUS
    <3>2. \A i \in 1 .. Len(t) : t[i] \in Filling
      BY <3>1
    <3> QED  BY <3>2
  <2> QED  BY <1>1, <2>1, <2>2
<1>3. a \in Seq(Filling) /\ a # <<>> /\ a[1].do = "insert" /\ a[1].rows = {Sport(Cricket)}
  BY CatalogueFills
<1>4. Filling \subseteq Statements
  BY DEF Filling
<1>5. a \in Seq(Statements)
  BY <1>3, <1>4
<1>6. c \in Seq(Filling) /\ Len(c) = Len(a) + 1 /\ Len(a) \in Nat /\ c[Len(c)] = CommitNow[1]
      /\ c # <<>> /\ c[1] = a[1] /\ ToSet(a) \subseteq ToSet(c)
  <2>1. c \in Seq(Filling) /\ Len(c) = Len(a) + Len(CommitNow) /\ ToSet(c) = ToSet(a) \cup ToSet(CommitNow)
    BY <1>2, <1>3, JoinIs DEF CatalogueThenCommit
  <2>2. \A k \in 1 .. Len(CommitNow) : c[Len(a) + k] = CommitNow[k]
    BY <1>1, <1>5, JoinedAt DEF CatalogueThenCommit
  <2>3. c # <<>> /\ c[1] = a[1]
    BY <1>1, <1>3, <1>5, JoinStarts DEF CatalogueThenCommit
  <2> QED  BY <1>1, <1>3, <2>1, <2>2, <2>3
<1>7. c \in Seq(Statements)
  BY <1>4, <1>6
<1> HIDE DEF a, c
<1>8. ASSUME NEW i \in 1 .. Len(c)
      PROVE  /\ c[i].do \in {"insert", "commit"}
             /\ c[i].do = "insert" => \E row \in c[i].rows : /\ c[i].rows = {row}
                                                           /\ row.table \in {"sports", "markets", "orders"}
             /\ c[i].do = "commit" => c[i].rows = {}
  <2>1. c[i] \in Filling
    BY <1>6
  <2> QED  BY <2>1 DEF Filling
<1>9. ASSUME NEW i \in 1 .. Len(c) PROVE CommitsFrom(c, i)
  <2>1. Len(c) \in i .. Len(c) /\ \A k \in i .. Len(c) : k \in 1 .. Len(c)
    BY <1>6
  <2>2. c[Len(c)].do = "commit"
    BY <1>1, <1>6
  <2>3. \A k \in i .. Len(c) : c[k].do # "unless"
    BY <1>8, <2>1
  <2> QED  BY <2>1, <2>2, <2>3 DEF CommitsFrom
<1>10. ASSUME NEW i \in 1 .. Len(c) PROVE StatementOK(c, i)
  <2>1. ~ Makes(c[i], "users") /\ ~ Makes(c[i], "wallets")
    BY <1>8 DEF Makes
  <2> QED  BY <1>8, <1>9, <2>1 DEF StatementOK
<1>11. Free(c, {"next", "drive", "unless", "absent"})
  BY <1>8 DEF Free
<1>12. ProgramOK(c)
  BY <1>7, <1>10 DEF ProgramOK
<1> QED  BY <1>3, <1>6, <1>11, <1>12 DEF c, a

\* The codes and demo accounts.
Accounted == SeedCodes \o Do("ensure", "demo-admin") \o Do("ensure", "demo-user")

\* The sports are rows, and cricket is one of those seeded.
LEMMA SportsAre == AllSports \subseteq TableRows /\ Sport(Cricket) \in AllSports
<1>1. \A i \in 1 .. Len(Fixtures) : Sport(Fixtures[i].sport) \in TableRows
  BY NamesAre, RowsAre
<1>2. \A code \in NewSports : Sport(code) \in TableRows
  BY NamesAre, RowsAre
<1>3. 1 \in 1 .. Len(Fixtures) /\ Fixtures[1].sport = Cricket
  BY BootAssumption
<1> QED  BY <1>1, <1>2, <1>3 DEF AllSports, SeededSports

\* A commit is a program of one statement.
LEMMA CommitNowIs ==
    CommitNow \in Seq(Statements) /\ Len(CommitNow) = 1 /\ CommitNow[1].do = "commit"
BY OneStatement DEF CommitNow, Verbs

\* The seed, taken apart.
LEMMA SeedIs ==
    /\ Seed = Accounted \o (About("unless", AllSports) \o (Providers \o Filled))
    /\ Filled = CatalogueThenCommit \o Do("start", LiveEvent)
BY Zenon DEF Seed, Accounted, SeedCatalog, Filled, CatalogueThenCommit, CatalogueSeed

\* The part of the seed that fills the catalogue is a program without an early return.
LEMMA FilledOK ==
    /\ ProgramOK(Filled) /\ Filled # <<>>
    /\ Filled[1].do = "insert" /\ Filled[1].rows = {Sport(Cricket)}
    /\ Free(Filled, {"next", "drive", "unless", "absent"})
    /\ ToSet(CatalogueSeed) \subseteq ToSet(Filled)
<1> DEFINE a == CatalogueThenCommit
           b == Do("start", LiveEvent)
<1>1. /\ b \in Seq(Statements) /\ ProgramOK(b) /\ b # <<>> /\ Free(b, {"next", "drive", "unless", "absent"})
      /\ ~ Makes(b[1], "wallets")
  <2>1. Len(b) = 1 /\ b[1].do = "start"
    BY NamesAre, OneDo DEF Verbs
  <2>3. ProgramOK(b) /\ b # <<>> /\ ~ Makes(b[1], "wallets")
    BY NamesAre, DoOK
  <2> HIDE DEF b
  <2>2. \A i \in 1 .. Len(b) : i = 1
    BY <2>1
  <2> QED  BY <2>1, <2>2, <2>3 DEF Free, ProgramOK
<1>2. /\ a \in Seq(Statements) /\ ProgramOK(a) /\ a # <<>>
      /\ a[1].do = "insert" /\ a[1].rows = {Sport(Cricket)}
      /\ Free(a, {"next", "drive", "unless", "absent"}) /\ ToSet(CatalogueSeed) \subseteq ToSet(a)
  BY CatalogueCommits DEF ProgramOK
<1>3. Filled = a \o b
  BY SeedIs
<1> HIDE DEF a, b
<1>4. Free(a, {"next", "drive"}) /\ Free(a, {"unless"})
  BY <1>2 DEF Free
<1>5. ProgramOK(a \o b)
  BY <1>1, <1>2, <1>4, JoinOK
<1>6. Free(a \o b, {"next", "drive", "unless", "absent"})
  BY <1>1, <1>2, FreeJoin
<1>7. a \o b # <<>> /\ (a \o b)[1] = a[1]
  BY <1>1, <1>2, JoinStarts
<1>8. ToSet(a) \subseteq ToSet(a \o b)
  BY <1>1, <1>2, JoinIs
<1> QED  BY <1>2, <1>3, <1>5, <1>6, <1>7, <1>8

\* Statements of the seed that touch no sport.
Quiet == {st \in Statements : st.do \in {"absent", "commit", "ensure"} /\ st.rows \cap AllSports = {}}

\* The codes and demo accounts are a program of quiet statements, with the market type in it.
LEMMA AccountedOK ==
    /\ ProgramOK(Accounted) /\ Accounted \in Seq(Quiet) /\ Accounted # <<>>
    /\ Accounted[1].do = "absent" /\ Accounted \in Seq(Statements)
    /\ \E st \in ToSet(Accounted) : st.do = "absent" /\ st.rows = {MarketType("MATCH_ODDS")}
<1> DEFINE r == Row("roles", "user")
           m == MarketType("MATCH_ODDS")
           a1 == About("absent", {r})
           a2 == About("absent", {m})
           e1 == Do("ensure", "demo-admin")
           e2 == Do("ensure", "demo-user")
           p1 == a1 \o CommitNow
           p2 == a2 \o CommitNow
           q == e1 \o e2
<1>1. r \in TableRows /\ r.table = "roles" /\ m \in TableRows /\ m.table = "market_types"
  BY NamesGiven, RowIs, RowsAre DEF Tables
<1>2. r \notin AllSports /\ m \notin AllSports
  <2>1. \A row \in AllSports : row.table = "sports"
    BY DEF AllSports, SeededSports, Sport, Row
  <2> QED  BY <1>1, <2>1
<1> HIDE DEF r, m
<1>3. /\ a1 \in Seq(Statements) /\ Len(a1) = 1 /\ a1[1].do = "absent" /\ a1[1].rows = {r}
      /\ a2 \in Seq(Statements) /\ Len(a2) = 1 /\ a2[1].do = "absent" /\ a2[1].rows = {m}
  BY <1>1, OneStatement DEF Verbs
<1>4. /\ e1 \in Seq(Statements) /\ Len(e1) = 1 /\ e1[1].do = "ensure" /\ e1[1].rows = {}
      /\ e2 \in Seq(Statements) /\ Len(e2) = 1 /\ e2[1].do = "ensure" /\ e2[1].rows = {}
  BY NamesGiven, OneDo DEF Verbs
<1>5. CommitNow \in Seq(Statements) /\ Len(CommitNow) = 1 /\ CommitNow[1].do = "commit" /\ CommitNow[1].rows = {}
  BY OneStatement DEF CommitNow, Verbs
<1>6. /\ ProgramOK(p1) /\ p1 \in Seq(Statements) /\ Free(p1, {"next", "drive", "unless"})
      /\ Len(p1) = 2 /\ p1[1].do = "absent"
      /\ ProgramOK(p2) /\ p2 \in Seq(Statements) /\ Free(p2, {"next", "drive", "unless"})
      /\ Len(p2) = 2 /\ p2[1].do = "absent" /\ p2[1].rows = {m}
  <2>1. ASSUME NEW row \in TableRows, row.table \notin {"users", "wallets", "match_states"}
        PROVE  LET c == About("absent", {row}) \o CommitNow
               IN  /\ ProgramOK(c) /\ c \in Seq(Statements) /\ Free(c, {"next", "drive", "unless", "start", "again"})
                   /\ Len(c) = 2 /\ c[1].do = "absent" /\ c[1].rows = {row}
    BY <2>1, InsertOK, Zenon
  <2>2. \A c : Free(c, {"next", "drive", "unless", "start", "again"}) => Free(c, {"next", "drive", "unless"})
    BY DEF Free
  <2> HIDE DEF a1, a2
  <2>3. r.table \notin {"users", "wallets", "match_states"} /\ m.table \notin {"users", "wallets", "match_states"}
    BY <1>1
  <2> QED  BY <1>1, <2>1, <2>2, <2>3, Zenon DEF a1, a2
<1>7. /\ ProgramOK(q) /\ q \in Seq(Statements) /\ q # <<>> /\ ~ Makes(q[1], "wallets")
      /\ Free(q, {"next", "drive", "unless"})
  BY NamesGiven, TwoDos DEF Free
<1>8. Accounted = (p1 \o p2) \o q
  <2>1. p1 \o a2 \in Seq(Statements) /\ SeedCodes = (p1 \o a2) \o CommitNow
    BY <1>3, <1>6, JoinedAt DEF SeedCodes, r, m
  <2> HIDE DEF p1, a2, e1, e2
  <2>2. (p1 \o a2) \o CommitNow = p1 \o (a2 \o CommitNow)
    BY <1>3, <1>5, <1>6, Regroup
  <2>3. SeedCodes \in Seq(Statements) /\ SeedCodes = p1 \o p2
    BY <1>6, <2>1, <2>2, JoinedAt
  <2>4. Accounted = (SeedCodes \o e1) \o e2
    BY DEF Accounted, e1, e2
  <2>5. SeedCodes \o e1 \in Seq(Statements) /\ (SeedCodes \o e1) \o e2 = SeedCodes \o (e1 \o e2)
    BY <1>4, <2>3, Regroup, JoinedAt
  <2> QED  BY <2>3, <2>4, <2>5
<1>9. ToSet(p1) = ToSet(a1) \cup ToSet(CommitNow) /\ ToSet(p2) = ToSet(a2) \cup ToSet(CommitNow)
      /\ ToSet(q) = ToSet(e1) \cup ToSet(e2)
  <2> HIDE DEF a1, a2, e1, e2
  <2> QED  BY <1>3, <1>4, <1>5, JoinIs
<1>10. ASSUME NEW c \in Seq(Statements), Len(c) = 1 PROVE ToSet(c) = {c[1]} /\ c[1] \in Statements
  BY <1>10 DEF ToSet
<1>11. /\ ToSet(a1) = {a1[1]} /\ ToSet(a2) = {a2[1]} /\ ToSet(e1) = {e1[1]} /\ ToSet(e2) = {e2[1]}
       /\ ToSet(CommitNow) = {CommitNow[1]} /\ {a1[1], a2[1], e1[1], e2[1], CommitNow[1]} \subseteq Statements
  <2> HIDE DEF a1, a2, e1, e2
  <2> QED  BY <1>3, <1>4, <1>5, <1>10
<1> HIDE DEF a1, a2, e1, e2, p1, p2, q
<1>12. /\ ProgramOK(p1 \o p2) /\ p1 \o p2 \in Seq(Statements) /\ Len(p1 \o p2) = 4
       /\ Free(p1 \o p2, {"next", "drive", "unless"}) /\ (p1 \o p2)[1] = p1[1]
       /\ ToSet(p1 \o p2) = ToSet(p1) \cup ToSet(p2)
  <2>1. ~ Makes(p2[1], "wallets")
    BY <1>6 DEF Makes
  <2>2. Free(p1, {"next", "drive"}) /\ Free(p1, {"unless"})
    BY <1>6 DEF Free
  <2>3. ProgramOK(p1 \o p2)
    BY <1>6, <2>1, <2>2, JoinOK
  <2>4. 1 \in 1 .. Len(p1)
    BY <1>6
  <2>5. /\ p1 \o p2 \in Seq(Statements) /\ Len(p1 \o p2) = Len(p1) + Len(p2)
        /\ (p1 \o p2)[1] = p1[1]
    BY <1>6, <2>4, JoinedAt
  <2>6. Free(p1 \o p2, {"next", "drive", "unless"})
    BY <1>6, FreeJoin
  <2>7. ToSet(p1 \o p2) = ToSet(p1) \cup ToSet(p2)
    BY <1>6, JoinIs
  <2> QED  BY <1>6, <2>3, <2>5, <2>6, <2>7
<1>13. PICK p \in Seq(Statements) : p = p1 \o p2
  BY <1>12
<1>14. ProgramOK(p \o q) /\ p \o q \in Seq(Statements) /\ p \o q # <<>> /\ (p \o q)[1] = p1[1]
       /\ ToSet(p \o q) = ToSet(p) \cup ToSet(q)
  <2>1. Free(p, {"next", "drive"}) /\ Free(p, {"unless"})
    BY <1>12, <1>13 DEF Free
  <2>2. ProgramOK(p) /\ Len(p) # 0 /\ p[1] = p1[1]
    BY <1>12, <1>13
  <2>3. p # <<>>
    BY <2>2, NotEmpty, Zenon
  <2>4. ProgramOK(p \o q)
    BY <1>7, <2>1, <2>2, JoinOK
  <2> QED  BY <1>7, <2>2, <2>3, <2>4, JoinStarts, JoinIs
<1>15. PICK s \in Seq(Statements) : s = p \o q
  BY <1>14
<1>16. ToSet(s) = {a1[1], a2[1], CommitNow[1], e1[1], e2[1]}
  BY <1>9, <1>11, <1>12, <1>13, <1>14, <1>15
<1>17. ToSet(s) \subseteq Quiet
  BY <1>2, <1>3, <1>4, <1>5, <1>11, <1>16 DEF Quiet
<1>18. s \in Seq(Quiet)
  BY <1>17 DEF ToSet
<1>19. ProgramOK(s) /\ s # <<>> /\ s[1].do = "absent"
  BY <1>6, <1>14, <1>15
<1>20. \E st \in ToSet(s) : st.do = "absent" /\ st.rows = {m}
  BY <1>3, <1>16
<1>21. Accounted = s
  BY <1>8, <1>13, <1>15
<1> QED  BY <1>18, <1>19, <1>20, <1>21 DEF m

\* So are the liquidity providers.
LEMMA ProvidersOK ==
    /\ ProgramOK(Providers) /\ Providers \in Seq(Statements) /\ Providers # <<>>
    /\ Providers \in Seq(Quiet) /\ ~ Makes(Providers[1], "wallets")
<1> DEFINE a == Do("ensure", "liquidity-a")
           b == Do("ensure", "liquidity-b")
<1>1. /\ a \in Seq(Statements) /\ Len(a) = 1 /\ a[1].do = "ensure" /\ a[1].rows = {}
      /\ b \in Seq(Statements) /\ Len(b) = 1 /\ b[1].do = "ensure" /\ b[1].rows = {}
  BY NamesGiven, OneDo DEF Verbs
<1>2. /\ ProgramOK(Providers) /\ Providers \in Seq(Statements) /\ Providers # <<>>
      /\ ~ Makes(Providers[1], "wallets")
  BY NamesGiven, TwoDos DEF Providers
<1> HIDE DEF a, b
<1>3. ASSUME NEW c \in Seq(Statements), Len(c) = 1 PROVE ToSet(c) = {c[1]} /\ c[1] \in Statements
  BY <1>3 DEF ToSet
<1>4. ToSet(a \o b) = {a[1], b[1]} /\ a[1] \in Statements /\ b[1] \in Statements
  BY <1>1, <1>3, JoinIs
<1>5. PICK s \in Seq(Statements) : s = a \o b
  BY <1>1, JoinedAt
<1>6. ToSet(s) \subseteq Quiet
  BY <1>1, <1>4, <1>5 DEF Quiet
<1>7. s \in Seq(Quiet)
  BY <1>6 DEF ToSet
<1>8. Providers = s
  BY <1>5 DEF Providers, a, b
<1> QED  BY <1>2, <1>7, <1>8

\* Quiet statements start nothing and never return early.
LEMMA QuietFree ==
    ASSUME NEW a \in Seq(Quiet)
    PROVE  /\ Free(a, {"next", "drive", "unless"}) /\ Free(a, {"next", "drive"}) /\ Free(a, {"unless"})
           /\ Free(a, {"next", "drive", "unless", "start", "again"})
<1>1. \A i \in 1 .. Len(a) : a[i].do \in {"absent", "commit", "ensure"}
  BY DEF Quiet
<1> QED  BY <1>1 DEF Free

\* app.db.seed is a program, and starts no demo match.
LEMMA SeedOK ==
    /\ ProgramOK(Seed) /\ Seed # <<>> /\ Seed[1].do = "absent"
    /\ Free(Seed, {"next", "drive"})
<1> DEFINE f == Providers \o Filled
           u == About("unless", AllSports) \o f
<1>1. /\ Free(Providers, {"next", "drive", "unless"}) /\ Free(Accounted, {"next", "drive", "unless"})
      /\ Free(Providers, {"next", "drive"}) /\ Free(Accounted, {"next", "drive"})
      /\ Free(Filled, {"next", "drive"}) /\ Free(Providers, {"unless"})
  <2>1. Free(Filled, {"next", "drive"})
    BY FilledOK DEF Free
  <2> QED  BY <2>1, AccountedOK, ProvidersOK, QuietFree
<1>2. ProgramOK(f) /\ f \in Seq(Statements) /\ Free(f, {"next", "drive"}) /\ f # <<>> /\ ~ Makes(f[1], "wallets")
  <2>1. ~ Makes(Filled[1], "wallets")
    <3>1. \A row \in Filled[1].rows : row.table = "sports"
      BY FilledOK DEF Sport, Row
    <3> QED  BY <3>1 DEF Makes
  <2>2. Filled \in Seq(Statements)
    BY FilledOK DEF ProgramOK
  <2>3. ProgramOK(f)
    BY <1>1, <2>1, ProvidersOK, FilledOK, JoinOK
  <2> QED  BY <1>1, <2>2, <2>3, ProvidersOK, FreeJoin, JoinStarts, JoinedAt
<1> HIDE DEF f
<1>3. ProgramOK(u) /\ u # <<>> /\ u[1].do = "unless" /\ Free(u, {"next", "drive"})
  BY <1>2, SportsAre, UnlessOK
<1>4. Seed = Accounted \o u
  BY SeedIs DEF f, u
<1> HIDE DEF u
<1>5. ~ Makes(u[1], "wallets") /\ u \in Seq(Statements)
  BY <1>3 DEF Makes, ProgramOK
<1>6. ProgramOK(Accounted \o u)
  BY <1>1, <1>3, <1>5, AccountedOK, JoinOK
<1>7. Accounted \o u # <<>> /\ (Accounted \o u)[1] = Accounted[1]
  BY <1>5, AccountedOK, JoinStarts
<1>8. Free(Accounted \o u, {"next", "drive"})
  BY <1>1, <1>3, <1>5, AccountedOK, FreeJoin
<1> QED  BY <1>4, <1>6, <1>7, <1>8, AccountedOK

-----------------------------------------------------------------------------
(* What a step does to a program                                            *)

\* Head and rest of the program that p runs.
LEMMA AtHead ==
    ASSUME SessionsOK, NEW p \in Programs, todo[p] # <<>>
    PROVE  /\ SessionOK(p, tx[p], todo[p]) /\ ProgramOK(todo[p]) /\ todo[p] \in Seq(Statements)
           /\ Head(todo[p]) = todo[p][1] /\ todo[p][1] \in Statements
           /\ Rest(p) = Tail(todo[p]) /\ Tail(todo[p]) \in Seq(Statements)
<1>1. SessionOK(p, tx[p], todo[p])
  BY DEF SessionsOK
<1>2. ProgramOK(todo[p]) /\ todo[p] \in Seq(Statements)
  BY <1>1 DEF SessionOK, ProgramOK
<1>3. PICK prog \in Seq(Statements) : prog = todo[p]
  BY <1>2
<1>4. Head(prog) = prog[1] /\ prog[1] \in Statements /\ Tail(prog) \in Seq(Statements)
  BY <1>3, RestIs
<1> QED  BY <1>1, <1>2, <1>3, <1>4 DEF Rest

\* A lookup ends the program, goes on with the rest, or puts the branch in front,
\* and the session is in order.
LEMMA LookedUp ==
    ASSUME SessionsOK, NEW p \in Programs, LookUp(p)
    PROVE  \E prog :
             /\ todo' = [todo EXCEPT ![p] = prog] /\ SessionOK(p, tx[p], prog)
             /\ \/ /\ todo[p][1].do = "unless" /\ prog = <<>>
                   /\ \E row \in todo[p][1].rows : Sees(p, row)
                \/ /\ todo[p][1].do = "unless" /\ prog = Tail(todo[p])
                   /\ \A row \in todo[p][1].rows : ~ Sees(p, row)
                \/ /\ todo[p][1].do = "absent" /\ prog = Tail(todo[p])
                   /\ \E row \in todo[p][1].rows : Sees(p, row)
                \/ todo[p][1].do = "absent" /\ prog = About("insert", todo[p][1].rows) \o Tail(todo[p])
                \/ todo[p][1].do = "ensure" /\ prog = Tail(todo[p])
                \/ /\ todo[p][1].do = "ensure" /\ todo[p][1].key \in Names
                   /\ prog = Account(todo[p][1].key) \o Tail(todo[p])
<1>1. todo[p] # <<>>
  BY DEF LookUp, At
<1>2. PICK old, t : old = todo[p] /\ t = tx[p]
  OBVIOUS
<1>3. /\ SessionOK(p, t, old) /\ Head(todo[p]) = old[1] /\ old[1] \in Statements /\ Rest(p) = Tail(old)
      /\ Rows(p) = old[1].rows /\ Key(p) = old[1].key /\ old # <<>>
  BY <1>1, <1>2, AtHead DEF Rows, Key
<1>4. CASE At(p, "unless")
  <2>1. old[1].do = "unless"
    BY <1>3, <1>4 DEF At
  <2>2. todo' = [todo EXCEPT ![p] = IF \E row \in Rows(p) : Sees(p, row) THEN <<>> ELSE Rest(p)]
    BY <1>2, <1>3, <2>1 DEF LookUp, Goto, At
  <2>3. SessionOK(p, t, Tail(old))
    BY <1>3, <2>1, AdvanceOK
  <2>4. SessionOK(p, t, <<>>)
    BY <1>3, <2>1, NothingFlushed, EndedOK
  <2>5. CASE \E row \in Rows(p) : Sees(p, row)
    BY <1>2, <1>3, <2>1, <2>2, <2>4, <2>5
  <2>6. CASE ~ \E row \in Rows(p) : Sees(p, row)
    BY <1>2, <1>3, <2>1, <2>2, <2>3, <2>6
  <2> QED  BY <2>5, <2>6
<1>5. CASE At(p, "absent")
  <2>1. old[1].do = "absent"
    BY <1>3, <1>5 DEF At
  <2>2. todo' = [todo EXCEPT ![p] = IF \E row \in Rows(p) : Sees(p, row) THEN Rest(p)
                                     ELSE About("insert", Rows(p)) \o Rest(p)]
    BY <1>2, <1>3, <2>1 DEF LookUp, Goto, At
  <2>3. SessionOK(p, t, Tail(old)) /\ SessionOK(p, t, About("insert", old[1].rows) \o Tail(old))
    BY <1>3, <2>1, AdvanceOK, AbsentOK
  <2>5. CASE \E row \in Rows(p) : Sees(p, row)
    BY <1>2, <1>3, <2>1, <2>2, <2>3, <2>5
  <2>6. CASE ~ \E row \in Rows(p) : Sees(p, row)
    BY <1>2, <1>3, <2>1, <2>2, <2>3, <2>6
  <2> QED  BY <2>5, <2>6
<1>6. CASE At(p, "ensure")
  <2>1. old[1].do = "ensure" /\ old[1].key \in Names
    BY <1>3, <1>6 DEF At, Statements
  <2>2. todo' = [todo EXCEPT ![p] = IF Sees(p, Row("users", Key(p))) THEN Rest(p)
                                     ELSE Account(Key(p)) \o Rest(p)]
    BY <1>2, <1>3, <2>1 DEF LookUp, Goto, At
  <2>3. SessionOK(p, t, Tail(old)) /\ SessionOK(p, t, Account(old[1].key) \o Tail(old))
    <3>1. PICK key \in Names : key = old[1].key
      BY <2>1
    <3>2. PICK piece : piece = Account(key)
      OBVIOUS
    <3>3. ProgramOK(piece) /\ Len(piece) = 3 /\ Free(piece, {"next", "drive", "unless"})
          /\ ~ Makes(piece[1], "wallets")
      BY <3>2, AccountOK DEF Free, Makes, Row
    <3>4. piece # <<>>
      BY <3>3
    <3> QED  BY <1>3, <2>1, <3>1, <3>2, <3>3, <3>4, AdvanceOK, BranchOK
  <2>5. CASE Sees(p, Row("users", Key(p)))
    BY <1>2, <1>3, <2>1, <2>2, <2>3, <2>5
  <2>6. CASE ~ Sees(p, Row("users", Key(p)))
    BY <1>2, <1>3, <2>1, <2>2, <2>3, <2>6
  <2> QED  BY <2>5, <2>6
<1> QED  BY <1>4, <1>5, <1>6 DEF LookUp

\* So does start_match: it goes on, or puts a match to start again or a new one in front.
LEMMA Started ==
    ASSUME SessionsOK, NEW p \in Programs, Start(p)
    PROVE  \E prog : \E ev \in Names :
             /\ todo' = [todo EXCEPT ![p] = prog] /\ SessionOK(p, tx[p], prog)
             /\ todo[p][1].do = "start" /\ todo[p][1].key = ev
             /\ \/ prog = Tail(todo[p])
                \/ prog = Again(ev) \o Tail(todo[p]) /\ ev \in over
                \/ prog = Anew(ev) \o Tail(todo[p])
<1>1. todo[p] # <<>>
  BY DEF Start, At
<1>2. PICK old, t : old = todo[p] /\ t = tx[p]
  OBVIOUS
<1>3. /\ SessionOK(p, t, old) /\ old[1] \in Statements /\ Rest(p) = Tail(old)
      /\ Key(p) = old[1].key /\ old # <<>> /\ old[1].do = "start"
  BY <1>1, <1>2, AtHead DEF Key, Start, At
<1>4. PICK ev \in Names : ev = old[1].key
  BY <1>3 DEF Statements
<1>5. /\ SessionOK(p, t, Tail(old)) /\ SessionOK(p, t, Again(ev) \o Tail(old))
      /\ SessionOK(p, t, Anew(ev) \o Tail(old))
  BY <1>3, StartsOK, AdvanceOK, BranchOK
<1>6. \/ todo' = [todo EXCEPT ![p] = Tail(old)]
      \/ todo' = [todo EXCEPT ![p] = Again(ev) \o Tail(old)] /\ ev \in over
      \/ todo' = [todo EXCEPT ![p] = Anew(ev) \o Tail(old)]
  <2>1. Goto(p, CASE Sees(p, Match(ev)) /\ ev \notin over -> Tail(old)
                  [] ev \in over -> Again(ev) \o Tail(old)
                  [] OTHER -> Anew(ev) \o Tail(old))
    BY <1>3, <1>4, Zenon DEF Start, Again, Anew
  <2>2. CASE Sees(p, Match(ev)) /\ ev \notin over
    BY <2>1, <2>2, Zenon DEF Goto
  <2>3. CASE ev \in over
    BY <2>1, <2>3, Zenon DEF Goto
  <2>4. CASE ~ Sees(p, Match(ev)) /\ ev \notin over
    BY <2>1, <2>4, Zenon DEF Goto
  <2> QED  BY <2>2, <2>3, <2>4
<1> QED  BY <1>2, <1>3, <1>4, <1>5, <1>6

\* start_next_demo_match ends for want of the cricket competition, or goes on with an event.
LEMMA NextStarted ==
    ASSUME SessionsOK, NEW p \in Programs, StartNext(p)
    PROVE  /\ tx[p] = {} /\ todo[p] # <<>> /\ todo[p][1].do = "next"
           /\ \/ todo' = [todo EXCEPT ![p] = <<>>] /\ ~ (Needed \subseteq RowsIn(db))
              \/ \E ev \in Names : /\ todo' = [todo EXCEPT ![p] = NextMatch(ev)]
                                   /\ SessionOK(p, {}, NextMatch(ev))
<1>1. todo[p] # <<>>
  BY DEF StartNext, At
<1>2. todo[p][1].do = "next"
  BY <1>1, AtHead DEF StartNext, At
<1>3. tx[p] = {}
  BY <1>1, <1>2, AtHead, NothingFlushed
<1>4. CASE Committed(Sport(Cricket)) /\ Committed(MarketType("MATCH_ODDS"))
  <2>1. PICK ev \in NewEvents : Goto(p, Insert(MarketOf(ev)) \o CommitNow \o StartRequest(ev))
    BY <1>4 DEF StartNext
  <2>2. ev \in Names
    BY NamesAre DEF DemoEvents
  <2>3. todo' = [todo EXCEPT ![p] = NextMatch(ev)]
    BY <2>1 DEF Goto, NextMatch
  <2>4. ProgramOK(NextMatch(ev)) /\ NextMatch(ev) # <<>> /\ ~ Makes(NextMatch(ev)[1], "wallets")
    <3>1. Len(NextMatch(ev)) # 0
      BY <2>2, NextMatchOK
    <3>2. \A row \in NextMatch(ev)[1].rows : row.table = "markets"
      BY <2>2, NextMatchOK DEF MarketOf, Row
    <3> QED  BY <2>2, <3>1, <3>2, NextMatchOK, NotEmpty DEF Makes
  <2> QED  BY <1>1, <1>2, <1>3, <2>2, <2>3, <2>4, FreshOK
<1>5. CASE ~ (Committed(Sport(Cricket)) /\ Committed(MarketType("MATCH_ODDS")))
  <2>1. todo' = [todo EXCEPT ![p] = <<>>]
    BY <1>5 DEF StartNext, Goto
  <2>2. ~ (Needed \subseteq RowsIn(db))
    BY <1>5 DEF Needed, RowsIn, Committed
  <2> QED  BY <1>1, <1>2, <1>3, <2>1, <2>2
<1> QED  BY <1>4, <1>5

-----------------------------------------------------------------------------
(* Accounts are whole                                                       *)

\* When one session goes on in order, all are.
LEMMA Moved ==
    ASSUME SessionsOK, NEW p \in Programs, NEW t, NEW prog, SessionOK(p, t, prog),
           tx' = [tx EXCEPT ![p] = t] \/ (tx' = tx /\ t = tx[p]), todo' = [todo EXCEPT ![p] = prog]
    PROVE  SessionsOK'
<1>1. DOMAIN todo' = Programs /\ DOMAIN tx' = Programs
  BY DEF SessionsOK
<1>2. tx'[p] = t /\ todo'[p] = prog
  BY DEF SessionsOK
<1>3. ASSUME NEW q \in Programs, q # p PROVE tx'[q] = tx[q] /\ todo'[q] = todo[q]
  BY <1>3 DEF SessionsOK
<1>4. ASSUME NEW q \in Programs PROVE SessionOK(q, tx'[q], todo'[q])
  <2>1. SessionOK(q, tx[q], todo[q])
    BY DEF SessionsOK
  <2> QED  BY <1>2, <1>3, <2>1
<1> QED  BY <1>1, <1>4 DEF SessionsOK

\* Also when it has flushed nothing more.
LEMMA Went ==
    ASSUME SessionsOK, NEW p \in Programs, NEW prog, SessionOK(p, tx[p], prog),
           UNCHANGED tx, todo' = [todo EXCEPT ![p] = prog]
    PROVE  SessionsOK'
BY Moved

\* An exception leaves the sessions in order: what was flushed is rolled back.
LEMMA RaisedOK ==
    ASSUME SessionsOK, NEW p \in Programs, Raise(p)
    PROVE  SessionsOK'
BY EndedOK, Moved DEF Raise, Goto

\* The programs that the server starts.
LEMMA BegunOK ==
    ASSUME SessionsOK, NEW p \in Programs, todo[p] = <<>>
    PROVE  /\ tx[p] = {}
           /\ \A prog : ProgramOK(prog) /\ prog # <<>> /\ ~ Makes(prog[1], "wallets")
                          => SessionOK(p, tx[p], prog)
           /\ SessionOK(p, tx[p], Seed) /\ SessionOK(p, tx[p], NextDemo) /\ SessionOK(p, tx[p], <<>>)
<1>1. tx[p] = {}
  <2>1. SessionOK(p, tx[p], todo[p])
    BY DEF SessionsOK
  <2> QED  BY <2>1, NothingFlushed
<1>2. \A prog : ProgramOK(prog) /\ prog # <<>> /\ ~ Makes(prog[1], "wallets") => SessionOK(p, {}, prog)
  BY FreshOK
<1>3. ProgramOK(Seed) /\ Seed # <<>> /\ ~ Makes(Seed[1], "wallets")
  <2>1. ProgramOK(Seed) /\ Seed # <<>> /\ Seed[1].do = "absent"
    BY SeedOK
  <2> QED  BY <2>1 DEF Makes
<1>4. ProgramOK(NextDemo) /\ NextDemo # <<>> /\ ~ Makes(NextDemo[1], "wallets")
  <2>1. ProgramOK(NextDemo) /\ Len(NextDemo) # 0 /\ NextDemo[1].do = "next"
    BY NextDemoOK
  <2> QED  BY <2>1, NotEmpty DEF Makes
<1> QED  BY <1>1, <1>2, <1>3, <1>4, EndedOK

\* The programs of requests are programs, and start with a lookup.
LEMMA RequestedOK ==
    ASSUME NEW program \in {Register(email) : email \in Emails}
                            \cup {CreateSport(code) : code \in NewSports}
                            \cup {CreateMarketType(code) : code \in NewTypes}
                            \cup {StartRequest(ev) : ev \in DemoEvents}
    PROVE  /\ ProgramOK(program) /\ program # <<>> /\ ~ Makes(program[1], "wallets")
           /\ \/ program[1].do = "unless"
              \/ \E ev \in DemoEvents : program = StartRequest(ev)
<1>1. ASSUME NEW prog, ProgramOK(prog) /\ prog # <<>>, prog[1].do \in {"unless", "start"}
      PROVE  ~ Makes(prog[1], "wallets")
  BY <1>1 DEF Makes
<1>2. CASE program \in {Register(email) : email \in Emails}
  <2>1. PICK email \in Names : program = Register(email)
    BY <1>2, NamesAre
  <2> QED  BY <1>1, <2>1, RegisterOK
<1>3. CASE program \in {CreateSport(code) : code \in NewSports}
  <2>1. PICK code \in Names : program = CreateSport(code)
    BY <1>3, NamesAre
  <2>2. PICK row : row = Sport(code)
    OBVIOUS
  <2>3. program = About("unless", {row}) \o Insert(row) \o CommitNow
    BY <2>1, <2>2 DEF CreateSport
  <2>4. row \in TableRows /\ row.table \notin {"users", "wallets"}
    BY <2>1, <2>2, RowsAre
  <2>5. ProgramOK(program) /\ program # <<>> /\ program[1].do = "unless"
    BY <2>3, <2>4, CreateOK
  <2> QED  BY <1>1, <2>5
<1>4. CASE program \in {CreateMarketType(code) : code \in NewTypes}
  <2>1. PICK code \in Names : program = CreateMarketType(code)
    BY <1>4, NamesAre
  <2>2. PICK row : row = MarketType(code)
    OBVIOUS
  <2>3. program = About("unless", {row}) \o Insert(row) \o CommitNow
    BY <2>1, <2>2 DEF CreateMarketType
  <2>4. row \in TableRows /\ row.table \notin {"users", "wallets"}
    BY <2>1, <2>2, RowsAre
  <2>5. ProgramOK(program) /\ program # <<>> /\ program[1].do = "unless"
    BY <2>3, <2>4, CreateOK
  <2> QED  BY <1>1, <2>5
<1>5. CASE program \in {StartRequest(ev) : ev \in DemoEvents}
  <2>1. PICK ev \in DemoEvents : program = StartRequest(ev)
    BY <1>5
  <2>2. ProgramOK(program) /\ Len(program) # 0 /\ program[1].do = "start"
    BY <2>1, NamesAre, StartRequestOK
  <2>3. program # <<>>
    BY <2>2, NotEmpty, Zenon
  <2> QED  BY <1>1, <2>1, <2>2, <2>3
<1> QED  BY <1>2, <1>3, <1>4, <1>5

\* A step that commits nothing and flushes nothing keeps the invariant.
LEMMA RowsStay ==
    ASSUME FlushedInv, SessionsOK', UNCHANGED db,
           \A p \in Programs : tx'[p] \subseteq tx[p]
    PROVE  FlushedInv'
<1>1. Flushed' \subseteq Flushed
  BY DEF Flushed
<1>2. \A x, y \in Flushed' : x.row = y.row => x = y
  BY <1>1 DEF FlushedInv
<1>3. Accounts(db', "users") = Accounts(db', "wallets")
  BY DEF FlushedInv
<1> QED  BY <1>2, <1>3 DEF FlushedInv

\* The accounts of two sets of rows together.
LEMMA AccountsJoin ==
    ASSUME NEW a, NEW b, NEW table
    PROVE  Accounts(a \cup b, table) = Accounts(a, table) \cup Accounts(b, table)
BY DEF Accounts

\* Every step keeps what is flushed in order.
LEMMA FlushedStep ==
    FlushedInv /\ PhaseInv /\ [Next]_vars => FlushedInv'
<1> SUFFICES ASSUME FlushedInv, PhaseInv, [Next]_vars PROVE FlushedInv'
  OBVIOUS
<1> USE DEF Programs
<1>1. SessionsOK
  BY DEF FlushedInv
<1>2. ASSUME SessionsOK', UNCHANGED <<db, tx>> PROVE FlushedInv'
  BY <1>2, RowsStay
<1>3. CASE Boot
  <2>1. todo["boot"] = <<>>
    BY <1>3 DEF Boot, PhaseInv
  <2>2. SessionOK("boot", tx["boot"], Seed)
    BY <1>1, <2>1, BegunOK
  <2> QED  BY <1>1, <1>2, <1>3, <2>2, Went DEF Boot, Goto
<1>4. CASE Lifespan
  <2>1. todo["boot"] = <<>>
    BY <1>4 DEF Lifespan
  <2>2. PICK prog \in {NextDemo, <<>>} : todo' = [todo EXCEPT !["boot"] = prog]
    BY <1>4 DEF Lifespan, Goto
  <2>3. SessionOK("boot", tx["boot"], prog)
    BY <1>1, <2>1, BegunOK
  <2> QED  BY <1>1, <1>2, <1>4, <2>2, <2>3, Went DEF Lifespan
<1>5. CASE Serve
  BY <1>1, <1>2, <1>5 DEF Serve, SessionsOK
<1>6. CASE Crash
  <2>1. ASSUME NEW p \in Programs PROVE SessionOK(p, tx'[p], todo'[p]) /\ tx'[p] \subseteq tx[p]
    BY <1>6, EndedOK DEF Crash
  <2>2. SessionsOK'
    BY <1>6, <2>1 DEF Crash, SessionsOK
  <2> QED  BY <1>6, <2>1, <2>2, RowsStay DEF Crash
<1>7. ASSUME NEW s \in Sessions, Request(s) PROVE FlushedInv'
  <2>1. PICK program \in {Register(email) : email \in Emails}
                         \cup {CreateSport(code) : code \in NewSports}
                         \cup {CreateMarketType(code) : code \in NewTypes}
                         \cup {StartRequest(ev) : ev \in {ev \in DemoEvents : Committed(MarketOf(ev))}} :
               todo' = [todo EXCEPT ![s] = program]
    BY <1>7 DEF Request, Goto
  <2>2. program \in {Register(email) : email \in Emails}
                   \cup {CreateSport(code) : code \in NewSports}
                   \cup {CreateMarketType(code) : code \in NewTypes}
                   \cup {StartRequest(ev) : ev \in DemoEvents}
    OBVIOUS
  <2>3. ProgramOK(program) /\ program # <<>> /\ ~ Makes(program[1], "wallets")
    BY <2>2, RequestedOK
  <2>4. todo[s] = <<>> /\ UNCHANGED <<db, tx>>
    BY <1>7 DEF Request
  <2>5. SessionOK(s, tx[s], program)
    BY <1>1, <2>3, <2>4, BegunOK
  <2> QED  BY <1>1, <1>2, <2>1, <2>4, <2>5, Went
<1>8. ASSUME NEW ev \in DemoEvents, Finish(ev) PROVE FlushedInv'
  BY <1>1, <1>2, <1>8 DEF Finish, SessionsOK
<1>9. ASSUME NEW ev \in DemoEvents, NEW s \in Sessions, MatchOver(ev, s) PROVE FlushedInv'
  <2>1. todo[s] = <<>> /\ UNCHANGED <<db, tx>> /\ todo' = [todo EXCEPT ![s] = NextDemo]
    BY <1>9 DEF MatchOver, Goto
  <2>2. SessionOK(s, tx[s], NextDemo)
    BY <1>1, <2>1, BegunOK
  <2> QED  BY <1>1, <1>2, <2>1, <2>2, Went
<1>10. ASSUME NEW p \in Programs, InsertRow(p) PROVE FlushedInv'
  <2>1. /\ todo[p] # <<>> /\ SessionOK(p, tx[p], todo[p]) /\ todo[p][1].do = "insert"
        /\ Rest(p) = Tail(todo[p]) /\ Rows(p) = todo[p][1].rows
    <3>1. todo[p] # <<>>
      BY <1>10 DEF InsertRow, At
    <3> QED  BY <1>1, <1>10, <3>1, AtHead DEF InsertRow, At, Rows
  <2>2. PICK new : new = {[row |-> row, by |-> p] : row \in Rows(p)}
    OBVIOUS
  <2>3. PICK t, prog : t = tx[p] /\ prog = Tail(todo[p])
    OBVIOUS
  <2>4. SessionOK(p, t \cup new, prog)
    BY <2>1, <2>2, <2>3, InsertedOK
  <2>5. /\ tx' = [tx EXCEPT ![p] = t \cup new] /\ todo' = [todo EXCEPT ![p] = prog]
        /\ UNCHANGED db
    BY <1>10, <2>1, <2>2, <2>3 DEF InsertRow, Goto
  <2>6. SessionsOK'
    BY <1>1, <2>4, <2>5, Moved
  <2>7. Flushed' \subseteq Flushed \cup new
    BY <1>1, <2>3, <2>5 DEF Flushed, SessionsOK
  <2>8. ASSUME NEW x \in new, NEW y \in Flushed, x.row = y.row PROVE x = y
    <3>1. x.row \in Rows(p) /\ x = [row |-> x.row, by |-> p]
      BY <2>2
    <3>2. ~ Committed(x.row) /\ \A q \in Programs \ {p} : \A z \in tx[q] : z.row # x.row
      BY <1>10, <3>1 DEF InsertRow, Taken
    <3>3. y \in tx[p]
      BY <2>8, <3>2 DEF Flushed, Committed
    <3>4. y = [row |-> y.row, by |-> p]
      BY <2>1, <3>3 DEF SessionOK
    <3> QED  BY <2>8, <3>1, <3>4
  <2>9. ASSUME NEW x \in new, NEW y \in new, x.row = y.row PROVE x = y
    BY <2>2, <2>9
  <2>10. \A x, y \in Flushed : x.row = y.row => x = y
    BY DEF FlushedInv
  <2>11. \A x, y \in Flushed' : x.row = y.row => x = y
    BY <2>7, <2>8, <2>9, <2>10
  <2>12. Accounts(db', "users") = Accounts(db', "wallets")
    BY <2>5 DEF FlushedInv
  <2> QED  BY <2>6, <2>11, <2>12 DEF FlushedInv
<1>11. ASSUME NEW p \in Programs, Raise(p) PROVE FlushedInv'
  <2>1. SessionsOK'
    BY <1>1, <1>11, RaisedOK
  <2>2. \A q \in Programs : tx'[q] \subseteq tx[q]
    BY <1>1, <1>11 DEF Raise, SessionsOK
  <2> QED  BY <1>11, <2>1, <2>2, RowsStay DEF Raise
<1>12. ASSUME NEW p \in Programs, Commit(p) PROVE FlushedInv'
  <2>1. /\ todo[p] # <<>> /\ SessionOK(p, tx[p], todo[p]) /\ todo[p][1].do = "commit"
        /\ Rest(p) = Tail(todo[p])
    <3>1. todo[p] # <<>>
      BY <1>12 DEF Commit, At
    <3> QED  BY <1>1, <1>12, <3>1, AtHead DEF Commit, At
  <2>2. PICK prog, t : prog = Tail(todo[p]) /\ t = tx[p]
    OBVIOUS
  <2>3. SessionOK(p, {}, prog) /\ Accounts(t, "users") = Accounts(t, "wallets")
    BY <2>1, <2>2, CommittedOK
  <2>4. /\ tx' = [tx EXCEPT ![p] = {}] /\ todo' = [todo EXCEPT ![p] = prog]
        /\ db' = db \cup t
    BY <1>12, <2>1, <2>2 DEF Commit, Goto
  <2>5. SessionsOK'
    BY <1>1, <2>3, <2>4, Moved
  <2>6. Flushed' \subseteq Flushed
    BY <1>1, <2>2, <2>4 DEF Flushed, SessionsOK
  <2>7. \A x, y \in Flushed' : x.row = y.row => x = y
    BY <2>6 DEF FlushedInv
  <2>8. Accounts(db', "users") = Accounts(db', "wallets")
    <3>1. PICK d : d = db
      OBVIOUS
    <3>2. Accounts(d, "users") = Accounts(d, "wallets")
      BY <3>1 DEF FlushedInv
    <3>3. \A table : Accounts(d \cup t, table) = Accounts(d, table) \cup Accounts(t, table)
      BY AccountsJoin
    <3>4. Accounts(d \cup t, "users") = Accounts(d \cup t, "wallets")
      BY <2>3, <3>2, <3>3
    <3> QED  BY <2>4, <3>1, <3>4
  <2> QED  BY <2>5, <2>7, <2>8 DEF FlushedInv
<1>13. ASSUME NEW p \in Programs, LookUp(p) PROVE FlushedInv'
  <2>1. PICK prog : todo' = [todo EXCEPT ![p] = prog] /\ SessionOK(p, tx[p], prog)
    BY <1>1, <1>13, LookedUp
  <2> QED  BY <1>1, <1>2, <1>13, <2>1, Went DEF LookUp
<1>14. ASSUME NEW p \in Programs, Start(p) PROVE FlushedInv'
  <2>1. PICK prog : todo' = [todo EXCEPT ![p] = prog] /\ SessionOK(p, tx[p], prog)
    BY <1>1, <1>14, Started
  <2> QED  BY <1>1, <1>2, <1>14, <2>1, Went DEF Start
<1>15. ASSUME NEW p \in Programs, StartAgain(p) \/ Drive(p) PROVE FlushedInv'
  <2>1. todo[p] # <<>> /\ Head(todo[p]).do \in {"again", "drive"} /\ UNCHANGED <<db, tx>>
        /\ todo' = [todo EXCEPT ![p] = Rest(p)]
    BY <1>15 DEF StartAgain, Drive, At, Goto
  <2>2. SessionOK(p, tx[p], Rest(p))
    <3>1. PICK old, t : old = todo[p] /\ t = tx[p]
      OBVIOUS
    <3>2. SessionOK(p, t, old) /\ old # <<>> /\ old[1].do \in {"again", "drive"} /\ Rest(p) = Tail(old)
      BY <1>1, <2>1, <3>1, AtHead
    <3> QED  BY <3>1, <3>2, AdvanceOK
  <2> QED  BY <1>1, <1>2, <2>1, <2>2, Went
<1>16. ASSUME NEW p \in Programs, StartNext(p) PROVE FlushedInv'
  <2>1. PICK prog : todo' = [todo EXCEPT ![p] = prog] /\ SessionOK(p, tx[p], prog)
    BY <1>1, <1>16, NextStarted, EndedOK
  <2> QED  BY <1>1, <1>2, <1>16, <2>1, Went DEF StartNext
<1>17. CASE UNCHANGED vars
  BY <1>1, <1>2, <1>17 DEF vars, SessionsOK
<1> QED
  BY <1>3, <1>4, <1>5, <1>6, <1>7, <1>8, <1>9, <1>10, <1>11, <1>12, <1>13, <1>14, <1>15, <1>16, <1>17
  DEF Next, InsertRaises, Fault

\* At first nothing is flushed, and the server is down.
LEMMA FlushedInit == Init => FlushedInv /\ PhaseInv
<1> SUFFICES ASSUME Init PROVE FlushedInv /\ PhaseInv
  OBVIOUS
<1>1. \A p \in Programs : tx[p] = {} /\ todo[p] = <<>>
  BY DEF Init
<1>2. SessionsOK
  BY <1>1, EndedOK DEF Init, SessionsOK
<1>3. Flushed = {}
  BY <1>1 DEF Init, Flushed
<1>4. Accounts(db, "users") = Accounts(db, "wallets")
  BY DEF Init, Accounts
<1>5. PhaseInv
  BY <1>1 DEF Init, PhaseInv, Programs
<1> QED  BY <1>2, <1>3, <1>4, <1>5 DEF FlushedInv

\* A piece in front starts no match of its own, so neither does what it makes.
LEMMA NoDrive ==
    ASSUME NEW a \in Seq(Statements), NEW D, Free(a, D)
    PROVE  \A st \in ToSet(a) : st.do \notin D
<1>1. \A st \in ToSet(a) : \E i \in 1 .. Len(a) : a[i] = st
  BY DEF ToSet
<1> QED  BY <1>1 DEF Free

\* Every step keeps what runs in each phase.
LEMMA PhaseStep ==
    FlushedInv /\ PhaseInv /\ [Next]_vars => PhaseInv'
<1> SUFFICES ASSUME FlushedInv, PhaseInv, [Next]_vars PROVE PhaseInv'
  OBVIOUS
<1> USE DEF Programs
<1> DEFINE Quiets(prog) == \A st \in ToSet(prog) : st.do \notin {"next", "drive"}
<1>1. SessionsOK
  BY DEF FlushedInv
<1>2. ASSUME NEW p \in Programs, todo[p] # <<>>, UNCHANGED phase, UNCHANGED loops \/ (p \in Sessions \/ phase # "seed"),
             NEW prog, todo' = [todo EXCEPT ![p] = prog],
             p = "boot" /\ phase = "seed" => Quiets(prog)
      PROVE  PhaseInv'
  <2>1. phase # "down" /\ (phase = "seed" => p = "boot")
    BY <1>2 DEF PhaseInv
  <2>2. CASE p = "boot"
    BY <1>1, <1>2, <2>1, <2>2, BootAssumption DEF PhaseInv, SessionsOK
  <2>3. CASE p \in Sessions
    BY <1>1, <1>2, <2>1, <2>3, BootAssumption DEF PhaseInv, SessionsOK
  <2> QED  BY <2>2, <2>3
<1>3. CASE Boot
  <2>1. Quiets(Seed)
    BY SeedOK, NoDrive DEF ProgramOK
  <2>2. todo'["boot"] = Seed /\ \A s \in Sessions : todo'[s] = todo[s]
    BY <1>1, <1>3, BootAssumption DEF Boot, Goto, SessionsOK
  <2> QED  BY <1>3, <2>1, <2>2 DEF Boot, PhaseInv
<1>4. CASE Lifespan
  BY <1>4 DEF Lifespan, PhaseInv
<1>5. CASE Serve
  BY <1>5 DEF Serve, PhaseInv
<1>6. CASE Crash
  BY <1>6 DEF Crash, PhaseInv
<1>7. ASSUME NEW s \in Sessions, Request(s) PROVE PhaseInv'
  BY <1>7 DEF Request, PhaseInv
<1>8. ASSUME NEW ev \in DemoEvents, Finish(ev) PROVE PhaseInv'
  BY <1>8 DEF Finish, PhaseInv
<1>9. ASSUME NEW ev \in DemoEvents, NEW s \in Sessions, MatchOver(ev, s) PROVE PhaseInv'
  <2>1. phase \in {"lifespan", "up"} /\ UNCHANGED phase
    BY <1>9 DEF MatchOver, PhaseInv
  <2> QED  BY <2>1 DEF PhaseInv
<1>10. ASSUME NEW p \in Programs, Raise(p) PROVE PhaseInv'
  <2>1. todo'[p] = <<>> /\ \A q \in Programs \ {p} : todo'[q] = todo[q]
    BY <1>1, <1>10 DEF Raise, Goto, SessionsOK
  <2>2. \A st \in ToSet(<<>>) : FALSE
    BY DEF ToSet
  <2> QED  BY <1>10, <2>1, <2>2, BootAssumption DEF Raise, PhaseInv
<1>11. ASSUME NEW p \in Programs, todo[p] # <<>>
       PROVE  /\ todo[p] \in Seq(Statements) /\ Tail(todo[p]) \in Seq(Statements)
              /\ ToSet(todo[p]) = {todo[p][1]} \cup ToSet(Tail(todo[p]))
              /\ Head(todo[p]) = todo[p][1] /\ Rest(p) = Tail(todo[p])
              /\ p = "boot" /\ phase = "seed" => Quiets(Tail(todo[p]))
  <2>1. todo[p] \in Seq(Statements)
    BY <1>1, <1>11, AtHead
  <2>2. PICK old \in Seq(Statements) : old = todo[p]
    BY <2>1
  <2>3. /\ Tail(old) \in Seq(Statements) /\ ToSet(old) = {old[1]} \cup ToSet(Tail(old))
        /\ Head(old) = old[1]
    BY <1>11, <2>2, RestIs
  <2> QED  BY <2>2, <2>3 DEF Rest, PhaseInv
<1>12. ASSUME NEW p \in Programs, todo[p] # <<>>, p = "boot" /\ phase = "seed",
              NEW piece \in Seq(Statements), Free(piece, {"next", "drive"})
       PROVE  Quiets(piece \o Tail(todo[p]))
  <2>1. PICK rest \in Seq(Statements) : rest = Tail(todo[p])
    BY <1>11, <1>12
  <2>2. ToSet(piece \o rest) = ToSet(piece) \cup ToSet(rest)
    BY JoinIs
  <2>3. Quiets(piece) /\ Quiets(rest)
    BY <1>11, <1>12, <2>1, NoDrive
  <2> QED  BY <2>1, <2>2, <2>3
<1>13. ASSUME NEW p \in Programs, InsertRow(p) \/ Commit(p) \/ StartAgain(p) PROVE PhaseInv'
  <2>1. todo[p] # <<>> /\ todo' = [todo EXCEPT ![p] = Rest(p)] /\ UNCHANGED <<phase, loops>>
    BY <1>13 DEF InsertRow, Commit, StartAgain, At, Goto
  <2>2. todo' = [todo EXCEPT ![p] = Tail(todo[p])]
    BY <1>11, <2>1
  <2> QED  BY <1>2, <1>11, <2>1, <2>2
<1>14. ASSUME NEW p \in Programs, Drive(p) PROVE PhaseInv'
  <2>1. todo[p] # <<>> /\ todo' = [todo EXCEPT ![p] = Rest(p)] /\ UNCHANGED phase /\ Head(todo[p]).do = "drive"
    BY <1>14 DEF Drive, At, Goto
  <2>2. todo' = [todo EXCEPT ![p] = Tail(todo[p])] /\ todo[p][1] \in ToSet(todo[p]) /\ todo[p][1].do = "drive"
    BY <1>11, <2>1
  <2>3. p = "boot" => phase # "seed"
    BY <2>2 DEF PhaseInv
  <2> QED  BY <1>2, <1>11, <2>1, <2>2, <2>3
<1>15. ASSUME NEW p \in Programs, StartNext(p) PROVE PhaseInv'
  <2>1. todo[p] # <<>> /\ UNCHANGED <<phase, loops>> /\ todo[p][1].do = "next"
    BY <1>1, <1>15, NextStarted DEF StartNext
  <2>2. PICK prog : todo' = [todo EXCEPT ![p] = prog]
    BY <1>15 DEF StartNext, Goto
  <2>3. ~ (p = "boot" /\ phase = "seed")
    BY <1>11, <2>1 DEF PhaseInv
  <2> QED  BY <1>2, <2>1, <2>2, <2>3
<1>16. ASSUME NEW p \in Programs, LookUp(p) PROVE PhaseInv'
  <2>1. todo[p] # <<>> /\ UNCHANGED <<phase, loops>>
    BY <1>16 DEF LookUp, At
  <2>2. PICK prog :
          /\ todo' = [todo EXCEPT ![p] = prog]
          /\ \/ prog = <<>> \/ prog = Tail(todo[p])
             \/ todo[p][1].do = "absent" /\ prog = About("insert", todo[p][1].rows) \o Tail(todo[p])
             \/ todo[p][1].key \in Names /\ prog = Account(todo[p][1].key) \o Tail(todo[p])
    BY <1>1, <1>16, LookedUp
  <2>3. ASSUME p = "boot" /\ phase = "seed" PROVE Quiets(prog)
    <3>1. \A st \in ToSet(<<>>) : FALSE
      BY DEF ToSet
    <3>2. PICK head \in Statements : head = todo[p][1]
      BY <1>1, <2>1, AtHead
    <3>3. About("insert", head.rows) \in Seq(Statements) /\ Free(About("insert", head.rows), {"next", "drive"})
      <4>1. head.rows \in SUBSET TableRows
        BY DEF Statements
      <4>2. PICK c : c = About("insert", head.rows)
        OBVIOUS
      <4>3. c \in Seq(Statements) /\ Len(c) = 1 /\ c[1].do = "insert"
        BY <4>1, <4>2, OneStatement DEF Verbs
      <4>4. \A i \in 1 .. Len(c) : i = 1
        BY <4>3
      <4> QED  BY <4>2, <4>3, <4>4 DEF Free
    <3>4. head.key \in Names => Account(head.key) \in Seq(Statements) /\ Free(Account(head.key), {"next", "drive"})
      BY AccountOK DEF Free
    <3> QED  BY <1>11, <1>12, <2>1, <2>2, <2>3, <3>1, <3>2, <3>3, <3>4
  <2> QED  BY <1>2, <2>1, <2>2, <2>3
<1>17. ASSUME NEW p \in Programs, Start(p) PROVE PhaseInv'
  <2>1. todo[p] # <<>> /\ UNCHANGED <<phase, loops>>
    BY <1>17 DEF Start, At
  <2>2. PICK prog : \E ev \in Names :
          /\ todo' = [todo EXCEPT ![p] = prog]
          /\ prog = Tail(todo[p]) \/ prog = Again(ev) \o Tail(todo[p]) \/ prog = Anew(ev) \o Tail(todo[p])
    BY <1>1, <1>17, Started
  <2>3. PICK ev \in Names :
          /\ todo' = [todo EXCEPT ![p] = prog]
          /\ prog = Tail(todo[p]) \/ prog = Again(ev) \o Tail(todo[p]) \/ prog = Anew(ev) \o Tail(todo[p])
    BY <2>2
  <2>4. ASSUME p = "boot" /\ phase = "seed" PROVE Quiets(prog)
    <3>1. /\ Again(ev) \in Seq(Statements) /\ Free(Again(ev), {"next", "drive"})
          /\ Anew(ev) \in Seq(Statements) /\ Free(Anew(ev), {"next", "drive"})
      BY StartsOK DEF ProgramOK, Free
    <3> QED  BY <1>11, <1>12, <2>1, <2>3, <2>4, <3>1
  <2> QED  BY <1>2, <2>1, <2>3, <2>4
<1>18. CASE UNCHANGED vars
  BY <1>18 DEF vars, PhaseInv
<1> QED
  BY <1>3, <1>4, <1>5, <1>6, <1>7, <1>8, <1>9, <1>10, <1>13, <1>14, <1>15, <1>16, <1>17, <1>18
  DEF Next, InsertRaises, Fault

\* In every reachable state what each session has flushed is accounted for by the rest
\* of its program: a commit lies ahead before any early return, a user's wallet comes
\* next, no key is flushed twice; and no request or loop runs before the lifespan.
THEOREM FlushedHolds == Spec => [](FlushedInv /\ PhaseInv)
<1>1. FlushedInv /\ PhaseInv /\ [Next]_vars => (FlushedInv /\ PhaseInv)'
  BY FlushedStep, PhaseStep
<1> QED  BY <1>1, FlushedInit, PTL DEF Spec

\* An address has one account with the wallet made with it, and a code one sport,
\* however registrations, boots and starts of matches interleave and die.
THEOREM AccountsStayWhole == Spec => []AccountsWhole
<1>1. FlushedInv => AccountsWhole
  BY DEF FlushedInv, AccountsWhole, Flushed, Accounts, Keys
<1> QED  BY <1>1, FlushedHolds, PTL

-----------------------------------------------------------------------------
(* The seed                                                                 *)

\* More rows there keep the rest of the seed in order.
LEMMA SeedMore ==
    ASSUME NEW prog, NEW h, NEW h2, h \subseteq h2, SeedProg(prog, h)
    PROVE  SeedProg(prog, h2)
BY DEF SeedProg

\* The rows that a statement sees to.
Bringing(st) == IF st.do \in {"insert", "absent"} THEN st.rows ELSE {}

\* What a program brings, its first statement brings or the rest.
LEMMA BringsIs ==
    ASSUME NEW prog \in Seq(Statements), prog # <<>>
    PROVE  Brings(prog) = Bringing(prog[1]) \cup Brings(Tail(prog))
<1>1. ToSet(prog) = {prog[1]} \cup ToSet(Tail(prog))
  BY RestIs
<1>2. PICK all, rest : all = ToSet(prog) /\ rest = ToSet(Tail(prog))
  OBVIOUS
<1>3. Brings(prog) = UNION {st.rows : st \in {st \in all : st.do \in {"insert", "absent"}}}
  BY <1>2 DEF Brings
<1>4. Brings(Tail(prog)) = UNION {st.rows : st \in {st \in rest : st.do \in {"insert", "absent"}}}
  BY <1>2 DEF Brings
<1>5. all = {prog[1]} \cup rest
  BY <1>1, <1>2
<1> QED  BY <1>3, <1>4, <1>5 DEF Bringing

\* What two programs bring, one after the other.
LEMMA BringsJoin ==
    ASSUME NEW a \in Seq(Statements), NEW b \in Seq(Statements)
    PROVE  Brings(a \o b) = Brings(a) \cup Brings(b)
<1>1. PICK all, s, t : all = ToSet(a \o b) /\ s = ToSet(a) /\ t = ToSet(b)
  OBVIOUS
<1>2. all = s \cup t
  BY <1>1, JoinIs
<1>3. /\ Brings(a \o b) = UNION {st.rows : st \in {st \in all : st.do \in {"insert", "absent"}}}
      /\ Brings(a) = UNION {st.rows : st \in {st \in s : st.do \in {"insert", "absent"}}}
      /\ Brings(b) = UNION {st.rows : st \in {st \in t : st.do \in {"insert", "absent"}}}
  BY <1>1 DEF Brings
<1> QED  BY <1>2, <1>3

\* The seed goes on in order when what its first statement brings is there.
LEMMA SeedRest ==
    ASSUME NEW prog \in Seq(Statements), prog # <<>>, NEW h, SeedProg(prog, h)
    PROVE  SeedProg(Tail(prog), h \cup Bringing(prog[1]))
<1>1. /\ Len(Tail(prog)) = Len(prog) - 1 /\ Len(prog) \in Nat \ {0}
      /\ \A i \in 1 .. Len(prog) - 1 : Tail(prog)[i] = prog[i + 1]
  BY RestIs
<1>2. PICK rest : rest = Tail(prog)
  OBVIOUS
<1>3. ASSUME NEW i \in 1 .. Len(rest), NEW row, Comes(row, prog, i + 1)
      PROVE  row \in Bringing(prog[1]) \/ Comes(row, rest, i)
  <2>1. PICK j \in 1 .. i + 1 : prog[j].do \in {"insert", "absent"} /\ row \in prog[j].rows
    BY <1>3 DEF Comes
  <2>2. CASE j = 1
    BY <2>1, <2>2 DEF Bringing
  <2>3. CASE j # 1
    <3>1. j - 1 \in 1 .. i /\ rest[j - 1] = prog[j]
      BY <1>1, <1>2, <2>3
    <3> QED  BY <2>1, <3>1 DEF Comes
  <2> QED  BY <2>2, <2>3
<1>4. ASSUME NEW i \in 1 .. Len(rest), NEW row, Comes(row, rest, i)
      PROVE  Comes(row, prog, i + 1)
  <2>1. PICK j \in 1 .. i : rest[j].do \in {"insert", "absent"} /\ row \in rest[j].rows
    BY <1>4 DEF Comes
  <2>2. j + 1 \in 1 .. i + 1 /\ rest[j] = prog[j + 1]
    BY <1>1, <1>2
  <2> QED  BY <2>1, <2>2 DEF Comes
<1>5. ASSUME NEW i \in 1 .. Len(rest)
      PROVE  i + 1 \in 1 .. Len(prog) /\ rest[i] = prog[i + 1]
  BY <1>1, <1>2
<1> QED  BY <1>2, <1>3, <1>4, <1>5 DEF SeedProg

\* A piece that brings no sport goes in front.
Sportless(st) == st.do # "unless" /\ Bringing(st) \cap AllSports = {}

\* Statements without a sport go in front of the rest of the seed.
LEMMA SeedFront ==
    ASSUME NEW a \in Seq(Statements), NEW b \in Seq(Statements), NEW h, NEW h2,
           \A st \in ToSet(a) : Sportless(st), SeedProg(b, h2), h2 \subseteq h \cup Brings(a)
    PROVE  SeedProg(a \o b, h)
<1>1. /\ Len(a \o b) = Len(a) + Len(b) /\ Len(a) \in Nat /\ Len(b) \in Nat
      /\ \A k \in 1 .. Len(a) : (a \o b)[k] = a[k]
      /\ \A k \in 1 .. Len(b) : (a \o b)[Len(a) + k] = b[k]
  BY JoinedAt
<1>2. PICK c : c = a \o b
  OBVIOUS
<1>3. PICK n \in Nat : n = Len(a)
  BY <1>1
<1>4. \A k \in 1 .. n : a[k] \in ToSet(a)
  BY <1>3 DEF ToSet
<1>5. \A st \in ToSet(a) : \E k \in 1 .. n : a[k] = st
  BY <1>3 DEF ToSet
<1>6. ASSUME NEW i \in 1 .. Len(b), NEW row, Comes(row, b, i) PROVE Comes(row, c, n + i)
  <2>1. PICK j \in 1 .. i : b[j].do \in {"insert", "absent"} /\ row \in b[j].rows
    BY <1>6 DEF Comes
  <2>2. n + j \in 1 .. n + i /\ c[n + j] = b[j]
    BY <1>1, <1>2, <1>3
  <2> QED  BY <2>1, <2>2 DEF Comes
<1>7. ASSUME NEW i \in 1 .. Len(b), NEW row \in AllSports, Comes(row, c, n + i) PROVE Comes(row, b, i)
  <2>1. PICK j \in 1 .. n + i : c[j].do \in {"insert", "absent"} /\ row \in c[j].rows
    BY <1>7 DEF Comes
  <2>2. j > n
    <3>1. SUFFICES ASSUME j \in 1 .. n PROVE FALSE
      OBVIOUS
    <3>2. c[j] = a[j] /\ Sportless(a[j])
      BY <1>1, <1>2, <1>3, <1>4, <3>1
    <3> QED  BY <2>1, <3>2 DEF Sportless, Bringing
  <2>3. j - n \in 1 .. i /\ c[j] = b[j - n]
    <3>1. j - n \in 1 .. i /\ n + (j - n) = j
      BY <2>2
    <3>2. j - n \in 1 .. Len(b)
      BY <1>1, <3>1
    <3> QED  BY <1>1, <1>2, <1>3, <3>1, <3>2
  <2> QED  BY <2>1, <2>3 DEF Comes
<1>8. ASSUME NEW i \in 1 .. Len(b), NEW row \in h2 PROVE row \in h \/ Comes(row, c, n + i)
  <2>1. CASE row \in Brings(a)
    <3>1. PICK st \in ToSet(a) : st.do \in {"insert", "absent"} /\ row \in st.rows
      BY <2>1 DEF Brings
    <3>2. PICK k \in 1 .. n : a[k] = st
      BY <1>5
    <3>3. k \in 1 .. n + i /\ c[k] = st
      BY <1>1, <1>2, <1>3, <3>2
    <3> QED  BY <3>1, <3>3 DEF Comes
  <2> QED  BY <2>1
<1>9. ASSUME NEW i \in 1 .. n
      PROVE  c[i] = a[i] /\ Sportless(a[i])
  BY <1>1, <1>2, <1>3, <1>4
<1>10. ASSUME NEW i \in 1 .. Len(c), i > n
       PROVE  i - n \in 1 .. Len(b) /\ c[i] = b[i - n] /\ n + (i - n) = i
  <2>1. n + (i - n) = i /\ i - n \in 1 .. Len(b)
    BY <1>1, <1>2, <1>3, <1>10
  <2> QED  BY <1>1, <1>2, <1>3, <2>1
<1>11. ASSUME NEW i \in 1 .. Len(c)
       PROVE  /\ c[i].do = "unless" =>
                /\ c[i].rows = AllSports /\ \A row \in AllSports : ~ Comes(row, c, i)
                /\ MarketType("MATCH_ODDS") \in h \/ Comes(MarketType("MATCH_ODDS"), c, i)
              /\ c[i].do \in {"insert", "absent"} /\ c[i].rows \cap AllSports # {} =>
                c[i].do = "insert" /\ (Sport(Cricket) \in h \/ Comes(Sport(Cricket), c, i))
  <2>1. CASE i <= n
    BY <1>9, <2>1 DEF Sportless, Bringing
  <2>2. CASE i > n
    <3>1. PICK k \in 1 .. Len(b) : c[i] = b[k] /\ n + k = i
      BY <1>10, <2>2
    <3>2. /\ b[k].do = "unless" =>
               /\ b[k].rows = AllSports /\ \A row \in AllSports : ~ Comes(row, b, k)
               /\ MarketType("MATCH_ODDS") \in h2 \/ Comes(MarketType("MATCH_ODDS"), b, k)
          /\ b[k].do \in {"insert", "absent"} /\ b[k].rows \cap AllSports # {} =>
               b[k].do = "insert" /\ (Sport(Cricket) \in h2 \/ Comes(Sport(Cricket), b, k))
      BY DEF SeedProg
    <3>3. \A row : Comes(row, b, k) => Comes(row, c, i)
      BY <1>6, <3>1
    <3>4. \A row \in AllSports : Comes(row, c, i) => Comes(row, b, k)
      BY <1>7, <3>1
    <3>5. \A row \in h2 : row \in h \/ Comes(row, c, i)
      BY <1>8, <3>1
    <3> QED  BY <3>1, <3>2, <3>3, <3>4, <3>5
  <2>3. i <= n \/ i > n
    OBVIOUS
  <2> QED  BY <2>1, <2>2, <2>3
<1> QED  BY <1>2, <1>11 DEF SeedProg

\* So does the look at the sports, when the market type is there.
LEMMA SeedUnless ==
    ASSUME NEW b \in Seq(Statements), NEW h, SeedProg(b, h), MarketType("MATCH_ODDS") \in h
    PROVE  SeedProg(About("unless", AllSports) \o b, h)
<1>1. PICK a \in Seq(Statements) : a = About("unless", AllSports) /\ Len(a) = 1 /\ a[1].do = "unless"
                                   /\ a[1].rows = AllSports
  BY SportsAre, OneStatement DEF Verbs
<1>2. /\ Len(a \o b) = 1 + Len(b) /\ Len(b) \in Nat /\ (a \o b)[1] = a[1]
      /\ \A k \in 1 .. Len(b) : (a \o b)[1 + k] = b[k]
  BY <1>1, JoinedAt
<1>3. PICK c : c = a \o b
  OBVIOUS
<1>4. ASSUME NEW k \in 1 .. Len(b), NEW row
      PROVE  Comes(row, b, k) <=> Comes(row, c, 1 + k)
  <2>1. \A j \in 1 .. k : 1 + j \in 1 .. 1 + k /\ c[1 + j] = b[j]
    BY <1>2, <1>3
  <2>2. \A j \in 1 .. 1 + k : j = 1 \/ (j - 1 \in 1 .. k /\ c[j] = b[j - 1])
    <3>1. \A j \in 1 .. 1 + k : j = 1 \/ (j - 1 \in 1 .. k /\ 1 + (j - 1) = j)
      OBVIOUS
    <3> QED  BY <2>1, <3>1
  <2>3. c[1].do \notin {"insert", "absent"}
    BY <1>1, <1>2, <1>3
  <2> QED  BY <2>1, <2>2, <2>3 DEF Comes
<1>5. ASSUME NEW row PROVE ~ Comes(row, c, 1)
  BY <1>1, <1>2, <1>3 DEF Comes
<1>6. ASSUME NEW i \in 1 .. Len(c)
      PROVE  /\ c[i].do = "unless" =>
                /\ c[i].rows = AllSports /\ \A row \in AllSports : ~ Comes(row, c, i)
                /\ MarketType("MATCH_ODDS") \in h \/ Comes(MarketType("MATCH_ODDS"), c, i)
             /\ c[i].do \in {"insert", "absent"} /\ c[i].rows \cap AllSports # {} =>
                c[i].do = "insert" /\ (Sport(Cricket) \in h \/ Comes(Sport(Cricket), c, i))
  <2>1. CASE i = 1
    BY <1>1, <1>2, <1>3, <1>5, <2>1
  <2>2. CASE i # 1
    <3>1. i - 1 \in 1 .. Len(b) /\ 1 + (i - 1) = i
      BY <1>2, <1>3, <2>2
    <3>2. PICK k \in 1 .. Len(b) : 1 + k = i
      BY <3>1
    <3>3. c[i] = b[k] /\ \A row : Comes(row, b, k) <=> Comes(row, c, i)
      BY <1>2, <1>3, <1>4, <3>2
    <3> QED  BY <3>3 DEF SeedProg
  <2> QED  BY <2>1, <2>2
<1> QED  BY <1>1, <1>3, <1>6 DEF SeedProg

\* Two programs one after the other have the statements of both.
LEMMA JoinedSet ==
    ASSUME NEW a \in Seq(Statements), NEW b \in Seq(Statements)
    PROVE  a \o b \in Seq(Statements) /\ ToSet(a \o b) = ToSet(a) \cup ToSet(b)
BY JoinIs

\* The look at the sports is a sequence of statements.
LEMMA UnlessIs ==
    About("unless", AllSports) \in Seq(Statements)
BY SportsAre, OneStatement DEF Verbs

\* The sports are rows of their table.
LEMMA SportsOnly == \A row \in AllSports : row.table = "sports"
BY DEF AllSports, SeededSports, Sport, Row

\* Quiet statements bring no sport.
LEMMA QuietSportless ==
    ASSUME NEW a \in Seq(Quiet)
    PROVE  \A st \in ToSet(a) : Sportless(st)
<1>1. ToSet(a) \subseteq Quiet
  BY DEF ToSet
<1> QED  BY <1>1 DEF Quiet, Sportless, Bringing

\* The seed is in order when it starts, whatever is there.
LEMMA SeedSeeds ==
    ASSUME NEW h
    PROVE  SeedProg(Seed, h)
<1>1. /\ Filled \in Seq(Statements) /\ Providers \in Seq(Statements) /\ Accounted \in Seq(Statements)
      /\ Free(Filled, {"next", "drive", "unless", "absent"}) /\ Filled # <<>>
      /\ Filled[1].do = "insert" /\ Filled[1].rows = {Sport(Cricket)}
  BY FilledOK, ProvidersOK, AccountedOK DEF ProgramOK
<1>2. SeedProg(Filled, h \cup {MarketType("MATCH_ODDS")})
  <2>1. \A i \in 1 .. Len(Filled) : 1 \in 1 .. i /\ Filled[i].do \notin {"unless", "absent"}
    BY <1>1 DEF Free
  <2>2. \A i \in 1 .. Len(Filled) : Comes(Sport(Cricket), Filled, i)
    BY <1>1, <2>1 DEF Comes
  <2> QED  BY <2>1, <2>2 DEF SeedProg
<1>3. PICK h2, f : h2 = h \cup {MarketType("MATCH_ODDS")} /\ f = Providers \o Filled /\ f \in Seq(Statements)
  BY <1>1, JoinedAt
<1>4. SeedProg(f, h2)
  <2>1. \A st \in ToSet(Providers) : Sportless(st)
    BY ProvidersOK, QuietSportless
  <2> QED  BY <1>1, <1>2, <1>3, <2>1, SeedFront
<1>5. PICK u : u = About("unless", AllSports) \o f /\ u \in Seq(Statements)
  BY <1>3, UnlessIs, JoinedSet
<1>6. SeedProg(u, h2)
  BY <1>3, <1>4, <1>5, SeedUnless
<1>7. h2 \subseteq h \cup Brings(Accounted)
  <2>1. MarketType("MATCH_ODDS") \in Brings(Accounted)
    BY AccountedOK DEF Brings
  <2> QED  BY <1>3, <2>1
<1>8. \A st \in ToSet(Accounted) : Sportless(st)
  BY AccountedOK, QuietSportless
<1>9. SeedProg(Accounted \o u, h)
  BY <1>1, <1>5, <1>6, <1>7, <1>8, SeedFront
<1> QED  BY <1>3, <1>5, <1>9, SeedIs

\* The whole seed brings the whole catalogue, and what a demo match needs.
LEMMA CatalogueComes == Catalogue \cup Needed \subseteq Brings(Seed)
<1>1. ToSet(Filled) \subseteq ToSet(Seed) /\ ToSet(Accounted) \subseteq ToSet(Seed)
  <2>1. /\ Filled \in Seq(Statements) /\ Providers \in Seq(Statements) /\ Accounted \in Seq(Statements)
    BY FilledOK, ProvidersOK, AccountedOK DEF ProgramOK
  <2>2. PICK f \in Seq(Statements) : f = Providers \o Filled /\ ToSet(Filled) \subseteq ToSet(f)
    <3>1. Providers \o Filled \in Seq(Statements)
          /\ ToSet(Providers \o Filled) = ToSet(Providers) \cup ToSet(Filled)
      BY <2>1, JoinedSet, Zenon
    <3>2. PICK f : f = Providers \o Filled
      OBVIOUS
    <3>3. f \in Seq(Statements) /\ ToSet(Filled) \subseteq ToSet(f)
      BY <3>1, <3>2
    <3> QED  BY <3>2, <3>3
  <2>3. PICK a \in Seq(Statements) : a = About("unless", AllSports)
    BY UnlessIs
  <2>4. PICK u \in Seq(Statements) : u = a \o f /\ ToSet(f) \subseteq ToSet(u)
    BY <2>3, JoinedSet
  <2>5. ToSet(Accounted \o u) = ToSet(Accounted) \cup ToSet(u)
    BY <2>1, JoinedSet
  <2>6. Seed = Accounted \o u
    BY <2>2, <2>3, <2>4, SeedIs
  <2> QED  BY <2>2, <2>4, <2>5, <2>6
<1>2. \A st \in ToSet(Filled) \cup ToSet(Accounted) : st.do \in {"insert", "absent"} => st.rows \subseteq Brings(Seed)
  BY <1>1 DEF Brings
<1>3. ASSUME NEW i \in 1 .. Len(Fixtures), NEW st \in ToSet(SeedFixture(Fixtures[i])), st.do = "insert"
      PROVE  st.rows \subseteq Brings(Seed)
  <2>1. st \in ToSet(CatalogueSeed)
    BY CatalogueFills
  <2>2. st \in ToSet(Filled)
    BY <2>1, FilledOK
  <2> QED  BY <1>2, <1>3, <2>2
<1>4. ASSUME NEW i \in 1 .. Len(Fixtures) PROVE Sport(Fixtures[i].sport) \in Brings(Seed)
  <2>1. PICK f : f = Fixtures[i]
    OBVIOUS
  <2>2. SeedFixture(f) \in Seq(Filling) /\ SeedFixture(f) # <<>> /\ SeedFixture(f)[1] = Insert(Sport(f.sport))[1]
    BY <2>1, SeedFixtureFills
  <2>3. PICK row : row = Sport(f.sport)
    OBVIOUS
  <2>4. Insert(row)[1].do = "insert" /\ Insert(row)[1].rows = {row}
    BY DEF Insert, About
  <2>5. SeedFixture(f)[1] \in ToSet(SeedFixture(f))
    BY <2>2 DEF ToSet
  <2> QED  BY <1>3, <2>1, <2>2, <2>3, <2>4, <2>5
<1>5. ASSUME NEW i \in 1 .. Len(Fixtures), NEW n \in 1 .. Len(Fixtures[i].events),
             NEW st \in ToSet(SeedEvent(Fixtures[i].events[n])), st.do = "insert"
      PROVE  st.rows \subseteq Brings(Seed)
  <2>1. st \in ToSet(SeedFixture(Fixtures[i]))
    BY SeedFixtureFills
  <2> QED  BY <1>3, <1>5, <2>1
<1>6. ASSUME NEW i \in 1 .. Len(Fixtures), NEW n \in 1 .. Len(Fixtures[i].events)
      PROVE  /\ MarketOf(Fixtures[i].events[n]) \in Brings(Seed)
             /\ Fixtures[i].events[n] # LiveEvent =>
                  \A k \in 1 .. Depth : Order(Fixtures[i].events[n], k) \in Brings(Seed)
  <2>1. PICK ev \in Names : ev = Fixtures[i].events[n]
    BY NamesAre
  <2>2. \A st \in ToSet(SeedEvent(ev)) : st.do = "insert" => st.rows \subseteq Brings(Seed)
    BY <1>5, <2>1
  <2>3. /\ \E st \in ToSet(SeedEvent(ev)) : st.do = "insert" /\ st.rows = {MarketOf(ev)}
        /\ ev # LiveEvent => \A k \in 1 .. Depth :
             \E st \in ToSet(SeedEvent(ev)) : st.do = "insert" /\ st.rows = {Order(ev, k)}
    BY SeedEventFills
  <2>4. MarketOf(ev) \in Brings(Seed)
    BY <2>2, <2>3
  <2>5. ev # LiveEvent => \A k \in 1 .. Depth : Order(ev, k) \in Brings(Seed)
    BY <2>2, <2>3
  <2> QED  BY <2>1, <2>4, <2>5
<1>7. Catalogue \subseteq Brings(Seed)
  <2>1. SeededSports \subseteq Brings(Seed)
    BY <1>4 DEF SeededSports
  <2> DEFINE Made(i) == LET events == Fixtures[i].events
                        IN  {MarketOf(events[n]) : n \in 1 .. Len(events)}
                            \cup {Order(events[n], k) :
                                   n \in {n \in 1 .. Len(events) : events[n] # LiveEvent}, k \in 1 .. Depth}
  <2>2. ASSUME NEW i \in 1 .. Len(Fixtures) PROVE Made(i) \subseteq Brings(Seed)
    BY <1>6
  <2>3. Catalogue = SeededSports \cup (UNION {Made(i) : i \in 1 .. Len(Fixtures)})
    BY DEF Catalogue
  <2> HIDE DEF Made
  <2> QED  BY <2>1, <2>2, <2>3
<1>8. Needed \subseteq Brings(Seed)
  <2>1. MarketType("MATCH_ODDS") \in Brings(Seed)
    BY <1>2, AccountedOK
  <2>2. Sport(Cricket) \in Brings(Seed)
    BY <1>4, BootAssumption
  <2> QED  BY <2>1, <2>2 DEF Needed
<1> QED  BY <1>7, <1>8

\* The statements that a branch puts in front.
LEMMA Pieces ==
    /\ \A key \in Names : Account(key) \in Seq(Statements) /\ \A st \in ToSet(Account(key)) :
         /\ st.do \in {"insert", "commit"}
         /\ st.do = "insert" => st.rows = {Row("users", key)} \/ st.rows = {Row("wallets", key)}
    /\ \A ev \in Names : Anew(ev) \in Seq(Statements) /\ \A st \in ToSet(Anew(ev)) :
         st.do \in {"insert", "commit", "ensure"} /\ (st.do = "insert" => st.rows = {Match(ev)})
    /\ \A ev \in Names : Again(ev) \in Seq(Statements) /\ \A st \in ToSet(Again(ev)) :
         st.do \in {"again", "ensure"} /\ (st.do = "again" => st.key = ev)
<1>1. ASSUME NEW c \in Seq(Statements), Len(c) = 1 PROVE ToSet(c) = {c[1]}
  BY <1>1 DEF ToSet
<1>2. /\ CommitNow \in Seq(Statements) /\ ToSet(CommitNow) = {CommitNow[1]} /\ CommitNow[1].do = "commit"
  BY <1>1, CommitNowIs
<1>3. ASSUME NEW row \in TableRows
      PROVE  /\ Insert(row) \in Seq(Statements) /\ ToSet(Insert(row)) = {Insert(row)[1]}
             /\ Insert(row)[1].do = "insert" /\ Insert(row)[1].rows = {row}
  <2>1. PICK c : c = About("insert", {row})
    OBVIOUS
  <2>2. c \in Seq(Statements) /\ Len(c) = 1 /\ c[1].do = "insert" /\ c[1].rows = {row}
    BY <2>1, OneStatement DEF Verbs
  <2>3. Insert(row) = c
    BY <2>1 DEF Insert
  <2> QED  BY <1>1, <2>2, <2>3
<1>4. ASSUME NEW key \in Names
      PROVE  Account(key) \in Seq(Statements) /\ \A st \in ToSet(Account(key)) :
               /\ st.do \in {"insert", "commit"}
               /\ st.do = "insert" => st.rows = {Row("users", key)} \/ st.rows = {Row("wallets", key)}
  <2>1. PICK u, w : u = Row("users", key) /\ w = Row("wallets", key)
    OBVIOUS
  <2>2. u \in TableRows /\ w \in TableRows
    BY <2>1, RowIs DEF Tables
  <2>3. PICK a, b : a = Insert(u) /\ b = Insert(w)
    OBVIOUS
  <2>4. /\ a \in Seq(Statements) /\ ToSet(a) = {a[1]} /\ a[1].do = "insert" /\ a[1].rows = {u}
        /\ b \in Seq(Statements) /\ ToSet(b) = {b[1]} /\ b[1].do = "insert" /\ b[1].rows = {w}
    BY <1>3, <2>2, <2>3
  <2>8. a \o b \in Seq(Statements) /\ ToSet(a \o b) = ToSet(a) \cup ToSet(b)
    BY <2>4, JoinedSet, Zenon
  <2>5. PICK ab : ab = a \o b
    OBVIOUS
  <2>9. ab \in Seq(Statements) /\ ToSet(ab) = {a[1], b[1]}
    BY <2>4, <2>5, <2>8
  <2>10. ab \o CommitNow \in Seq(Statements) /\ ToSet(ab \o CommitNow) = ToSet(ab) \cup ToSet(CommitNow)
    BY <1>2, <2>9, JoinedSet, Zenon
  <2>6. ab \o CommitNow \in Seq(Statements) /\ ToSet(ab \o CommitNow) = {a[1], b[1], CommitNow[1]}
    BY <1>2, <2>9, <2>10
  <2>7. Account(key) = ab \o CommitNow
    BY <2>1, <2>3, <2>5 DEF Account
  <2> QED  BY <1>2, <2>1, <2>4, <2>6, <2>7
<1>5. /\ EnsureBots \in Seq(Statements) /\ \A st \in ToSet(EnsureBots) : st.do = "ensure"
  <2>1. \A st \in ToSet(EnsureBots) : st.do \notin {"next", "drive", "unless", "insert", "absent", "commit", "start", "again"}
    BY EnsureBotsOK, NoDrive
  <2>2. ToSet(EnsureBots) \subseteq Statements
    BY EnsureBotsOK DEF ToSet
  <2>3. \A st \in Statements : st.do \in Verbs
    BY DEF Statements
  <2> QED  BY <2>1, <2>2, <2>3, EnsureBotsOK DEF Verbs
<1>6. ASSUME NEW ev \in Names
      PROVE  Anew(ev) \in Seq(Statements) /\ \A st \in ToSet(Anew(ev)) :
               st.do \in {"insert", "commit", "ensure"} /\ (st.do = "insert" => st.rows = {Match(ev)})
  <2>1. PICK m : m = Match(ev)
    OBVIOUS
  <2>2. PICK a : a = Insert(m)
    OBVIOUS
  <2>3. a \in Seq(Statements) /\ ToSet(a) = {a[1]} /\ a[1].do = "insert" /\ a[1].rows = {m}
    BY <1>3, <2>1, <2>2, RowsAre
  <2>7. a \o CommitNow \in Seq(Statements) /\ ToSet(a \o CommitNow) = ToSet(a) \cup ToSet(CommitNow)
    BY <1>2, <2>3, JoinedSet, Zenon
  <2>8. PICK ab : ab = a \o CommitNow
    OBVIOUS
  <2>4. ab \in Seq(Statements) /\ ab = a \o CommitNow /\ ToSet(ab) = {a[1], CommitNow[1]}
    BY <1>2, <2>3, <2>7, <2>8
  <2>5. ab \o EnsureBots \in Seq(Statements) /\ ToSet(ab \o EnsureBots) = {a[1], CommitNow[1]} \cup ToSet(EnsureBots)
    BY <1>5, <2>4, JoinedSet
  <2>6. Anew(ev) = ab \o EnsureBots
    BY <2>1, <2>2, <2>4 DEF Anew
  <2> QED  BY <1>2, <1>5, <2>1, <2>3, <2>5, <2>6
<1>7. ASSUME NEW ev \in Names
      PROVE  Again(ev) \in Seq(Statements) /\ \A st \in ToSet(Again(ev)) :
               st.do \in {"again", "ensure"} /\ (st.do = "again" => st.key = ev)
  <2>1. PICK a : a = Do("again", ev)
    OBVIOUS
  <2>2. a \in Seq(Statements) /\ Len(a) = 1 /\ a[1].do = "again" /\ a[1].key = ev
    BY <2>1, OneDo DEF Verbs
  <2>3. ToSet(a) = {a[1]}
    BY <1>1, <2>2
  <2>4. a \o EnsureBots \in Seq(Statements) /\ ToSet(a \o EnsureBots) = {a[1]} \cup ToSet(EnsureBots)
    BY <1>5, <2>2, <2>3, JoinedSet
  <2> QED  BY <1>5, <2>1, <2>2, <2>4 DEF Again
<1> QED  BY <1>4, <1>6, <1>7

\* The seed goes on after a statement whose rows are there.
LEMMA SeedTail ==
    ASSUME NEW prog \in Seq(Statements), prog # <<>>, NEW h, SeedProg(prog, h), Bringing(prog[1]) \subseteq h
    PROVE  /\ SeedProg(Tail(prog), h) /\ h \cup Brings(prog) \subseteq h \cup Brings(Tail(prog))
           /\ ToSet(Tail(prog)) \subseteq ToSet(prog)
<1>1. SeedProg(Tail(prog), h)
  <2>1. h \cup Bringing(prog[1]) = h
    OBVIOUS
  <2> QED  BY <2>1, SeedRest
<1>2. Brings(prog) = Bringing(prog[1]) \cup Brings(Tail(prog))
  BY BringsIs
<1>3. ToSet(prog) = {prog[1]} \cup ToSet(Tail(prog))
  BY RestIs
<1> QED  BY <1>1, <1>2, <1>3

\* It goes on with a piece in front that brings what the statement stood for.
LEMMA SeedPiece ==
    ASSUME NEW prog \in Seq(Statements), prog # <<>>, NEW h, SeedProg(prog, h),
           NEW piece \in Seq(Statements), \A st \in ToSet(piece) : Sportless(st),
           Bringing(prog[1]) \subseteq h \cup Brings(piece)
    PROVE  /\ SeedProg(piece \o Tail(prog), h)
           /\ h \cup Brings(prog) \subseteq h \cup Brings(piece \o Tail(prog))
           /\ \A st \in ToSet(piece \o Tail(prog)) : st.do = "unless" => st \in ToSet(prog)
<1>1. PICK rest : rest = Tail(prog)
  OBVIOUS
<1>2. /\ rest \in Seq(Statements) /\ ToSet(prog) = {prog[1]} \cup ToSet(rest)
      /\ SeedProg(rest, h \cup Bringing(prog[1]))
  BY <1>1, RestIs, SeedRest
<1>3. SeedProg(piece \o rest, h)
  <2>1. h \cup Bringing(prog[1]) \subseteq h \cup Brings(piece)
    OBVIOUS
  <2> QED  BY <1>2, <2>1, SeedFront
<1>4. Brings(prog) = Bringing(prog[1]) \cup Brings(rest)
  BY <1>1, BringsIs
<1>5. Brings(piece \o rest) = Brings(piece) \cup Brings(rest)
  BY <1>2, BringsJoin
<1>6. ToSet(piece \o rest) = ToSet(piece) \cup ToSet(rest)
  BY <1>2, JoinedSet
<1>7. \A st \in ToSet(piece \o rest) : st.do = "unless" => st \in ToSet(prog)
  BY <1>2, <1>6 DEF Sportless
<1>8. h \cup Brings(prog) \subseteq h \cup Brings(piece \o rest)
  BY <1>4, <1>5
<1> QED  BY <1>1, <1>3, <1>7, <1>8

\* A step of the seed that flushes nothing keeps what is missing in its rest.
LEMMA SeedGoes ==
    ASSUME SeedInv, phase = "seed", UNCHANGED <<db, tx, cut, phase>>,
           NEW prog, todo'["boot"] = prog, SeedProg(prog, Held),
           Held \cup Brings(todo["boot"]) \subseteq Held \cup Brings(prog),
           \A st \in ToSet(prog) : st.do = "unless" => st \in ToSet(todo["boot"])
    PROVE  SeedInv'
<1>1. SeedUnderWay
  BY DEF SeedInv
<1>2. Held' = Held /\ RowsIn(db') = RowsIn(db) /\ RowsIn(tx'["boot"]) = RowsIn(tx["boot"])
  BY DEF Held
<1>3. PICK h, d, t : h = Held /\ d = RowsIn(db) /\ t = RowsIn(tx["boot"])
  OBVIOUS
<1>4. /\ SeedProg(prog, h) /\ (cut' \/ Catalogue \subseteq h \cup Brings(prog))
      /\ Needed \subseteq h \cup Brings(prog)
      /\ (\E st \in ToSet(prog) : st.do = "unless") =>
           /\ t \cap AllSports = {}
           /\ d \cap AllSports # {} => cut' \/ Catalogue \subseteq d
      /\ h \cap AllSports # {} => Sport(Cricket) \in h
  BY <1>1, <1>3 DEF SeedUnderWay, Seeded
<1>5. SeedUnderWay'
  BY <1>2, <1>3, <1>4 DEF SeedUnderWay, Seeded
<1> QED  BY <1>2, <1>5 DEF SeedInv

\* Once the seed is over, what is committed stays.
LEMMA SeedOver ==
    ASSUME SeedInv, db \subseteq db', cut => cut', phase' \in {"lifespan", "up"}, phase \in {"lifespan", "up"}
    PROVE  SeedInv'
<1>1. RowsIn(db) \subseteq RowsIn(db')
  BY DEF RowsIn
<1>2. (cut \/ Seeded) /\ Needed \subseteq RowsIn(db)
  BY DEF SeedInv
<1>3. (cut \/ Seeded)' /\ Needed \subseteq RowsIn(db')
  BY <1>1, <1>2 DEF Seeded
<1> QED  BY <1>1, <1>3 DEF SeedInv, Needed

\* A seed that dies leaves no part of the catalogue, or all of it, or is recorded as cut.
LEMMA SeedDies ==
    ASSUME SeedInv, UNCHANGED db, phase' = "down", phase \in {"seed", "lifespan", "up"},
           cut' <=> (cut \/ (phase = "seed" /\ PartlySeeded))
    PROVE  SeedInv'
<1>1. Sport(Cricket) \in SeededSports
  <2>1. 1 \in 1 .. Len(Fixtures) /\ Fixtures[1].sport = Cricket
    BY BootAssumption
  <2> QED  BY <2>1 DEF SeededSports
<1>2. RowsIn(db) \cap AllSports # {} => \E x \in db : x.row \in SeededSports
  BY <1>1 DEF SeedInv, RowsIn
<1>3. phase # "seed" => cut \/ Seeded
  BY DEF SeedInv
<1>4. RowsIn(db) \cap AllSports # {} => cut' \/ Seeded'
  <2>1. RowsIn(db) \cap AllSports # {} /\ ~ Seeded => PartlySeeded
    BY <1>2 DEF PartlySeeded, Seeded, RowsIn
  <2>2. Seeded' <=> Seeded
    BY DEF Seeded
  <2> QED  BY <1>3, <2>1, <2>2
<1> QED  BY <1>4 DEF SeedInv

\* Every step keeps what is missing of the catalogue in the rest of the seed.
LEMMA SeedStep ==
    FlushedInv /\ PhaseInv /\ SeedInv /\ [Next]_vars => SeedInv'
<1> SUFFICES ASSUME FlushedInv, PhaseInv, SeedInv, [Next]_vars PROVE SeedInv'
  OBVIOUS
<1> USE DEF Programs
<1>1. SessionsOK
  BY DEF FlushedInv
<1>2. phase \in {"down", "seed", "lifespan", "up"}
  BY DEF PhaseInv
<1>3. ASSUME NEW p \in Programs, todo[p] # <<>>
      PROVE  phase # "down" /\ (phase = "seed" => p = "boot")
  BY <1>3 DEF PhaseInv
<1>4. ASSUME UNCHANGED <<db, cut, phase>>, phase # "seed" PROVE SeedInv'
  <2>1. RowsIn(db') = RowsIn(db)
    BY <1>4
  <2> QED  BY <1>4, <2>1 DEF SeedInv, Seeded
<1>5. CASE Boot
  <2>1. todo["boot"] = <<>> /\ phase = "down" /\ UNCHANGED <<db, tx, cut>> /\ phase' = "seed"
        /\ todo'["boot"] = Seed
    BY <1>1, <1>5 DEF Boot, PhaseInv, SessionsOK, Goto, history
  <2>2. tx["boot"] = {} /\ tx'["boot"] = {}
    BY <1>1, <2>1, BegunOK
  <2>3. PICK d : d = RowsIn(db) /\ Held' = d /\ RowsIn(db') = d /\ RowsIn(tx'["boot"]) = {}
    BY <2>1, <2>2 DEF Held, RowsIn
  <2>4. d \cap AllSports # {} => Sport(Cricket) \in d /\ (cut' \/ Catalogue \subseteq d)
    BY <2>1, <2>3 DEF SeedInv, Seeded
  <2>5. SeedProg(Seed, d) /\ Catalogue \subseteq Brings(Seed) /\ Needed \subseteq Brings(Seed)
    BY SeedSeeds, CatalogueComes
  <2>6. SeedUnderWay'
    BY <2>1, <2>3, <2>4, <2>5 DEF SeedUnderWay, Seeded
  <2> QED  BY <2>1, <2>3, <2>4, <2>6 DEF SeedInv
<1>6. CASE Lifespan
  <2>1. todo["boot"] = <<>> /\ phase = "seed" /\ UNCHANGED <<db, cut>> /\ phase' = "lifespan"
    BY <1>6 DEF Lifespan
  <2>2. tx["boot"] = {}
    BY <1>1, <2>1, BegunOK
  <2>3. PICK d : d = RowsIn(db) /\ Held = d /\ RowsIn(db') = d
    BY <2>1, <2>2 DEF Held, RowsIn
  <2>4. Brings(todo["boot"]) = {}
    BY <2>1 DEF Brings, ToSet
  <2>5. SeedUnderWay
    BY <2>1 DEF SeedInv
  <2>6. (cut \/ Catalogue \subseteq d) /\ Needed \subseteq d
    BY <2>3, <2>4, <2>5 DEF SeedUnderWay
  <2> QED  BY <2>1, <2>3, <2>6 DEF SeedInv, Seeded, Needed
<1>7. CASE Serve
  BY <1>7, SeedOver DEF Serve, history
<1>8. CASE Crash
  <2>1. cut' <=> (cut \/ (phase = "seed" /\ PartlySeeded))
    BY <1>8, Zenon DEF Crash
  <2>2. UNCHANGED db /\ phase' = "down" /\ phase \in {"seed", "lifespan", "up"}
    BY <1>2, <1>8 DEF Crash
  <2> QED  BY <2>1, <2>2, SeedDies, Zenon
<1>9. ASSUME NEW s \in Sessions, Request(s) PROVE SeedInv'
  BY <1>4, <1>9 DEF Request
<1>10. ASSUME NEW ev \in DemoEvents, Finish(ev) PROVE SeedInv'
  BY <1>4, <1>10 DEF Finish
<1>11. ASSUME NEW ev \in DemoEvents, NEW s \in Sessions, MatchOver(ev, s) PROVE SeedInv'
  <2>1. phase # "seed"
    BY <1>11 DEF MatchOver, PhaseInv
  <2> QED  BY <1>4, <1>11, <2>1 DEF MatchOver, history
<1>12. ASSUME NEW p \in Programs, todo[p] # <<>>, Raise(p) PROVE SeedInv'
  <2>1. CASE phase = "seed"
    <3>1. p = "boot"
      BY <1>3, <1>12, <2>1
    <3>2. UNCHANGED db /\ phase' = "down"
      BY <1>12, <2>1, <3>1 DEF Raise
    <3>3. cut' <=> (cut \/ (p = "boot" /\ phase = "seed" /\ PartlySeeded))
      BY <1>12, Zenon DEF Raise
    <3> QED  BY <2>1, <3>1, <3>2, <3>3, SeedDies, Zenon
  <2>2. CASE phase # "seed"
    <3>1. cut' = cut \/ (cut' <=> cut)
      BY <1>12, <2>2 DEF Raise
    <3>2. phase \in {"lifespan", "up"} /\ UNCHANGED <<db, phase>>
      BY <1>2, <1>3, <1>12, <2>2 DEF Raise
    <3> QED  BY <3>1, <3>2, SeedOver
  <2> QED  BY <2>1, <2>2
<1>13. ASSUME NEW p \in Programs, todo[p] # <<>>, UNCHANGED <<phase, cut>>, db \subseteq db', phase # "seed"
       PROVE  SeedInv'
  BY <1>2, <1>3, <1>13, SeedOver
\* The seed's own steps.
<1>14. ASSUME NEW p \in Programs, todo[p] # <<>>, phase = "seed"
       PROVE  /\ p = "boot" /\ SeedUnderWay /\ todo["boot"] \in Seq(Statements)
              /\ todo["boot"][1] \in Statements /\ Rest(p) = Tail(todo["boot"]) /\ Head(todo[p]) = todo["boot"][1]
              /\ todo["boot"][1] \in ToSet(todo["boot"])
  <2>1. p = "boot" /\ todo["boot"] # <<>>
    BY <1>3, <1>14
  <2>2. /\ todo["boot"] \in Seq(Statements) /\ Head(todo["boot"]) = todo["boot"][1]
        /\ todo["boot"][1] \in Statements /\ Rest("boot") = Tail(todo["boot"])
    BY <1>1, <2>1, AtHead
  <2>3. PICK old \in Seq(Statements) : old = todo["boot"]
    BY <2>2
  <2>4. old[1] \in ToSet(old)
    BY <2>1, <2>3, RestIs
  <2> QED  BY <1>14, <2>1, <2>2, <2>3, <2>4 DEF SeedInv
\* A statement whose rows are there already.
<1>15. ASSUME NEW p \in Programs, todo[p] # <<>>, phase = "seed", UNCHANGED <<db, tx, cut, phase>>,
              todo' = [todo EXCEPT ![p] = Tail(todo[p])], Bringing(todo[p][1]) \subseteq Held
       PROVE  SeedInv'
  <2>1. PICK old \in Seq(Statements) : old = todo["boot"] /\ old # <<>>
    BY <1>14, <1>15
  <2>2. PICK h : h = Held
    OBVIOUS
  <2>3. SeedProg(old, h) /\ Bringing(old[1]) \subseteq h
    BY <1>14, <1>15, <2>1, <2>2 DEF SeedUnderWay
  <2>4. /\ SeedProg(Tail(old), h) /\ h \cup Brings(old) \subseteq h \cup Brings(Tail(old))
        /\ ToSet(Tail(old)) \subseteq ToSet(old)
    BY <2>1, <2>3, SeedTail
  <2>5. todo'["boot"] = Tail(old)
    BY <1>1, <1>14, <1>15, <2>1 DEF SessionsOK
  <2> QED  BY <1>15, <2>1, <2>2, <2>4, <2>5, SeedGoes
\* A statement that puts a piece in front.
<1>16. ASSUME NEW p \in Programs, todo[p] # <<>>, phase = "seed", UNCHANGED <<db, tx, cut, phase>>,
              NEW piece \in Seq(Statements), \A st \in ToSet(piece) : Sportless(st),
              todo' = [todo EXCEPT ![p] = piece \o Tail(todo[p])],
              Bringing(todo[p][1]) \subseteq Brings(piece)
       PROVE  SeedInv'
  <2>1. PICK old \in Seq(Statements) : old = todo["boot"] /\ old # <<>>
    BY <1>14, <1>16
  <2>2. PICK h : h = Held
    OBVIOUS
  <2>3. SeedProg(old, h) /\ Bringing(old[1]) \subseteq h \cup Brings(piece)
    BY <1>14, <1>16, <2>1, <2>2 DEF SeedUnderWay
  <2>4. PICK prog : prog = piece \o Tail(old)
    OBVIOUS
  <2>5. /\ SeedProg(prog, h) /\ h \cup Brings(old) \subseteq h \cup Brings(prog)
        /\ \A st \in ToSet(prog) : st.do = "unless" => st \in ToSet(old)
    BY <1>16, <2>1, <2>3, <2>4, SeedPiece
  <2>6. todo'["boot"] = prog
    BY <1>1, <1>14, <1>16, <2>1, <2>4 DEF SessionsOK
  <2> QED  BY <1>16, <2>1, <2>2, <2>5, <2>6, SeedGoes
<1>17. ASSUME NEW p \in Programs, InsertRow(p) PROVE SeedInv'
  <2>1. todo[p] # <<>> /\ UNCHANGED <<phase, cut, db>>
    BY <1>17 DEF InsertRow, At, history
  <2>2. CASE phase = "seed"
    <3>1. PICK old \in Seq(Statements) : old = todo["boot"] /\ old # <<>>
      BY <1>14, <2>1, <2>2
    <3>2. PICK h, d, t : h = Held /\ d = RowsIn(db) /\ t = RowsIn(tx["boot"])
      OBVIOUS
    <3>3. p = "boot" /\ old[1].do = "insert" /\ Bringing(old[1]) = old[1].rows /\ Rows(p) = old[1].rows
      BY <1>14, <1>17, <2>1, <2>2, <3>1 DEF InsertRow, At, Bringing, Rows
    <3>4. /\ todo'["boot"] = Tail(old)
          /\ tx'["boot"] = tx["boot"] \cup {[row |-> row, by |-> "boot"] : row \in old[1].rows}
      BY <1>1, <1>14, <1>17, <2>1, <2>2, <3>1, <3>3 DEF InsertRow, Goto, SessionsOK
    <3>5. /\ RowsIn(tx'["boot"]) = t \cup old[1].rows /\ Held' = h \cup old[1].rows /\ RowsIn(db') = d
      <4>1. PICK new : new = {[row |-> row, by |-> "boot"] : row \in old[1].rows}
        OBVIOUS
      <4>2. RowsIn(new) = old[1].rows
        <5>1. \A x \in new : x.row \in old[1].rows
          BY <4>1
        <5>2. ASSUME NEW row \in old[1].rows PROVE \E x \in new : x.row = row
          <6>1. [row |-> row, by |-> "boot"] \in new /\ [row |-> row, by |-> "boot"].row = row
            BY <4>1
          <6> QED  BY <6>1, Zenon
        <5> QED  BY <5>1, <5>2 DEF RowsIn
      <4>3. \A a, b : RowsIn(a \cup b) = RowsIn(a) \cup RowsIn(b)
        BY DEF RowsIn
      <4>4. PICK c, b : c = db /\ b = tx["boot"]
        OBVIOUS
      <4>5. RowsIn(b \cup new) = RowsIn(b) \cup RowsIn(new)
            /\ RowsIn(c \cup (b \cup new)) = RowsIn(c \cup b) \cup RowsIn(new)
        <5>1. c \cup (b \cup new) = (c \cup b) \cup new
          OBVIOUS
        <5> QED  BY <4>3, <5>1
      <4>6. db' = c /\ tx'["boot"] = b \cup new
        BY <2>1, <3>4, <4>1, <4>4
      <4>7. Held' = RowsIn(c \cup (b \cup new)) /\ h = RowsIn(c \cup b)
        BY <3>2, <4>4, <4>6 DEF Held
      <4> QED  BY <3>2, <4>2, <4>4, <4>5, <4>6, <4>7
    <3>6. /\ SeedProg(old, h) /\ (cut \/ Catalogue \subseteq h \cup Brings(old))
          /\ Needed \subseteq h \cup Brings(old)
          /\ (\E st \in ToSet(old) : st.do = "unless") =>
               /\ t \cap AllSports = {}
               /\ d \cap AllSports # {} => cut \/ Catalogue \subseteq d
          /\ h \cap AllSports # {} => Sport(Cricket) \in h
      BY <1>14, <2>1, <2>2, <3>1, <3>2 DEF SeedUnderWay, Seeded
    <3>7. SeedProg(Tail(old), h \cup old[1].rows) /\ Brings(old) = old[1].rows \cup Brings(Tail(old))
      BY <3>1, <3>3, <3>6, SeedRest, BringsIs
    <3>8. old[1].rows \cap AllSports # {} => Sport(Cricket) \in h \cup old[1].rows
      <4>1. 1 \in 1 .. Len(old)
        BY <3>1
      <4>2. old[1].rows \cap AllSports # {} => Sport(Cricket) \in h \/ Comes(Sport(Cricket), old, 1)
        BY <3>3, <3>6, <4>1 DEF SeedProg
      <4>3. Comes(Sport(Cricket), old, 1) => Sport(Cricket) \in old[1].rows
        BY DEF Comes
      <4> QED  BY <4>2, <4>3
    <3>9. ASSUME NEW st \in ToSet(Tail(old)), st.do = "unless"
          PROVE  st \in ToSet(old) /\ old[1].rows \cap AllSports = {}
      <4>1. /\ Tail(old) \in Seq(Statements) /\ ToSet(Tail(old)) \subseteq ToSet(old)
            /\ Len(Tail(old)) = Len(old) - 1 /\ \A i \in 1 .. Len(old) - 1 : Tail(old)[i] = old[i + 1]
        BY <3>1, RestIs
      <4>2. PICK i \in 1 .. Len(old) : i > 1 /\ old[i] = st
        <5>1. PICK rest \in Seq(Statements) : rest = Tail(old)
          BY <4>1
        <5>2. PICK i \in 1 .. Len(rest) : rest[i] = st
          BY <3>9, <5>1 DEF ToSet
        <5>3. i + 1 \in 1 .. Len(old) /\ i + 1 > 1 /\ old[i + 1] = st
          BY <3>1, <4>1, <5>1, <5>2
        <5> QED  BY <5>3
      <4>3. \A row \in AllSports : ~ Comes(row, old, i)
        BY <3>6, <3>9, <4>2 DEF SeedProg
      <4>4. \A row \in AllSports : row \notin old[1].rows
        BY <3>3, <4>2, <4>3 DEF Comes
      <4> QED  BY <4>1, <4>4
    <3>10. SeedUnderWay'
      <4>1. (\E st \in ToSet(Tail(old)) : st.do = "unless") =>
              /\ (t \cup old[1].rows) \cap AllSports = {}
              /\ d \cap AllSports # {} => cut \/ Catalogue \subseteq d
        BY <3>6, <3>9
      <4>2. (h \cup old[1].rows) \cap AllSports # {} => Sport(Cricket) \in h \cup old[1].rows
        BY <3>6, <3>8
      <4>3. /\ cut \/ Catalogue \subseteq (h \cup old[1].rows) \cup Brings(Tail(old))
            /\ Needed \subseteq (h \cup old[1].rows) \cup Brings(Tail(old))
        BY <3>6, <3>7
      <4> QED  BY <2>1, <3>4, <3>5, <3>7, <4>1, <4>2, <4>3 DEF SeedUnderWay, Seeded
    <3> QED  BY <2>1, <2>2, <3>2, <3>5, <3>10 DEF SeedInv
  <2> QED  BY <1>13, <2>1, <2>2
<1>18. ASSUME NEW p \in Programs, Commit(p) PROVE SeedInv'
  <2>1. todo[p] # <<>> /\ UNCHANGED <<phase, cut>> /\ db \subseteq db'
    BY <1>18 DEF Commit, At, history
  <2>2. CASE phase = "seed"
    <3>1. PICK old \in Seq(Statements) : old = todo["boot"] /\ old # <<>>
      BY <1>14, <2>1, <2>2
    <3>2. PICK h, d, t : h = Held /\ d = RowsIn(db) /\ t = RowsIn(tx["boot"])
      OBVIOUS
    <3>3. p = "boot" /\ Bringing(old[1]) = {}
      BY <1>14, <1>18, <2>1, <2>2, <3>1 DEF Commit, At, Bringing
    <3>4. todo'["boot"] = Tail(old) /\ tx'["boot"] = {} /\ db' = db \cup tx["boot"]
      BY <1>1, <1>14, <1>18, <2>1, <2>2, <3>1, <3>3 DEF Commit, Goto, SessionsOK
    <3>5. RowsIn(tx'["boot"]) = {} /\ Held' = h /\ RowsIn(db') = d \cup t /\ h = d \cup t
      <4>1. \A a, b : RowsIn(a \cup b) = RowsIn(a) \cup RowsIn(b)
        BY DEF RowsIn
      <4>2. RowsIn({}) = {} /\ db' \cup {} = db'
        BY DEF RowsIn
      <4> QED  BY <3>2, <3>4, <4>1, <4>2 DEF Held
    <3>6. /\ SeedProg(old, h) /\ (cut \/ Catalogue \subseteq h \cup Brings(old))
          /\ Needed \subseteq h \cup Brings(old)
          /\ (\E st \in ToSet(old) : st.do = "unless") =>
               /\ t \cap AllSports = {}
               /\ d \cap AllSports # {} => cut \/ Catalogue \subseteq d
          /\ h \cap AllSports # {} => Sport(Cricket) \in h
      BY <1>14, <2>1, <2>2, <3>1, <3>2 DEF SeedUnderWay, Seeded
    <3>7. /\ SeedProg(Tail(old), h) /\ h \cup Brings(old) \subseteq h \cup Brings(Tail(old))
          /\ ToSet(Tail(old)) \subseteq ToSet(old)
      BY <3>1, <3>3, <3>6, SeedTail
    <3>8. SeedUnderWay'
      <4>1. (\E st \in ToSet(Tail(old)) : st.do = "unless") =>
              ((d \cup t) \cap AllSports # {} => cut \/ Catalogue \subseteq d \cup t)
        BY <3>6, <3>7
      <4>2. /\ cut \/ Catalogue \subseteq h \cup Brings(Tail(old))
            /\ Needed \subseteq h \cup Brings(Tail(old))
        BY <3>6, <3>7
      <4> QED  BY <2>1, <3>4, <3>5, <3>6, <3>7, <4>1, <4>2 DEF SeedUnderWay, Seeded
    <3> QED  BY <2>1, <2>2, <3>5, <3>6, <3>8 DEF SeedInv
  <2> QED  BY <1>13, <2>1, <2>2
<1>19. ASSUME NEW p \in Programs, LookUp(p) PROVE SeedInv'
  <2>1. todo[p] # <<>> /\ UNCHANGED <<phase, cut, db, tx>>
    BY <1>19 DEF LookUp, At, history
  <2>2. CASE phase = "seed"
    <3>1. PICK old \in Seq(Statements) : old = todo[p] /\ old # <<>> /\ old = todo["boot"] /\ p = "boot"
                                         /\ old[1] \in Statements /\ old[1] \in ToSet(old)
      BY <1>14, <2>1, <2>2
    <3>2. PICK prog :
             /\ todo' = [todo EXCEPT ![p] = prog]
             /\ \/ /\ old[1].do = "unless" /\ prog = <<>>
                   /\ \E row \in old[1].rows : Sees(p, row)
                \/ old[1].do = "unless" /\ prog = Tail(old)
                \/ /\ old[1].do = "absent" /\ prog = Tail(old)
                   /\ \E row \in old[1].rows : Sees(p, row)
                \/ old[1].do = "absent" /\ prog = About("insert", old[1].rows) \o Tail(old)
                \/ old[1].do = "ensure" /\ prog = Tail(old)
                \/ /\ old[1].do = "ensure" /\ old[1].key \in Names
                   /\ prog = Account(old[1].key) \o Tail(old)
      BY <1>1, <1>19, <3>1, LookedUp
    <3>3. \A row : Sees(p, row) => row \in Held
      BY <3>1 DEF Sees, Held, RowsIn
    <3>4. CASE old[1].do = "unless" /\ prog = <<>> /\ \E row \in old[1].rows : Sees(p, row)
      <4>1. PICK h, d, t : h = Held /\ d = RowsIn(db) /\ t = RowsIn(tx["boot"])
        OBVIOUS
      <4>2. tx["boot"] = {}
        <5>1. SessionOK("boot", tx["boot"], old)
          BY <1>1, <3>1 DEF SessionsOK
        <5> QED  BY <3>4, <5>1, NothingFlushed
      <4>3. h = d
        BY <4>1, <4>2 DEF Held
      <4>4. 1 \in 1 .. Len(old)
        BY <3>1
      <4>5. SeedUnderWay
        BY <2>2 DEF SeedInv
      <4>6. SeedProg(old, h)
        BY <3>1, <4>1, <4>5 DEF SeedUnderWay
      <4>7. old[1].rows = AllSports /\ (MarketType("MATCH_ODDS") \in h \/ Comes(MarketType("MATCH_ODDS"), old, 1))
        BY <3>4, <4>4, <4>6 DEF SeedProg
      <4>8. ~ Comes(MarketType("MATCH_ODDS"), old, 1)
        BY <3>4 DEF Comes
      <4>9. h \cap AllSports # {}
        BY <3>3, <3>4, <4>1, <4>7
      <4>10. /\ cut \/ Catalogue \subseteq d
             /\ Sport(Cricket) \in h
        BY <3>1, <3>4, <4>1, <4>3, <4>5, <4>9 DEF SeedUnderWay, Seeded
      <4>11. /\ cut \/ Catalogue \subseteq h
             /\ Needed \subseteq h
        BY <4>3, <4>7, <4>8, <4>10 DEF Needed
      <4>12. todo'["boot"] = <<>>
        BY <1>1, <3>1, <3>2, <3>4 DEF SessionsOK
      <4>13. Brings(<<>>) = {} /\ SeedProg(<<>>, h) /\ \A st \in ToSet(<<>>) : FALSE
        BY DEF Brings, SeedProg, ToSet
      <4>14. Held' = h /\ RowsIn(db') = d
        BY <2>1, <4>1 DEF Held
      <4>15. SeedUnderWay'
        BY <2>1, <4>10, <4>11, <4>12, <4>13, <4>14 DEF SeedUnderWay
      <4> QED  BY <2>1, <2>2, <4>3, <4>10, <4>14, <4>15 DEF SeedInv
    <3>5. CASE prog = Tail(old) /\ old[1].do \in {"unless", "ensure"}
      BY <1>15, <2>1, <2>2, <3>1, <3>2, <3>5 DEF Bringing
    <3>6. CASE old[1].do = "absent" /\ prog = Tail(old) /\ \E row \in old[1].rows : Sees(p, row)
      <4>1. ProgramOK(old) /\ 1 \in 1 .. Len(old)
        BY <1>1, <3>1, AtHead
      <4>2. PICK row \in old[1].rows : old[1].rows = {row}
        BY <3>6, <4>1 DEF ProgramOK, StatementOK
      <4>3. Bringing(old[1]) \subseteq Held
        BY <3>3, <3>6, <4>2 DEF Bringing
      <4> QED  BY <1>15, <2>1, <2>2, <3>1, <3>2, <3>6, <4>3
    <3>7. CASE old[1].do = "absent" /\ prog = About("insert", old[1].rows) \o Tail(old)
      <4>1. PICK piece : piece = About("insert", old[1].rows)
        OBVIOUS
      <4>2. piece \in Seq(Statements) /\ Len(piece) = 1 /\ piece[1].do = "insert" /\ piece[1].rows = old[1].rows
        BY <3>1, <4>1, OneStatement DEF Verbs, Statements
      <4>3. ToSet(piece) = {piece[1]}
        BY <4>2 DEF ToSet
      <4>4. SeedProg(old, Held) /\ 1 \in 1 .. Len(old)
        BY <1>14, <2>1, <2>2, <3>1 DEF SeedUnderWay
      <4>5. old[1].rows \cap AllSports = {}
        BY <3>7, <4>4 DEF SeedProg
      <4>6. \A st \in ToSet(piece) : Sportless(st)
        BY <4>2, <4>3, <4>5 DEF Sportless, Bringing
      <4>7. Bringing(old[1]) \subseteq Brings(piece)
        BY <3>7, <4>2, <4>3 DEF Brings, Bringing
      <4> QED  BY <1>16, <2>1, <2>2, <3>1, <3>2, <3>7, <4>1, <4>2, <4>6, <4>7
    <3>8. CASE old[1].do = "ensure" /\ old[1].key \in Names /\ prog = Account(old[1].key) \o Tail(old)
      <4>1. PICK key \in Names : key = old[1].key
        BY <3>8
      <4>2. Account(key) \in Seq(Statements) /\ \A st \in ToSet(Account(key)) : Sportless(st)
        BY Pieces, SportsOnly DEF Sportless, Bringing, Row
      <4>3. Bringing(old[1]) \subseteq Brings(Account(key))
        BY <3>8 DEF Bringing
      <4> QED  BY <1>16, <2>1, <2>2, <3>1, <3>2, <3>8, <4>1, <4>2, <4>3
    <3> QED  BY <3>2, <3>4, <3>5, <3>6, <3>7, <3>8
  <2> QED  BY <1>4, <2>1, <2>2
<1>20. ASSUME NEW p \in Programs, Start(p) PROVE SeedInv'
  <2>1. todo[p] # <<>> /\ UNCHANGED <<phase, cut, db, tx>>
    BY <1>20 DEF Start, At, history
  <2>2. CASE phase = "seed"
    <3>1. PICK prog : \E ev \in Names :
             /\ todo' = [todo EXCEPT ![p] = prog] /\ todo[p][1].do = "start"
             /\ prog = Tail(todo[p]) \/ prog = Again(ev) \o Tail(todo[p]) \/ prog = Anew(ev) \o Tail(todo[p])
      BY <1>1, <1>20, Started
    <3>2. PICK ev \in Names :
             /\ todo' = [todo EXCEPT ![p] = prog] /\ todo[p][1].do = "start"
             /\ prog = Tail(todo[p]) \/ prog = Again(ev) \o Tail(todo[p]) \/ prog = Anew(ev) \o Tail(todo[p])
      BY <3>1
    <3>3. Bringing(todo[p][1]) = {}
      BY <3>2 DEF Bringing
    <3>4. /\ Anew(ev) \in Seq(Statements) /\ \A st \in ToSet(Anew(ev)) : Sportless(st)
          /\ Again(ev) \in Seq(Statements) /\ \A st \in ToSet(Again(ev)) : Sportless(st)
      BY Pieces, SportsOnly DEF Sportless, Bringing, Match, Row
    <3> QED  BY <1>15, <1>16, <2>1, <2>2, <3>2, <3>3, <3>4
  <2> QED  BY <1>4, <2>1, <2>2
<1>21. ASSUME NEW p \in Programs, StartAgain(p) PROVE SeedInv'
  <2>1. todo[p] # <<>> /\ UNCHANGED <<phase, cut, db, tx>> /\ todo' = [todo EXCEPT ![p] = Rest(p)]
        /\ Head(todo[p]).do = "again"
    BY <1>21 DEF StartAgain, At, history, Goto
  <2>2. CASE phase = "seed"
    <3>1. Bringing(todo[p][1]) = {} /\ Rest(p) = Tail(todo[p])
      BY <1>14, <2>1, <2>2 DEF Bringing
    <3> QED  BY <1>15, <2>1, <2>2, <3>1
  <2> QED  BY <1>4, <2>1, <2>2
<1>22. ASSUME NEW p \in Programs, Drive(p) \/ StartNext(p) PROVE SeedInv'
  <2>1. todo[p] # <<>> /\ UNCHANGED <<phase, cut, db>> /\ Head(todo[p]).do \in {"drive", "next"}
    BY <1>22 DEF Drive, StartNext, At, history
  <2>2. phase # "seed"
    BY <1>14, <2>1 DEF PhaseInv
  <2> QED  BY <1>4, <2>1, <2>2
<1>23. CASE UNCHANGED vars
  <2>1. /\ UNCHANGED <<db, tx, todo, cut, phase>>
    BY <1>23 DEF vars
  <2>2. Held' = Held /\ RowsIn(db') = RowsIn(db)
    BY <2>1 DEF Held
  <2> QED  BY <2>1, <2>2 DEF SeedInv, SeedUnderWay, Seeded
<1> QED
  BY <1>5, <1>6, <1>7, <1>8, <1>9, <1>10, <1>11, <1>12, <1>17, <1>18, <1>19, <1>20, <1>21, <1>22, <1>23
  DEF Next, InsertRaises, Fault, At

\* At first there is no sport.
LEMMA SeedInit == Init => SeedInv
BY DEF Init, SeedInv, RowsIn

\* In every reachable state the catalogue is committed, flushed or in the rest of the
\* seed, unless a seed died with a part of it committed; and what a demo match needs
\* (the cricket competition, the market type) is there from the lifespan on.
THEOREM SeedHolds == Spec => []SeedInv
<1>1. Init => FlushedInv /\ PhaseInv /\ SeedInv
  BY FlushedInit, SeedInit
<1>2. FlushedInv /\ PhaseInv /\ SeedInv /\ [Next]_vars => (FlushedInv /\ PhaseInv /\ SeedInv)'
  BY FlushedStep, PhaseStep, SeedStep
<1> QED  BY <1>1, <1>2, PTL DEF Spec

\* When the server is up, the whole demo catalogue is there with its liquidity, unless
\* a seed died with a part of it committed: a seed that died before is made up for.
THEOREM CatalogueWhole == Spec => []SeededUnlessCut
<1>1. SeedInv => SeededUnlessCut
  BY DEF SeedInv, SeededUnlessCut, Seeded, RowsIn
<1> QED  BY <1>1, SeedHolds, PTL

-----------------------------------------------------------------------------
(* Live matches are driven                                                  *)

\* The events that prog will have started and registered when it ends well.
Ends(prog) == {st.key : st \in {st \in ToSet(prog) : st.do = "drive"}}
\* Does prog start a demo match?
Demo(prog) == \E st \in ToSet(prog) : st.do \in {"next", "drive"}

\* What one program makes LIVE is in keys, or anything may be.
Starts(st, keys) ==
    /\ st.do \in {"start", "again"} => st.key \in keys
    /\ st.do = "insert" => \A row \in st.rows : row.table = "match_states" => row.key \in keys
DrivesOK(prog, t, any) ==
    any \/ /\ \A st \in ToSet(prog) : Starts(st, Ends(prog))
           /\ \A x \in t : x.row.table = "match_states" => x.row.key \in Ends(prog)

\* Each program drives what it makes LIVE, but the seed, whose match the lifespan resumes.
SessionsDrive == \A p \in Programs : DrivesOK(todo[p], tx[p], p = "boot" /\ phase = "seed")
\* Each LIVE match has its loop, is being started, or its start died; and there is something live.
MatchesDriven ==
    phase \in {"lifespan", "up"} =>
      /\ Live \subseteq loops \cup lost \cup (UNION {Ends(todo[p]) : p \in Programs})
      /\ stopped \/ loops # {} \/ \E p \in Programs : Demo(todo[p])

\* DriveInv, in the words of this section.
LEMMA DriveParts == DriveInv <=> SessionsDrive /\ MatchesDriven
<1>1. \A p : Starting(p) = Ends(todo[p]) /\ (StartsDemo(p) <=> Demo(todo[p]))
  BY DEF Starting, Ends, StartsDemo, Demo
<1>2. (\A p \in Programs :
         /\ \A st \in ToSet(todo[p]) :
              /\ st.do \in {"start", "again"} => Driven(p, st.key)
              /\ st.do = "insert" =>
                   \A row \in st.rows : row.table = "match_states" => Driven(p, row.key)
         /\ \A x \in tx[p] : x.row.table = "match_states" => Driven(p, x.row.key))
      <=> SessionsDrive
  <2>1. ASSUME NEW p \in Programs
        PROVE  (/\ \A st \in ToSet(todo[p]) :
                    /\ st.do \in {"start", "again"} => Driven(p, st.key)
                    /\ st.do = "insert" =>
                         \A row \in st.rows : row.table = "match_states" => Driven(p, row.key)
                /\ \A x \in tx[p] : x.row.table = "match_states" => Driven(p, x.row.key))
               <=> DrivesOK(todo[p], tx[p], p = "boot" /\ phase = "seed")
    <3>1. \A ev : Driven(p, ev) <=> (ev \in Ends(todo[p]) \/ (p = "boot" /\ phase = "seed"))
      BY <1>1 DEF Driven
    <3>2. CASE p = "boot" /\ phase = "seed"
      BY <3>1, <3>2, Zenon DEF DrivesOK
    <3>3. CASE ~ (p = "boot" /\ phase = "seed")
      <4>1. \A ev : Driven(p, ev) <=> ev \in Ends(todo[p])
        BY <3>1, <3>3
      <4> QED  BY <3>3, <4>1, Zenon DEF DrivesOK, Starts
    <3> QED  BY <3>2, <3>3
  <2> QED  BY <2>1, Zenon DEF SessionsDrive
<1>3. (phase \in {"lifespan", "up"} =>
         /\ Live \subseteq loops \cup lost \cup UNION {Starting(p) : p \in Programs}
         /\ stopped \/ loops # {} \/ \E p \in Programs : StartsDemo(p)) <=> MatchesDriven
  <2>1. {Starting(p) : p \in Programs} = {Ends(todo[p]) : p \in Programs}
    BY <1>1
  <2> QED  BY <1>1, <2>1, Zenon DEF MatchesDriven
<1> QED  BY <1>2, <1>3, Zenon DEF DriveInv

\* A program goes on, and drives what it did.
LEMMA DriveRest ==
    ASSUME NEW prog \in Seq(Statements), prog # <<>>, NEW t, NEW any, DrivesOK(prog, t, any),
           prog[1].do # "drive"
    PROVE  /\ Ends(Tail(prog)) = Ends(prog) /\ DrivesOK(Tail(prog), t, any)
           /\ Demo(prog) => prog[1].do = "next" \/ Demo(Tail(prog))
<1>1. PICK all, rest : all = ToSet(prog) /\ rest = ToSet(Tail(prog))
  OBVIOUS
<1>2. all = {prog[1]} \cup rest
  BY <1>1, RestIs
<1>3. Ends(Tail(prog)) = Ends(prog)
  BY <1>1, <1>2 DEF Ends
<1>4. DrivesOK(Tail(prog), t, any)
  BY <1>1, <1>2, <1>3 DEF DrivesOK
<1>5. Demo(prog) => prog[1].do = "next" \/ Demo(Tail(prog))
  BY <1>1, <1>2 DEF Demo
<1> QED  BY <1>3, <1>4, <1>5

\* It does after an INSERT, a match flushed being driven too,
LEMMA DriveInsert ==
    ASSUME NEW p, NEW prog \in Seq(Statements), prog # <<>>, NEW t, NEW any, DrivesOK(prog, t, any),
           prog[1].do = "insert"
    PROVE  DrivesOK(Tail(prog), t \cup {[row |-> row, by |-> p] : row \in prog[1].rows}, any)
<1>1. Ends(Tail(prog)) = Ends(prog) /\ DrivesOK(Tail(prog), t, any)
  BY DriveRest
<1>2. prog[1] \in ToSet(prog)
  BY RestIs
<1>3. ~ any => \A row \in prog[1].rows : row.table = "match_states" => row.key \in Ends(prog)
  BY <1>2 DEF DrivesOK, Starts
<1> HIDE DEF Ends
<1> QED  BY <1>1, <1>3 DEF DrivesOK

\* and with a piece in front, whose match it drives.
LEMMA DrivePiece ==
    ASSUME NEW prog \in Seq(Statements), prog # <<>>, NEW t, NEW any, DrivesOK(prog, t, any),
           prog[1].do \notin {"drive", "next"}, NEW piece \in Seq(Statements),
           \A st \in ToSet(piece) : st.do # "drive" /\ (any \/ Starts(st, Ends(prog)))
    PROVE  /\ Ends(piece \o Tail(prog)) = Ends(prog) /\ DrivesOK(piece \o Tail(prog), t, any)
           /\ Demo(prog) => Demo(piece \o Tail(prog))
<1>1. PICK rest : rest = Tail(prog)
  OBVIOUS
<1>2. /\ rest \in Seq(Statements) /\ Ends(rest) = Ends(prog) /\ DrivesOK(rest, t, any)
      /\ Demo(prog) => Demo(rest)
  BY <1>1, RestIs, DriveRest
<1>3. PICK all, some, others : all = ToSet(piece \o rest) /\ some = ToSet(piece) /\ others = ToSet(rest)
  OBVIOUS
<1>4. all = some \cup others
  BY <1>2, <1>3, JoinedSet
<1>5. \A st \in some : st.do # "drive" /\ (any \/ Starts(st, Ends(prog)))
  BY <1>3
<1>6. Ends(piece \o rest) = Ends(rest)
  BY <1>3, <1>4, <1>5 DEF Ends
<1>7. DrivesOK(piece \o rest, t, any)
  BY <1>2, <1>3, <1>4, <1>5, <1>6 DEF DrivesOK
<1>8. Demo(rest) => Demo(piece \o rest)
  BY <1>3, <1>4 DEF Demo
<1> QED  BY <1>1, <1>2, <1>6, <1>7, <1>8

\* A demo match is the last thing that a program does.
LEMMA DriveLast ==
    ASSUME NEW p, NEW t, NEW prog, SessionOK(p, t, prog), prog # <<>>, prog[1].do \in {"next", "drive"}
    PROVE  /\ t = {} /\ ToSet(prog) = {prog[1]} /\ Tail(prog) = <<>>
           /\ Ends(prog) \subseteq {prog[1].key} /\ (prog[1].do = "next" => Ends(prog) = {})
<1>1. ProgramOK(prog) /\ prog \in Seq(Statements) /\ 1 \in 1 .. Len(prog)
  BY DEF SessionOK, ProgramOK
<1>2. Len(prog) = 1
  BY <1>1 DEF ProgramOK, StatementOK
<1>3. t = {}
  <2>1. ~ CommitsFrom(prog, 1)
    BY <1>1, <1>2 DEF CommitsFrom
  <2> QED  BY <2>1 DEF SessionOK
<1>4. ToSet(prog) = {prog[1]}
  BY <1>1, <1>2 DEF ToSet
<1>5. Tail(prog) = <<>>
  <2>1. PICK rest \in Seq(Statements) : rest = Tail(prog)
    BY <1>1, RestIs
  <2>2. Len(rest) = 0
    BY <1>1, <1>2, <2>1, RestIs
  <2> QED  BY <2>1, <2>2
<1>6. Ends(prog) \subseteq {prog[1].key} /\ (prog[1].do = "next" => Ends(prog) = {})
  BY <1>4 DEF Ends
<1> QED  BY <1>3, <1>4, <1>5, <1>6

\* A program without a demo match drives nothing.
LEMMA NoDriveEnds ==
    ASSUME NEW prog \in Seq(Statements), Free(prog, {"next", "drive"})
    PROVE  Ends(prog) = {} /\ ~ Demo(prog)
<1>1. \A st \in ToSet(prog) : st.do \notin {"next", "drive"}
  BY NoDrive
<1> QED  BY <1>1 DEF Ends, Demo

\* What the empty program and the start of the next demo match drive.
LEMMA NothingDriven ==
    /\ Ends(<<>>) = {} /\ ~ Demo(<<>>) /\ \A any : DrivesOK(<<>>, {}, any)
    /\ Ends(NextDemo) = {} /\ Demo(NextDemo) /\ \A any : DrivesOK(NextDemo, {}, any)
<1>1. ToSet(<<>>) = {}
  BY DEF ToSet
<1>2. Ends(<<>>) = {} /\ ~ Demo(<<>>) /\ \A any : DrivesOK(<<>>, {}, any)
  BY <1>1 DEF Ends, Demo, DrivesOK
<1>3. NextDemo \in Seq(Statements) /\ Len(NextDemo) = 1 /\ NextDemo[1].do = "next"
  BY NextDemoOK DEF ProgramOK
<1>4. PICK c \in Seq(Statements) : c = NextDemo
  BY <1>3
<1>5. ToSet(c) = {c[1]} /\ c[1].do = "next"
  BY <1>3, <1>4 DEF ToSet
<1>6. Ends(c) = {} /\ Demo(c) /\ \A any : DrivesOK(c, {}, any)
  BY <1>5 DEF Ends, Demo, DrivesOK, Starts
<1> QED  BY <1>2, <1>4, <1>6

\* The start of a match ends with its loop.
LEMMA StartDrives ==
    ASSUME NEW ev \in Names, NEW any
    PROVE  /\ Ends(StartRequest(ev)) = {ev} /\ Demo(StartRequest(ev)) /\ DrivesOK(StartRequest(ev), {}, any)
           /\ Ends(NextMatch(ev)) = {ev} /\ Demo(NextMatch(ev)) /\ DrivesOK(NextMatch(ev), {}, any)
<1>1. PICK c : c = StartRequest(ev)
  OBVIOUS
<1>2. /\ c \in Seq(Statements) /\ Len(c) = 2 /\ c[1].do = "start" /\ c[1].key = ev
      /\ c[2].do = "drive" /\ c[2].key = ev
  BY <1>1, StartRequestOK DEF ProgramOK
<1>3. ToSet(c) = {c[1], c[2]}
  BY <1>2 DEF ToSet
<1>4. Ends(c) = {ev} /\ Demo(c) /\ DrivesOK(c, {}, any)
  BY <1>2, <1>3 DEF Ends, Demo, DrivesOK, Starts
<1>5. PICK d : d = NextMatch(ev)
  OBVIOUS
<1>6. /\ d \in Seq(Statements) /\ Len(d) = 4 /\ d[1].do = "insert" /\ d[1].rows = {MarketOf(ev)}
      /\ d[2].do = "commit" /\ d[3].do = "start" /\ d[3].key = ev /\ d[4].do = "drive" /\ d[4].key = ev
  BY <1>5, NextMatchOK DEF ProgramOK
<1>7. ToSet(d) = {d[1], d[2], d[3], d[4]}
  BY <1>6 DEF ToSet
<1>8. \A row \in {MarketOf(ev)} : row.table # "match_states"
  BY RowsAre
<1>9. Ends(d) = {ev} /\ Demo(d) /\ DrivesOK(d, {}, any)
  <2>1. Ends(d) = {ev} /\ Demo(d)
    BY <1>6, <1>7 DEF Ends, Demo
  <2> QED  BY <1>6, <1>7, <1>8, <2>1 DEF DrivesOK, Starts
<1> QED  BY <1>1, <1>4, <1>5, <1>9

\* Each request drives what it makes LIVE.
LEMMA RequestDrives ==
    ASSUME NEW program \in {Register(email) : email \in Emails}
                            \cup {CreateSport(code) : code \in NewSports}
                            \cup {CreateMarketType(code) : code \in NewTypes}
                            \cup {StartRequest(ev) : ev \in DemoEvents}, NEW any
    PROVE  DrivesOK(program, {}, any)
<1>1. ASSUME NEW c \in Seq(Statements), Len(c) = 1 PROVE ToSet(c) = {c[1]}
  BY <1>1 DEF ToSet
<1>2. ASSUME NEW prog, \A st \in ToSet(prog) : \A keys : Starts(st, keys) PROVE DrivesOK(prog, {}, any)
  BY <1>2 DEF DrivesOK
<1>3. ASSUME NEW row \in TableRows
      PROVE  /\ About("unless", {row}) \in Seq(Statements)
             /\ \A st \in ToSet(About("unless", {row})) : st.do = "unless"
  <2>1. PICK c : c = About("unless", {row})
    OBVIOUS
  <2>2. c \in Seq(Statements) /\ Len(c) = 1 /\ c[1].do = "unless"
    BY <2>1, OneStatement DEF Verbs
  <2> QED  BY <1>1, <2>1, <2>2
<1>4. ASSUME NEW row \in TableRows, row.table # "match_states"
      PROVE  \A st \in ToSet(About("unless", {row}) \o Insert(row) \o CommitNow) : \A keys : Starts(st, keys)
  <2>1. PICK a, b : a = About("unless", {row}) /\ b = Insert(row)
    OBVIOUS
  <2>2. a \in Seq(Statements) /\ \A st \in ToSet(a) : st.do = "unless"
    BY <1>3, <2>1
  <2>3. b \in Seq(Statements) /\ \A st \in ToSet(b) : st.do = "insert" /\ st.rows = {row}
    <3>1. PICK c : c = About("insert", {row})
      OBVIOUS
    <3>2. c \in Seq(Statements) /\ Len(c) = 1 /\ c[1].do = "insert" /\ c[1].rows = {row}
      BY <3>1, OneStatement DEF Verbs
    <3>3. b = c
      BY <2>1, <3>1 DEF Insert
    <3> QED  BY <1>1, <3>2, <3>3
  <2>4. CommitNow \in Seq(Statements) /\ \A st \in ToSet(CommitNow) : st.do = "commit"
    BY <1>1, CommitNowIs
  <2>5. a \o b \in Seq(Statements) /\ ToSet(a \o b) = ToSet(a) \cup ToSet(b)
    BY <2>2, <2>3, JoinedSet, Zenon
  <2>6. PICK ab : ab = a \o b
    OBVIOUS
  <2>7. ab \in Seq(Statements) /\ ToSet(ab) = ToSet(a) \cup ToSet(b)
    BY <2>5, <2>6
  <2>8. ToSet(ab \o CommitNow) = ToSet(ab) \cup ToSet(CommitNow)
    BY <2>4, <2>7, JoinedSet, Zenon
  <2>9. \A st \in ToSet(ab \o CommitNow) : \A keys : Starts(st, keys)
    BY <1>4, <2>2, <2>3, <2>4, <2>7, <2>8 DEF Starts
  <2> QED  BY <2>1, <2>6, <2>9
<1>5. CASE program \in {Register(email) : email \in Emails}
  <2>1. PICK email \in Names : program = Register(email)
    BY <1>5, NamesAre
  <2>2. PICK row : row = Row("users", email)
    OBVIOUS
  <2>3. row \in TableRows
    BY <2>2, RowIs DEF Tables
  <2>4. PICK a, b : a = About("unless", {row}) /\ b = Account(email)
    OBVIOUS
  <2>5. /\ a \in Seq(Statements) /\ \A st \in ToSet(a) : st.do = "unless"
        /\ b \in Seq(Statements)
    BY <1>3, <2>3, <2>4, Pieces
  <2>6. \A st \in ToSet(b) : \A keys : Starts(st, keys)
    BY <2>4, Pieces DEF Starts, Row
  <2>7. ToSet(a \o b) = ToSet(a) \cup ToSet(b)
    BY <2>5, JoinedSet, Zenon
  <2>8. \A st \in ToSet(a \o b) : \A keys : Starts(st, keys)
    BY <2>5, <2>6, <2>7 DEF Starts
  <2>9. program = a \o b
    BY <2>1, <2>2, <2>4 DEF Register
  <2> QED  BY <1>2, <2>8, <2>9
<1>6. CASE program \in {CreateSport(code) : code \in NewSports}
  <2>1. PICK code \in Names : program = CreateSport(code)
    BY <1>6, NamesAre
  <2>2. PICK row : row = Sport(code)
    OBVIOUS
  <2>3. program = About("unless", {row}) \o Insert(row) \o CommitNow
    BY <2>1, <2>2 DEF CreateSport
  <2>4. row \in TableRows /\ row.table # "match_states"
    BY <2>1, <2>2, RowsAre
  <2> QED  BY <1>2, <1>4, <2>3, <2>4
<1>7. CASE program \in {CreateMarketType(code) : code \in NewTypes}
  <2>1. PICK code \in Names : program = CreateMarketType(code)
    BY <1>7, NamesAre
  <2>2. PICK row : row = MarketType(code)
    OBVIOUS
  <2>3. program = About("unless", {row}) \o Insert(row) \o CommitNow
    BY <2>1, <2>2 DEF CreateMarketType
  <2>4. row \in TableRows /\ row.table # "match_states"
    BY <2>1, <2>2, RowsAre
  <2> QED  BY <1>2, <1>4, <2>3, <2>4
<1>8. CASE program \in {StartRequest(ev) : ev \in DemoEvents}
  BY <1>8, NamesAre, StartDrives
<1> QED  BY <1>5, <1>6, <1>7, <1>8

\* One program goes on: what it no longer drives has its loop or another program that
\* starts it, or is lost.
LEMMA DrivenOn ==
    ASSUME SessionsOK, MatchesDriven, NEW p \in Programs, NEW prog, todo' = [todo EXCEPT ![p] = prog],
           phase \in {"lifespan", "up"},
           Live' \subseteq Live \cup Ends(prog), loops \cap Live' \subseteq loops', lost \subseteq lost',
           Ends(todo[p]) \cap Live'
             \subseteq Ends(prog) \cup loops' \cup lost' \cup UNION {Ends(todo[q]) : q \in Programs \ {p}},
           stopped \/ loops # {} \/ Demo(todo[p]) => Demo(prog) \/ loops' # {} \/ stopped'
    PROVE  MatchesDriven'
<1>1. todo'[p] = prog /\ \A q \in Programs : q # p => todo'[q] = todo[q]
  BY DEF SessionsOK
<1>2. PICK all, all2, lv, lv2 :
        /\ all = UNION {Ends(todo[q]) : q \in Programs} /\ all2 = UNION {Ends(todo'[q]) : q \in Programs}
        /\ lv = Live /\ lv2 = Live'
  OBVIOUS
<1>. PICK others : others = UNION {Ends(todo[q]) : q \in Programs \ {p}}
  OBVIOUS
<1>3. all \subseteq all2 \cup Ends(todo[p]) /\ Ends(prog) \subseteq all2 /\ others \subseteq all2
  BY <1>1, <1>2
<1>4. lv \subseteq loops \cup lost \cup all
  BY <1>2 DEF MatchesDriven
<1>5. lv2 \subseteq loops' \cup lost' \cup all2
  BY <1>2, <1>3, <1>4
<1>6. (\E q \in Programs : Demo(todo[q])) => Demo(todo[p]) \/ \E q \in Programs : Demo(todo'[q])
  BY <1>1
<1>7. Demo(prog) => \E q \in Programs : Demo(todo'[q])
  BY <1>1
<1>8. stopped' \/ loops' # {} \/ \E q \in Programs : Demo(todo'[q])
  BY <1>6, <1>7 DEF MatchesDriven
<1> QED  BY <1>2, <1>5, <1>8 DEF MatchesDriven

\* When one program goes on and drives what it makes LIVE, all do.
LEMMA DrivesOn ==
    ASSUME SessionsOK, SessionsDrive, NEW p \in Programs, NEW t, NEW prog,
           tx' = [tx EXCEPT ![p] = t] \/ (tx' = tx /\ t = tx[p]), todo' = [todo EXCEPT ![p] = prog],
           DrivesOK(prog, t, p = "boot" /\ phase' = "seed"), p = "boot" \/ phase' = phase
    PROVE  SessionsDrive'
<1>1. tx'[p] = t /\ todo'[p] = prog
  BY DEF SessionsOK
<1>2. ASSUME NEW q \in Programs, q # p PROVE tx'[q] = tx[q] /\ todo'[q] = todo[q]
  BY <1>2 DEF SessionsOK
<1>3. ASSUME NEW q \in Programs PROVE DrivesOK(todo'[q], tx'[q], q = "boot" /\ phase' = "seed")
  <2>1. CASE q = p
    BY <1>1, <2>1
  <2>2. CASE q # p
    <3>1. DrivesOK(todo[q], tx[q], q = "boot" /\ phase = "seed")
      BY DEF SessionsDrive
    <3>2. CASE q = "boot"
      BY <1>2, <2>2, <3>1, <3>2
    <3>3. CASE q # "boot"
      <4>1. DrivesOK(todo'[q], tx'[q], FALSE)
        BY <1>2, <2>2, <3>1, <3>3 DEF DrivesOK
      <4> QED  BY <3>3, <4>1 DEF DrivesOK
    <3> QED  BY <3>2, <3>3
  <2> QED  BY <2>1, <2>2
<1> QED  BY <1>3 DEF SessionsDrive

\* Only a commit, or the end or the new start of a match, changes what is LIVE.
LEMMA LiveSame == UNCHANGED <<db, over>> => Live' = Live
BY DEF Live

\* Every step keeps the matches driven.
LEMMA DriveStep ==
    FlushedInv /\ PhaseInv /\ SeedInv /\ SessionsDrive /\ MatchesDriven /\ [Next]_vars
      => SessionsDrive' /\ MatchesDriven'
<1> SUFFICES ASSUME FlushedInv, PhaseInv, SeedInv, SessionsDrive, MatchesDriven, [Next]_vars
             PROVE  SessionsDrive' /\ MatchesDriven'
  OBVIOUS
<1> USE DEF Programs
<1>1. SessionsOK
  BY DEF FlushedInv
<1>2. ASSUME NEW p \in Programs, todo[p] # <<>>
      PROVE  phase # "down" /\ (phase = "seed" => p = "boot") /\ (phase # "seed" => phase \in {"lifespan", "up"})
  BY <1>2 DEF PhaseInv
<1>3. ASSUME NEW p \in Programs PROVE DrivesOK(todo[p], tx[p], p = "boot" /\ phase = "seed")
  BY DEF SessionsDrive
<1>4. CASE Boot
  <2>1. todo' = [todo EXCEPT !["boot"] = Seed] /\ tx' = tx /\ phase' = "seed"
    BY <1>4 DEF Boot, Goto
  <2>2. DrivesOK(Seed, tx["boot"], TRUE)
    BY DEF DrivesOK
  <2>3. SessionsDrive'
    BY <1>1, <2>1, <2>2, DrivesOn
  <2> QED  BY <2>1, <2>3 DEF MatchesDriven
<1>5. CASE Lifespan
  <2>1. /\ todo["boot"] = <<>> /\ tx' = tx /\ phase' = "lifespan" /\ loops' = Live
        /\ UNCHANGED <<db, over>>
        /\ todo' = [todo EXCEPT !["boot"] = IF Live = {} THEN NextDemo ELSE <<>>]
    BY <1>5 DEF Lifespan, Goto
  <2>2. tx["boot"] = {}
    BY <1>1, <2>1, BegunOK
  <2>3. PICK prog : todo' = [todo EXCEPT !["boot"] = prog] /\ prog \in {NextDemo, <<>>} /\ (Live = {} => prog = NextDemo)
    BY <2>1
  <2>4. DrivesOK(prog, tx["boot"], FALSE)
    BY <2>2, <2>3, NothingDriven
  <2>5. SessionsDrive'
    <3>1. DrivesOK(prog, tx["boot"], "boot" = "boot" /\ phase' = "seed")
      BY <2>4 DEF DrivesOK
    <3> QED  BY <1>1, <2>1, <2>3, <3>1, DrivesOn
  <2>6. todo'["boot"] = prog
    BY <1>1, <2>3 DEF SessionsOK
  <2>7. Live' = Live
    BY <2>1, LiveSame
  <2>8. loops' # {} \/ \E p \in Programs : Demo(todo'[p])
    BY <2>1, <2>3, <2>6, NothingDriven
  <2> QED  BY <2>1, <2>5, <2>7, <2>8 DEF MatchesDriven
<1>6. CASE Serve
  <2>1. phase = "lifespan" /\ phase' = "up" /\ UNCHANGED <<db, tx, todo, loops, over, lost, stopped>>
    BY <1>6 DEF Serve, history
  <2>2. SessionsDrive'
    BY <2>1 DEF SessionsDrive, DrivesOK
  <2>3. Live' = Live
    BY <2>1, LiveSame
  <2> QED  BY <2>1, <2>2, <2>3 DEF MatchesDriven
<1>7. CASE Crash
  <2>1. phase' = "down" /\ \A p \in Programs : tx'[p] = {} /\ todo'[p] = <<>>
    BY <1>7 DEF Crash
  <2> QED  BY <2>1, NothingDriven DEF SessionsDrive, MatchesDriven
<1>8. ASSUME NEW s \in Sessions, Request(s) PROVE SessionsDrive' /\ MatchesDriven'
  <2>1. PICK program \in {Register(email) : email \in Emails}
                         \cup {CreateSport(code) : code \in NewSports}
                         \cup {CreateMarketType(code) : code \in NewTypes}
                         \cup {StartRequest(ev) : ev \in {ev \in DemoEvents : Committed(MarketOf(ev))}} :
               todo' = [todo EXCEPT ![s] = program]
    BY <1>8 DEF Request, Goto
  <2>2. program \in {Register(email) : email \in Emails}
                   \cup {CreateSport(code) : code \in NewSports}
                   \cup {CreateMarketType(code) : code \in NewTypes}
                   \cup {StartRequest(ev) : ev \in DemoEvents}
    OBVIOUS
  <2>3. \A any : DrivesOK(program, {}, any)
    BY <2>2, RequestDrives
  <2>4. todo[s] = <<>> /\ UNCHANGED <<db, tx, over, loops, phase, lost, stopped>> /\ phase = "up"
    BY <1>8 DEF Request
  <2>5. tx[s] = {}
    BY <1>1, <2>4, BegunOK
  <2>6. SessionsDrive'
    BY <1>1, <2>1, <2>3, <2>4, <2>5, DrivesOn
  <2>7. Ends(todo[s]) = {} /\ ~ Demo(todo[s])
    BY <2>4, NothingDriven
  <2>8. MatchesDriven'
    BY <1>1, <2>1, <2>4, <2>7, LiveSame, DrivenOn
  <2> QED  BY <2>6, <2>8
<1>9. ASSUME NEW ev \in DemoEvents, Finish(ev) PROVE SessionsDrive' /\ MatchesDriven'
  <2>1. /\ phase = "up" /\ UNCHANGED <<db, tx, todo, phase, lost>> /\ stopped'
        /\ over' = over \cup {ev} /\ loops' = loops \ {ev}
    BY <1>9 DEF Finish
  <2>2. SessionsDrive'
    BY <2>1 DEF SessionsDrive
  <2>3. Live' \subseteq Live \ {ev}
    BY <2>1 DEF Live
  <2> QED  BY <2>1, <2>2, <2>3 DEF MatchesDriven
<1>10. ASSUME NEW ev \in DemoEvents, NEW s \in Sessions, MatchOver(ev, s) PROVE SessionsDrive' /\ MatchesDriven'
  <2>1. /\ todo[s] = <<>> /\ UNCHANGED <<db, tx, phase, lost, stopped>> /\ todo' = [todo EXCEPT ![s] = NextDemo]
        /\ over' = over \cup {ev} /\ loops' = loops \ {ev} /\ phase \in {"lifespan", "up"}
    BY <1>10 DEF MatchOver, Goto, history, PhaseInv
  <2>2. tx[s] = {}
    BY <1>1, <2>1, BegunOK
  <2>3. SessionsDrive'
    BY <1>1, <2>1, <2>2, NothingDriven, DrivesOn
  <2>4. Live' \subseteq Live \ {ev}
    BY <2>1 DEF Live
  <2>5. Ends(todo[s]) = {}
    BY <2>1, NothingDriven
  <2>6. MatchesDriven'
    BY <1>1, <2>1, <2>4, <2>5, NothingDriven, DrivenOn
  <2> QED  BY <2>3, <2>6
<1>11. ASSUME NEW p \in Programs, todo[p] # <<>>, Raise(p) PROVE SessionsDrive' /\ MatchesDriven'
  <2>1. /\ tx' = [tx EXCEPT ![p] = {}] /\ todo' = [todo EXCEPT ![p] = <<>>] /\ UNCHANGED <<db, loops, over>>
        /\ phase' = IF p = "boot" /\ phase = "seed" THEN "down" ELSE phase
        /\ lost' = lost \cup ((Starting(p) \cap Live)
                              \ (loops \cup UNION {Starting(q) : q \in Programs \ {p}}))
        /\ (stopped \/ StartsDemo(p) => stopped')
    BY <1>11, Zenon DEF Raise, Goto
  <2>2. SessionsDrive'
    <3>1. DrivesOK(<<>>, {}, p = "boot" /\ phase' = "seed")
      BY NothingDriven
    <3> QED  BY <1>1, <2>1, <3>1, DrivesOn
  <2>3. MatchesDriven'
    <3>1. /\ \A q \in Programs : Starting(q) = Ends(todo[q])
          /\ StartsDemo(p) <=> Demo(todo[p])
      BY DEF Starting, Ends, StartsDemo, Demo
    <3>2. Live' = Live
      BY <2>1, LiveSame
    <3>3. CASE phase = "seed"
      <4>1. phase' = "down"
        BY <1>2, <1>11, <2>1, <3>3
      <4> QED  BY <4>1 DEF MatchesDriven
    <3>4. CASE phase # "seed"
      <4>1. phase \in {"lifespan", "up"}
        BY <1>2, <1>11, <3>4
      <4>2. stopped \/ Demo(todo[p]) => stopped'
        BY <2>1, <3>1
      <4>3. UNION {Starting(q) : q \in Programs \ {p}} = UNION {Ends(todo[q]) : q \in Programs \ {p}}
        BY <3>1
      <4>4. /\ Ends(todo[p]) \cap Live
               \subseteq loops \cup lost' \cup UNION {Ends(todo[q]) : q \in Programs \ {p}}
            /\ lost \subseteq lost'
        BY <2>1, <3>1, <4>3
      <4> QED  BY <1>1, <2>1, <3>2, <4>1, <4>2, <4>4, DrivenOn
    <3> QED  BY <3>3, <3>4
  <2> QED  BY <2>2, <2>3
\* A step of p that keeps what it drives.
<1>12. ASSUME NEW p \in Programs, todo[p] # <<>>, NEW prog, todo' = [todo EXCEPT ![p] = prog],
              UNCHANGED <<phase, loops, lost, stopped>>,
              Ends(todo[p]) \subseteq Ends(prog), Demo(todo[p]) => Demo(prog),
              phase # "seed" => Live' \subseteq Live \cup Ends(prog)
       PROVE  MatchesDriven'
  <2>1. CASE phase = "seed"
    BY <1>12, <2>1 DEF MatchesDriven
  <2>2. CASE phase # "seed"
    <3>1. phase \in {"lifespan", "up"}
      BY <1>2, <1>12, <2>2
    <3> QED  BY <1>1, <1>12, <2>2, <3>1, DrivenOn
  <2> QED  BY <2>1, <2>2
<1>13. ASSUME NEW p \in Programs, todo[p] # <<>>
       PROVE  /\ todo[p] \in Seq(Statements) /\ Head(todo[p]) = todo[p][1] /\ Rest(p) = Tail(todo[p])
              /\ todo[p][1] \in ToSet(todo[p]) /\ todo[p][1] \in Statements
              /\ SessionOK(p, tx[p], todo[p])
  <2>1. PICK old \in Seq(Statements) : old = todo[p]
    BY <1>1, <1>13, AtHead
  <2>2. old[1] \in ToSet(old)
    BY <1>13, <2>1, RestIs
  <2> QED  BY <1>1, <1>13, <2>1, <2>2, AtHead
<1>14. ASSUME NEW p \in Programs, todo[p] # <<>>, todo[p][1].do \notin {"drive", "next"}
       PROVE  /\ Ends(Tail(todo[p])) = Ends(todo[p]) /\ (Demo(todo[p]) => Demo(Tail(todo[p])))
              /\ DrivesOK(Tail(todo[p]), tx[p], p = "boot" /\ phase = "seed")
  <2>1. PICK old, t, any : old = todo[p] /\ t = tx[p] /\ any = (p = "boot" /\ phase = "seed")
    OBVIOUS
  <2>2. old \in Seq(Statements) /\ DrivesOK(old, t, any)
    BY <1>3, <1>13, <1>14, <2>1
  <2> QED  BY <1>14, <2>1, <2>2, DriveRest
\* What p makes LIVE is driven by it.
<1>15. ASSUME NEW p \in Programs, todo[p] # <<>>, todo[p][1].do \in {"start", "again"}, ~ (p = "boot" /\ phase = "seed")
       PROVE  todo[p][1].key \in Ends(todo[p])
  BY <1>3, <1>13, <1>15 DEF DrivesOK, Starts
<1>16. ASSUME NEW p \in Programs, InsertRow(p) PROVE SessionsDrive' /\ MatchesDriven'
  <2>1. /\ todo[p] # <<>> /\ UNCHANGED <<phase, loops, lost, stopped, db, over>>
        /\ Head(todo[p]).do = "insert" /\ todo' = [todo EXCEPT ![p] = Rest(p)]
        /\ tx' = [tx EXCEPT ![p] = @ \cup {[row |-> row, by |-> p] : row \in Rows(p)}]
    BY <1>16 DEF InsertRow, At, history, Goto
  <2>2. PICK t, old, any : t = tx[p] /\ old = todo[p] /\ any = (p = "boot" /\ phase = "seed")
    OBVIOUS
  <2>3. PICK t2, prog : t2 = t \cup {[row |-> row, by |-> p] : row \in old[1].rows} /\ prog = Tail(old)
    OBVIOUS
  <2>4. old \in Seq(Statements) /\ old[1].do = "insert" /\ DrivesOK(old, t, any) /\ Rows(p) = old[1].rows
        /\ Rest(p) = prog
    BY <1>3, <1>13, <2>1, <2>2, <2>3 DEF Rows
  <2>5. DrivesOK(prog, t2, any)
    <3>1. old # <<>> /\ old \in Seq(Statements) /\ old[1].do = "insert" /\ DrivesOK(old, t, any)
      BY <2>1, <2>2, <2>4
    <3>2. DrivesOK(Tail(old), t \cup {[row |-> row, by |-> p] : row \in old[1].rows}, any)
      BY <3>1, DriveInsert, Zenon
    <3> QED  BY <2>3, <3>2
  <2>6. tx' = [tx EXCEPT ![p] = t2] /\ todo' = [todo EXCEPT ![p] = prog]
    BY <1>1, <2>1, <2>2, <2>3, <2>4 DEF SessionsOK
  <2>7. SessionsDrive'
    BY <1>1, <2>1, <2>2, <2>5, <2>6, DrivesOn
  <2>8. Ends(prog) = Ends(todo[p]) /\ (Demo(todo[p]) => Demo(prog))
    BY <1>14, <2>1, <2>2, <2>3, <2>4
  <2>9. MatchesDriven'
    BY <1>12, <2>1, <2>6, <2>8, LiveSame
  <2> QED  BY <2>7, <2>9
<1>17. ASSUME NEW p \in Programs, Commit(p) PROVE SessionsDrive' /\ MatchesDriven'
  <2>1. /\ todo[p] # <<>> /\ UNCHANGED <<phase, loops, lost, stopped, over>>
        /\ Head(todo[p]).do = "commit" /\ todo' = [todo EXCEPT ![p] = Rest(p)]
        /\ tx' = [tx EXCEPT ![p] = {}] /\ db' = db \cup tx[p]
    BY <1>17 DEF Commit, At, history, Goto
  <2>2. todo[p][1].do = "commit" /\ todo' = [todo EXCEPT ![p] = Tail(todo[p])]
    BY <1>13, <2>1
  <2>3. PICK prog : prog = Tail(todo[p])
    OBVIOUS
  <2>4. Ends(prog) = Ends(todo[p]) /\ (Demo(todo[p]) => Demo(prog)) /\ DrivesOK(prog, tx[p], p = "boot" /\ phase = "seed")
    BY <1>14, <2>1, <2>2, <2>3
  <2>5. DrivesOK(prog, {}, p = "boot" /\ phase = "seed")
    BY <2>4 DEF DrivesOK
  <2>6. SessionsDrive'
    BY <1>1, <2>1, <2>2, <2>3, <2>5, DrivesOn
  <2>7. ASSUME phase # "seed" PROVE Live' \subseteq Live \cup Ends(prog)
    <3>1. \A x \in tx[p] : x.row.table = "match_states" => x.row.key \in Ends(prog)
      BY <2>4, <2>7 DEF DrivesOK
    <3> QED  BY <2>1, <3>1 DEF Live
  <2>8. MatchesDriven'
    BY <1>12, <2>1, <2>2, <2>3, <2>4, <2>7
  <2> QED  BY <2>6, <2>8
\* A piece in front.
<1>18. ASSUME NEW p \in Programs, todo[p] # <<>>, todo[p][1].do \notin {"drive", "next"},
              NEW piece \in Seq(Statements), UNCHANGED <<db, tx, over, phase, loops, lost, stopped>>,
              \A st \in ToSet(piece) : st.do # "drive" /\ ((p = "boot" /\ phase = "seed") \/ Starts(st, Ends(todo[p]))),
              todo' = [todo EXCEPT ![p] = piece \o Tail(todo[p])]
       PROVE  SessionsDrive' /\ MatchesDriven'
  <2>1. PICK old, t, any : old = todo[p] /\ t = tx[p] /\ any = (p = "boot" /\ phase = "seed")
    OBVIOUS
  <2>2. old \in Seq(Statements) /\ old # <<>> /\ DrivesOK(old, t, any) /\ old[1].do \notin {"drive", "next"}
    BY <1>3, <1>13, <1>18, <2>1
  <2>3. \A st \in ToSet(piece) : st.do # "drive" /\ (any \/ Starts(st, Ends(old)))
    BY <1>18, <2>1
  <2>4. PICK prog : prog = piece \o Tail(old)
    OBVIOUS
  <2>5. Ends(prog) = Ends(old) /\ DrivesOK(prog, t, any) /\ (Demo(old) => Demo(prog))
    BY <2>2, <2>3, <2>4, DrivePiece
  <2>6. todo' = [todo EXCEPT ![p] = prog]
    BY <1>18, <2>1, <2>4
  <2>7. SessionsDrive'
    BY <1>1, <1>18, <2>1, <2>5, <2>6, DrivesOn
  <2>8. MatchesDriven'
    BY <1>12, <1>18, <2>1, <2>5, <2>6, LiveSame
  <2> QED  BY <2>7, <2>8
<1>19. ASSUME NEW p \in Programs, todo[p] # <<>>, todo[p][1].do \notin {"drive", "next"},
              UNCHANGED <<tx, phase, loops, lost, stopped>>,
              phase # "seed" => Live' \subseteq Live \cup Ends(todo[p]),
              todo' = [todo EXCEPT ![p] = Tail(todo[p])]
       PROVE  SessionsDrive' /\ MatchesDriven'
  <2>1. PICK prog : prog = Tail(todo[p])
    OBVIOUS
  <2>2. Ends(prog) = Ends(todo[p]) /\ (Demo(todo[p]) => Demo(prog)) /\ DrivesOK(prog, tx[p], p = "boot" /\ phase = "seed")
    BY <1>14, <1>19, <2>1
  <2>3. SessionsDrive'
    BY <1>1, <1>19, <2>1, <2>2, DrivesOn
  <2>4. MatchesDriven'
    BY <1>12, <1>19, <2>1, <2>2
  <2> QED  BY <2>3, <2>4
<1>20. ASSUME NEW p \in Programs, LookUp(p) PROVE SessionsDrive' /\ MatchesDriven'
  <2>1. todo[p] # <<>> /\ UNCHANGED <<db, tx, over, phase, loops, lost, stopped>>
    BY <1>20 DEF LookUp, At, history
  <2>2. PICK prog :
           /\ todo' = [todo EXCEPT ![p] = prog]
           /\ \/ todo[p][1].do = "unless" /\ prog = <<>>
              \/ todo[p][1].do \in {"unless", "absent", "ensure"} /\ prog = Tail(todo[p])
              \/ todo[p][1].do = "absent" /\ prog = About("insert", todo[p][1].rows) \o Tail(todo[p])
              \/ /\ todo[p][1].do = "ensure" /\ todo[p][1].key \in Names
                 /\ prog = Account(todo[p][1].key) \o Tail(todo[p])
    BY <1>1, <1>20, LookedUp
  <2>3. CASE todo[p][1].do = "unless" /\ prog = <<>>
    <3>1. PICK old \in Seq(Statements) : old = todo[p] /\ ProgramOK(old) /\ old # <<>> /\ old[1].do = "unless"
      BY <1>1, <1>13, <2>1, <2>3, AtHead
    <3>2. tx[p] = {}
      BY <1>13, <2>1, <2>3, NothingFlushed
    <3>3. 1 \in 1 .. Len(old)
      BY <3>1
    <3>4. Free(old, {"next", "drive"})
      BY <3>1, <3>3 DEF ProgramOK, StatementOK, Free
    <3>5. Ends(todo[p]) = {} /\ ~ Demo(todo[p])
      BY <3>1, <3>4, NoDriveEnds
    <3>6. DrivesOK(prog, tx[p], p = "boot" /\ phase' = "seed")
      BY <2>3, <3>2, NothingDriven
    <3>7. SessionsDrive'
      BY <1>1, <2>1, <2>2, <3>6, DrivesOn
    <3>8. MatchesDriven'
      BY <1>12, <2>1, <2>2, <3>5, LiveSame
    <3> QED  BY <3>7, <3>8
  <2>4. CASE todo[p][1].do \in {"unless", "absent", "ensure"} /\ prog = Tail(todo[p])
    BY <1>19, <2>1, <2>2, <2>4, LiveSame
  <2>5. CASE todo[p][1].do = "absent" /\ prog = About("insert", todo[p][1].rows) \o Tail(todo[p])
    <3>1. PICK st \in Statements : st = todo[p][1] /\ st.do = "absent"
      BY <1>13, <2>1, <2>5
    <3>2. \A row \in st.rows : row.table # "match_states"
      <4>1. PICK old \in Seq(Statements) : old = todo[p] /\ ProgramOK(old) /\ old # <<>>
        BY <1>1, <1>13, <2>1, AtHead
      <4>2. 1 \in 1 .. Len(old)
        BY <4>1
      <4> QED  BY <3>1, <4>1, <4>2 DEF ProgramOK, StatementOK
    <3>3. PICK piece : piece = About("insert", st.rows)
      OBVIOUS
    <3>4. piece \in Seq(Statements) /\ Len(piece) = 1 /\ piece[1].do = "insert" /\ piece[1].rows = st.rows
      <4>1. st.rows \in SUBSET TableRows
        BY <3>1 DEF Statements
      <4> QED  BY <3>3, <4>1, OneStatement DEF Verbs
    <3>5. ToSet(piece) = {piece[1]}
      BY <3>4 DEF ToSet
    <3>6. \A x \in ToSet(piece) : x.do # "drive" /\ Starts(x, Ends(todo[p]))
      BY <3>2, <3>4, <3>5 DEF Starts
    <3> QED  BY <1>18, <2>1, <2>2, <2>5, <3>1, <3>3, <3>4, <3>6
  <2>6. CASE /\ todo[p][1].do = "ensure" /\ todo[p][1].key \in Names
             /\ prog = Account(todo[p][1].key) \o Tail(todo[p])
    <3>1. PICK key \in Names : key = todo[p][1].key
      BY <2>6
    <3>2. PICK piece : piece = Account(key)
      OBVIOUS
    <3>3. piece \in Seq(Statements) /\ \A x \in ToSet(piece) : x.do # "drive" /\ Starts(x, Ends(todo[p]))
      BY <3>2, Pieces DEF Starts, Row
    <3> QED  BY <1>18, <2>1, <2>2, <2>6, <3>1, <3>2, <3>3
  <2> QED  BY <2>2, <2>3, <2>4, <2>5, <2>6
<1>21. ASSUME NEW p \in Programs, Start(p) PROVE SessionsDrive' /\ MatchesDriven'
  <2>1. todo[p] # <<>> /\ UNCHANGED <<db, tx, over, phase, loops, lost, stopped>>
    BY <1>21 DEF Start, At, history
  <2>2. PICK prog : \E ev \in Names :
           /\ todo' = [todo EXCEPT ![p] = prog] /\ todo[p][1].do = "start" /\ todo[p][1].key = ev
           /\ prog = Tail(todo[p]) \/ prog = Again(ev) \o Tail(todo[p]) \/ prog = Anew(ev) \o Tail(todo[p])
    BY <1>1, <1>21, Started
  <2>3. PICK ev \in Names :
           /\ todo' = [todo EXCEPT ![p] = prog] /\ todo[p][1].do = "start" /\ todo[p][1].key = ev
           /\ prog = Tail(todo[p]) \/ prog = Again(ev) \o Tail(todo[p]) \/ prog = Anew(ev) \o Tail(todo[p])
    BY <2>2
  <2>4. ~ (p = "boot" /\ phase = "seed") => ev \in Ends(todo[p])
    BY <1>15, <2>1, <2>3
  <2>5. /\ Anew(ev) \in Seq(Statements)
        /\ \A st \in ToSet(Anew(ev)) : st.do # "drive" /\ ((p = "boot" /\ phase = "seed") \/ Starts(st, Ends(todo[p])))
    BY <2>4, Pieces DEF Starts, Match, Row
  <2>6. /\ Again(ev) \in Seq(Statements)
        /\ \A st \in ToSet(Again(ev)) : st.do # "drive" /\ ((p = "boot" /\ phase = "seed") \/ Starts(st, Ends(todo[p])))
    BY <2>4, Pieces DEF Starts
  <2>7. CASE prog = Tail(todo[p])
    BY <1>19, <2>1, <2>3, <2>7, LiveSame
  <2>8. CASE prog = Again(ev) \o Tail(todo[p])
    BY <1>18, <2>1, <2>3, <2>6, <2>8
  <2>9. CASE prog = Anew(ev) \o Tail(todo[p])
    BY <1>18, <2>1, <2>3, <2>5, <2>9
  <2> QED  BY <2>3, <2>7, <2>8, <2>9
<1>22. ASSUME NEW p \in Programs, StartAgain(p) PROVE SessionsDrive' /\ MatchesDriven'
  <2>1. /\ todo[p] # <<>> /\ UNCHANGED <<db, tx, phase, loops, lost, stopped>> /\ Head(todo[p]).do = "again"
        /\ todo' = [todo EXCEPT ![p] = Rest(p)] /\ over' = over \ {Key(p)}
    BY <1>22 DEF StartAgain, At, history, Goto
  <2>2. todo[p][1].do = "again" /\ todo' = [todo EXCEPT ![p] = Tail(todo[p])] /\ Key(p) = todo[p][1].key
    BY <1>13, <2>1 DEF Key
  <2>3. phase # "seed" => Key(p) \in Ends(todo[p])
    BY <1>15, <2>1, <2>2
  <2>4. Live' \subseteq Live \cup {Key(p)}
    BY <2>1 DEF Live
  <2>5. phase # "seed" => Live' \subseteq Live \cup Ends(todo[p])
    BY <2>3, <2>4
  <2> QED  BY <1>19, <2>1, <2>2, <2>5
<1>23. ASSUME NEW p \in Programs, Drive(p) PROVE SessionsDrive' /\ MatchesDriven'
  <2>1. /\ todo[p] # <<>> /\ UNCHANGED <<db, tx, over, phase, lost, stopped>> /\ Head(todo[p]).do = "drive"
        /\ todo' = [todo EXCEPT ![p] = Rest(p)] /\ loops' = loops \cup {Key(p)}
    BY <1>23 DEF Drive, At, history, Goto
  <2>2. todo[p][1].do = "drive" /\ Rest(p) = Tail(todo[p]) /\ Key(p) = todo[p][1].key
    BY <1>13, <2>1 DEF Key
  <2>3. tx[p] = {} /\ Tail(todo[p]) = <<>> /\ Ends(todo[p]) \subseteq {Key(p)}
    <3>1. PICK old, t : old = todo[p] /\ t = tx[p]
      OBVIOUS
    <3>2. SessionOK(p, t, old) /\ old # <<>> /\ old[1].do = "drive"
      BY <1>13, <2>1, <2>2, <3>1
    <3> QED  BY <2>2, <3>1, <3>2, DriveLast
  <2>4. todo' = [todo EXCEPT ![p] = <<>>]
    BY <2>1, <2>2, <2>3
  <2>5. phase # "seed"
    BY <1>2, <1>13, <2>1, <2>2 DEF PhaseInv
  <2>6. phase \in {"lifespan", "up"}
    BY <1>2, <2>1, <2>5
  <2>7. SessionsDrive'
    BY <1>1, <2>1, <2>3, <2>4, NothingDriven, DrivesOn
  <2>8. Live' = Live
    BY <2>1, LiveSame
  <2>9. MatchesDriven'
    BY <1>1, <2>1, <2>3, <2>4, <2>6, <2>8, DrivenOn
  <2> QED  BY <2>7, <2>9
<1>24. ASSUME NEW p \in Programs, StartNext(p) PROVE SessionsDrive' /\ MatchesDriven'
  <2>1. todo[p] # <<>> /\ UNCHANGED <<db, tx, over, phase, loops, lost, stopped>>
    BY <1>24 DEF StartNext, At, history
  <2>2. /\ tx[p] = {} /\ todo[p][1].do = "next"
        /\ \/ ~ (Needed \subseteq RowsIn(db))
           \/ \E ev \in Names : todo' = [todo EXCEPT ![p] = NextMatch(ev)]
    BY <1>1, <1>24, NextStarted
  <2>3. phase # "seed"
    BY <1>2, <1>13, <2>1, <2>2 DEF PhaseInv
  <2>4. phase \in {"lifespan", "up"}
    BY <1>2, <2>1, <2>3
  <2>5. PICK ev \in Names : todo' = [todo EXCEPT ![p] = NextMatch(ev)]
    BY <2>2, <2>4 DEF SeedInv
  <2>6. PICK prog : prog = NextMatch(ev)
    OBVIOUS
  <2>7. Demo(prog) /\ \A any : DrivesOK(prog, {}, any)
    BY <2>6, StartDrives
  <2>8. Ends(todo[p]) = {}
    BY <1>13, <2>1, <2>2, DriveLast
  <2>9. SessionsDrive'
    BY <1>1, <2>1, <2>2, <2>5, <2>6, <2>7, DrivesOn
  <2>10. MatchesDriven'
    BY <1>12, <2>1, <2>5, <2>6, <2>7, <2>8, LiveSame
  <2> QED  BY <2>9, <2>10
<1>25. CASE UNCHANGED vars
  <2>1. UNCHANGED <<db, tx, todo, over, phase, loops, lost, stopped>>
    BY <1>25 DEF vars
  <2>2. Live' = Live
    BY <2>1, LiveSame
  <2> QED  BY <2>1, <2>2 DEF SessionsDrive, MatchesDriven
<1> QED
  BY <1>4, <1>5, <1>6, <1>7, <1>8, <1>9, <1>10, <1>11, <1>16, <1>17, <1>20, <1>21, <1>22, <1>23, <1>24, <1>25
  DEF Next, InsertRaises, Fault, At

\* At first there is no match.
LEMMA DriveInit == Init => SessionsDrive /\ MatchesDriven
<1> SUFFICES ASSUME Init PROVE SessionsDrive /\ MatchesDriven
  OBVIOUS
<1>1. \A p \in Programs : tx[p] = {} /\ todo[p] = <<>>
  BY DEF Init
<1> QED  BY <1>1, NothingDriven DEF Init, SessionsDrive, MatchesDriven

\* The inductive invariant of Boot holds in every reachable state.
THEOREM BootHolds == Spec => []BootInv
<1>1. Init => FlushedInv /\ PhaseInv /\ SeedInv /\ SessionsDrive /\ MatchesDriven
  BY FlushedInit, SeedInit, DriveInit
<1>2. FlushedInv /\ PhaseInv /\ SeedInv /\ SessionsDrive /\ MatchesDriven /\ [Next]_vars
        => (FlushedInv /\ PhaseInv /\ SeedInv /\ SessionsDrive /\ MatchesDriven)'
  BY FlushedStep, PhaseStep, SeedStep, DriveStep
<1>3. FlushedInv /\ PhaseInv /\ SeedInv /\ SessionsDrive /\ MatchesDriven => BootInv
  BY DriveParts DEF BootInv
<1> QED  BY <1>1, <1>2, <1>3, PTL DEF Spec

\* While the server is up a LIVE match has its loop or is being started, unless its
\* start died after committing it; and there is something live, unless a start died
\* or an admin finished a match.
THEOREM LiveDriven == Spec => []LiveIsDriven
<1>1. BootInv => LiveIsDriven
  BY DEF BootInv, DriveInv, LiveIsDriven
<1> QED  BY <1>1, BootHolds, PTL

=============================================================================
