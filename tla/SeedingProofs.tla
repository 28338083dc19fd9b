---------------------------- MODULE SeedingProofs ----------------------------
(***************************************************************************)
(* What the maintenance commands leave is sound, for any number of them    *)
(* and of failures: by the time a batch is written the rows that it refers *)
(* to are there, a batch that throws leaves no row without those it refers *)
(* to in the batch, and a TRUNCATE takes whatever refers to what it takes. *)
(* And topologicalSort ends and puts what refers before what it refers to, *)
(* so that a clean's cascades find empty tables.                           *)
(* Of the data the proofs know PlanAssumption alone, of the references of  *)
(* the tables DepthAssumption; both are about constants of the module, and *)
(* TLC evaluates them as they stand.                                       *)
(***************************************************************************)
EXTENDS Seeding, FiniteSetTheorems, SequenceTheorems, TLAPS

\* The number of the copy of a row that goes with copy n of another.
CopyFor(r, n) == IF TableOf(r) \in TablesAgain THEN n ELSE 0

\* A copy of a row is in a table of ts, and so are the rows it refers to.
CopySound(copy, rows, ts) ==
    /\ TableOf(copy[1]) \in ts
    /\ TableOf(copy[1]) \notin TablesAgain => copy[2] = 0
    /\ \A r \in NeededBy(copy[1]) :
          /\ TableOf(r) \in Parents(TableOf(copy[1]))
          /\ TableOf(r) \in ts => <<r, CopyFor(r, copy[2])>> \in rows

RowsSound(rows, ts, n) ==
    /\ rows \subseteq Rows \X (0..n)
    /\ \A copy \in rows : CopySound(copy, rows, ts)

\* What the batches of run n before batch i write is there.
WrittenUpTo(i, rows, n) ==
    \A j \in Batches : j < i =>
        \A r \in RowsOf(Plan[j].entries) : <<r, CopyFor(r, n)>> \in rows

SeedInv ==
    /\ commands \in 0..MaxCommands
    /\ schema \subseteq Tables
    /\ step \in Batches \cup {0}
    /\ step \in Batches => /\ command # "none" /\ todo = << >>
                           /\ WrittenUpTo(step, db, commands)
    /\ RowsSound(db, schema, commands)

-----------------------------------------------------------------------------
(* The cascade *)

\* ts has, of the tables down to depth n, all that refer to one of ts.
ClosedTo(n, ts) ==
    \A u \in schema : Depth[u] <= n /\ Parents(u) \cap ts # {} => u \in ts

LEMMA OneDeeper ==
  ASSUME schema \subseteq Tables, NEW n \in Nat, NEW ts, ClosedTo(n, ts)
  PROVE  ClosedTo(n + 1, WithReferring(ts))
  <1> DEFINE ws == WithReferring(ts)
  <1> SUFFICES ASSUME NEW u \in schema, Depth[u] <= n + 1, Parents(u) \cap ws # {}
               PROVE  u \in ws
    BY DEF ClosedTo
  <1>1. PICK v \in Parents(u) : v \in ws
    OBVIOUS
  <1>2. CASE v \in ts
    BY <1>1, <1>2 DEF WithReferring
  <1>3. CASE v \notin ts
    <2>1. v \in schema /\ Parents(v) \cap ts # {}
      BY <1>1, <1>3 DEF WithReferring
    <2>2. CASE v = u
      BY <2>1, <2>2 DEF WithReferring
    <2>3. CASE v # u
      <3>1. Depth[v] < Depth[u] /\ Depth[v] \in 1..8 /\ Depth[u] \in 1..8
        BY <1>1, <2>1, <2>3, DepthAssumption
      <3>2. Depth[v] <= n
        BY <3>1
      <3> QED BY <1>3, <2>1, <3>2 DEF ClosedTo
    <2> QED BY <2>2, <2>3
  <1> QED BY <1>2, <1>3

LEMMA FourDeeper ==
  ASSUME schema \subseteq Tables, NEW n \in Nat, NEW ts, ClosedTo(n, ts)
  PROVE  ClosedTo(n + 4, FourDeep(ts))
  <1>1. ClosedTo(n + 1, WithReferring(ts))
    BY OneDeeper
  <1>2. ClosedTo((n + 1) + 1, WithReferring(WithReferring(ts)))
    BY <1>1, OneDeeper
  <1>3. ClosedTo(((n + 1) + 1) + 1, WithReferring(WithReferring(WithReferring(ts))))
    BY <1>2, OneDeeper
  <1>4. ClosedTo((((n + 1) + 1) + 1) + 1, FourDeep(ts))
    BY <1>3, OneDeeper DEF FourDeep
  <1>5. (((n + 1) + 1) + 1) + 1 = n + 4
    OBVIOUS
  <1> QED BY <1>4, <1>5

\* A table of the schema that refers to one that the cascade reaches is reached.
LEMMA CascadeIsClosed ==
  ASSUME schema \subseteq Tables, NEW ts, NEW u \in schema,
         Parents(u) \cap CascadesTo(ts) # {}
  PROVE  u \in CascadesTo(ts)
  <1>1. ClosedTo(0, ts)
    BY DepthAssumption DEF ClosedTo
  <1>2. ClosedTo(0 + 4, FourDeep(ts))
    BY <1>1, FourDeeper
  <1>3. ClosedTo((0 + 4) + 4, FourDeep(FourDeep(ts)))
    BY <1>2, FourDeeper
  <1>4. ClosedTo(8, CascadesTo(ts))
    BY <1>3 DEF CascadesTo
  <1>5. Depth[u] <= 8
    BY DepthAssumption
  <1> QED BY <1>4, <1>5 DEF ClosedTo

-----------------------------------------------------------------------------
(* Writing a batch *)

\* The entries es of the batch a seeding is at, with those they refer to.
LEMMA BatchSound ==
  ASSUME SeedInv, step \in Batches, NEW es \in SUBSET Plan[step].entries, Tabled(es),
         \A e \in es : \A f \in Plan[step].entries : f.row \in e.of => f \in es,
         Written(Plan[step], es)
  PROVE  /\ db \subseteq db'
         /\ \A r \in RowsOf(es) : <<r, CopyFor(r, commands)>> \in db'
         /\ RowsSound(db', schema, commands)
  <1> DEFINE b == Plan[step]
  <1>1. /\ commands \in Nat /\ RowsSound(db, schema, commands)
        /\ WrittenUpTo(step, db, commands)
    BY SeedingAssumption DEF SeedInv
  <1>2. db' = db \cup (IF b.again THEN RowsOf(es) \X {commands}
                       ELSE {r \in RowsOf(es) : ~Has(r)} \X {0})
    BY DEF Written
  <1>3. \A e \in es : /\ TableOf(e.row) \in schema
                      /\ e.row \in Rows
                      /\ b.again <=> TableOf(e.row) \in TablesAgain
    <2>1. \A e \in es : e.row \in RowsOf(es) /\ e \in Entries
      BY DEF RowsOf, Entries
    <2>2. \A e \in es : e.row \in Rows
      BY <2>1 DEF Rows, RowsOf
    <2> QED BY <2>1, <2>2, PlanAssumption DEF Tabled
  <1>4. ASSUME NEW r, Has(r), TableOf(r) \notin TablesAgain
        PROVE  <<r, 0>> \in db
    <2>1. PICK n \in 0..commands : <<r, n>> \in db
      BY <1>4 DEF Has
    <2>2. n = 0
      BY <1>1, <1>4, <2>1 DEF RowsSound, CopySound
    <2> QED BY <2>1, <2>2
  <1>5. ASSUME NEW r \in RowsOf(es)
        PROVE  <<r, CopyFor(r, commands)>> \in db'
    <2>1. PICK e \in es : r = e.row
      BY DEF RowsOf
    <2>2. CASE b.again
      BY <1>2, <1>3, <2>1, <2>2 DEF CopyFor
    <2>3. CASE ~b.again
      <3>1. TableOf(r) \notin TablesAgain
        BY <1>3, <2>1, <2>3
      <3>2. CASE Has(r)
        BY <1>2, <1>4, <3>1, <3>2 DEF CopyFor
      <3>3. CASE ~Has(r)
        BY <1>2, <2>3, <3>1, <3>3 DEF CopyFor
      <3> QED BY <3>2, <3>3
    <2> QED BY <2>2, <2>3
  <1>6. ASSUME NEW copy \in db'
        PROVE  copy \in Rows \X (0..commands) /\ CopySound(copy, db', schema)
    <2>1. CASE copy \in db
      BY <1>1, <1>2, <2>1 DEF RowsSound, CopySound
    <2>2. CASE copy \notin db
      <3>1. PICK e \in es : copy = <<e.row, CopyFor(e.row, commands)>>
        <4>1. CASE b.again
          <5>1. PICK r \in RowsOf(es) : copy = <<r, commands>>
            BY <1>2, <2>2, <4>1
          <5> QED BY <1>3, <4>1, <5>1 DEF RowsOf, CopyFor
        <4>2. CASE ~b.again
          <5>1. PICK r \in RowsOf(es) : copy = <<r, 0>>
            BY <1>2, <2>2, <4>2
          <5> QED BY <1>3, <4>2, <5>1 DEF RowsOf, CopyFor
        <4> QED BY <4>1, <4>2
      <3>2. CopyFor(e.row, commands) \in 0..commands
        BY <1>1 DEF CopyFor
      <3>3. ASSUME NEW r \in NeededBy(e.row)
            PROVE  /\ TableOf(r) \in Parents(TableOf(e.row))
                   /\ <<r, CopyFor(r, copy[2])>> \in db'
        <4>1. /\ WrittenBefore(step, e, r)
              /\ TableOf(r) \in Parents(TableOf(e.row))
              /\ TableOf(r) \in TablesAgain => b.again
          BY PlanAssumption
        <4>2. CopyFor(r, copy[2]) = CopyFor(r, commands)
          BY <1>3, <3>1, <4>1 DEF CopyFor
        <4>3. <<r, CopyFor(r, commands)>> \in db'
          <5>1. CASE r \in e.of /\ \E f \in b.entries : f.row = r
            <6>1. r \in RowsOf(es)
              BY <5>1 DEF RowsOf
            <6> QED BY <1>5, <6>1
          <5>2. CASE \E j \in 1..(step - 1) : r \in RowsOf(Plan[j].entries)
            <6>1. PICK j \in 1..(step - 1) : r \in RowsOf(Plan[j].entries)
              BY <5>2
            <6>2. Len(Plan) \in Nat
              BY PlanAssumption
            <6>3. j \in Batches /\ j < step
              BY <6>1, <6>2, PlanAssumption
            <6> QED BY <1>1, <1>2, <6>1, <6>3 DEF WrittenUpTo
          <5> QED BY <4>1, <5>1, <5>2 DEF WrittenBefore
        <4> QED BY <4>1, <4>2, <4>3
      <3> QED BY <1>3, <3>1, <3>2, <3>3 DEF CopySound, CopyFor
    <2> QED BY <2>1, <2>2
  <1> QED BY <1>2, <1>5, <1>6 DEF RowsSound

-----------------------------------------------------------------------------
(* Taking rows away *)

LEMMA CleanedSound ==
  ASSUME SeedInv, NEW ts
  PROVE  RowsSound(Outside(CascadesTo(ts)), schema, commands)
  <1>1. RowsSound(db, schema, commands) /\ schema \subseteq Tables
    BY DEF SeedInv
  <1> DEFINE rows == Outside(CascadesTo(ts))
  <1>2. \A copy : copy \in rows <=> copy \in db /\ TableOf(copy[1]) \notin CascadesTo(ts)
    BY DEF Outside
  <1>3. ASSUME NEW copy \in rows PROVE CopySound(copy, rows, schema)
    <2>1. CopySound(copy, db, schema) /\ TableOf(copy[1]) \notin CascadesTo(ts)
      BY <1>1, <1>2 DEF RowsSound
    <2>2. ASSUME NEW r \in NeededBy(copy[1]), TableOf(r) \in schema
          PROVE  <<r, CopyFor(r, copy[2])>> \in rows
      <3>1. /\ <<r, CopyFor(r, copy[2])>> \in db
            /\ TableOf(r) \in Parents(TableOf(copy[1])) /\ TableOf(copy[1]) \in schema
        BY <2>1, <2>2 DEF CopySound
      <3>2. TableOf(r) \notin CascadesTo(ts)
        BY <1>1, <2>1, <3>1, CascadeIsClosed
      <3> QED BY <1>2, <3>1, <3>2
    <2> QED BY <2>1, <2>2 DEF CopySound
  <1> HIDE DEF rows
  <1>4. RowsSound(rows, schema, commands)
    BY <1>1, <1>2, <1>3 DEF RowsSound
  <1> QED BY <1>4 DEF rows

LEMMA DroppedSound ==
  ASSUME SeedInv, NEW t
  PROVE  RowsSound(Outside({t}), schema \ {t}, commands)
  <1>1. RowsSound(db, schema, commands)
    BY DEF SeedInv
  <1> DEFINE rows == Outside({t})
  <1>2. \A copy : copy \in rows <=> copy \in db /\ TableOf(copy[1]) # t
    BY DEF Outside
  <1>3. ASSUME NEW copy \in rows PROVE CopySound(copy, rows, schema \ {t})
    BY <1>1, <1>2 DEF RowsSound, CopySound
  <1> HIDE DEF rows
  <1>4. RowsSound(rows, schema \ {t}, commands)
    BY <1>1, <1>2, <1>3 DEF RowsSound
  <1> QED BY <1>4 DEF rows

-----------------------------------------------------------------------------
(* The invariant *)

LEMMA SeedStart == SeedInit => SeedInv
  <1> SUFFICES ASSUME SeedInit PROVE SeedInv
    OBVIOUS
  <1>1. /\ db = {<<Migrations, 0>>} /\ schema = Tables /\ step = 0 /\ commands = 0
    BY DEF SeedInit
  <1>2. 0 \notin Batches
    BY PlanAssumption
  <1>3. Migrations \in Rows
    BY DEF Rows
  <1>4. RowsSound(db, schema, commands)
    BY <1>1, <1>3, PlanAssumption DEF RowsSound, CopySound
  <1> QED BY <1>1, <1>2, <1>4, SeedingAssumption DEF SeedInv

\* A step that is not a batch's leaves no seeding at a batch but the first.
LEMMA NoBatch ==
  ASSUME SeedInv, commands' \in 0..MaxCommands, schema' \subseteq Tables,
         step' \in {0, 1}, step' = 1 => command' # "none" /\ todo' = << >>,
         RowsSound(db', schema', commands')
  PROVE  SeedInv'
  <1>1. 1 \in Batches
    BY PlanAssumption
  <1>2. 0 \notin Batches
    BY PlanAssumption
  <1>3. \A rows, n : WrittenUpTo(1, rows, n)
    BY PlanAssumption DEF WrittenUpTo
  <1> QED BY <1>1, <1>2, <1>3 DEF SeedInv

LEMMA SeedStep ==
  ASSUME SeedInv, [SeedNext]_seedVars
  PROVE  SeedInv'
  <1>1. /\ commands \in 0..MaxCommands /\ MaxCommands \in Nat /\ schema \subseteq Tables
        /\ step \in Batches \cup {0}
        /\ step \in Batches => command # "none" /\ todo = << >>
        /\ RowsSound(db, schema, commands)
    BY SeedingAssumption DEF SeedInv
  <1>2. CASE Start
    <2>1. /\ command = "none" /\ commands' = commands + 1 /\ commands < MaxCommands
          /\ UNCHANGED <<db, schema>>
      BY <1>2 DEF Start
    <2>2. /\ step' \in {0, 1}
          /\ step' = 1 => command' # "none" /\ todo' = << >>
      BY <1>1, <1>2, <2>1 DEF Start, Ends, Commands
    <2>3. RowsSound(db, schema, commands + 1)
      BY <1>1 DEF RowsSound
    <2> QED BY <1>1, <2>1, <2>2, <2>3, NoBatch
  <1>3. CASE SeedBatch
    <2>1. /\ step \in Batches /\ step < Len(Plan) /\ Tabled(Plan[step].entries)
          /\ Written(Plan[step], Plan[step].entries) /\ step' = step + 1
          /\ UNCHANGED <<schema, command, todo, commands>>
      BY <1>3 DEF SeedBatch, Seeding
    <2>2. /\ db \subseteq db' /\ RowsSound(db', schema, commands)
          /\ \A r \in RowsOf(Plan[step].entries) : <<r, CopyFor(r, commands)>> \in db'
      BY <2>1, BatchSound
    <2>3. step + 1 \in Batches /\ step \in Nat
      BY <2>1, PlanAssumption, PlanAssumption
    <2>4. WrittenUpTo(step + 1, db', commands)
      <3> SUFFICES ASSUME NEW j \in Batches, j < step + 1,
                          NEW r \in RowsOf(Plan[j].entries)
                   PROVE  <<r, CopyFor(r, commands)>> \in db'
        BY DEF WrittenUpTo
      <3>1. j < step \/ j = step
        BY <2>3, PlanAssumption
      <3> QED BY <2>1, <2>2, <3>1 DEF SeedInv, WrittenUpTo
    <2> QED BY <1>1, <2>1, <2>2, <2>3, <2>4 DEF SeedInv
  <1>4. CASE SeedThrows
    <2>1. /\ step \in Batches /\ step' = 0
          /\ UNCHANGED <<schema, commands>>
      BY <1>4 DEF SeedThrows, Seeding, Ends
    <2>2. PICK es \in Partial(Plan[step]) : Written(Plan[step], es)
      BY <1>4 DEF SeedThrows
    <2>3. RowsSound(db', schema, commands)
      BY <2>1, <2>2, BatchSound DEF Partial
    <2> QED BY <1>1, <2>1, <2>3, NoBatch
  <1>5. ASSUME todo # << >>, DeletesOn \/ Ends
        PROVE  /\ step' \in {0, 1}
               /\ step' = 1 => command' # "none" /\ todo' = << >>
    BY <1>1, <1>5 DEF DeletesOn, Ends
  <1>6. CASE CleanupTableData
    <2>1. /\ todo # << >> /\ DeletesOn /\ UNCHANGED <<schema, commands>>
          /\ db' = Outside(CascadesTo({Head(todo)}))
      BY <1>6 DEF CleanupTableData, Deleting
    <2> QED BY <1>1, <1>5, <2>1, CleanedSound, NoBatch
  <1>7. CASE DropTable
    <2>1. /\ todo # << >> /\ DeletesOn /\ UNCHANGED commands
          /\ schema' = schema \ {Head(todo)} /\ db' = Outside({Head(todo)})
      BY <1>7 DEF DropTable, Deleting
    <2> QED BY <1>1, <1>5, <2>1, DroppedSound, NoBatch
  <1>8. CASE CleanupFails \/ DropFails \/ Interrupted
    <2>1. /\ todo # << >>
          /\ DeletesOn \/ Ends
          /\ UNCHANGED <<db, schema, commands>>
      BY <1>8 DEF CleanupFails, DropFails, Interrupted, Deleting
    <2> QED BY <1>1, <1>5, <2>1, NoBatch
  <1>9. CASE UNCHANGED seedVars
    BY <1>9 DEF seedVars, SeedInv
  <1> QED BY <1>2, <1>3, <1>4, <1>6, <1>7, <1>8, <1>9 DEF SeedNext

-----------------------------------------------------------------------------
(* The recursion of topologicalSort: it ends, whatever graph it is given *)

Seens(T) == [visited : SUBSET T, result : Seq(T)]
Visits(T) == Seq(T) \X Seens(T)

\* One call, with f for the calls that it makes.
OneVisit(deps, f) ==
    [p \in Visits(DOMAIN deps) |->
        LET ts == p[1]
            seen == p[2]
            inner == f[<<deps[Head(ts)], Entered(seen, Head(ts))>>]
        IN  IF ts = << >> THEN seen
            ELSE IF Head(ts) \in seen.visited THEN f[<<Tail(ts), seen>>]
            ELSE f[<<Tail(ts), Left(inner, Head(ts))>>]]

LEMMA VisitAllIs ==
  \A deps : VisitAll(deps) = CHOOSE f : f = OneVisit(deps, f)
  BY DEF VisitAll, OneVisit, Visits, Seens

LEMMA VisitAllSolves ==
  ASSUME NEW deps, NEW f, f = OneVisit(deps, f)
  PROVE  VisitAll(deps) = OneVisit(deps, VisitAll(deps))
  BY VisitAllIs

LEMMA SmallestNat ==
  ASSUME NEW N \in SUBSET Nat, N # {}
  PROVE  \E n \in N : \A k \in N : n <= k
  <1> DEFINE R == {ss \in Nat \X Nat : ss[1] < ss[2]}
  <1>1. IsWellFoundedOn(R, Nat)
    BY NatLessThanWellFounded, Zenon DEF OpToRel
  <1>2. \A k, n \in Nat : k < n => <<k, n>> \in R
    OBVIOUS
  <1> HIDE DEF R
  <1>3. \E n \in N : \A k \in N : ~ (<<k, n>> \in R)
    BY <1>1, WFMin
  <1>4. PICK n \in N : \A k \in N : ~ (<<k, n>> \in R)
    BY <1>3
  <1>5. \A k \in N : n <= k
    <2> SUFFICES ASSUME NEW k \in N, ~(n <= k) PROVE FALSE
      OBVIOUS
    <2>1. k \in Nat /\ n \in Nat /\ k < n
      OBVIOUS
    <2>2. <<k, n>> \in R
      BY <1>2, <2>1
    <2> QED BY <1>4, <2>2
  <1> QED BY <1>5

\* How much a call has before it: first what is not visited, then its list.
Remaining(T, p) == Cardinality(T \ p[2].visited)

Before(T, q, p) ==
    \/ Remaining(T, q) < Remaining(T, p)
    \/ Remaining(T, q) = Remaining(T, p) /\ Len(q[1]) < Len(p[1])

LEMMA RemainingNat ==
  ASSUME NEW T, IsFiniteSet(T), NEW p \in Visits(T)
  PROVE  Remaining(T, p) \in Nat /\ Len(p[1]) \in Nat
  BY FS_Difference, FS_CardinalityType, LenProperties DEF Visits, Remaining

\* A set of calls has one before which there is none of them.
LEMMA FirstVisit ==
  ASSUME NEW T, IsFiniteSet(T), NEW P \in SUBSET Visits(T), P # {}
  PROVE  \E p \in P : \A q \in P : ~Before(T, q, p)
  <1> DEFINE N == {Remaining(T, p) : p \in P}
  <1>1. N \in SUBSET Nat /\ N # {}
    BY RemainingNat
  <1>2. PICK n \in N : \A k \in N : n <= k
    BY <1>1, SmallestNat
  <1> DEFINE M == {Len(p[1]) : p \in {q \in P : Remaining(T, q) = n}}
  <1>3. M \in SUBSET Nat /\ M # {}
    BY RemainingNat
  <1>4. PICK m \in M : \A k \in M : m <= k
    BY <1>3, SmallestNat
  <1>5. PICK p \in P : Remaining(T, p) = n /\ Len(p[1]) = m
    OBVIOUS
  <1>6. ASSUME NEW q \in P PROVE ~Before(T, q, p)
    <2>1. n <= Remaining(T, q) /\ (Remaining(T, q) = n => m <= Len(q[1]))
      BY <1>2, <1>4
    <2>2. {Remaining(T, p), Remaining(T, q), Len(p[1]), Len(q[1])} \subseteq Nat
      BY RemainingNat
    <2> QED BY <1>5, <2>1, <2>2 DEF Before
  <1> QED BY <1>6

\* The calls that a call makes come after it.
LEMMA MoreVisited ==
  ASSUME NEW T, IsFiniteSet(T), NEW p \in Visits(T), NEW q \in Visits(T),
         p[2].visited \subseteq q[2].visited,
         \/ p[2].visited # q[2].visited
         \/ Len(q[1]) < Len(p[1])
  PROVE  Before(T, q, p)
  <1> DEFINE A == T \ p[2].visited
             B == T \ q[2].visited
  <1>1. IsFiniteSet(A) /\ B \in SUBSET A
    BY FS_Difference
  <1>2. Cardinality(B) <= Cardinality(A) /\ (Cardinality(A) = Cardinality(B) => A = B)
    BY <1>1, FS_Subset
  <1>3. p[2].visited \subseteq T /\ q[2].visited \subseteq T
    BY DEF Visits, Seens
  <1>4. CASE p[2].visited # q[2].visited
    <2>1. A # B
      BY <1>3, <1>4
    <2>2. Remaining(T, p) \in Nat /\ Remaining(T, q) \in Nat
      BY RemainingNat
    <2> QED BY <1>2, <2>1, <2>2 DEF Before, Remaining
  <1>5. CASE p[2].visited = q[2].visited
    BY <1>5 DEF Before, Remaining
  <1> QED BY <1>4, <1>5

\* The calls that a call makes: each has less before it.
LEMMA NextVisits ==
  ASSUME NEW T, IsFiniteSet(T), NEW deps \in [T -> Seq(T)],
         NEW p \in Visits(T), p[1] # << >>
  PROVE  /\ Head(p[1]) \in T
         /\ /\ <<Tail(p[1]), p[2]>> \in Visits(T)
            /\ Before(T, <<Tail(p[1]), p[2]>>, p)
         /\ Head(p[1]) \notin p[2].visited =>
              /\ /\ <<deps[Head(p[1])], Entered(p[2], Head(p[1]))>> \in Visits(T)
                 /\ Before(T, <<deps[Head(p[1])], Entered(p[2], Head(p[1]))>>, p)
              /\ \A i \in Seens(T) : p[2].visited \cup {Head(p[1])} \subseteq i.visited =>
                   /\ <<Tail(p[1]), Left(i, Head(p[1]))>> \in Visits(T)
                   /\ Before(T, <<Tail(p[1]), Left(i, Head(p[1]))>>, p)
  <1> DEFINE t == Head(p[1])
  <1>1. /\ p[1] \in Seq(T) /\ p[2] \in Seens(T)
        /\ t \in T /\ Tail(p[1]) \in Seq(T)
        /\ Len(p[1]) \in Nat /\ Len(Tail(p[1])) = Len(p[1]) - 1
    BY HeadTailProperties, LenProperties DEF Visits
  <1> HIDE DEF t
  <1>2. ASSUME NEW ts \in Seq(T), NEW s \in Seens(T)
        PROVE  <<ts, s>> \in Visits(T) /\ <<ts, s>>[1] = ts /\ <<ts, s>>[2] = s
    BY DEF Visits
  <1>3. <<Tail(p[1]), p[2]>> \in Visits(T) /\ Before(T, <<Tail(p[1]), p[2]>>, p)
    <2> DEFINE q == <<Tail(p[1]), p[2]>>
    <2>1. q \in Visits(T) /\ q[1] = Tail(p[1]) /\ q[2] = p[2]
      BY <1>1, <1>2
    <2>2. Len(q[1]) < Len(p[1])
      BY <1>1, <2>1
    <2> HIDE DEF q
    <2>3. Before(T, q, p)
      BY <2>1, <2>2, MoreVisited
    <2> QED BY <2>1, <2>3 DEF q
  <1>4. ASSUME t \notin p[2].visited
        PROVE  /\ <<deps[t], Entered(p[2], t)>> \in Visits(T)
               /\ Before(T, <<deps[t], Entered(p[2], t)>>, p)
    <2>1. /\ Entered(p[2], t) \in Seens(T)
          /\ Entered(p[2], t).visited = p[2].visited \cup {t}
      BY <1>1 DEF Entered, Seens
    <2> QED BY <1>1, <1>2, <1>4, <2>1, MoreVisited
  <1>5. ASSUME t \notin p[2].visited, NEW i \in Seens(T), p[2].visited \cup {t} \subseteq i.visited
        PROVE  /\ <<Tail(p[1]), Left(i, t)>> \in Visits(T)
               /\ Before(T, <<Tail(p[1]), Left(i, t)>>, p)
    <2> DEFINE q == <<Tail(p[1]), Left(i, t)>>
    <2>1. Left(i, t) \in Seens(T) /\ Left(i, t).visited = i.visited
      <3>1. PICK s \in Seq(T) : s = Append(i.result, t)
        <4>1. i.result \in Seq(T) /\ t \in T
          BY <1>1 DEF Seens
        <4>2. Append(i.result, t) \in Seq(T)
          BY <4>1, AppendProperties
        <4> QED BY <4>2
      <3>2. Left(i, t) = [i EXCEPT !.result = s]
        BY <3>1 DEF Left
      <3> QED BY <3>1, <3>2 DEF Seens
    <2>2. q \in Visits(T) /\ q[2].visited = i.visited
      BY <1>1, <1>2, <2>1
    <2> HIDE DEF q
    <2>3. p[2].visited \subseteq q[2].visited /\ p[2].visited # q[2].visited
      BY <1>5, <2>2
    <2>4. Before(T, q, p)
      BY <2>2, <2>3, MoreVisited
    <2> QED BY <2>2, <2>4 DEF q
  <1> QED BY <1>1, <1>3, <1>4, <1>5 DEF t

\* That a call p ends with r follows from how other calls end.
Follows(deps, ends, p, r) ==
    \/ p[1] = << >> /\ r = p[2]
    \/ /\ p[1] # << >> /\ Head(p[1]) \in p[2].visited
       /\ <<<<Tail(p[1]), p[2]>>, r>> \in ends
    \/ /\ p[1] # << >> /\ Head(p[1]) \notin p[2].visited
       /\ \E i \in Seens(DOMAIN deps) :
             /\ <<<<deps[Head(p[1])], Entered(p[2], Head(p[1]))>>, i>> \in ends
             /\ <<<<Tail(p[1]), Left(i, Head(p[1]))>>, r>> \in ends

AllEnds(T) == Visits(T) \X Seens(T)

HasWhatFollows(deps, ends) ==
    \A p \in Visits(DOMAIN deps), r \in Seens(DOMAIN deps) :
        Follows(deps, ends, p, r) => <<p, r>> \in ends

\* How the calls end: what follows, and nothing else.
Ended(deps) ==
    {e \in AllEnds(DOMAIN deps) :
        \A ends \in SUBSET AllEnds(DOMAIN deps) : HasWhatFollows(deps, ends) => e \in ends}

LEMMA FollowsFromMore ==
  ASSUME NEW deps, NEW A, NEW B, A \subseteq B, NEW p, NEW r, Follows(deps, A, p, r)
  PROVE  Follows(deps, B, p, r)
  BY DEF Follows

LEMMA EndedIsWhatFollows ==
  ASSUME NEW deps, NEW p \in Visits(DOMAIN deps), NEW r \in Seens(DOMAIN deps)
  PROVE  <<p, r>> \in Ended(deps) <=> Follows(deps, Ended(deps), p, r)
  <1> DEFINE T == DOMAIN deps
  <1>1. ASSUME NEW q \in Visits(T), NEW s \in Seens(T), Follows(deps, Ended(deps), q, s)
        PROVE  <<q, s>> \in Ended(deps)
    <2>1. ASSUME NEW ends \in SUBSET AllEnds(T), HasWhatFollows(deps, ends)
          PROVE  <<q, s>> \in ends
      <3>1. Ended(deps) \subseteq ends
        BY <2>1 DEF Ended
      <3>2. Follows(deps, ends, q, s)
        BY <1>1, <3>1, FollowsFromMore
      <3> QED BY <2>1, <3>2 DEF HasWhatFollows
    <2>2. <<q, s>> \in AllEnds(T)
      BY DEF AllEnds
    <2> QED BY <2>1, <2>2 DEF Ended
  <1>2. ASSUME <<p, r>> \in Ended(deps)
        PROVE  Follows(deps, Ended(deps), p, r)
    <2> DEFINE E == {e \in Ended(deps) : Follows(deps, Ended(deps), e[1], e[2])}
    <2>1. HasWhatFollows(deps, E)
      <3> SUFFICES ASSUME NEW q \in Visits(T), NEW s \in Seens(T), Follows(deps, E, q, s)
                   PROVE  <<q, s>> \in E
        BY DEF HasWhatFollows
      <3>1. Follows(deps, Ended(deps), q, s)
        BY FollowsFromMore
      <3> QED BY <1>1, <3>1
    <2>2. E \in SUBSET AllEnds(T)
      BY DEF Ended
    <2>3. <<p, r>> \in E
      <3> HIDE DEF E
      <3> QED BY <1>2, <2>1, <2>2 DEF Ended
    <2> QED BY <2>3
  <1> QED BY <1>1, <1>2

\* Each call ends, in one way, with all that was visited before it.
EndsOnce(deps, p, r) ==
    /\ p[2].visited \subseteq r.visited
    /\ \A s \in Seens(DOMAIN deps) : <<p, s>> \in Ended(deps) <=> s = r

LEMMA EveryVisitEnds ==
  ASSUME NEW T, IsFiniteSet(T), NEW deps \in [T -> Seq(T)], NEW p \in Visits(T)
  PROVE  \E r \in Seens(T) : EndsOnce(deps, p, r)
  <1> DEFINE Endless == {q \in Visits(T) : ~ \E r \in Seens(T) : EndsOnce(deps, q, r)}
  <1> SUFFICES ASSUME Endless # {} PROVE FALSE
    OBVIOUS
  <1>1. PICK q \in Endless : \A o \in Endless : ~Before(T, o, q)
    <2>1. Endless \in SUBSET Visits(T)
      OBVIOUS
    <2> HIDE DEF Endless
    <2> QED BY <2>1, FirstVisit
  <1>2. \A o \in Visits(T) : Before(T, o, q) => \E r \in Seens(T) : EndsOnce(deps, o, r)
    BY <1>1
  <1>3. q \in Visits(T) /\ q[2] \in Seens(T) /\ DOMAIN deps = T
    BY DEF Visits
  <1>4. \A s \in Seens(T) : <<q, s>> \in Ended(deps) <=> Follows(deps, Ended(deps), q, s)
    BY <1>3, EndedIsWhatFollows
  <1> DEFINE t == Head(q[1])
             late == <<Tail(q[1]), q[2]>>
             in == <<deps[t], Entered(q[2], t)>>
  <1>5. \E r \in Seens(T) : EndsOnce(deps, q, r)
    <2>1. CASE q[1] = << >>
      <3>1. \A s \in Seens(T) : Follows(deps, Ended(deps), q, s) <=> s = q[2]
        BY <2>1 DEF Follows
      <3> QED BY <1>3, <1>4, <3>1 DEF EndsOnce
    <2>2. CASE q[1] # << >> /\ t \in q[2].visited
      <3>1. late \in Visits(T) /\ Before(T, late, q)
        BY <1>3, <2>2, NextVisits
      <3>2. PICK r \in Seens(T) : EndsOnce(deps, late, r)
        BY <1>2, <3>1
      <3>3. \A s \in Seens(T) : Follows(deps, Ended(deps), q, s) <=> <<late, s>> \in Ended(deps)
        BY <2>2 DEF Follows
      <3>4. late[2] = q[2]
        OBVIOUS
      <3> QED BY <1>3, <1>4, <3>2, <3>3, <3>4 DEF EndsOnce
    <2>3. CASE q[1] # << >> /\ t \notin q[2].visited
      <3>1. in \in Visits(T) /\ Before(T, in, q) /\ t \in T
        BY <1>3, <2>3, NextVisits
      <3>2. PICK i \in Seens(T) : EndsOnce(deps, in, i)
        BY <1>2, <3>1
      <3>3. q[2].visited \cup {t} \subseteq i.visited
        <4>1. in[2].visited = q[2].visited \cup {t}
          BY <1>3, <3>1 DEF Entered, Seens
        <4> QED BY <3>2, <4>1 DEF EndsOnce
      <3> DEFINE next == <<Tail(q[1]), Left(i, t)>>
      <3>4. next \in Visits(T) /\ Before(T, next, q)
        BY <1>3, <2>3, <3>3, NextVisits
      <3>5. PICK r \in Seens(T) : EndsOnce(deps, next, r)
        BY <1>2, <3>4
      <3>6. \A j \in Seens(T) : <<in, j>> \in Ended(deps) <=> j = i
        BY <1>3, <3>2 DEF EndsOnce
      <3>7. \A s \in Seens(T) : Follows(deps, Ended(deps), q, s) <=> <<next, s>> \in Ended(deps)
        BY <1>3, <2>3, <3>6 DEF Follows
      <3>8. next[2].visited = i.visited
        BY DEF Left, Seens
      <3> HIDE DEF next
      <3> QED BY <1>3, <1>4, <3>3, <3>5, <3>7, <3>8 DEF EndsOnce
    <2> QED BY <2>1, <2>2, <2>3
  <1> QED BY <1>1, <1>5

\* So the definition of VisitAll is one: it solves its equation.
LEMMA VisitAllRecurs ==
  ASSUME NEW T, IsFiniteSet(T), NEW deps \in [T -> Seq(T)]
  PROVE  VisitAll(deps) = OneVisit(deps, VisitAll(deps))
  <1> DEFINE f == [p \in Visits(T) |-> CHOOSE r \in Seens(T) : EndsOnce(deps, p, r)]
  <1>1. DOMAIN deps = T
    OBVIOUS
  <1>2. ASSUME NEW p \in Visits(T)
        PROVE  f[p] \in Seens(T) /\ EndsOnce(deps, p, f[p])
    <2>1. \E r \in Seens(T) : EndsOnce(deps, p, r)
      BY EveryVisitEnds
    <2> QED BY <2>1
  <1>3. DOMAIN f = Visits(T) /\ f = [p \in Visits(T) |-> f[p]]
    OBVIOUS
  <1> HIDE DEF f
  <1>4. ASSUME NEW p \in Visits(T), NEW s \in Seens(T), <<p, s>> \in Ended(deps)
        PROVE  f[p] = s
    BY <1>1, <1>2, <1>4 DEF EndsOnce
  <1>5. ASSUME NEW p \in Visits(T)
        PROVE  f[p] = IF p[1] = << >> THEN p[2]
                      ELSE IF Head(p[1]) \in p[2].visited THEN f[<<Tail(p[1]), p[2]>>]
                      ELSE f[<<Tail(p[1]),
                               Left(f[<<deps[Head(p[1])], Entered(p[2], Head(p[1]))>>],
                                    Head(p[1]))>>]
    <2>1. <<p, f[p]>> \in Ended(deps)
      BY <1>1, <1>2 DEF EndsOnce
    <2>2. Follows(deps, Ended(deps), p, f[p])
      BY <1>1, <1>2, <2>1, EndedIsWhatFollows
    <2> DEFINE t == Head(p[1])
               in == <<deps[t], Entered(p[2], t)>>
    <2>3. CASE p[1] = << >>
      BY <2>2, <2>3 DEF Follows
    <2>4. CASE p[1] # << >> /\ t \in p[2].visited
      <3>1. <<<<Tail(p[1]), p[2]>>, f[p]>> \in Ended(deps)
        BY <2>2, <2>4 DEF Follows
      <3>2. <<Tail(p[1]), p[2]>> \in Visits(T)
        BY <2>4, NextVisits
      <3> QED BY <1>2, <1>4, <2>4, <3>1, <3>2
    <2>5. CASE p[1] # << >> /\ t \notin p[2].visited
      <3>1. PICK i \in Seens(T) :
               /\ <<in, i>> \in Ended(deps)
               /\ <<<<Tail(p[1]), Left(i, t)>>, f[p]>> \in Ended(deps)
        BY <1>1, <2>2, <2>5 DEF Follows
      <3>2. in \in Visits(T)
        BY <2>5, NextVisits
      <3>3. f[in] = i
        BY <1>4, <3>1, <3>2
      <3>4. p[2].visited \cup {t} \subseteq i.visited
        <4>1. in[2].visited = p[2].visited \cup {t}
          BY <2>5, NextVisits DEF Entered, Seens, Visits
        <4> QED BY <1>2, <3>2, <3>3, <4>1 DEF EndsOnce
      <3>5. <<Tail(p[1]), Left(i, t)>> \in Visits(T)
        BY <2>5, <3>4, NextVisits
      <3>6. f[<<Tail(p[1]), Left(i, t)>>] = f[p]
        BY <1>2, <1>4, <3>1, <3>5
      <3> QED BY <2>5, <3>3, <3>6
    <2> QED BY <2>3, <2>4, <2>5
  <1>6. f = OneVisit(deps, f)
    BY <1>1, <1>3, <1>5 DEF OneVisit
  <1> QED BY <1>6, VisitAllSolves

-----------------------------------------------------------------------------
(* What topologicalSort returns *)

\* The seq s has nothing twice.
NoRepeat(s) == \A i, j \in DOMAIN s : s[i] = s[j] => i = j

\* In s, what an element refers to comes before it, itself aside.
ParentsFirst(deps, s) ==
    \A j \in DOMAIN s : \A u \in ToSet(deps[s[j]]) :
        u = s[j] \/ \E i \in DOMAIN s : i < j /\ s[i] = u

\* Whose visit has begun and not ended.
UnderWay(seen) == seen.visited \ ToSet(seen.result)

\* The rank of what an element refers to is lower, itself aside.
Ranked(deps, rank) ==
    \A t \in DOMAIN deps : /\ rank[t] \in Nat
                           /\ \A u \in ToSet(deps[t]) : u # t => rank[u] < rank[t]

Orderly(deps, seen) ==
    /\ ToSet(seen.result) \subseteq seen.visited
    /\ NoRepeat(seen.result) /\ ParentsFirst(deps, seen.result)

\* The tables ts are visited from those under way.
FromUnderWay(rank, ts, seen) ==
    \A o \in UnderWay(seen), t \in ToSet(ts) : t = o \/ rank[t] < rank[o]

\* A call that starts orderly ends so, with its list visited and no visit
\* under way but those that were.
EndsOrderly(deps, rank, p, r) ==
    Orderly(deps, p[2]) /\ FromUnderWay(rank, p[1], p[2])
        => /\ Orderly(deps, r)
           /\ UnderWay(r) = UnderWay(p[2])
           /\ p[2].visited \cup ToSet(p[1]) \subseteq r.visited

LEMMA AppendSet ==
  ASSUME NEW T, NEW s \in Seq(T), NEW t
  PROVE  /\ Len(Append(s, t)) = Len(s) + 1 /\ Len(s) \in Nat
         /\ DOMAIN s = 1..Len(s) /\ DOMAIN Append(s, t) = 1..(Len(s) + 1)
         /\ \A i \in DOMAIN s : Append(s, t)[i] = s[i]
         /\ Append(s, t)[Len(s) + 1] = t
         /\ ToSet(Append(s, t)) = ToSet(s) \cup {t}
  <1>1. /\ Len(Append(s, t)) = Len(s) + 1 /\ Len(s) \in Nat
        /\ DOMAIN s = 1..Len(s) /\ DOMAIN Append(s, t) = 1..(Len(s) + 1)
        /\ \A i \in DOMAIN s : Append(s, t)[i] = s[i]
        /\ Append(s, t)[Len(s) + 1] = t
    OBVIOUS
  <1>2. 1..(Len(s) + 1) = DOMAIN s \cup {Len(s) + 1}
    BY <1>1
  <1>3. ToSet(Append(s, t)) = ToSet(s) \cup {t}
    BY <1>1, <1>2 DEF ToSet
  <1> QED BY <1>1, <1>3

LEMMA HeadTailSet ==
  ASSUME NEW T, NEW s \in Seq(T), s # << >>
  PROVE  ToSet(s) = {Head(s)} \cup ToSet(Tail(s))
  <1>1. /\ DOMAIN s = 1..Len(s) /\ Len(s) \in Nat \ {0}
        /\ DOMAIN Tail(s) = 1..(Len(s) - 1) /\ Head(s) = s[1]
        /\ \A i \in 1..(Len(s) - 1) : Tail(s)[i] = s[i + 1]
    OBVIOUS
  <1>2. ASSUME NEW x \in ToSet(s) PROVE x \in {Head(s)} \cup ToSet(Tail(s))
    <2>1. PICK i \in DOMAIN s : x = s[i]
      BY DEF ToSet
    <2>2. CASE i = 1
      BY <1>1, <2>1, <2>2
    <2>3. CASE i # 1
      <3>1. i - 1 \in DOMAIN Tail(s) /\ Tail(s)[i - 1] = x
        BY <1>1, <2>1, <2>3
      <3> QED BY <3>1 DEF ToSet
    <2> QED BY <2>2, <2>3
  <1>3. ASSUME NEW x \in {Head(s)} \cup ToSet(Tail(s)) PROVE x \in ToSet(s)
    <2>1. CASE x = Head(s)
      <3>1. 1 \in DOMAIN s /\ s[1] = x
        BY <1>1, <2>1
      <3> QED BY <3>1 DEF ToSet
    <2>2. CASE x \in ToSet(Tail(s))
      <3>1. PICK i \in DOMAIN Tail(s) : x = Tail(s)[i]
        BY <2>2 DEF ToSet
      <3>2. i + 1 \in DOMAIN s /\ s[i + 1] = x
        BY <1>1, <3>1
      <3> QED BY <3>2 DEF ToSet
    <2> QED BY <2>1, <2>2
  <1> QED BY <1>2, <1>3

\* A visit's own end: what t refers to has been visited and has ended.
LEMMA LeftOrderly ==
  ASSUME NEW T, NEW deps \in [T -> Seq(T)], NEW i \in Seens(T), NEW t \in T,
         Orderly(deps, i), t \in UnderWay(i),
         \A u \in ToSet(deps[t]) : u = t \/ u \in ToSet(i.result)
  PROVE  /\ Orderly(deps, Left(i, t))
         /\ UnderWay(Left(i, t)) = UnderWay(i) \ {t}
         /\ Left(i, t).visited = i.visited
  <1> DEFINE s == i.result
             n == Append(s, t)
  <1>1. s \in Seq(T) /\ t \notin ToSet(s) /\ t \in i.visited
    BY DEF Seens, UnderWay
  <1>2. /\ DOMAIN s = 1..Len(s) /\ DOMAIN n = 1..(Len(s) + 1) /\ Len(s) \in Nat
        /\ \A k \in DOMAIN s : n[k] = s[k]
        /\ n[Len(s) + 1] = t
        /\ ToSet(n) = ToSet(s) \cup {t}
    BY <1>1, AppendSet
  <1>3. Left(i, t).result = n /\ Left(i, t).visited = i.visited
    BY DEF Left, Seens
  <1>4. \A k \in DOMAIN s : s[k] # t
    BY <1>1 DEF ToSet
  <1> HIDE DEF n, s
  <1>5. NoRepeat(n)
    <2> SUFFICES ASSUME NEW k \in DOMAIN n, NEW l \in DOMAIN n, n[k] = n[l] PROVE k = l
      BY DEF NoRepeat
    <2>1. /\ k \in DOMAIN s \/ k = Len(s) + 1
          /\ l \in DOMAIN s \/ l = Len(s) + 1
      BY <1>2
    <2> QED BY <1>2, <1>4, <2>1 DEF Orderly, NoRepeat, s
  <1>6. ParentsFirst(deps, n)
    <2> SUFFICES ASSUME NEW j \in DOMAIN n, NEW u \in ToSet(deps[n[j]]), u # n[j]
                 PROVE  \E k \in DOMAIN n : k < j /\ n[k] = u
      BY DEF ParentsFirst
    <2>1. CASE j \in DOMAIN s
      <3>1. PICK k \in DOMAIN s : k < j /\ s[k] = u
        BY <1>2, <2>1 DEF Orderly, ParentsFirst, s
      <3> QED BY <1>2, <3>1
    <2>2. CASE j = Len(s) + 1
      <3>1. u \in ToSet(s)
        BY <1>2, <2>2 DEF s
      <3>2. PICK k \in DOMAIN s : s[k] = u
        BY <3>1 DEF ToSet
      <3> QED BY <1>2, <2>2, <3>2
    <2> QED BY <1>2, <2>1, <2>2
  <1>7. Orderly(deps, Left(i, t))
    BY <1>1, <1>2, <1>3, <1>5, <1>6 DEF Orderly, s
  <1>8. UnderWay(Left(i, t)) = UnderWay(i) \ {t}
    BY <1>2, <1>3 DEF UnderWay, s
  <1> QED BY <1>3, <1>7, <1>8

LEMMA EveryVisitEndsOrderly ==
  ASSUME NEW T, IsFiniteSet(T), NEW deps \in [T -> Seq(T)], NEW rank, Ranked(deps, rank),
         NEW p \in Visits(T)
  PROVE  /\ VisitAll(deps)[p] \in Seens(T)
         /\ p[2].visited \subseteq VisitAll(deps)[p].visited
         /\ EndsOrderly(deps, rank, p, VisitAll(deps)[p])
  <1> DEFINE V == VisitAll(deps)
             Good(q) == /\ V[q] \in Seens(T)
                        /\ q[2].visited \subseteq V[q].visited
                        /\ EndsOrderly(deps, rank, q, V[q])
             Wrong == {q \in Visits(T) : ~Good(q)}
  <1> SUFFICES ASSUME Wrong # {} PROVE FALSE
    OBVIOUS
  <1>1. PICK q \in Wrong : \A o \in Wrong : ~Before(T, o, q)
    <2>1. Wrong \in SUBSET Visits(T)
      OBVIOUS
    <2> HIDE DEF Wrong
    <2> QED BY <2>1, FirstVisit
  <1>2. \A o \in Visits(T) : Before(T, o, q) => Good(o)
    BY <1>1
  <1> DEFINE ts == q[1]
             s == q[2]
             t == Head(ts)
             late == <<Tail(ts), s>>
             in == <<deps[t], Entered(s, t)>>
             i == V[in]
             next == <<Tail(ts), Left(i, t)>>
  <1>3. q \in Visits(T) /\ s \in Seens(T) /\ ts \in Seq(T) /\ DOMAIN deps = T
    BY DEF Visits
  <1>4. V[q] = IF ts = << >> THEN s
               ELSE IF t \in s.visited THEN V[late]
               ELSE V[next]
    <2>1. V = OneVisit(deps, V)
      BY VisitAllRecurs
    <2> HIDE DEF V
    <2> QED BY <1>3, <2>1 DEF OneVisit
  <1> HIDE DEF V
  <1>5. Good(q)
    <2>1. CASE ts = << >>
      <3>1. ToSet(ts) = {}
        BY <2>1 DEF ToSet
      <3> QED BY <1>3, <1>4, <2>1, <3>1 DEF EndsOrderly
    <2>2. CASE ts # << >> /\ t \in s.visited
      <3>1. late \in Visits(T) /\ Before(T, late, q) /\ late[1] = Tail(ts) /\ late[2] = s
        BY <1>3, <2>2, NextVisits
      <3>2. ToSet(ts) = {t} \cup ToSet(Tail(ts))
        BY <1>3, <2>2, HeadTailSet
      <3>3. Good(late) /\ V[q] = V[late]
        BY <1>2, <1>4, <2>2, <3>1
      <3> HIDE DEF late, t, ts, s
      <3>4. FromUnderWay(rank, ts, s) => FromUnderWay(rank, Tail(ts), s)
        BY <3>2 DEF FromUnderWay
      <3>5. EndsOrderly(deps, rank, q, V[q])
        BY <2>2, <3>1, <3>2, <3>3, <3>4 DEF EndsOrderly, ts, s
      <3> QED BY <3>1, <3>3, <3>5 DEF s
    <2>3. CASE ts # << >> /\ t \notin s.visited
      <3>1. /\ in \in Visits(T) /\ Before(T, in, q) /\ t \in T
            /\ in[1] = deps[t] /\ in[2] = Entered(s, t)
        BY <1>3, <2>3, NextVisits
      <3>2. ToSet(ts) = {t} \cup ToSet(Tail(ts))
        BY <1>3, <2>3, HeadTailSet
      <3>3. Entered(s, t).visited = s.visited \cup {t} /\ Entered(s, t).result = s.result
        BY <1>3 DEF Entered, Seens
      <3>4. Good(in)
        BY <1>2, <3>1
      <3>5. i \in Seens(T) /\ s.visited \cup {t} \subseteq i.visited
        BY <3>1, <3>3, <3>4
      <3>6. /\ next \in Visits(T) /\ Before(T, next, q)
            /\ next[1] = Tail(ts) /\ next[2] = Left(i, t)
        BY <1>3, <2>3, <3>5, NextVisits
      <3>7. Good(next) /\ V[q] = V[next]
        BY <1>2, <1>4, <2>3, <3>6
      <3>8. Left(i, t).visited = i.visited
        BY <3>5 DEF Left, Seens
      <3>9. EndsOrderly(deps, rank, in, i)
        BY <3>4
      <3> HIDE DEF in, i, next, t, ts, s
      <3>10. ASSUME Orderly(deps, s), FromUnderWay(rank, ts, s)
             PROVE  /\ Orderly(deps, Left(i, t))
                    /\ UnderWay(Left(i, t)) = UnderWay(s)
                    /\ FromUnderWay(rank, Tail(ts), Left(i, t))
        <4>1. t \notin ToSet(s.result)
          BY <2>3, <3>10 DEF Orderly
        <4>2. UnderWay(Entered(s, t)) = UnderWay(s) \cup {t}
          BY <3>3, <4>1 DEF UnderWay
        <4>3. Orderly(deps, Entered(s, t))
          BY <3>3, <3>10 DEF Orderly
        <4>4. \A o \in UnderWay(s) : rank[t] < rank[o] /\ o \in T
          <5>1. \A o \in UnderWay(s) : o # t
            BY <2>3 DEF UnderWay
          <5>2. UnderWay(s) \subseteq T
            BY <1>3 DEF UnderWay, Seens, s
          <5> QED BY <3>2, <3>10, <5>1, <5>2 DEF FromUnderWay
        <4>5. ToSet(deps[t]) \subseteq T
          BY <3>1 DEF ToSet
        <4>6. FromUnderWay(rank, deps[t], Entered(s, t))
          <5> SUFFICES ASSUME NEW o \in UnderWay(s) \cup {t}, NEW u \in ToSet(deps[t]), u # o
                       PROVE  rank[u] < rank[o]
            BY <4>2 DEF FromUnderWay
          <5>1. /\ rank[t] \in Nat /\ rank[u] \in Nat
                /\ u # t => rank[u] < rank[t]
            BY <1>3, <3>1, <4>5 DEF Ranked
          <5>2. CASE o = t
            BY <5>1, <5>2
          <5>3. CASE o # t
            <6>1. rank[t] < rank[o] /\ rank[o] \in Nat
              BY <1>3, <4>4, <5>3 DEF Ranked
            <6> QED BY <5>1, <6>1
          <5> QED BY <5>2, <5>3
        <4>7. /\ Orderly(deps, i)
              /\ UnderWay(i) = UnderWay(s) \cup {t}
              /\ ToSet(deps[t]) \subseteq i.visited
          BY <3>1, <3>9, <4>2, <4>3, <4>6 DEF EndsOrderly
        <4>8. ASSUME NEW u \in ToSet(deps[t]), u # t PROVE u \in ToSet(i.result)
          <5>1. u \notin UnderWay(s)
            <6>1. /\ rank[t] \in Nat /\ rank[u] \in Nat /\ rank[u] < rank[t]
              BY <1>3, <3>1, <4>5, <4>8 DEF Ranked
            <6> QED BY <4>4, <6>1
          <5> QED BY <4>7, <4>8, <5>1 DEF UnderWay
        <4>9. /\ Orderly(deps, Left(i, t))
              /\ UnderWay(Left(i, t)) = UnderWay(i) \ {t}
          <5>1. t \in UnderWay(i) /\ (\A u \in ToSet(deps[t]) : u = t \/ u \in ToSet(i.result))
            BY <4>7, <4>8
          <5> QED BY <3>1, <3>5, <4>7, <5>1, LeftOrderly
        <4>10. t \notin UnderWay(s)
          BY <2>3 DEF UnderWay
        <4>11. UnderWay(Left(i, t)) = UnderWay(s)
          BY <4>7, <4>9, <4>10
        <4> QED BY <3>2, <3>10, <4>9, <4>11 DEF FromUnderWay
      <3>11. EndsOrderly(deps, rank, q, V[q])
        BY <3>2, <3>5, <3>6, <3>7, <3>8, <3>10 DEF EndsOrderly, ts, s
      <3> QED BY <3>5, <3>6, <3>7, <3>8, <3>11 DEF s
    <2> QED BY <2>1, <2>2, <2>3
  <1> QED BY <1>1, <1>5

\* In the order s, what refers to another comes before it.
ChildrenFirst(deps, s) ==
    \A i, j \in DOMAIN s : s[j] \in ToSet(deps[s[i]]) => i <= j

\* Of tables that only refer to each other without a cycle, topologicalSort
\* returns those it is given and what they refer to, each once, and none after
\* one that it refers to, in whatever order they are listed (topologicalSort).
THEOREM SortsChildrenFirst ==
  ASSUME NEW T, IsFiniteSet(T), NEW deps \in [T -> Seq(T)], NEW rank, Ranked(deps, rank),
         NEW ts \in Seq(T)
  PROVE  /\ TopologicalSort(ts, deps) \in Seq(T)
         /\ NoRepeat(TopologicalSort(ts, deps))
         /\ ToSet(ts) \subseteq ToSet(TopologicalSort(ts, deps))
         /\ ChildrenFirst(deps, TopologicalSort(ts, deps))
  <1> DEFINE p == <<ts, NothingVisited>>
             r == VisitAll(deps)[p]
             s == r.result
             d == TopologicalSort(ts, deps)
  <1>1. p \in Visits(T) /\ p[1] = ts /\ p[2] = NothingVisited
    <2>1. << >> \in Seq(T)
      BY EmptySeq
    <2>2. NothingVisited \in Seens(T)
      BY <2>1 DEF Seens, NothingVisited
    <2> QED BY <2>2 DEF Visits
  <1>2. /\ NothingVisited.visited = {} /\ NothingVisited.result = << >>
        /\ UnderWay(NothingVisited) = {} /\ Orderly(deps, NothingVisited)
    BY DEF NothingVisited, UnderWay, Orderly, ToSet, NoRepeat, ParentsFirst
  <1>3. d = Reverse(s)
    BY DEF TopologicalSort
  <1> HIDE DEF p, d
  <1>4. r \in Seens(T) /\ EndsOrderly(deps, rank, p, r)
    BY <1>1, EveryVisitEndsOrderly
  <1>5. Orderly(deps, r) /\ UnderWay(r) = {} /\ ToSet(ts) \subseteq r.visited
    BY <1>1, <1>2, <1>4 DEF EndsOrderly, FromUnderWay
  <1> HIDE DEF r
  <1>6. /\ s \in Seq(T) /\ Len(s) \in Nat /\ DOMAIN s = 1..Len(s)
        /\ NoRepeat(s) /\ ParentsFirst(deps, s) /\ ToSet(ts) \subseteq ToSet(s)
    BY <1>4, <1>5 DEF Seens, Orderly, UnderWay
  <1> HIDE DEF s
  <1>7. /\ d \in Seq(T) /\ DOMAIN d = 1..Len(s)
        /\ \A i \in 1..Len(s) : /\ d[i] = s[Len(s) - i + 1]
                                /\ Len(s) - i + 1 \in DOMAIN s
    BY <1>3, <1>6 DEF Reverse
  <1>8. NoRepeat(d)
    <2> SUFFICES ASSUME NEW i \in DOMAIN d, NEW j \in DOMAIN d, d[i] = d[j] PROVE i = j
      BY DEF NoRepeat
    <2>1. Len(s) - i + 1 = Len(s) - j + 1
      BY <1>6, <1>7 DEF NoRepeat
    <2> QED BY <1>6, <1>7, <2>1
  <1>9. ASSUME NEW x \in ToSet(s) PROVE x \in ToSet(d)
    <2>1. PICK k \in 1..Len(s) : s[k] = x
      BY <1>6 DEF ToSet
    <2>2. Len(s) - k + 1 \in DOMAIN d /\ Len(s) - (Len(s) - k + 1) + 1 = k
      BY <1>6, <1>7, <2>1
    <2>3. d[Len(s) - k + 1] = x
      BY <1>7, <2>1, <2>2
    <2> QED BY <2>2, <2>3 DEF ToSet
  <1>10. ChildrenFirst(deps, d)
    <2> SUFFICES ASSUME NEW i \in DOMAIN d, NEW j \in DOMAIN d, d[j] \in ToSet(deps[d[i]])
                 PROVE  i <= j
      BY DEF ChildrenFirst
    <2> DEFINE k == Len(s) - i + 1
               l == Len(s) - j + 1
    <2>1. k \in DOMAIN s /\ l \in DOMAIN s /\ d[i] = s[k] /\ d[j] = s[l]
      BY <1>7
    <2>2. s[l] = s[k] \/ \E m \in DOMAIN s : m < k /\ s[m] = s[l]
      BY <1>6, <2>1 DEF ParentsFirst
    <2>3. l <= k
      BY <1>6, <2>1, <2>2 DEF NoRepeat
    <2> QED BY <1>6, <1>7, <2>3
  <1> QED BY <1>6, <1>7, <1>8, <1>9, <1>10 DEF d

-----------------------------------------------------------------------------
(* The order of the deletions *)

LEMMA PlaceOfTable ==
  /\ IsFiniteSet(Tables)
  /\ \A t \in Tables : Place[t] \in Nat
  /\ \A t, u \in Tables : Place[t] = Place[u] => t = u
  <1> DEFINE n == 28
  <1>1. n \in Nat /\ DOMAIN AllTables = 1..n
    BY DEF AllTables
  <1>2. AllTables \in [1..n -> Tables]
    <2>1. \A i \in 1..n : AllTables[i] \in Tables
      BY <1>1 DEF Tables, ToSet
    <2>2. AllTables = [i \in 1..n |-> AllTables[i]]
      BY DEF AllTables
    <2> QED BY <2>1, <2>2
  <1>3. ASSUME NEW t \in Tables
        PROVE  Place[t] \in 1..n /\ AllTables[Place[t]] = t
    <2>1. \E i \in DOMAIN AllTables : AllTables[i] = t
      BY DEF Tables, ToSet
    <2>2. Place[t] = CHOOSE i \in DOMAIN AllTables : AllTables[i] = t
      BY DEF Place
    <2> QED BY <1>1, <2>1, <2>2
  <1> HIDE DEF n
  <1>4. AllTables \in Surjection(1..n, Tables)
    BY <1>2, <1>3 DEF Surjection
  <1>5. IsFiniteSet(1..n)
    BY <1>1, FS_Interval
  <1>6. IsFiniteSet(Tables)
    BY <1>4, <1>5, FS_Surjection
  <1> QED BY <1>1, <1>3, <1>6

\* The list of tables by name is a list of all of them.
LEMMA ByNameLists ==
  ASSUME NEW ts \in SUBSET Tables
  PROVE  ByName(ts) \in Seq(ts) /\ ToSet(ByName(ts)) = ts
  <1> DEFINE n == Cardinality(ts)
             UpTo(t) == {u \in ts : Place[u] <= Place[t]}
             f == [t \in ts |-> Cardinality(UpTo(t))]
             R == {f[t] : t \in ts}
  <1>1. IsFiniteSet(ts) /\ n \in Nat
    BY PlaceOfTable, FS_Subset, FS_CardinalityType
  <1>2. ASSUME NEW t \in ts
        PROVE  f[t] \in 1..n /\ UpTo(t) \in SUBSET ts /\ IsFiniteSet(UpTo(t)) /\ t \in UpTo(t)
    <2>1. UpTo(t) \in SUBSET ts /\ t \in UpTo(t)
      BY PlaceOfTable
    <2>2. IsFiniteSet(UpTo(t)) /\ Cardinality(UpTo(t)) <= n /\ Cardinality(UpTo(t)) \in Nat
      BY <1>1, <2>1, FS_Subset, FS_CardinalityType
    <2>3. Cardinality(UpTo(t)) # 0
      BY <2>1, <2>2, FS_EmptySet
    <2> QED BY <1>1, <2>1, <2>2, <2>3
  <1>3. ASSUME NEW t \in ts, NEW u \in ts, f[t] = f[u] PROVE t = u
    <2>1. UpTo(t) \subseteq UpTo(u) \/ UpTo(u) \subseteq UpTo(t)
      BY PlaceOfTable
    <2>2. UpTo(t) = UpTo(u)
      BY <1>2, <1>3, <2>1, FS_Subset
    <2>3. Place[t] <= Place[u] /\ Place[u] <= Place[t]
      BY <1>2, <2>2
    <2> QED BY <2>3, PlaceOfTable
  <1> HIDE DEF UpTo, n
  <1>4. f \in Injection(ts, 1..n)
    BY <1>2, <1>3 DEF Injection, IsInjective
  <1>5. f \in Surjection(ts, 1..n)
    <2>1. IsFiniteSet(1..n) /\ Cardinality(1..n) = n
      BY <1>1, FS_Interval
    <2> HIDE DEF f
    <2> QED BY <1>1, <1>4, <2>1, FS_Injection DEF n
  <1>6. \A i \in 1..n : \E t \in ts : f[t] = i
    BY <1>5 DEF Surjection
  <1>7. \A t \in ts : f[t] = Cardinality({u \in ts : Place[u] <= Place[t]})
    BY DEF UpTo
  <1> HIDE DEF f
  <1>8. \A i \in 1..n : ByName(ts)[i] \in ts /\ f[ByName(ts)[i]] = i
    <2> SUFFICES ASSUME NEW i \in 1..n
                 PROVE  ByName(ts)[i] \in ts /\ f[ByName(ts)[i]] = i
      OBVIOUS
    <2>1. \E t \in ts : Cardinality({u \in ts : Place[u] <= Place[t]}) = i
      BY <1>6, <1>7
    <2>2. ByName(ts)[i] = CHOOSE t \in ts : Cardinality({u \in ts : Place[u] <= Place[t]}) = i
      BY DEF ByName, n
    <2>3. ByName(ts)[i] \in ts /\ Cardinality({u \in ts : Place[u] <= Place[ByName(ts)[i]]}) = i
      BY <2>1, <2>2
    <2> QED BY <1>7, <2>3
  <1>9. DOMAIN ByName(ts) = 1..n /\ ByName(ts) \in Seq(ts)
    <2>1. DOMAIN ByName(ts) = 1..n /\ ByName(ts) = [i \in 1..n |-> ByName(ts)[i]]
      BY DEF ByName, n
    <2> QED BY <1>1, <1>8, <2>1
  <1>10. ASSUME NEW t \in ts PROVE t \in ToSet(ByName(ts))
    <2>1. f[t] \in 1..n
      BY <1>2
    <2>2. f[ByName(ts)[f[t]]] = f[t] /\ ByName(ts)[f[t]] \in ts
      BY <1>8, <2>1
    <2>3. ByName(ts)[f[t]] = t
      BY <1>3, <2>2
    <2> QED BY <1>9, <2>1, <2>3 DEF ToSet
  <1> QED BY <1>8, <1>9, <1>10 DEF ToSet

\* Of the tables s, none comes after one that it refers to.
ReferringFirst(s) == \A i, j \in DOMAIN s : s[j] \in Parents(s[i]) => i <= j

LEMMA DeletionOrderIs ==
  ASSUME schema \subseteq Tables
  PROVE  /\ DeletionOrder \in Seq(schema) /\ ToSet(DeletionOrder) = schema
         /\ NoRepeat(DeletionOrder) /\ ReferringFirst(DeletionOrder)
  <1> DEFINE deps == DependenciesNow
  <1>1. TablesNow \in Seq(schema) /\ ToSet(TablesNow) = schema
    BY ByNameLists DEF TablesNow
  <1>2. deps = [t \in schema |-> ByName(Parents(t) \cap schema)]
    BY <1>1 DEF DependenciesNow
  <1>3. ASSUME NEW t \in schema
        PROVE  deps[t] \in Seq(schema) /\ ToSet(deps[t]) = Parents(t) \cap schema
    <2>1. (Parents(t) \cap schema) \in SUBSET Tables
      OBVIOUS
    <2>2. /\ ByName(Parents(t) \cap schema) \in Seq(Parents(t) \cap schema)
          /\ ToSet(ByName(Parents(t) \cap schema)) = Parents(t) \cap schema
      BY <2>1, ByNameLists
    <2>3. ByName(Parents(t) \cap schema) \in Seq(schema)
      BY <2>2, SeqMonotonic
    <2> QED BY <1>2, <2>2, <2>3
  <1>4. deps \in [schema -> Seq(schema)] /\ DOMAIN deps = schema
    BY <1>2, <1>3
  <1> HIDE DEF deps
  <1>5. Ranked(deps, Depth)
    BY <1>3, <1>4, DepthAssumption DEF Ranked
  <1>6. IsFiniteSet(schema)
    BY PlaceOfTable, FS_Subset
  <1>7. /\ DeletionOrder \in Seq(schema) /\ NoRepeat(DeletionOrder)
        /\ schema \subseteq ToSet(DeletionOrder) /\ ChildrenFirst(deps, DeletionOrder)
    BY <1>1, <1>4, <1>5, <1>6, SortsChildrenFirst DEF DeletionOrder, deps
  <1>8. \A i \in DOMAIN DeletionOrder : DeletionOrder[i] \in schema
    BY <1>7
  <1>9. ToSet(DeletionOrder) = schema
    BY <1>7, <1>8 DEF ToSet
  <1>10. ReferringFirst(DeletionOrder)
    BY <1>3, <1>7, <1>8 DEF ReferringFirst, ChildrenFirst
  <1> QED BY <1>7, <1>9, <1>10

-----------------------------------------------------------------------------
(* Deleting in that order *)

\* What a clean or a drop has before it, and what a clean has behind it: tables
\* that are empty or were passed over, and that no table before it refers to.
CleanedBefore ==
    command \in {"clean", "reset"} /\ todo # << >> =>
        \A t \in schema \ ToSet(todo) :
            /\ Empty(t) \/ t \in passed
            /\ \A u \in schema : t \in Parents(u) => u \notin ToSet(todo)

DeletionInv ==
    /\ command \in Commands \cup {"none"}
    /\ passed \subseteq Tables /\ faults \in 0..MaxFaults
    /\ todo \in Seq(schema) /\ NoRepeat(todo) /\ ReferringFirst(todo)
    /\ CleanedBefore

LEMMA RestOfOrder ==
  ASSUME NEW S, NEW s \in Seq(S), s # << >>, NoRepeat(s), ReferringFirst(s)
  PROVE  /\ Head(s) \in S /\ Tail(s) \in Seq(S \ {Head(s)})
         /\ ToSet(Tail(s)) = ToSet(s) \ {Head(s)}
         /\ NoRepeat(Tail(s)) /\ ReferringFirst(Tail(s))
         /\ \A u \in ToSet(Tail(s)) : Head(s) \notin Parents(u)
  <1> DEFINE r == Tail(s)
             h == Head(s)
  <1>1. /\ DOMAIN s = 1..Len(s) /\ Len(s) \in Nat \ {0} /\ h = s[1] /\ h \in S
        /\ r \in Seq(S) /\ Len(r) = Len(s) - 1 /\ DOMAIN r = 1..(Len(s) - 1)
        /\ \A i \in 1..(Len(s) - 1) : r[i] = s[i + 1] /\ i + 1 \in DOMAIN s
    BY HeadTailProperties, LenProperties
  <1>2. ToSet(s) = {h} \cup ToSet(r)
    BY HeadTailSet
  <1> HIDE DEF r, h
  <1>3. \A i \in DOMAIN r : r[i] # h
    BY <1>1 DEF NoRepeat
  <1>4. h \notin ToSet(r)
    BY <1>3 DEF ToSet
  <1>5. r \in Seq(S \ {h})
    BY <1>1, <1>3
  <1>6. NoRepeat(r)
    <2> SUFFICES ASSUME NEW i \in DOMAIN r, NEW j \in DOMAIN r, r[i] = r[j] PROVE i = j
      BY DEF NoRepeat
    <2>1. i + 1 = j + 1
      BY <1>1 DEF NoRepeat
    <2> QED BY <1>1, <2>1
  <1>7. ReferringFirst(r)
    <2> SUFFICES ASSUME NEW i \in DOMAIN r, NEW j \in DOMAIN r, r[j] \in Parents(r[i])
                 PROVE  i <= j
      BY DEF ReferringFirst
    <2>1. i + 1 <= j + 1
      BY <1>1 DEF ReferringFirst
    <2> QED BY <1>1, <2>1
  <1>8. ASSUME NEW u \in ToSet(r) PROVE h \notin Parents(u)
    <2>1. PICK i \in DOMAIN r : u = r[i]
      BY DEF ToSet
    <2>2. i + 1 \in DOMAIN s /\ 1 \in DOMAIN s /\ s[i + 1] = u /\ ~(i + 1 <= 1)
      BY <1>1, <2>1
    <2> QED BY <1>1, <2>2 DEF ReferringFirst
  <1> QED BY <1>1, <1>2, <1>4, <1>5, <1>6, <1>7, <1>8 DEF r, h

\* A cascade stays among tables that no other table refers to.
LEMMA CascadeWithin ==
  ASSUME NEW ts, NEW G, ts \subseteq G,
         \A t \in G, u \in schema : t \in Parents(u) => u \in G
  PROVE  ts \subseteq CascadesTo(ts) /\ CascadesTo(ts) \subseteq G
  <1>1. ASSUME NEW s, s \subseteq G
        PROVE  s \subseteq WithReferring(s) /\ WithReferring(s) \subseteq G
    BY <1>1 DEF WithReferring
  <1>2. ASSUME NEW s, s \subseteq G
        PROVE  s \subseteq FourDeep(s) /\ FourDeep(s) \subseteq G
    <2>1. PICK a : a = WithReferring(s) OBVIOUS
    <2>2. PICK b : b = WithReferring(a) OBVIOUS
    <2>3. PICK c : c = WithReferring(b) OBVIOUS
    <2>4. s \subseteq a /\ a \subseteq G
      BY <1>1, <1>2, <2>1
    <2>5. a \subseteq b /\ b \subseteq G
      BY <1>1, <2>2, <2>4
    <2>6. b \subseteq c /\ c \subseteq G
      BY <1>1, <2>3, <2>5
    <2>7. c \subseteq WithReferring(c) /\ WithReferring(c) \subseteq G
      BY <1>1, <2>6
    <2>8. FourDeep(s) = WithReferring(c)
      BY <2>1, <2>2, <2>3 DEF FourDeep
    <2> QED BY <2>4, <2>5, <2>6, <2>7, <2>8
  <1>3. PICK m : m = FourDeep(ts)
    OBVIOUS
  <1>4. ts \subseteq m /\ m \subseteq G
    BY <1>2, <1>3
  <1>5. m \subseteq FourDeep(m) /\ FourDeep(m) \subseteq G
    BY <1>2, <1>4
  <1> QED BY <1>3, <1>4, <1>5 DEF CascadesTo

\* What the truncation of the next table reaches is not before it.
LEMMA CascadeBehind ==
  ASSUME DeletionInv, command \in {"clean", "reset"}, todo # << >>
  PROVE  /\ Head(todo) \in CascadesTo({Head(todo)})
         /\ CascadesTo({Head(todo)}) \subseteq schema \ ToSet(Tail(todo))
  <1> DEFINE h == Head(todo)
             G == schema \ ToSet(Tail(todo))
  <1>1. /\ h \in schema /\ ToSet(Tail(todo)) = ToSet(todo) \ {h}
        /\ \A u \in ToSet(Tail(todo)) : h \notin Parents(u)
    BY RestOfOrder DEF DeletionInv
  <1>2. \A t \in G, u \in schema : t \in Parents(u) => u \in G
    BY <1>1 DEF DeletionInv, CleanedBefore
  <1>3. {h} \subseteq G
    BY <1>1
  <1> HIDE DEF G
  <1>4. {h} \subseteq CascadesTo({h}) /\ CascadesTo({h}) \subseteq G
    BY <1>2, <1>3, CascadeWithin
  <1> QED BY <1>4 DEF G

LEMMA DeletionStart == SeedInit => DeletionInv
  <1> SUFFICES ASSUME SeedInit PROVE DeletionInv
    OBVIOUS
  <1>1. /\ todo = << >> /\ command = "none" /\ passed = {} /\ faults = 0
    BY DEF SeedInit
  <1>2. todo \in Seq(schema) /\ NoRepeat(todo) /\ ReferringFirst(todo)
    BY <1>1, EmptySeq DEF NoRepeat, ReferringFirst
  <1> QED BY <1>1, <1>2, SeedingAssumption DEF DeletionInv, CleanedBefore

\* A step that leaves nothing to delete.
LEMMA NothingToDelete ==
  ASSUME DeletionInv, todo' = << >>, command' \in Commands \cup {"none"},
         passed' \subseteq Tables, faults' \in 0..MaxFaults
  PROVE  DeletionInv'
  <1>1. todo' \in Seq(schema') /\ NoRepeat(todo') /\ ReferringFirst(todo')
    BY EmptySeq DEF NoRepeat, ReferringFirst
  <1> QED BY <1>1 DEF DeletionInv, CleanedBefore

LEMMA DeletionStep ==
  ASSUME SeedInv, DeletionInv, [SeedNext]_seedVars
  PROVE  DeletionInv'
  <1>1. /\ schema \subseteq Tables /\ faults \in 0..MaxFaults /\ MaxFaults \in Nat
        /\ passed \subseteq Tables /\ command \in Commands \cup {"none"}
        /\ step \in Batches => todo = << >>
        /\ todo \in Seq(schema) /\ NoRepeat(todo) /\ ReferringFirst(todo)
    BY SeedingAssumption DEF SeedInv, DeletionInv
  <1>2. Fault => faults' \in 0..MaxFaults
    BY <1>1 DEF Fault
  <1>3. CASE Start
    <2>1. /\ passed' = {} /\ UNCHANGED <<db, schema, faults>>
          /\ command' \in Commands \cup {"none"}
      BY <1>3 DEF Start, Ends
    <2>2. todo' = << >> \/ todo' = DeletionOrder
      BY <1>3 DEF Start, Ends
    <2>3. CASE todo' = << >>
      BY <1>1, <2>1, <2>3, NothingToDelete
    <2>4. CASE todo' = DeletionOrder
      <3>1. /\ todo' \in Seq(schema) /\ ToSet(todo') = schema
            /\ NoRepeat(todo') /\ ReferringFirst(todo')
        BY <1>1, <2>4, DeletionOrderIs
      <3> QED BY <1>1, <2>1, <3>1 DEF DeletionInv, CleanedBefore
    <2> QED BY <2>2, <2>3, <2>4
  <1>4. CASE SeedBatch
    <2>1. todo = << >> /\ UNCHANGED <<command, todo, passed, faults>>
      BY <1>1, <1>4 DEF SeedBatch, Seeding
    <2> QED BY <1>1, <2>1, NothingToDelete
  <1>5. CASE SeedThrows
    <2>1. /\ todo' = << >> /\ command' = "none" /\ passed' = passed
          /\ faults' \in 0..MaxFaults
      BY <1>1, <1>2, <1>5 DEF SeedThrows, Ends
    <2> QED BY <1>1, <2>1, NothingToDelete
  <1>6. ASSUME todo # << >>, DeletesOn, todo' # << >>
        PROVE  todo' = Tail(todo) /\ command' = command
    BY <1>6 DEF DeletesOn, Ends
  <1>7. ASSUME todo # << >>, DeletesOn
        PROVE  command' \in Commands \cup {"none"}
    BY <1>1, <1>7 DEF DeletesOn, Ends
  <1>8. todo # << >> =>
          /\ Tail(todo) \in Seq(schema \ {Head(todo)}) /\ Tail(todo) \in Seq(schema)
          /\ ToSet(Tail(todo)) = ToSet(todo) \ {Head(todo)}
          /\ NoRepeat(Tail(todo)) /\ ReferringFirst(Tail(todo))
          /\ \A u \in ToSet(Tail(todo)) : Head(todo) \notin Parents(u)
          /\ Head(todo) \in schema
    BY <1>1, RestOfOrder, HeadTailProperties
  <1>9. CASE CleanupTableData \/ CleanupFails
    <2>1. /\ todo # << >> /\ command \in {"clean", "reset"} /\ DeletesOn
          /\ schema' = schema
      BY <1>9 DEF CleanupTableData, CleanupFails, Deleting
    <2>2. /\ faults' \in 0..MaxFaults
          /\ passed \subseteq passed' /\ passed' \subseteq Tables
          /\ db' \subseteq db
          /\ \/ Head(todo) \in passed'
             \/ \A copy \in db' : TableOf(copy[1]) # Head(todo)
      <3>1. CASE CleanupTableData
        <4>1. db' = Outside(CascadesTo({Head(todo)})) /\ UNCHANGED <<passed, faults>>
          BY <3>1 DEF CleanupTableData
        <4>2. Head(todo) \in CascadesTo({Head(todo)})
          BY <2>1, CascadeBehind
        <4> QED BY <1>1, <4>1, <4>2 DEF Outside
      <3>2. CASE CleanupFails
        BY <1>1, <1>2, <1>8, <2>1, <3>2 DEF CleanupFails
      <3> QED BY <1>9, <3>1, <3>2
    <2>3. CASE todo' = << >>
      BY <1>7, <2>1, <2>2, <2>3, NothingToDelete
    <2>4. CASE todo' # << >>
      <3>1. todo' = Tail(todo) /\ command' = command
        BY <1>6, <2>1, <2>4
      <3>2. \A t \in schema : t \notin ToSet(Tail(todo)) => t = Head(todo) \/ t \notin ToSet(todo)
        BY <1>8, <2>1
      <3>3. ASSUME NEW t \in schema \ ToSet(Tail(todo))
            PROVE  /\ (\A copy \in db' : TableOf(copy[1]) # t) \/ t \in passed'
                   /\ \A u \in schema : t \in Parents(u) => u \notin ToSet(Tail(todo))
        <4>1. CASE t = Head(todo)
          BY <1>8, <2>1, <2>2, <4>1
        <4>2. CASE t \notin ToSet(todo)
          <5>1. /\ (\A copy \in db : TableOf(copy[1]) # t) \/ t \in passed
                /\ \A u \in schema : t \in Parents(u) => u \notin ToSet(todo)
            BY <2>1, <4>2 DEF DeletionInv, CleanedBefore, Empty
          <5> QED BY <1>8, <2>1, <2>2, <5>1
        <4> QED BY <3>2, <4>1, <4>2
      <3>4. CleanedBefore'
        BY <2>1, <3>1, <3>3 DEF CleanedBefore, Empty
      <3> QED BY <1>7, <1>8, <2>1, <2>2, <3>1, <3>4 DEF DeletionInv
    <2> QED BY <2>3, <2>4
  <1>10. CASE DropTable \/ DropFails
    <2>1. /\ todo # << >> /\ command = "drop" /\ DeletesOn /\ passed' = passed
          /\ schema' = schema \/ schema' = schema \ {Head(todo)}
          /\ faults' \in 0..MaxFaults
      BY <1>1, <1>2, <1>10 DEF DropTable, DropFails, Deleting
    <2>2. CASE todo' = << >>
      BY <1>1, <1>7, <2>1, <2>2, NothingToDelete
    <2>3. CASE todo' # << >>
      <3>1. todo' = Tail(todo) /\ command' = "drop"
        BY <1>6, <2>1, <2>3
      <3>2. todo' \in Seq(schema') /\ NoRepeat(todo') /\ ReferringFirst(todo')
        BY <1>8, <2>1, <3>1
      <3> QED BY <1>1, <1>7, <2>1, <3>1, <3>2 DEF DeletionInv, CleanedBefore
    <2> QED BY <2>2, <2>3
  <1>11. CASE Interrupted
    <2>1. /\ todo' = << >> /\ command' = "none" /\ passed' = passed
          /\ faults' \in 0..MaxFaults
      BY <1>1, <1>2, <1>11 DEF Interrupted, Ends
    <2> QED BY <1>1, <2>1, NothingToDelete
  <1>12. CASE UNCHANGED seedVars
    BY <1>12 DEF seedVars, DeletionInv, CleanedBefore, Empty
  <1> QED BY <1>3, <1>4, <1>5, <1>9, <1>10, <1>11, <1>12 DEF SeedNext

-----------------------------------------------------------------------------
(* Theorems *)

\* Whatever commands are run and wherever they break off, the rows of the
\* batches up to the current one are there (seedDatabase, cleanDatabase).
THEOREM SeedInvariant == SeedSpec => []SeedInv
  BY SeedStart, SeedStep, PTL DEF SeedSpec

\* However many commands are run, and wherever they fail, what seeding looks up
\* is there once and no row lacks a row it refers to
\* (seedDatabase, cleanDatabase and dropAllTables of prisma/seed.ts).
THEOREM SeedingStaysSound == SeedSpec => []SeededSound
  <1>1. SeedInv => SeededSound
    BY DEF SeedInv, RowsSound, CopySound, CopyFor, SeededSound
  <1> QED BY <1>1, SeedInvariant, PTL

\* Whatever commands are run and wherever they break off: a clean or a drop has
\* before it tables that are there, each once and none after one that it refers
\* to, and a clean has left empty what it is past, but for what it passed over
\* (cleanDatabase, dropAllTables).
THEOREM DeletionInvariant == SeedSpec => []DeletionInv
  <1>1. SeedInv /\ DeletionInv /\ [SeedNext]_seedVars => DeletionInv'
    BY DeletionStep
  <1> QED BY <1>1, DeletionStart, SeedInvariant, PTL DEF SeedSpec

\* Tables and rows, the batch of a seeding and what a deletion has before it
\* are such that the code can run on them: it truncates and drops tables that
\* are there (seedDatabase, cleanDatabase, dropAllTables).
THEOREM SeedingTypes == SeedSpec => []SeedTypeOK
  <1>1. SeedInv /\ DeletionInv => SeedTypeOK
    <2> SUFFICES ASSUME SeedInv, DeletionInv PROVE SeedTypeOK
      OBVIOUS
    <2>1. commands \in 0..MaxCommands /\ MaxCommands \in Nat
      BY SeedingAssumption DEF SeedInv
    <2>2. db \subseteq Rows \X (0..commands) /\ 0..commands \subseteq 0..MaxCommands
      BY <2>1 DEF SeedInv, RowsSound
    <2> QED BY <2>1, <2>2 DEF SeedInv, DeletionInv, SeedTypeOK
  <1> QED BY <1>1, SeedInvariant, DeletionInvariant, PTL

\* A clean empties children before parents, so that the CASCADE of a TRUNCATE
\* reaches no other table than one that is empty or one whose own cleaning
\* failed in this clean (cleanDatabase, cleanupTableData, topologicalSort).
THEOREM CleaningIsInOrder == SeedSpec => CascadesHitEmptyTables
  <1>1. ASSUME SeedInv, DeletionInv, CleanupTableData,
               NEW u \in CascadesTo({Head(todo)}) \ {Head(todo)}
        PROVE  Empty(u) \/ u \in passed
    <2>1. command \in {"clean", "reset"} /\ todo # << >>
      BY <1>1 DEF CleanupTableData, Deleting
    <2>2. u \in schema \ ToSet(Tail(todo))
      BY <1>1, <2>1, CascadeBehind
    <2>3. ToSet(Tail(todo)) = ToSet(todo) \ {Head(todo)}
      BY <1>1, <2>1, RestOfOrder DEF DeletionInv
    <2> QED BY <1>1, <2>1, <2>2, <2>3 DEF DeletionInv, CleanedBefore
  <1>2. SeedInv /\ DeletionInv => [CleanupTableData =>
           \A u \in CascadesTo({Head(todo)}) \ {Head(todo)} :
               Empty(u) \/ u \in passed]_seedVars
    BY <1>1
  <1> QED BY <1>2, SeedInvariant, DeletionInvariant, PTL DEF CascadesHitEmptyTables
=============================================================================
