---------------------------- MODULE MigrateProofs ----------------------------
(***************************************************************************)
(* What holds of Migrate for every history, every set of replicas and      *)
(* every number of runs and faults.  Its types; and, on Postgres under the *)
(* advisory lock, that the committed ledger row and the committed tables   *)
(* agree (Coherent), that a replica's decision is never stale              *)
(* (DecisionFresh), that what a run reports is what it did (ReportTrue),   *)
(* that Migrate implements MigrationPromise (KeepsPromise), and that       *)
(* nobody fails because of somebody else (FailsOnlyForCause).  Then what   *)
(* holds where no advisory lock ends with a transaction: on MySQL, whose   *)
(* every statement commits itself and whose lock is a session's, and on    *)
(* SQLite, which has one writer and no lock at all.                        *)
(***************************************************************************)
EXTENDS Migrate, TLAPS

LEMMA StepsPositive ==
    ASSUME NEW l \in Legs
    PROVE  StepsOf(l) \in Nat \ {0}
<1>1. ActionsOf[l] \in Seq(ActionKinds) /\ Len(ActionsOf[l]) > 0
  BY ActionsAssumption
<1>2. QED
  BY <1>1 DEF StepsOf

LEMMA WholeType ==
    ASSUME NEW v \in 0..Latest
    PROVE  Whole(v) \in TableStates
BY DEF Whole, TableStates

LEMMA OnLegType ==
    ASSUME NEW l \in (0..Latest) \X (0..Latest), NEW k \in Nat
    PROVE  OnLeg(l, k) \in TableStates
<1>1. l[1] \in 0..Latest /\ l[2] \in 0..Latest
  OBVIOUS
<1>2. QED
  BY <1>1, WholeType DEF OnLeg, TableStates

\* Where a run steps to is the next leg of the history.
LEMMA NextOnLeg ==
    ASSUME NEW v \in 0..Latest, NEW t \in Versions, v # t
    PROVE  <<v, NextOn(v, t)>> \in Legs
BY HistoryAssumption DEF Legs, NextOn, Versions

LEMMA NextOnType ==
    ASSUME NEW v \in 0..Latest, NEW t \in 0..Latest
    PROVE  NextOn(v, t) \in 0..Latest
BY HistoryAssumption DEF NextOn

LEMMA ConstantTypes ==
    /\ Blank \in Database
    /\ Drifted \in TableStates
    /\ Nothing \in [by : Instances \cup {NoOne}, session : Nat, depth : Nat]
    /\ Whole(0) \in TableStates
<1>1. 0 \in 0..Latest
  BY HistoryAssumption
<1>2. Whole(0) \in TableStates
  BY <1>1, WholeType
<1>3. Drifted \in TableStates
  BY <1>1 DEF Drifted, TableStates
<1>4. QED
  BY <1>1, <1>2, <1>3 DEF Blank, Database, Nothing

----------------------------------------------------------------------------
(* Types. *)

\* A lock that is held is held at least once, which is what keeps releasing
\* it from going below nought.
HeldIsDeep == advisory.by # NoOne => advisory.depth > 0

TypeInv == TypeOK /\ HeldIsDeep

\* Writing keeps the types of the store.
LEMMA WriteType ==
    ASSUME TypeOK, NEW p \in Instances,
           NEW f \in {"ledger", "row", "tables"}, NEW v,
           f = "ledger" => v \in BOOLEAN,
           f = "row" => v \in 0..Latest,
           f = "tables" => v \in TableStates,
           Write(p, f, v)
    PROVE  /\ db' \in Database
           /\ pending' \in Database
           /\ owner' \in [ledger : Instances \cup {NoOne},
                          row : Instances \cup {NoOne},
                          tables : Instances \cup {NoOne}]
<1>1. CASE Autocommits(p)
  BY <1>1 DEF Write, TypeOK, Database
<1>2. CASE ~Autocommits(p)
  BY <1>2 DEF Write, TypeOK, Database
<1>3. QED
  BY <1>1, <1>2

\* What a transaction would commit is a database.
LEMMA OverType ==
    ASSUME TypeOK, NEW p \in Instances, NEW base \in Database
    PROVE  Over(base, p) \in Database
BY DEF TypeOK, Over, Database

LEMMA SeenType ==
    ASSUME TypeOK, NEW p \in Instances
    PROVE  Seen(p) \in Database
<1>1. Base(p) \in Database
  BY DEF Base, TypeOK
<1>2. QED
  BY <1>1, OverType DEF Seen

LEMMA DisownType ==
    ASSUME TypeOK, NEW p \in Instances, Disown(p)
    PROVE  /\ pending' \in Database
           /\ owner' \in [ledger : Instances \cup {NoOne},
                          row : Instances \cup {NoOne},
                          tables : Instances \cup {NoOne}]
           /\ snapshot' \in [Instances -> Database]
BY ConstantTypes, HistoryAssumption DEF Disown, TypeOK, Database

LEMMA LegType ==
    ASSUME TypeOK, NEW p \in Instances
    PROVE  /\ Leg(p) \in (0..Latest) \X (0..Latest)
           /\ Leg(p)[1] = at[p]
           /\ Leg(p)[2] = NextOn(at[p], target[p])
BY NextOnType DEF Leg, TypeOK

LEMMA OutcomeType ==
    ASSUME NEW l \in (0..Latest) \X (0..Latest), NEW k \in Nat,
           NEW t \in TableStates, NEW u \in Outcomes(t, l, k)
    PROVE  u \in TableStates
BY OnLegType, ConstantTypes DEF Outcomes

\* What an action or a record writes has its type.
LEMMA ActionEffectType ==
    ASSUME TypeOK, NEW p \in Instances, ActionEffect(p)
    PROVE  /\ db' \in Database
           /\ pending' \in Database
           /\ owner' \in [ledger : Instances \cup {NoOne},
                          row : Instances \cup {NoOne},
                          tables : Instances \cup {NoOne}]
           /\ UNCHANGED snapshot
<1>1. PICK t \in Outcomes(Seen(p).tables, Leg(p), step[p] + 1) :
         Write(p, "tables", t)
  BY DEF ActionEffect
<1>2. Seen(p).tables \in TableStates
  BY SeenType DEF Database
<1>3. step[p] + 1 \in Nat
  BY DEF TypeOK
<1>4. t \in TableStates
  BY <1>2, <1>3, LegType, OutcomeType
<1>5. QED
  BY <1>1, <1>4, WriteType DEF ActionEffect

LEMMA RecordEffectType ==
    ASSUME TypeOK, NEW p \in Instances, RecordEffect(p)
    PROVE  /\ db' \in Database
           /\ pending' \in Database
           /\ owner' \in [ledger : Instances \cup {NoOne},
                          row : Instances \cup {NoOne},
                          tables : Instances \cup {NoOne}]
           /\ UNCHANGED snapshot
<1>1. Leg(p)[2] \in 0..Latest
  BY LegType
<1>2. QED
  BY <1>1, WriteType DEF RecordEffect

\* Every step keeps the types.
LEMMA TypeStep == TypeInv /\ [Next]_vars => TypeInv'
<1> SUFFICES ASSUME TypeInv, [Next]_vars PROVE TypeInv'
  OBVIOUS
<1> USE DEF TypeInv, HeldIsDeep, Goto, Fail, Phases, Ended, Working, Reasons,
            store, plan, walk, count
<1>1. ASSUME NEW p \in Instances, Begin(p) PROVE TypeInv'
  <2>1. PICK t \in Asked[p] : target' = [target EXCEPT ![p] = t]
    BY <1>1 DEF Begin
  <2>2. t \in 0..Latest /\ 0 \in 0..Latest
    BY HistoryAssumption
  <2>3. PICK s \in 1..PoolSize : conn' = [conn EXCEPT ![p] = s]
    BY <1>1 DEF Begin
  <2>4. QED
    BY <1>1, <2>1, <2>2, <2>3 DEF Begin, TypeOK
<1>2. ASSUME NEW p \in Instances, PrepareLedger(p) PROVE TypeInv'
  <2>1. db' \in Database /\ pending' \in Database
        /\ owner' \in [ledger : Instances \cup {NoOne}, row : Instances \cup {NoOne},
                      tables : Instances \cup {NoOne}]
    BY <1>2, WriteType DEF PrepareLedger, TypeOK
  <2>2. QED
    BY <1>2, <2>1 DEF PrepareLedger, Prepared, TypeOK
<1>3. ASSUME NEW p \in Instances, LedgerRaceLost(p) PROVE TypeInv'
  BY <1>3 DEF LedgerRaceLost, TypeOK
<1>4. ASSUME NEW p \in Instances, LedgerRaceWon(p) PROVE TypeInv'
  <2>1. db' \in Database /\ pending' \in Database
        /\ owner' \in [ledger : Instances \cup {NoOne}, row : Instances \cup {NoOne},
                      tables : Instances \cup {NoOne}]
    BY <1>4, WriteType DEF LedgerRaceWon, TypeOK
  <2>2. QED
    BY <1>4, <2>1 DEF LedgerRaceWon, Prepared, TypeOK
<1>5. ASSUME NEW p \in Instances, TakeLock(p) PROVE TypeInv'
  BY <1>5 DEF TakeLock, TypeOK
<1>6. ASSUME NEW p \in Instances, LockRefused(p) PROVE TypeInv'
  BY <1>6 DEF LockRefused, TypeOK
<1>7. ASSUME NEW p \in Instances, ReadLedger(p) PROVE TypeInv'
  <2>1. Seen(p).row \in 0..Latest
    BY SeenType DEF Database
  <2>2. QED
    BY <1>7, <2>1 DEF ReadLedger, TypeOK
<1>8. ASSUME NEW p \in Instances, ProjectionRefused(p) PROVE TypeInv'
  BY <1>8 DEF ProjectionRefused, TypeOK
<1>9. ASSUME NEW p \in Instances, RunAction(p) PROVE TypeInv'
  <2>1. ActionEffect(p)
    BY <1>9 DEF RunAction
  <2>2. db' \in Database /\ pending' \in Database /\ UNCHANGED snapshot
        /\ owner' \in [ledger : Instances \cup {NoOne}, row : Instances \cup {NoOne},
                      tables : Instances \cup {NoOne}]
    BY <2>1, ActionEffectType
  <2>3. QED
    BY <1>9, <2>2 DEF RunAction, TypeOK
<1>10. ASSUME NEW p \in Instances, ActionRefused(p) PROVE TypeInv'
  BY <1>10 DEF ActionRefused, TypeOK
<1>11. ASSUME NEW p \in Instances, Record(p) PROVE TypeInv'
  <2>1. RecordEffect(p)
    BY <1>11 DEF Record
  <2>2. db' \in Database /\ pending' \in Database /\ UNCHANGED snapshot
        /\ owner' \in [ledger : Instances \cup {NoOne}, row : Instances \cup {NoOne},
                      tables : Instances \cup {NoOne}]
    BY <2>1, RecordEffectType
  <2>3. QED
    BY <1>11, <2>2, LegType, NextOnType DEF Record, TypeOK
<1>13. ASSUME NEW p \in Instances, Release(p) PROVE TypeInv'
  BY <1>13, ConstantTypes, InstancesAssumption DEF Release, Nothing, TypeOK
<1>14. ASSUME NEW p \in Instances, Commit(p) PROVE TypeInv'
  BY <1>14, DisownType, OverType DEF Commit, EndTransaction, Nothing, TypeOK
<1>15. ASSUME NEW p \in Instances, Busy(p) PROVE TypeInv'
  BY <1>15 DEF Busy, TypeOK
<1>16. ASSUME NEW p \in Instances, Rollback(p) PROVE TypeInv'
  BY <1>16, DisownType DEF Rollback, Nothing, TypeOK
<1>17. ASSUME NEW p \in Instances, StatementFails(p) PROVE TypeInv'
  BY <1>17 DEF StatementFails, Injected, TypeOK
<1>18. ASSUME NEW p \in Instances, AnswerLost(p) PROVE TypeInv'
  <2>1. db' \in Database /\ pending' \in Database /\ UNCHANGED snapshot
        /\ owner' \in [ledger : Instances \cup {NoOne}, row : Instances \cup {NoOne},
                      tables : Instances \cup {NoOne}]
    BY <1>18, ActionEffectType, RecordEffectType DEF AnswerLost
  <2>2. QED
    BY <1>18, <2>1 DEF AnswerLost, Injected, TypeOK
<1>19. ASSUME NEW p \in Instances, CommitFails(p) PROVE TypeInv'
  BY <1>19, DisownType, OverType DEF CommitFails, EndTransaction, Nothing, Injected, TypeOK
<1>20. ASSUME NEW p \in Instances, Crash(p) PROVE TypeInv'
  BY <1>20, DisownType DEF Crash, Nothing, Injected, TypeOK
<1>21. ASSUME NEW p \in Instances, CloseIdle(p) PROVE TypeInv'
  BY <1>21 DEF CloseIdle, Nothing, TypeOK
<1>22. CASE UNCHANGED vars
  BY <1>22 DEF vars, TypeOK
<1>23. QED
  BY <1>1, <1>2, <1>3, <1>4, <1>5, <1>6, <1>7, <1>8, <1>9, <1>10, <1>11,
     <1>13, <1>14, <1>15, <1>16, <1>17, <1>18, <1>19, <1>20, <1>21, <1>22
  DEF Next, Proceed, World, Rest

\* The initial states have the types.
LEMMA TypeInit == Init => TypeInv
<1> SUFFICES ASSUME Init PROVE TypeInv
  OBVIOUS
<1>1. PICK v \in Starts, ledger \in BOOLEAN :
         db = [ledger |-> ledger, row |-> v, tables |-> Whole(v)]
  BY DEF Init
<1>2. db \in Database
  BY <1>1, HistoryAssumption, WholeType DEF Database
<1>3. QED
  BY <1>2, ConstantTypes, HistoryAssumption, ServerAssumption
  DEF Init, TypeInv, TypeOK, HeldIsDeep, Nothing, Phases, Ended, Reasons

\* Every variable keeps its type, whatever the engine, the lock, the history
\* and the number of replicas.
THEOREM Types == Spec => []TypeOK
<1>1. TypeInv => TypeOK
  BY DEF TypeInv
<1>2. QED
  BY <1>1, TypeInit, TypeStep, PTL DEF Spec

----------------------------------------------------------------------------
(* The ledger tells the truth. *)

\* Current never gets further than reading the ledger.
OnlyAsks ==
    \A p \in Instances :
        Asking(p) => phase[p] \in Ended \cup {"prepare", "racing", "read", "rollback"}

\* From reading the ledger to the end of the transaction the lock is held.
Guarded ==
    \A p \in Instances :
        /\ phase[p] \in Deciding => advisory.by = p
        /\ phase[p] = "read" /\ ~Asking(p) => advisory.by = p

\* Whoever holds the lock is between taking it and ending its transaction, on
\* the connection it took it on.
HeldInside ==
    \A p \in Instances :
        advisory.by = p =>
            /\ phase[p] \in Deciding \cup {"read", "rollback"}
            /\ advisory.session = conn[p]
            /\ ~Asking(p)

\* What is written and not committed is the lock holder's.
WritesGuarded ==
    \A p \in Instances :
        owner.row = p \/ owner.tables = p =>
            /\ advisory.by = p
            /\ phase[p] \in Deciding \cup {"rollback"}

\* The transaction's own view of the database is where the run has got to.
OnCourse(p) ==
    LET mine == Over(db, p) IN
    /\ phase[p] \in {"prepare", "racing", "lock", "read"} => step[p] = 0
    /\ phase[p] \in Deciding => mine.row = at[p]
    /\ phase[p] = "apply" =>
          /\ at[p] # target[p]
          /\ step[p] < StepsOf(Leg(p))
          /\ mine.tables = OnLeg(Leg(p), step[p])
    /\ phase[p] = "record" =>
          /\ at[p] # target[p]
          /\ mine.tables = Whole(Leg(p)[2])
    /\ phase[p] \in {"release", "commit"} =>
          /\ at[p] = target[p]
          /\ mine.tables = Whole(at[p])

LedgerInv ==
    /\ TypeInv
    /\ Coherent
    /\ OnlyAsks
    /\ Guarded
    /\ HeldInside
    /\ WritesGuarded
    /\ \A p \in Instances : OnCourse(p)

\* The two ends of a leg.
LEMMA LegEnds ==
    ASSUME NEW l \in Legs
    PROVE  /\ OnLeg(l, 0) = Whole(l[1])
           /\ OnLeg(l, StepsOf(l)) = Whole(l[2])
BY StepsPositive DEF OnLeg

\* On tables a leg's first k - 1 actions have run on, action k can only advance.
LEMMA OnItsLeg ==
    ASSUME NEW l \in Legs, NEW k \in Nat, k > 0, k <= StepsOf(l),
           NEW u \in Outcomes(OnLeg(l, k - 1), l, k)
    PROVE  u = OnLeg(l, k)
<1>1. l[1] # l[2] /\ l[1] \in Nat /\ l[2] \in Nat
  BY HistoryAssumption DEF Legs, Versions
<1>2. StepsOf(l) \in Nat \ {0}
  BY StepsPositive
<1>3. ASSUME NEW i \in 0..StepsOf(l), NEW j \in 0..StepsOf(l), i # j
      PROVE  OnLeg(l, i) # OnLeg(l, j)
  BY <1>1, <1>2, <1>3 DEF OnLeg, Whole
<1>4. ~RunBefore(OnLeg(l, k - 1), l, k)
  BY <1>2, <1>3 DEF RunBefore
<1>5. RunBefore(OnLeg(l, k - 1), l, k - 1)
  BY <1>2 DEF RunBefore
<1>6. QED
  BY <1>4, <1>5 DEF Outcomes

\* On Postgres a statement reads the latest commit under the run's own writes.
LEMMA SeenOnPostgres ==
    ASSUME Engine = "postgres", NEW p \in Instances
    PROVE  Seen(p) = Over(db, p)
BY DEF Seen, Base

\* A statement that fails ends the run's part in it.
LEMMA FailKeeps ==
    ASSUME LedgerInv, NEW p \in Instances, NEW r, Fail(p, r), TypeInv',
           UNCHANGED <<store, advisory, plan, step>>,
           \A q \in Instances \ {p} : at'[q] = at[q]
    PROVE  LedgerInv'
<1> USE DEF LedgerInv, Fail, Goto, store, plan
<1>1. \A q \in Instances : phase'[q] = IF q = p THEN "rollback" ELSE phase[q]
  BY DEF TypeInv, TypeOK
<1>2. Coherent' /\ OnlyAsks'
  BY <1>1 DEF Coherent, OnlyAsks, Asking
<1>3. Guarded' /\ HeldInside' /\ WritesGuarded'
  BY <1>1 DEF Guarded, HeldInside, WritesGuarded, Asking, Deciding
<1>4. ASSUME NEW q \in Instances PROVE OnCourse(q)'
  BY <1>1 DEF OnCourse, Over, Leg, Deciding
<1>5. QED
  BY <1>2, <1>3, <1>4

\* What Commit, Rollback, CommitFails and Crash have in common.
Ends(p) ==
    /\ Disown(p)
    /\ \E ph \in {"done", "failed", "rollback"} : Goto(p, ph)
    /\ \/ db' = db
       \/ phase[p] = "commit" /\ db' = Over(db, p)
    /\ advisory' = IF advisory.by = p THEN Nothing ELSE advisory
    /\ UNCHANGED <<target, conn, at, step>>

\* The end of a transaction: the lock goes, what was not committed goes, and
\* what was committed is a version with its tables.
LEMMA EndKeeps ==
    ASSUME LedgerInv, TypeInv', NEW p \in Instances, Ends(p)
    PROVE  LedgerInv'
<1> USE DEF LedgerInv, Ends
<1>0. PICK ph \in {"done", "failed", "rollback"} : Goto(p, ph)
  OBVIOUS
<1>1. \A q \in Instances : phase'[q] = IF q = p THEN ph ELSE phase[q]
  BY <1>0 DEF TypeInv, TypeOK, Goto
<1>2. /\ owner'.row = IF owner.row = p THEN NoOne ELSE owner.row
      /\ owner'.tables = IF owner.tables = p THEN NoOne ELSE owner.tables
  BY DEF Disown
<1>3. \A q \in Instances : advisory'.by = q <=> q # p /\ advisory.by = q
  BY InstancesAssumption DEF Nothing
<1>4. Coherent'
  <2>1. CASE db' = db
    BY <2>1 DEF Coherent
  <2>2. CASE phase[p] = "commit" /\ db' = Over(db, p)
    BY <2>2 DEF OnCourse, Coherent, Deciding
  <2>3. QED
    BY <2>1, <2>2
<1>5. OnlyAsks'
  BY <1>1 DEF OnlyAsks, Asking, Ended
<1>6. Guarded' /\ HeldInside' /\ WritesGuarded'
  BY <1>1, <1>2, <1>3, InstancesAssumption
  DEF Guarded, HeldInside, WritesGuarded, Asking, Deciding, Nothing
<1>7. ASSUME NEW q \in Instances PROVE OnCourse(q)'
  <2>1. CASE q = p
    BY <2>1, <1>1 DEF OnCourse, Deciding
  <2>2. CASE q # p /\ phase[q] \notin Deciding
    BY <2>2, <1>1 DEF OnCourse, Deciding
  <2>3. CASE q # p /\ phase[q] \in Deciding
    <3>1. advisory.by = q /\ phase[p] # "commit"
      BY <2>3 DEF Guarded, Deciding
    <3>2. /\ Over(db, q)'.row = Over(db, q).row
          /\ Over(db, q)'.tables = Over(db, q).tables
      <4>1. db' = db
        BY <3>1
      <4>2. /\ owner'.row = q <=> owner.row = q
            /\ owner'.tables = q <=> owner.tables = q
        BY <2>3, <1>2, InstancesAssumption
      <4>3. /\ owner.row = q => pending'.row = pending.row
            /\ owner.tables = q => pending'.tables = pending.tables
        BY <2>3 DEF Disown
      <4>4. QED
        BY <4>1, <4>2, <4>3 DEF Over
    <3>3. QED
      BY <3>2, <2>3, <1>1 DEF OnCourse, Leg, Deciding
  <2>4. QED
    BY <2>1, <2>2, <2>3
<1>8. QED
  BY <1>4, <1>5, <1>6, <1>7

\* A replica whose view and whose place did not change is where it was.
LEMMA StillOnCourse ==
    ASSUME NEW q \in Instances, OnCourse(q),
           phase'[q] = phase[q], at'[q] = at[q],
           target'[q] = target[q], step'[q] = step[q],
           Over(db, q)'.row = Over(db, q).row,
           Over(db, q)'.tables = Over(db, q).tables
    PROVE  OnCourse(q)'
BY DEF OnCourse, Leg

\* What a write of the row, or of the tables, inside a transaction changes: the
\* writer's view in that place, and no one else's.
LEMMA WriteInside ==
    ASSUME TypeOK, Engine = "postgres", NEW p \in Instances, ~Asking(p),
           NEW f \in {"row", "tables"}, NEW v,
           Writable(p, f), Write(p, f, v)
    PROVE  /\ db' = db
           /\ f = "row" => /\ Over(db, p)'.row = v
                           /\ Over(db, p)'.tables = Over(db, p).tables
           /\ f = "tables" => /\ Over(db, p)'.tables = v
                              /\ Over(db, p)'.row = Over(db, p).row
           /\ \A q \in Instances \ {p} :
                 /\ owner'.row = q <=> owner.row = q
                 /\ owner'.tables = q <=> owner.tables = q
                 /\ Over(db, q)'.row = Over(db, q).row
                 /\ Over(db, q)'.tables = Over(db, q).tables
<1> USE InstancesAssumption DEF TypeOK, Database, Write, Writable, Autocommits, Over
<1>1. CASE f = "row"
  BY <1>1
<1>2. CASE f = "tables"
  BY <1>2
<1>3. QED
  BY <1>1, <1>2

\* Making the ledger is nobody's business but the ledger's.
LEMMA LedgerWriteInside ==
    ASSUME TypeOK, NEW p \in Instances,
           Write(p, "ledger", TRUE)
    PROVE  /\ db'.row = db.row /\ db'.tables = db.tables
           /\ owner'.row = owner.row /\ owner'.tables = owner.tables
           /\ pending'.row = pending.row /\ pending'.tables = pending.tables
BY DEF TypeOK, Database, Write

\* A step that leaves the row, the tables, the lock and everybody's place alone
\* and takes p to a phase before the ledger is read.
LEMMA EarlyKeeps ==
    ASSUME LedgerInv, NEW p \in Instances, NEW ph \in Phases, Goto(p, ph), TypeInv',
           phase[p] \in Ended \cup {"prepare", "racing"},
           ph \in {"prepare", "racing", "lock", "read"},
           ph = "lock" => ~Asking(p)', ph = "read" => Asking(p)',
           step'[p] = 0,
           db'.row = db.row, db'.tables = db.tables,
           owner'.row = owner.row, owner'.tables = owner.tables,
           pending'.row = pending.row, pending'.tables = pending.tables,
           UNCHANGED advisory,
           \A q \in Instances \ {p} :
              /\ target'[q] = target[q] /\ conn'[q] = conn[q]
              /\ at'[q] = at[q] /\ step'[q] = step[q]
    PROVE  LedgerInv'
<1> USE DEF LedgerInv, Goto
<1>1. \A q \in Instances : phase'[q] = IF q = p THEN ph ELSE phase[q]
  BY DEF TypeInv, TypeOK
<1>2. Coherent'
  BY DEF Coherent
<1>3. OnlyAsks'
  BY <1>1 DEF OnlyAsks, Asking
<1>4. advisory.by # p
  BY DEF HeldInside, Deciding, Ended
<1>5. Guarded' /\ HeldInside' /\ WritesGuarded'
  BY <1>1, <1>4 DEF Guarded, HeldInside, WritesGuarded, Asking, Deciding
<1>6. ASSUME NEW q \in Instances PROVE OnCourse(q)'
  <2>1. CASE q = p
    BY <2>1, <1>1 DEF OnCourse, Deciding
  <2>2. CASE q # p
    <3>1. /\ Over(db, q)'.row = Over(db, q).row
          /\ Over(db, q)'.tables = Over(db, q).tables
      BY DEF Over
    <3>2. QED
      BY <2>2, <3>1, <1>1, StillOnCourse
  <2>3. QED
    BY <2>1, <2>2
<1>7. QED
  BY <1>2, <1>3, <1>5, <1>6

\* Where a step of p leaves the row, the tables and who wrote them alone, every
\* other replica is where it was.
LEMMA OthersKeep ==
    ASSUME LedgerInv, NEW p \in Instances, NEW ph \in Phases, Goto(p, ph),
           UNCHANGED <<store, plan>>,
           \A q \in Instances \ {p} : at'[q] = at[q] /\ step'[q] = step[q],
           NEW q \in Instances \ {p}
    PROVE  phase'[q] = phase[q] /\ OnCourse(q)'
<1>1. phase'[q] = phase[q]
  BY DEF LedgerInv, TypeInv, TypeOK, Goto
<1>2. /\ Over(db, q)'.row = Over(db, q).row
      /\ Over(db, q)'.tables = Over(db, q).tables
  BY DEF Over, store
<1>3. QED
  BY <1>1, <1>2, StillOnCourse DEF LedgerInv, plan

\* On Postgres under the advisory lock every step keeps the invariant.
LEMMA LedgerStep ==
    ASSUME Engine = "postgres", Lock = "transaction", LedgerInv, [Next]_vars
    PROVE  LedgerInv'
<1> USE DEF LedgerInv
<1>0. TypeInv'
  BY TypeStep
<1>1. ASSUME NEW p \in Instances, Begin(p) PROVE LedgerInv'
  BY <1>0, <1>1, EarlyKeeps
  DEF Begin, Phases, Working, store, count, TypeInv, TypeOK
<1>2. ASSUME NEW p \in Instances, PrepareLedger(p) PROVE LedgerInv'
  BY <1>0, <1>2, EarlyKeeps, LedgerWriteInside
  DEF OnCourse, PrepareLedger, Prepared, Phases, Working, plan, walk, Asking, TypeInv
<1>3. ASSUME NEW p \in Instances, LedgerRaceLost(p) PROVE LedgerInv'
  BY <1>0, <1>3, FailKeeps DEF LedgerRaceLost, walk
<1>4. ASSUME NEW p \in Instances, LedgerRaceWon(p) PROVE LedgerInv'
  BY <1>0, <1>4, EarlyKeeps, LedgerWriteInside
  DEF OnCourse, LedgerRaceWon, Prepared, Phases, Working, plan, walk, Asking, TypeInv
<1>5. ASSUME NEW p \in Instances, TakeLock(p) PROVE LedgerInv'
  <2>1. \A q \in Instances : phase'[q] = IF q = p THEN "read" ELSE phase[q]
    BY <1>5 DEF TakeLock, Goto, TypeInv, TypeOK
  <2>2. advisory.by = NoOne
    BY <1>5 DEF TakeLock, MayHold, HeldInside, Deciding
  <2>3. advisory'.by = p /\ advisory'.session = conn[p]
    BY <1>5 DEF TakeLock
  <2>4. ~Asking(p)
    BY <1>5 DEF TakeLock, OnlyAsks, Ended
  <2>5. Coherent' /\ OnlyAsks'
    BY <1>5, <2>1 DEF TakeLock, Coherent, OnlyAsks, Asking, store, plan
  <2>6. Guarded' /\ HeldInside' /\ WritesGuarded'
    BY <1>5, <2>1, <2>2, <2>3, <2>4, InstancesAssumption
    DEF TakeLock, Guarded, HeldInside, WritesGuarded, Asking, Deciding, store, plan
  <2>7. ASSUME NEW q \in Instances PROVE OnCourse(q)'
    <3>1. CASE q = p
      BY <1>5, <3>1, <2>1 DEF TakeLock, OnCourse, Deciding, walk
    <3>2. CASE q # p
      BY <1>5, <3>2, OthersKeep DEF TakeLock, walk, Phases, Working
    <3>3. QED
      BY <3>1, <3>2
  <2>8. QED
    BY <1>0, <2>5, <2>6, <2>7
<1>6. ASSUME NEW p \in Instances, LockRefused(p) PROVE LedgerInv'
  BY <1>6 DEF LockRefused
<1>7. ASSUME NEW p \in Instances, ReadLedger(p) PROVE LedgerInv'
  <2> DEFINE v == Seen(p).row
  <2>1. /\ phase[p] = "read"
        /\ at' = [at EXCEPT ![p] = v]
        /\ UNCHANGED <<store, advisory, plan, step>>
        /\ \/ Asking(p) /\ Goto(p, "done")
           \/ Fail(p, "unknown")
           \/ ~Asking(p) /\ Goto(p, IF v = target[p] THEN "release" ELSE "apply")
    BY <1>7 DEF ReadLedger
  <2>2. \A q \in Instances \ {p} : at'[q] = at[q]
    BY <2>1 DEF TypeInv, TypeOK
  <2>3. CASE Fail(p, "unknown")
    BY <1>0, <2>1, <2>2, <2>3, FailKeeps
  <2>4. ASSUME NEW ph \in {"done", "release", "apply"}, Goto(p, ph),
               ph = "done" => Asking(p),
               ph # "done" => ~Asking(p),
               ph = "release" => v = target[p],
               ph = "apply" => v # target[p]
        PROVE  LedgerInv'
    <3>1. \A q \in Instances : phase'[q] = IF q = p THEN ph ELSE phase[q]
      BY <2>4 DEF Goto, TypeInv, TypeOK
    <3>2. Coherent' /\ OnlyAsks'
      BY <2>1, <2>4, <3>1 DEF Coherent, OnlyAsks, Asking, store, plan, Ended
    <3>3. Guarded' /\ HeldInside' /\ WritesGuarded'
      BY <2>1, <2>4, <3>1
      DEF Guarded, HeldInside, WritesGuarded, Asking, Deciding, store, plan
    <3>4. ASSUME NEW q \in Instances PROVE OnCourse(q)'
      <4>1. CASE q # p
        BY <2>1, <2>2, <2>4, <4>1, OthersKeep DEF Phases, Ended, Working
      <4>2. CASE q = p
        <5>1. owner.row # p /\ owner.tables # p
          BY <2>1 DEF WritesGuarded, Deciding
        <5>2. Over(db, p)'.row = v /\ Over(db, p)'.tables = Whole(v)
          BY <2>1, <5>1, SeenOnPostgres DEF Over, store, Coherent
        <5>3. at'[p] = v /\ v \in 0..Latest
          BY <1>0, <2>1 DEF TypeInv, TypeOK
        <5>4. step'[p] = 0
          BY <2>1 DEF OnCourse
        <5>5. target'[p] = target[p]
          BY <2>1 DEF plan
        <5>6. CASE ph = "apply"
          <6>1. target[p] \in Versions
            BY <2>4, <5>6 DEF TypeInv, TypeOK, Asking, Versions
          <6>2. <<v, NextOn(v, target[p])>> \in Legs
            BY <2>4, <5>3, <5>6, <6>1, NextOnLeg
          <6>3. Leg(p)' = <<v, NextOn(v, target[p])>>
            BY <5>3, <5>5 DEF Leg
          <6>4. StepsOf(Leg(p)') > 0 /\ OnLeg(Leg(p)', 0) = Whole(v)
            BY <6>2, <6>3, StepsPositive, LegEnds
          <6>5. QED
            BY <2>4, <3>1, <4>2, <5>2, <5>3, <5>4, <5>5, <5>6, <6>4
            DEF OnCourse, Deciding
        <5>7. CASE ph # "apply"
          BY <2>4, <3>1, <4>2, <5>2, <5>3, <5>5, <5>7 DEF OnCourse, Deciding
        <5>8. QED
          BY <5>6, <5>7
      <4>3. QED
        BY <4>1, <4>2
    <3>5. QED
      BY <1>0, <3>2, <3>3, <3>4
  <2>5. QED
    BY <2>1, <2>3, <2>4
<1>8. ASSUME NEW p \in Instances, ProjectionRefused(p) PROVE LedgerInv'
  BY <1>0, <1>8, FailKeeps DEF ProjectionRefused, walk
<1>9. ASSUME NEW p \in Instances, RunAction(p) PROVE LedgerInv'
  <2> DEFINE k == step[p] + 1
             ph == IF k = StepsOf(Leg(p)) THEN "record" ELSE "apply"
  <2>1. phase[p] = "apply" /\ ~Asking(p) /\ Writable(p, "tables")
    BY <1>9 DEF RunAction, ActionEffect, OnlyAsks, Ended
  <2>2. /\ at[p] # target[p]
        /\ step[p] \in Nat /\ step[p] < StepsOf(Leg(p))
        /\ Over(db, p).tables = OnLeg(Leg(p), step[p])
        /\ Over(db, p).row = at[p]
    BY <2>1 DEF OnCourse, Deciding, TypeInv, TypeOK
  <2>3. Leg(p) \in Legs
    <3>1. target[p] \in Versions /\ at[p] \in 0..Latest
      BY <2>1 DEF TypeInv, TypeOK, Asking, Versions
    <3>2. QED
      BY <2>2, <3>1, NextOnLeg DEF Leg
  <2>4. Write(p, "tables", OnLeg(Leg(p), k))
    <3>1. PICK t \in Outcomes(Over(db, p).tables, Leg(p), k) : Write(p, "tables", t)
      BY <1>9, SeenOnPostgres DEF RunAction, ActionEffect
    <3>2. k - 1 = step[p] /\ k \in Nat /\ k > 0 /\ k <= StepsOf(Leg(p))
      BY <2>2, <2>3, StepsPositive
    <3>3. t = OnLeg(Leg(p), k)
      BY <2>2, <2>3, <3>1, <3>2, OnItsLeg
    <3>4. QED
      BY <3>1, <3>3
  <2>5. /\ UNCHANGED <<advisory, plan, at>>
        /\ step' = [step EXCEPT ![p] = k]
        /\ Goto(p, ph)
    BY <1>9 DEF RunAction
  <2>6. \A q \in Instances : /\ phase'[q] = IF q = p THEN ph ELSE phase[q]
                            /\ step'[q] = IF q = p THEN k ELSE step[q]
    BY <2>5 DEF Goto, TypeInv, TypeOK
  <2>7. /\ db' = db
        /\ Over(db, p)'.tables = OnLeg(Leg(p), k)
        /\ Over(db, p)'.row = Over(db, p).row
        /\ \A q \in Instances \ {p} :
              /\ owner'.row = q <=> owner.row = q
              /\ owner'.tables = q <=> owner.tables = q
              /\ Over(db, q)'.row = Over(db, q).row
              /\ Over(db, q)'.tables = Over(db, q).tables
    BY <2>1, <2>4, WriteInside DEF TypeInv
  <2>8. Coherent' /\ OnlyAsks'
    BY <2>1, <2>5, <2>6, <2>7 DEF Coherent, OnlyAsks, Asking, plan
  <2>9. Guarded' /\ HeldInside' /\ WritesGuarded'
    BY <2>1, <2>5, <2>6, <2>7
    DEF Guarded, HeldInside, WritesGuarded, Asking, Deciding, plan
  <2>10. ASSUME NEW q \in Instances PROVE OnCourse(q)'
    <3>1. CASE q # p
      BY <2>5, <2>6, <2>7, <3>1, StillOnCourse DEF plan
    <3>2. CASE q = p
      <4>1. Leg(p)' = Leg(p) /\ at'[p] = at[p] /\ target'[p] = target[p]
        BY <2>5 DEF Leg, plan
      <4>2. CASE k = StepsOf(Leg(p))
        <5>1. phase'[p] = "record"
          BY <2>6, <4>2
        <5>2. OnLeg(Leg(p), k) = Whole(Leg(p)[2])
          BY <2>3, <4>2, LegEnds
        <5>3. QED
          BY <2>2, <2>7, <3>2, <4>1, <5>1, <5>2 DEF OnCourse, Deciding
      <4>3. CASE k # StepsOf(Leg(p))
        <5>1. phase'[p] = "apply" /\ step'[p] = k
          BY <2>6, <4>3
        <5>2. k < StepsOf(Leg(p))
          BY <2>2, <2>3, <4>3, StepsPositive
        <5>3. QED
          BY <2>2, <2>7, <3>2, <4>1, <5>1, <5>2 DEF OnCourse, Deciding
      <4>4. QED
        BY <4>2, <4>3
    <3>3. QED
      BY <3>1, <3>2
  <2>11. QED
    BY <1>0, <2>8, <2>9, <2>10
<1>10. ASSUME NEW p \in Instances, ActionRefused(p) PROVE LedgerInv'
  BY <1>0, <1>10, FailKeeps DEF ActionRefused, walk
<1>11. ASSUME NEW p \in Instances, Record(p) PROVE LedgerInv'
  <2> DEFINE w == Leg(p)[2]
             ph == IF w = target[p] THEN "release" ELSE "apply"
  <2>1. phase[p] = "record" /\ ~Asking(p) /\ Writable(p, "row") /\ Write(p, "row", w)
    BY <1>11 DEF Record, RecordEffect, OnlyAsks, Ended
  <2>2. at[p] # target[p] /\ Over(db, p).tables = Whole(w)
    BY <2>1 DEF OnCourse
  <2>3. target[p] \in Versions /\ w \in 0..Latest
    <3>1. target[p] \in Versions
      BY <2>1 DEF TypeInv, TypeOK, Asking, Versions
    <3>2. w \in 0..Latest
      BY LegType DEF TypeInv
    <3>3. QED
      BY <3>1, <3>2
  <2>4. /\ UNCHANGED <<advisory, plan>>
        /\ at' = [at EXCEPT ![p] = w]
        /\ step' = [step EXCEPT ![p] = 0]
        /\ Goto(p, ph)
    BY <1>11 DEF Record
  <2> HIDE DEF w, ph
  <2>5. /\ \A q \in Instances : phase'[q] = IF q = p THEN ph ELSE phase[q]
        /\ \A q \in Instances : step'[q] = IF q = p THEN 0 ELSE step[q]
        /\ \A q \in Instances : at'[q] = IF q = p THEN w ELSE at[q]
    <3>1. \A q \in Instances : phase'[q] = IF q = p THEN ph ELSE phase[q]
      BY <2>4 DEF Goto, TypeInv, TypeOK
    <3>2. \A q \in Instances : step'[q] = IF q = p THEN 0 ELSE step[q]
      BY <2>4 DEF TypeInv, TypeOK
    <3>3. \A q \in Instances : at'[q] = IF q = p THEN w ELSE at[q]
      BY <2>4 DEF TypeInv, TypeOK
    <3>4. QED
      BY <3>1, <3>2, <3>3
  <2>6. /\ db' = db
        /\ Over(db, p)'.row = w
        /\ Over(db, p)'.tables = Over(db, p).tables
        /\ \A q \in Instances \ {p} :
              /\ owner'.row = q <=> owner.row = q
              /\ owner'.tables = q <=> owner.tables = q
              /\ Over(db, q)'.row = Over(db, q).row
              /\ Over(db, q)'.tables = Over(db, q).tables
    BY <2>1, WriteInside DEF TypeInv
  <2>7. Coherent' /\ OnlyAsks'
    BY <2>1, <2>4, <2>5, <2>6 DEF Coherent, OnlyAsks, Asking, plan
  <2>8. Guarded' /\ HeldInside' /\ WritesGuarded'
    BY <2>1, <2>4, <2>5, <2>6
    DEF ph, Guarded, HeldInside, WritesGuarded, Asking, Deciding, plan
  <2>9. ASSUME NEW q \in Instances PROVE OnCourse(q)'
    <3>1. CASE q # p
      BY <2>4, <2>5, <2>6, <3>1, StillOnCourse DEF plan
    <3>2. CASE q = p
      <4>1. target'[p] = target[p] /\ at'[p] = w /\ step'[p] = 0
        BY <2>4, <2>5 DEF plan
      <4>2. CASE w = target[p]
        BY <2>2, <2>5, <2>6, <3>2, <4>1, <4>2 DEF OnCourse, Deciding, ph
      <4>3. CASE w # target[p]
        <5>1. Leg(p)' = <<w, NextOn(w, target[p])>>
          BY <4>1 DEF Leg
        <5>2. Leg(p)' \in Legs
          BY <2>3, <4>3, <5>1, NextOnLeg
        <5>3. StepsOf(Leg(p)') > 0 /\ OnLeg(Leg(p)', 0) = Whole(w)
          BY <5>1, <5>2, StepsPositive, LegEnds
        <5>4. QED
          BY <2>2, <2>5, <2>6, <3>2, <4>1, <4>3, <5>3 DEF OnCourse, Deciding, ph
      <4>4. QED
        BY <4>2, <4>3
    <3>3. QED
      BY <3>1, <3>2
  <2>10. QED
    BY <1>0, <2>7, <2>8, <2>9
<1>13. ASSUME NEW p \in Instances, Release(p) PROVE LedgerInv'
  <2>1. phase[p] = "release" /\ UNCHANGED <<store, advisory, plan, walk>>
        /\ Goto(p, "commit")
    BY <1>13 DEF Release
  <2>2. \A q \in Instances : phase'[q] = IF q = p THEN "commit" ELSE phase[q]
    BY <2>1 DEF Goto, TypeInv, TypeOK
  <2>3. Coherent' /\ OnlyAsks'
    BY <2>1, <2>2 DEF Coherent, OnlyAsks, Asking, store, plan, Ended
  <2>4. Guarded' /\ HeldInside' /\ WritesGuarded'
    BY <2>1, <2>2
    DEF Guarded, HeldInside, WritesGuarded, Asking, Deciding, store, plan
  <2>5. ASSUME NEW q \in Instances PROVE OnCourse(q)'
    BY <2>1, <2>2 DEF OnCourse, Over, Leg, Deciding, store, plan, walk
  <2>6. QED
    BY <1>0, <2>3, <2>4, <2>5
<1>14. ASSUME NEW p \in Instances, Commit(p) PROVE LedgerInv'
  <2>1. Ends(p)
    BY <1>14 DEF Ends, Commit, EndTransaction, plan, walk, Ended
  <2>2. QED
    BY <1>0, <2>1, EndKeeps
<1>15. ASSUME NEW p \in Instances, Busy(p) PROVE LedgerInv'
  BY <1>15 DEF Busy
<1>16. ASSUME NEW p \in Instances, Rollback(p) PROVE LedgerInv'
  <2>1. Ends(p)
    BY <1>16 DEF Ends, Rollback, plan, walk
  <2>2. QED
    BY <1>0, <2>1, EndKeeps
<1>17. ASSUME NEW p \in Instances, StatementFails(p) PROVE LedgerInv'
  BY <1>0, <1>17, FailKeeps DEF StatementFails, walk
<1>18. ASSUME NEW p \in Instances, AnswerLost(p) PROVE LedgerInv'
  BY <1>18 DEF AnswerLost
<1>19. ASSUME NEW p \in Instances, CommitFails(p) PROVE LedgerInv'
  <2>1. Ends(p)
    BY <1>19 DEF Ends, CommitFails, EndTransaction, Fail, plan, walk
  <2>2. QED
    BY <1>0, <2>1, EndKeeps
<1>20. ASSUME NEW p \in Instances, Crash(p) PROVE LedgerInv'
  <2>1. Ends(p)
    BY <1>20 DEF Ends, Crash, plan, walk
  <2>2. QED
    BY <1>0, <2>1, EndKeeps
<1>21. ASSUME NEW p \in Instances, CloseIdle(p) PROVE LedgerInv'
  BY <1>21 DEF CloseIdle, HeldInside, Deciding, Ended
<1>22. CASE UNCHANGED vars
  BY <1>22, <1>0 DEF vars, store, plan, walk, Coherent, OnlyAsks, Guarded,
     HeldInside, WritesGuarded, OnCourse, Asking, Over, Leg
<1>23. QED
  BY <1>1, <1>2, <1>3, <1>4, <1>5, <1>6, <1>7, <1>8, <1>9, <1>10, <1>11,
     <1>13, <1>14, <1>15, <1>16, <1>17, <1>18, <1>19, <1>20, <1>21, <1>22
  DEF Next, Proceed, World, Rest

LEMMA LedgerInit == Init => LedgerInv
<1> SUFFICES ASSUME Init PROVE LedgerInv
  OBVIOUS
<1>1. PICK v \in Starts, ledger \in BOOLEAN :
         db = [ledger |-> ledger, row |-> v, tables |-> Whole(v)]
  BY DEF Init
<1>2. QED
  BY <1>1, TypeInit, InstancesAssumption
  DEF Init, LedgerInv, Coherent, OnlyAsks, Guarded, HeldInside, WritesGuarded,
      OnCourse, Nothing, Ended, Deciding, Asking

\* On Postgres under the advisory lock, whatever fails, crashes or runs beside
\* it, the committed row names the version the committed tables are at.
THEOREM LedgerIsTrue ==
    ASSUME Engine = "postgres", Lock = "transaction"
    PROVE  Spec => []Coherent
<1>1. LedgerInv => Coherent
  BY DEF LedgerInv
<1>2. LedgerInv /\ [Next]_vars => LedgerInv'
  BY LedgerStep
<1>3. QED
  BY <1>1, <1>2, LedgerInit, PTL DEF Spec

\* On Postgres under the advisory lock no replica acts on a version somebody
\* has moved the database away from.
THEOREM DecisionsAreFresh ==
    ASSUME Engine = "postgres", Lock = "transaction"
    PROVE  Spec => []DecisionFresh
<1>1. LedgerInv => DecisionFresh
  BY SeenOnPostgres DEF LedgerInv, OnCourse, DecisionFresh, Deciding
<1>2. LedgerInv /\ [Next]_vars => LedgerInv'
  BY LedgerStep
<1>3. QED
  BY <1>1, <1>2, LedgerInit, PTL DEF Spec

-----------------------------------------------------------------------------
(* What a migration promises: Migrate implements MigrationPromise, what a    *)
(* run reports is what it did, and nobody fails because of somebody else.    *)

\* What a run read in the ledger is committed still, until its own commit:
\* whoever would move the row holds the lock, and the run holds it.
FromIsCommitted ==
    \A p \in Instances : phase[p] \in Deciding => db.row = from[p]

PromiseInv == LedgerInv /\ FromIsCommitted

\* One of the replicas does something, or nobody does.
LEMMA SomebodySteps ==
    ASSUME [Next]_vars, ~UNCHANGED vars
    PROVE  \E p \in Instances : Begin(p) \/ Proceed(p) \/ World(p)
BY DEF Next, Rest

\* A step of one replica is no step of another's.
LEMMA OnlyItsOwnPhase ==
    ASSUME TypeOK, NEW p \in Instances, Begin(p) \/ Proceed(p) \/ World(p),
           NEW q \in Instances, q # p
    PROVE  phase'[q] = phase[q] /\ from'[q] = from[q] /\ target'[q] = target[q]
<1> USE DEF TypeOK, Goto, Fail, Prepared, store, plan, walk
<1>1. CASE Begin(p)
  BY <1>1 DEF Begin
<1>2. CASE Proceed(p)
  BY <1>2
  DEF Proceed, PrepareLedger, LedgerRaceLost, LedgerRaceWon, TakeLock, LockRefused,
      ReadLedger, ProjectionRefused, RunAction, ActionRefused, Record, Release,
      Commit, Busy, Rollback
<1>3. CASE World(p)
  BY <1>3 DEF World, StatementFails, AnswerLost, CommitFails, Crash, CloseIdle
<1>4. QED
  BY <1>1, <1>2, <1>3

\* On Postgres the committed row and tables change in a commit and in nothing
\* else, and what a commit makes of them is the version the run was asked for.
LEMMA OnlyCommitsMove ==
    ASSUME Engine = "postgres", LedgerInv, LedgerInv',
           NEW p \in Instances, Begin(p) \/ Proceed(p) \/ World(p)
    PROVE  \/ db'.row = db.row
           \/ /\ phase[p] = "commit"
              /\ db'.row = target[p]
              /\ Commit(p) \/ CommitFails(p)
<1> USE DEF LedgerInv, TypeInv
<1>1. CASE Begin(p)
  BY <1>1 DEF Begin, store
<1>2. CASE PrepareLedger(p)
  BY <1>2, LedgerWriteInside DEF PrepareLedger
<1>3. CASE LedgerRaceWon(p)
  BY <1>3, LedgerWriteInside DEF LedgerRaceWon
<1>4. CASE \/ LedgerRaceLost(p) \/ TakeLock(p) \/ LockRefused(p) \/ ReadLedger(p)
           \/ ProjectionRefused(p) \/ ActionRefused(p) \/ Release(p) \/ Busy(p)
           \/ StatementFails(p) \/ CloseIdle(p)
  BY <1>4
  DEF LedgerRaceLost, TakeLock, LockRefused, ReadLedger, ProjectionRefused,
      ActionRefused, Release, Busy, StatementFails, CloseIdle, store
<1>5. CASE RunAction(p)
  <2>1. ~Asking(p)
    BY <1>5 DEF RunAction, ActionEffect, OnlyAsks, Ended
  <2>2. QED
    BY <1>5, <2>1 DEF RunAction, ActionEffect, Write, Autocommits
<1>6. CASE Record(p)
  <2>1. ~Asking(p)
    BY <1>6 DEF Record, RecordEffect, OnlyAsks, Ended
  <2>2. QED
    BY <1>6, <2>1 DEF Record, RecordEffect, Write, Autocommits
<1>7. CASE Rollback(p) \/ Crash(p)
  BY <1>7 DEF Rollback, Crash
<1>8. CASE Commit(p) \/ CommitFails(p)
  <2>1. phase[p] = "commit" /\ Over(db, p).row = target[p]
    BY <1>8 DEF Commit, CommitFails, OnCourse, Deciding
  <2>2. QED
    BY <1>8, <2>1 DEF Commit, CommitFails
<1>9. CASE AnswerLost(p)
  BY <1>9 DEF AnswerLost
<1>10. QED
  BY <1>1, <1>2, <1>3, <1>4, <1>5, <1>6, <1>7, <1>8, <1>9 DEF Proceed, World

\* What a run read stays committed until its own transaction ends.
LEMMA FromStep ==
    ASSUME Engine = "postgres", PromiseInv, LedgerInv', [Next]_vars
    PROVE  FromIsCommitted'
<1> USE DEF PromiseInv
<1>1. CASE UNCHANGED vars
  BY <1>1 DEF FromIsCommitted, vars, store, walk
<1>2. ASSUME NEW p \in Instances, Begin(p) \/ Proceed(p) \/ World(p),
             NEW q \in Instances, phase'[q] \in Deciding
      PROVE  db'.row = from'[q]
  <2>1. CASE q # p
    <3>1. phase[q] = phase'[q] /\ from'[q] = from[q]
      BY <1>2, <2>1, OnlyItsOwnPhase DEF LedgerInv, TypeInv
    <3>2. advisory.by = q /\ db.row = from[q]
      BY <1>2, <3>1 DEF LedgerInv, Guarded, FromIsCommitted
    <3>3. phase[p] # "commit"
      BY <2>1, <3>2 DEF LedgerInv, Guarded, Deciding
    <3>4. QED
      BY <1>2, <3>1, <3>2, <3>3, OnlyCommitsMove
  <2>2. CASE q = p /\ phase[p] \in Deciding
    <3>1. db.row = from[p]
      BY <2>2 DEF FromIsCommitted
    <3>2. from'[p] = from[p] /\ ~Commit(p) /\ ~CommitFails(p)
      <4> USE <1>2, <2>2 DEF LedgerInv, TypeInv, TypeOK, Deciding, Goto, Fail, walk
      <4>1. CASE Begin(p)
        BY <4>1 DEF Begin, Ended
      <4>2. CASE Proceed(p)
        BY <4>2
        DEF Proceed, PrepareLedger, LedgerRaceLost, LedgerRaceWon, TakeLock,
            LockRefused, ReadLedger, ProjectionRefused, RunAction, ActionRefused,
            Record, Release, Commit, CommitFails, Busy, Rollback
      <4>3. CASE World(p)
        BY <4>3
        DEF World, StatementFails, AnswerLost, CommitFails, Commit, Crash, CloseIdle
      <4>4. QED
        BY <4>1, <4>2, <4>3
    <3>3. QED
      BY <1>2, <2>2, <3>1, <3>2, OnlyCommitsMove
  <2>3. CASE q = p /\ phase[p] \notin Deciding
    <3>1. ReadLedger(p)
      <4> USE <1>2, <2>3 DEF LedgerInv, TypeInv, TypeOK, Deciding, Goto, Fail, Prepared
      <4>1. CASE Begin(p)
        BY <4>1 DEF Begin
      <4>2. CASE Proceed(p)
        BY <4>2
        DEF Proceed, PrepareLedger, LedgerRaceLost, LedgerRaceWon, TakeLock,
            LockRefused, ProjectionRefused, RunAction, ActionEffect, ActionRefused,
            Record, RecordEffect, Release, Commit, Busy, Rollback
      <4>3. CASE World(p)
        BY <4>3 DEF World, StatementFails, AnswerLost, CommitFails, Crash, CloseIdle
      <4>4. QED
        BY <4>1, <4>2, <4>3
    <3>2. owner.row # p
      BY <3>1 DEF ReadLedger, LedgerInv, WritesGuarded, Deciding
    <3>3. Seen(p).row = db.row
      BY <3>2, SeenOnPostgres DEF Over
    <3>4. QED
      BY <2>3, <3>1, <3>3 DEF ReadLedger, store, LedgerInv, TypeInv, TypeOK
  <2>4. QED
    BY <2>1, <2>2, <2>3
<1>3. QED
  BY <1>1, <1>2, SomebodySteps DEF FromIsCommitted

LEMMA PromiseStep ==
    ASSUME Engine = "postgres", Lock = "transaction", PromiseInv, [Next]_vars
    PROVE  PromiseInv'
BY LedgerStep, FromStep DEF PromiseInv

LEMMA PromiseInit == Init => PromiseInv
BY LedgerInit DEF PromiseInv, FromIsCommitted, Init, Deciding

\* On Postgres under the advisory lock a report is true: the commit of a run
\* that says it went from one version to another found the first and left the
\* second, whoever else was started, crashed or failed.
THEOREM ReportsAreTrue ==
    ASSUME Engine = "postgres", Lock = "transaction"
    PROVE  Spec => ReportTrue
<1>1. PromiseInv /\ [Next]_vars =>
        [\A p \in Instances :
            phase[p] = "commit" /\ phase'[p] = "done" =>
               /\ db.row = from[p]
               /\ db'.row = target[p]
               /\ db'.tables = Whole(target[p])]_vars
  <2> SUFFICES ASSUME PromiseInv, [Next]_vars, ~UNCHANGED vars,
                      NEW p \in Instances, phase[p] = "commit", phase'[p] = "done"
               PROVE  /\ db.row = from[p]
                      /\ db'.row = target[p]
                      /\ db'.tables = Whole(target[p])
    OBVIOUS
  <2>1. PICK q \in Instances : Begin(q) \/ Proceed(q) \/ World(q)
    BY SomebodySteps
  <2>2. q = p
    BY <2>1, OnlyItsOwnPhase DEF PromiseInv, LedgerInv, TypeInv
  <2>3. Commit(p)
    <3> USE <2>1, <2>2 DEF PromiseInv, LedgerInv, TypeInv, TypeOK, Goto, Fail
    <3>1. CASE Begin(p)
      BY <3>1 DEF Begin
    <3>2. CASE Proceed(p)
      BY <3>2
      DEF Proceed, PrepareLedger, LedgerRaceLost, LedgerRaceWon, TakeLock, LockRefused,
          ReadLedger, ProjectionRefused, RunAction, ActionEffect, ActionRefused, Record,
          RecordEffect, Release, Busy, Rollback
    <3>3. CASE World(p)
      BY <3>3 DEF World, StatementFails, AnswerLost, CommitFails, Crash, CloseIdle
    <3>4. QED
      BY <3>1, <3>2, <3>3
  <2>4. Over(db, p).row = target[p] /\ Over(db, p).tables = Whole(target[p])
    BY DEF PromiseInv, LedgerInv, OnCourse, Deciding
  <2>5. db.row = from[p]
    BY DEF PromiseInv, FromIsCommitted, Deciding
  <2>6. QED
    BY <2>3, <2>4, <2>5 DEF Commit
<1>2. PromiseInv /\ [Next]_vars => PromiseInv'
  BY PromiseStep
<1>3. QED
  BY <1>1, <1>2, PromiseInit, PTL DEF Spec, ReportTrue

----------------------------------------------------------------------------
(* Apply is atomic: Migrate implements MigrationPromise.                   *)

\* The version the tables are at, as the promise sees it.
ShapeOf(tables) == IF tables = Whole(tables.from) THEN tables.from ELSE Latest + 1

\* Where the ledger is true, the promise's two versions are the row's.
LEMMA ShapeIsTheRow ==
    ASSUME Coherent
    PROVE  ShapeOf(db.tables) = db.row
BY DEF Coherent, ShapeOf, Whole

\* What one step of p is to the promise, by the row, the targets and the phases.
LEMMA PromisedStep ==
    ASSUME LedgerInv, LedgerInv', NEW p \in Instances,
           \A q \in Instances \ {p} : phase'[q] = phase[q],
           \/ UNCHANGED <<db.row, target>> /\ OutcomeOf(p)' = OutcomeOf(p)
           \/ /\ OutcomeOf(p) # "running" /\ OutcomeOf(p)' = "running"
              /\ db'.row = db.row
              /\ \E v \in 0..Latest : target' = [target EXCEPT ![p] = v]
           \/ /\ OutcomeOf(p) = "running" /\ OutcomeOf(p)' = "done"
              /\ db'.row = IF target[p] = 0 THEN db.row ELSE target[p]
              /\ target' = target
           \/ /\ OutcomeOf(p) = "running" /\ OutcomeOf(p)' = "failed"
              /\ UNCHANGED <<db.row, target>>
           \/ /\ OutcomeOf(p) = "running" /\ OutcomeOf(p)' = "running"
              /\ target[p] # 0 /\ db'.row = target[p]
              /\ target' = target
    PROVE  [Promise!Next]_(Promise!vars)
<1> DEFINE outcome == [q \in Instances |-> OutcomeOf(q)]
<1>1. ShapeOf(db.tables) = db.row /\ ShapeOf(db'.tables) = db'.row
  <2>1. ShapeOf(db.tables)' = db'.row
    BY ShapeIsTheRow DEF LedgerInv, Coherent, ShapeOf, Whole
  <2>2. QED
    BY <2>1, ShapeIsTheRow DEF LedgerInv, ShapeOf
<1>2. outcome' = [outcome EXCEPT ![p] = OutcomeOf(p)']
  BY DEF OutcomeOf
<1>3. outcome[p] = OutcomeOf(p)
  OBVIOUS
<1> HIDE DEF outcome
<1>4. QED
  BY <1>1, <1>2, <1>3
  DEF ShapeOf, outcome, Promise!Next, Promise!vars, Promise!Start, Promise!Done,
      Promise!Arrive, Promise!Failed, Promise!Unheard

\* Every step of every replica is a step of the promise, or nothing it sees.
LEMMA KeepsPromiseStep ==
    ASSUME Engine = "postgres", LedgerInv, LedgerInv', [Next]_vars
    PROVE  [Promise!Next]_(Promise!vars)
<1> USE DEF LedgerInv, TypeInv, TypeOK, OutcomeOf, Goto, Fail, plan
<1>1. CASE UNCHANGED vars
  <2>1. UNCHANGED <<db, target, phase>>
    BY <1>1 DEF vars, store
  <2>2. UNCHANGED Promise!vars
    BY <2>1 DEF Promise!vars
  <2>3. QED
    BY <2>2
<1>2. ASSUME NEW p \in Instances, Begin(p) \/ Proceed(p) \/ World(p)
      PROVE  [Promise!Next]_(Promise!vars)
  <2>0. \A q \in Instances \ {p} : phase'[q] = phase[q]
    BY <1>2, OnlyItsOwnPhase
  <2>1. CASE Begin(p)
    <3>1. OutcomeOf(p) # "running" /\ OutcomeOf(p)' = "running"
      BY <2>1 DEF Begin, Ended
    <3>2. db'.row = db.row /\ \E v \in 0..Latest : target' = [target EXCEPT ![p] = v]
      BY <2>1, HistoryAssumption DEF Begin, store
    <3>3. QED
      BY <2>0, <3>1, <3>2, PromisedStep
  <2>2. CASE \/ PrepareLedger(p) \/ LedgerRaceWon(p) \/ LedgerRaceLost(p)
             \/ TakeLock(p) \/ LockRefused(p) \/ ProjectionRefused(p)
             \/ ActionRefused(p) \/ Release(p) \/ Busy(p) \/ StatementFails(p)
             \/ RunAction(p) \/ Record(p) \/ AnswerLost(p)
    <3>1. phase[p] \in Working \/ Busy(p)
      BY <2>2
      DEF PrepareLedger, LedgerRaceWon, LedgerRaceLost, TakeLock, LockRefused,
          ProjectionRefused, ActionRefused, Release, StatementFails, RunAction,
          ActionEffect, Record, RecordEffect, AnswerLost, Working
    <3>2. OutcomeOf(p) = "running"
      BY <3>1 DEF Ended, Working, Busy
    <3>3. OutcomeOf(p)' = "running" /\ target' = target
      BY <2>2, ZenonT(40)
      DEF PrepareLedger, Prepared, LedgerRaceWon, LedgerRaceLost, TakeLock, LockRefused,
          ProjectionRefused, ActionRefused, Release, Busy, StatementFails, RunAction,
          Record, AnswerLost, Ended
    <3>4. ~Commit(p) /\ ~CommitFails(p)
      BY <3>1 DEF Commit, CommitFails, Working, Busy
    <3>5. db'.row = db.row
      BY <1>2, <3>4, OnlyCommitsMove
    <3>6. QED
      BY <2>0, <3>2, <3>3, <3>5, PromisedStep
  <2>3. CASE ReadLedger(p)
    <3>1. OutcomeOf(p) = "running" /\ UNCHANGED <<db, target>>
      BY <2>3 DEF ReadLedger, Ended, store
    <3>2. CASE Asking(p)
      <4>1. target[p] = 0 /\ OutcomeOf(p)' = "done"
        BY <2>3, <3>2 DEF ReadLedger, Asking, Ended
      <4>2. QED
        BY <2>0, <3>1, <4>1, PromisedStep
    <3>3. CASE ~Asking(p)
      <4>1. OutcomeOf(p)' = "running"
        BY <2>3, <3>3 DEF ReadLedger, Ended
      <4>2. QED
        BY <2>0, <3>1, <4>1, PromisedStep
    <3>4. QED
      BY <3>2, <3>3
  <2>4. CASE Commit(p)
    <3>1. OutcomeOf(p) = "running" /\ OutcomeOf(p)' = "done" /\ target' = target
      BY <2>4 DEF Commit, Ended
    <3>2. target[p] # 0
      BY <2>4 DEF Commit, OnlyAsks, Asking, Ended
    <3>3. db'.row = target[p]
      BY <2>4 DEF Commit, OnCourse, Deciding
    <3>4. QED
      BY <2>0, <3>1, <3>2, <3>3, PromisedStep
  <2>5. CASE CommitFails(p)
    <3>1. OutcomeOf(p) = "running" /\ OutcomeOf(p)' = "running" /\ target' = target
      BY <2>5 DEF CommitFails, Ended
    <3>2. target[p] # 0
      BY <2>5 DEF CommitFails, OnlyAsks, Asking, Ended
    <3>3. db'.row = db.row \/ db'.row = target[p]
      BY <1>2, OnlyCommitsMove
    <3>4. QED
      BY <2>0, <3>1, <3>2, <3>3, PromisedStep
  <2>6. CASE Rollback(p) \/ Crash(p)
    <3>1. OutcomeOf(p) = "running" /\ OutcomeOf(p)' = "failed"
      BY <2>6 DEF Rollback, Crash, Ended
    <3>2. UNCHANGED <<db, target>>
      BY <2>6 DEF Rollback, Crash
    <3>3. QED
      BY <2>0, <3>1, <3>2, PromisedStep
  <2>7. CASE CloseIdle(p)
    <3>1. UNCHANGED <<db, target, phase>>
      BY <2>7 DEF CloseIdle, store
    <3>2. QED
      BY <2>0, <3>1, PromisedStep
  <2>8. QED
    BY <1>2, <2>1, <2>2, <2>3, <2>4, <2>5, <2>6, <2>7 DEF Proceed, World
<1>3. QED
  BY <1>1, <1>2, SomebodySteps

\* The database a migration is first run on is one the promise may begin with.
LEMMA KeepsPromiseInit == Init => Promise!Init
<1> SUFFICES ASSUME Init PROVE Promise!Init
  OBVIOUS
<1>1. Coherent /\ db.row \in Starts
  BY LedgerInit DEF LedgerInv, Init
<1>2. [p \in Instances |-> OutcomeOf(p)] = [p \in Instances |-> "idle"]
  BY DEF Init, OutcomeOf, Ended
<1>3. QED
  BY <1>1, <1>2, ShapeIsTheRow DEF Promise!Init, ShapeOf, Init

\* Apply is atomic on Postgres under the advisory lock: whatever replicas do at
\* once, whatever fails or crashes, and however long the history, what anybody
\* outside their transactions can see is a behaviour of MigrationPromise.
THEOREM ApplyKeepsPromise ==
    ASSUME Engine = "postgres", Lock = "transaction"
    PROVE  Spec => KeepsPromise
<1>1. LedgerInv /\ [Next]_vars => LedgerInv'
  BY LedgerStep
<1>2. LedgerInv /\ LedgerInv' /\ [Next]_vars => [Promise!Next]_(Promise!vars)
  BY KeepsPromiseStep
<1>3. QED
  BY <1>1, <1>2, LedgerInit, KeepsPromiseInit, PTL DEF Spec, KeepsPromise, Promise!Spec

----------------------------------------------------------------------------
(* Nobody fails because of somebody else.                                  *)

\* The ledger is there, nobody is making it, and nobody waits for it.
LedgerIsThere ==
    /\ db.ledger /\ owner.ledger = NoOne
    /\ \A p \in Instances : phase[p] # "racing"

CauseInv == LedgerInv /\ LedgerIsThere /\ FailsOnlyForCause

\* On the tables a run finds where it has got to, no statement is refused.
LEMMA NothingRefused ==
    ASSUME Engine = "postgres", LedgerInv, NEW p \in Instances, phase[p] = "apply"
    PROVE  ~Refuses(Seen(p).tables, Leg(p), step[p] + 1)
<1>1. Over(db, p).tables = OnLeg(Leg(p), step[p]) /\ step[p] \in Nat
  BY DEF LedgerInv, OnCourse, Deciding, TypeInv, TypeOK
<1>2. (step[p] + 1) - 1 = step[p]
  BY <1>1
<1>3. QED
  BY <1>1, <1>2, SeenOnPostgres DEF Refuses

LEMMA LedgerStaysThere ==
    ASSUME Engine = "postgres", CauseInv, [Next]_vars
    PROVE  LedgerIsThere'
<1> USE DEF CauseInv, LedgerInv, TypeInv, TypeOK, LedgerIsThere, Goto, Fail
<1>1. CASE UNCHANGED vars
  BY <1>1 DEF vars, store
<1>2. ASSUME NEW p \in Instances, Begin(p) \/ Proceed(p) \/ World(p)
      PROVE  LedgerIsThere'
  <2>0. \A q \in Instances \ {p} : phase'[q] = phase[q]
    BY <1>2, OnlyItsOwnPhase
  <2>1. CASE Begin(p)
    BY <2>0, <2>1 DEF Begin, store
  <2>2. CASE PrepareLedger(p)
    BY <2>0, <2>2 DEF PrepareLedger, Prepared
  <2>3. CASE LedgerRaceLost(p) \/ LedgerRaceWon(p)
    BY <2>3 DEF LedgerRaceLost, LedgerRaceWon
  <2>4. CASE \/ TakeLock(p) \/ LockRefused(p) \/ ReadLedger(p) \/ ProjectionRefused(p)
             \/ ActionRefused(p) \/ Release(p) \/ Busy(p) \/ StatementFails(p)
             \/ CloseIdle(p)
    BY <2>0, <2>4
    DEF TakeLock, LockRefused, ReadLedger, ProjectionRefused, ActionRefused, Release,
        Busy, StatementFails, CloseIdle, store
  <2>5. CASE RunAction(p)
    <3>1. ~Asking(p)
      BY <2>5 DEF RunAction, ActionEffect, OnlyAsks, Ended
    <3>2. db' = db /\ owner'.ledger = owner.ledger
      BY <2>5, <3>1 DEF RunAction, ActionEffect, Write, Autocommits
    <3>3. QED
      BY <2>0, <2>5, <3>2 DEF RunAction
  <2>6. CASE Record(p)
    <3>1. ~Asking(p)
      BY <2>6 DEF Record, RecordEffect, OnlyAsks, Ended
    <3>2. db' = db /\ owner'.ledger = owner.ledger
      BY <2>6, <3>1 DEF Record, RecordEffect, Write, Autocommits
    <3>3. QED
      BY <2>0, <2>6, <3>2 DEF Record
  <2>7. CASE Commit(p) \/ CommitFails(p)
    <3>1. db'.ledger
      <4>1. Over(db, p).ledger
        BY InstancesAssumption DEF Over
      <4>2. db' = db \/ db' = Over(db, p)
        BY <2>7 DEF Commit, CommitFails
      <4>3. QED
        BY <4>1, <4>2
    <3>2. owner'.ledger = owner.ledger
      BY <2>7, InstancesAssumption DEF Commit, CommitFails, EndTransaction, Disown
    <3>3. QED
      BY <2>0, <2>7, <3>1, <3>2 DEF Commit, CommitFails
  <2>8. CASE Rollback(p) \/ Crash(p)
    BY <2>0, <2>8, InstancesAssumption DEF Rollback, Crash, Disown
  <2>9. CASE AnswerLost(p)
    BY <2>9 DEF AnswerLost
  <2>10. QED
    BY <1>2, <2>1, <2>2, <2>3, <2>4, <2>5, <2>6, <2>7, <2>8, <2>9
    DEF Proceed, World
<1>3. QED
  BY <1>1, <1>2, SomebodySteps

LEMMA CauseStep ==
    ASSUME Engine = "postgres", Lock = "transaction", CauseInv, [Next]_vars
    PROVE  CauseInv'
<1> USE DEF CauseInv
<1>1. LedgerInv' /\ LedgerIsThere'
  BY LedgerStep, LedgerStaysThere
<1>2. FailsOnlyForCause'
  <2> USE DEF FailsOnlyForCause, LedgerInv, TypeInv, TypeOK, Goto, Fail
  <2>1. CASE UNCHANGED vars
    BY <2>1 DEF vars
  <2>2. ASSUME NEW p \in Instances, Begin(p) \/ Proceed(p) \/ World(p)
        PROVE  FailsOnlyForCause'
    <3>1. CASE Begin(p)
      BY <3>1 DEF Begin
    <3>2. CASE \/ PrepareLedger(p) \/ TakeLock(p) \/ ReadLedger(p) \/ ProjectionRefused(p)
               \/ RunAction(p) \/ Record(p) \/ Release(p) \/ Commit(p) \/ Rollback(p)
      BY <3>2
      DEF PrepareLedger, TakeLock, ReadLedger, ProjectionRefused, RunAction, Record,
          Release, Commit, Rollback
    <3>3. CASE LedgerRaceLost(p) \/ LedgerRaceWon(p)
      BY <3>3 DEF LedgerRaceLost, LedgerRaceWon, LedgerIsThere
    <3>4. CASE LockRefused(p) \/ Busy(p)
      BY <3>4 DEF LockRefused, Busy
    <3>5. CASE ActionRefused(p)
      BY <3>5, NothingRefused DEF ActionRefused
    <3>6. CASE World(p)
      BY <3>6 DEF World, StatementFails, AnswerLost, CommitFails, Crash, CloseIdle
    <3>7. QED
      BY <2>2, <3>1, <3>2, <3>3, <3>4, <3>5, <3>6 DEF Proceed
  <2>3. QED
    BY <2>1, <2>2, SomebodySteps
<1>3. QED
  BY <1>1, <1>2

\* On Postgres under the advisory lock, of a database that has been migrated
\* before, no replica fails because of another: but for a fault, a build older
\* than the database and a step the dialect cannot spell, every run is done.
\* A database that has no ledger yet is left out, where two replicas race to
\* make it before either has the lock.
THEOREM FailuresHaveCauses ==
    ASSUME Engine = "postgres", Lock = "transaction", 0 \notin Starts
    PROVE  Spec => []FailsOnlyForCause
<1>1. Init => CauseInv
  <2> SUFFICES ASSUME Init PROVE CauseInv
    OBVIOUS
  <2>1. db.ledger
    BY DEF Init
  <2>2. QED
    BY <2>1, LedgerInit DEF CauseInv, LedgerIsThere, FailsOnlyForCause, Init
<1>2. CauseInv /\ [Next]_vars => CauseInv'
  BY CauseStep
<1>3. CauseInv => FailsOnlyForCause
  BY DEF CauseInv
<1>4. QED
  BY <1>1, <1>2, <1>3, PTL DEF Spec

-----------------------------------------------------------------------------
(* MySQL: every statement is committed at once, under the named lock.      *)

\* Every replica runs the newest build's migration, or asks where things are.
NewestOnly == \A p \in Instances : Asked[p] \subseteq {0, Latest}

\* No step of the history moves rows with a function.
StatementsOnly ==
    \A l \in Legs : \A k \in 1..StepsOf(l) : ActionsOf[l][k] # "rows"

\* The one leg out of a version that leads to the newest.
LegUp(v) == <<v, NextOn(v, Latest)>>

\* No transaction has anything to commit.
NothingPending ==
    owner.ledger = NoOne /\ owner.row = NoOne /\ owner.tables = NoOne

\* No statement waits in the catalogue, as one of Postgres's does.
NobodyRaces == \A p \in Instances : phase[p] # "racing"

Aims == \A p \in Instances : target[p] \in {0, Latest}

\* From reading the ledger to giving the lock back it is held, on the session
\* the run is on: what the session held before a fault counts for nothing else.
HeldBySession ==
    \A p \in Instances :
        phase[p] \in {"read", "apply", "record", "release"} /\ ~Asking(p) =>
            advisory.by = p /\ advisory.session = conn[p]

\* The tables are part of the way from the row's version to the next.
OnTheWayUp ==
    IF db.row = Latest THEN db.tables = Whole(Latest)
    ELSE \E k \in 0..StepsOf(LegUp(db.row)) : db.tables = OnLeg(LegUp(db.row), k)

\* Where a run has got to: at the row's version, and at most as far along the
\* leg as the tables, which a run before it may have left further.
GotTo(p) ==
    /\ phase[p] \in {"prepare", "lock", "read"} => step[p] = 0
    /\ phase[p] \in Deciding => db.row = at[p] /\ target[p] = Latest
    /\ phase[p] = "apply" =>
          /\ at[p] # Latest
          /\ step[p] < StepsOf(LegUp(at[p]))
          /\ \E k \in step[p]..StepsOf(LegUp(at[p])) : db.tables = OnLeg(LegUp(at[p]), k)
    /\ phase[p] = "record" =>
          /\ at[p] # Latest
          /\ db.tables = Whole(LegUp(at[p])[2])
    /\ phase[p] \in {"release", "commit"} => at[p] = Latest

MySQLInv ==
    /\ TypeInv
    /\ OnlyAsks
    /\ NothingPending
    /\ NobodyRaces
    /\ Aims
    /\ HeldBySession
    /\ OnTheWayUp
    /\ \A p \in Instances : GotTo(p)

LEMMA LegUpIsLeg ==
    ASSUME NEW v \in 0..Latest, v # Latest
    PROVE  /\ LegUp(v) \in Legs
           /\ LegUp(v)[1] = v
           /\ LegUp(v)[2] \in 0..Latest
           /\ StepsOf(LegUp(v)) \in Nat \ {0}
<1>1. Latest \in Versions
  BY HistoryAssumption DEF Versions
<1>2. LegUp(v) \in Legs
  BY <1>1, NextOnLeg DEF LegUp
<1>3. QED
  BY <1>1, <1>2, StepsPositive, NextOnType, HistoryAssumption DEF LegUp

\* Different numbers of actions of a leg leave different tables.
LEMMA OnLegDistinct ==
    ASSUME NEW l \in Legs, NEW i \in 0..StepsOf(l), NEW j \in 0..StepsOf(l), i # j
    PROVE  OnLeg(l, i) # OnLeg(l, j)
<1>1. l[1] # l[2] /\ l[1] \in Nat /\ l[2] \in Nat
  BY HistoryAssumption DEF Legs, Versions
<1>2. StepsOf(l) \in Nat \ {0}
  BY StepsPositive
<1>3. QED
  BY <1>1, <1>2 DEF OnLeg, Whole

\* An action run on tables that are where it was written for, or further along
\* the same leg, leaves them further along it: it advances, or changes nothing.
LEMMA FurtherAlong ==
    ASSUME NEW l \in Legs, NEW k \in 1..StepsOf(l), ActionsOf[l][k] # "rows",
           NEW j \in (k - 1)..StepsOf(l), NEW u \in Outcomes(OnLeg(l, j), l, k)
    PROVE  \E i \in k..StepsOf(l) : u = OnLeg(l, i)
<1>1. StepsOf(l) \in Nat \ {0}
  BY StepsPositive
<1>2. CASE j = k - 1
  <2>1. u = OnLeg(l, k)
    BY <1>1, <1>2, OnItsLeg
  <2>2. QED
    BY <1>1, <2>1
<1>3. CASE j # k - 1
  <2>1. j \in k..StepsOf(l)
    BY <1>1, <1>3
  <2>2. OnLeg(l, j) # OnLeg(l, k - 1)
    BY <1>1, <1>3, OnLegDistinct
  <2>3. RunBefore(OnLeg(l, j), l, k - 1)
    BY <1>1, <2>1 DEF RunBefore
  <2>4. u = OnLeg(l, j)
    BY <2>2, <2>3 DEF Outcomes
  <2>5. QED
    BY <2>1, <2>4
<1>4. QED
  BY <1>2, <1>3

\* With nothing pending a statement sees what is committed.
LEMMA SeenOnMySQL ==
    ASSUME Engine = "mysql", TypeOK, NothingPending, NEW p \in Instances
    PROVE  Seen(p) = db /\ Over(db, p) = db
BY InstancesAssumption DEF Seen, Base, Over, NothingPending, TypeOK, Database

\* A step of p that leaves the row and the tables alone, and the others' hold
\* on the lock.
LEMMA MySQLKeeps ==
    ASSUME MySQLInv, TypeInv', NEW p \in Instances,
           db'.row = db.row, db'.tables = db.tables, NothingPending',
           \A q \in Instances \ {p} :
              /\ phase'[q] = phase[q] /\ target'[q] = target[q] /\ conn'[q] = conn[q]
              /\ at'[q] = at[q] /\ step'[q] = step[q]
              /\ advisory.by = q /\ advisory.session = conn[q] /\ phase[q] \notin Ended =>
                    advisory'.by = q /\ advisory'.session = conn[q],
           target'[p] \in {0, Latest},
           target'[p] = 0 => phase'[p] \in Ended \cup {"prepare", "read", "rollback"},
           phase'[p] # "racing",
           phase'[p] \in {"read", "apply", "record", "release"} /\ target'[p] # 0 =>
              advisory'.by = p /\ advisory'.session = conn'[p],
           GotTo(p)'
    PROVE  MySQLInv'
<1> USE DEF MySQLInv
<1>1. OnlyAsks' /\ Aims' /\ NobodyRaces'
  BY DEF OnlyAsks, Asking, Aims, NobodyRaces
<1>2. HeldBySession'
  BY DEF HeldBySession, Asking, Ended
<1>3. OnTheWayUp'
  BY DEF OnTheWayUp
<1>4. ASSUME NEW q \in Instances PROVE GotTo(q)'
  BY DEF GotTo
<1>5. QED
  BY <1>1, <1>2, <1>3, <1>4

\* A run that ends, or fails and is to be rolled back.
LEMMA MySQLEnds ==
    ASSUME MySQLInv, TypeInv', NEW p \in Instances,
           NEW ph \in {"done", "failed", "rollback"}, Goto(p, ph),
           db'.row = db.row, db'.tables = db.tables, NothingPending',
           target' = target, conn' = conn, step' = step,
           \A q \in Instances \ {p} : at'[q] = at[q],
           advisory.by # p => advisory' = advisory
    PROVE  MySQLInv'
<1>1. \A q \in Instances : phase'[q] = IF q = p THEN ph ELSE phase[q]
  BY DEF Goto, MySQLInv, TypeInv, TypeOK
<1>2. GotTo(p)'
  BY <1>1 DEF GotTo, Deciding
<1>3. target[p] \in {0, Latest}
  BY DEF MySQLInv, Aims
<1>4. QED
  BY <1>1, <1>2, <1>3, MySQLKeeps DEF Ended

\* The lock's holder is the only one that reads the ledger or writes, and until
\* the newest version is there nobody is past writing.
LEMMA OneWriter ==
    ASSUME MySQLInv, NEW p \in Instances, phase[p] \in {"apply", "record"},
           NEW q \in Instances \ {p}
    PROVE  phase[q] \notin Deciding /\ ~Asking(p) /\ at[p] = db.row /\ db.row # Latest
<1>1. at[p] = db.row /\ db.row # Latest /\ ~Asking(p)
  BY HistoryAssumption DEF MySQLInv, GotTo, Deciding, Asking
<1>2. advisory.by = p
  BY <1>1 DEF MySQLInv, HeldBySession
<1>3. phase[q] \notin {"apply", "record", "release"}
  BY <1>2 DEF MySQLInv, HeldBySession, OnlyAsks, Ended
<1>4. phase[q] # "commit"
  BY <1>1 DEF MySQLInv, GotTo, Deciding
<1>5. QED
  BY <1>1, <1>3, <1>4 DEF Deciding

\* What an action run, or a version recorded, does to the committed tables and row.
LEMMA ActionCommits ==
    ASSUME Engine = "mysql", StatementsOnly, MySQLInv, NEW p \in Instances, ActionEffect(p)
    PROVE  /\ db'.row = db.row /\ NothingPending'
           /\ step[p] + 1 \in 1..StepsOf(LegUp(at[p]))
           /\ \E k \in (step[p] + 1)..StepsOf(LegUp(at[p])) : db'.tables = OnLeg(LegUp(at[p]), k)
<1> DEFINE l == LegUp(at[p])
<1>1. phase[p] = "apply"
  BY DEF ActionEffect
<1>2. Leg(p) = l /\ at[p] \in 0..Latest /\ at[p] # Latest /\ step[p] \in Nat
  BY <1>1 DEF MySQLInv, GotTo, Deciding, Leg, LegUp, TypeInv, TypeOK
<1>3. l \in Legs /\ StepsOf(l) \in Nat
  BY <1>2, LegUpIsLeg
<1>4. PICK j \in step[p]..StepsOf(l) : db.tables = OnLeg(l, j)
  BY <1>1 DEF MySQLInv, GotTo
<1>5. step[p] + 1 \in 1..StepsOf(l)
  BY <1>1, <1>2, <1>3 DEF MySQLInv, GotTo
<1>6. PICK u \in Outcomes(OnLeg(l, j), l, step[p] + 1) : Write(p, "tables", u)
  BY <1>2, <1>4, SeenOnMySQL DEF ActionEffect, MySQLInv, TypeInv
<1> HIDE DEF l
<1>7. \E k \in (step[p] + 1)..StepsOf(l) : u = OnLeg(l, k)
  <2>1. j \in ((step[p] + 1) - 1)..StepsOf(l)
    BY <1>2
  <2>2. ActionsOf[l][step[p] + 1] # "rows"
    BY <1>3, <1>5 DEF StatementsOnly
  <2>3. QED
    BY <1>3, <1>5, <1>6, <2>1, <2>2, FurtherAlong
<1>8. db' = [db EXCEPT !.tables = u] /\ NothingPending'
  BY <1>6 DEF Write, Autocommits, MySQLInv, NothingPending
<1>9. db'.row = db.row /\ db'.tables = u
  BY <1>8 DEF MySQLInv, TypeInv, TypeOK, Database
<1>10. QED
  BY <1>5, <1>7, <1>8, <1>9 DEF l

LEMMA RecordCommits ==
    ASSUME Engine = "mysql", MySQLInv, NEW p \in Instances, RecordEffect(p)
    PROVE  /\ db'.row = LegUp(at[p])[2] /\ db'.tables = Whole(LegUp(at[p])[2])
           /\ Leg(p) = LegUp(at[p]) /\ NothingPending'
<1>1. phase[p] = "record"
  BY DEF RecordEffect
<1>2. Leg(p) = LegUp(at[p])
  BY <1>1 DEF MySQLInv, GotTo, Deciding, Leg, LegUp
<1>3. db.tables = Whole(LegUp(at[p])[2])
  BY <1>1 DEF MySQLInv, GotTo
<1>4. db' = [db EXCEPT !.row = LegUp(at[p])[2]] /\ NothingPending'
  BY <1>2 DEF RecordEffect, Write, Autocommits, MySQLInv, NothingPending
<1>5. QED
  BY <1>2, <1>3, <1>4 DEF MySQLInv, TypeInv, TypeOK, Database

\* A version with its tables is on the way up from it.
LEMMA WholeIsOnTheWay ==
    ASSUME NEW v \in 0..Latest, v # Latest
    PROVE  \E k \in 0..StepsOf(LegUp(v)) : Whole(v) = OnLeg(LegUp(v), k)
<1>1. LegUp(v) \in Legs /\ LegUp(v)[1] = v /\ 0 \in 0..StepsOf(LegUp(v))
  BY LegUpIsLeg
<1>2. OnLeg(LegUp(v), 0) = Whole(v)
  BY <1>1, LegEnds
<1>3. QED
  BY <1>1, <1>2

\* A writer's step: everybody else is before the lock, after a fault, or asking.
LEMMA WriterKeeps ==
    ASSUME MySQLInv, TypeInv', NEW p \in Instances, phase[p] \in {"apply", "record"},
           NEW ph \in {"apply", "record", "release", "rollback"}, Goto(p, ph),
           UNCHANGED <<advisory, plan>>,
           \A q \in Instances \ {p} : at'[q] = at[q] /\ step'[q] = step[q],
           NothingPending', OnTheWayUp', GotTo(p)'
    PROVE  MySQLInv'
<1> USE DEF MySQLInv, plan
<1>1. \A q \in Instances : phase'[q] = IF q = p THEN ph ELSE phase[q]
  BY DEF Goto, TypeInv, TypeOK
<1>2. ~Asking(p)
  BY DEF OnlyAsks, Ended
<1>3. OnlyAsks' /\ Aims' /\ NobodyRaces'
  BY <1>1, <1>2 DEF OnlyAsks, Asking, Aims, NobodyRaces
<1>4. HeldBySession'
  BY <1>1, <1>2 DEF HeldBySession, Asking
<1>5. ASSUME NEW q \in Instances PROVE GotTo(q)'
  <2>1. CASE q # p
    <3>1. phase'[q] = phase[q] /\ phase[q] \notin Deciding
      BY <1>1, <2>1, OneWriter
    <3>2. step'[q] = step[q] /\ GotTo(q)
      BY <2>1
    <3>3. QED
      BY <3>1, <3>2 DEF GotTo, Deciding
  <2>2. QED
    BY <2>1
<1>6. QED
  BY <1>3, <1>4, <1>5

\* On MySQL under the named lock every step keeps the invariant.
LEMMA MySQLStep ==
    ASSUME Engine = "mysql", Lock = "session", NewestOnly, StatementsOnly,
           MySQLInv, [Next]_vars
    PROVE  MySQLInv'
<1> USE DEF MySQLInv, store, plan, walk
<1>0. TypeInv'
  BY TypeStep
<1>a. \A p \in Instances : target[p] \in {0, Latest} /\ GotTo(p)
  BY DEF Aims
<1>1. ASSUME NEW p \in Instances, Begin(p) PROVE MySQLInv'
  <2>1. /\ \A q \in Instances : phase'[q] = IF q = p THEN "prepare" ELSE phase[q]
        /\ \A q \in Instances : step'[q] = IF q = p THEN 0 ELSE step[q]
    BY <1>1 DEF Begin, Goto, TypeInv, TypeOK
  <2>2. target'[p] \in {0, Latest}
    BY <1>1 DEF Begin, NewestOnly, TypeInv, TypeOK
  <2>3. \A q \in Instances \ {p} :
           target'[q] = target[q] /\ conn'[q] = conn[q] /\ at'[q] = at[q]
    BY <1>1 DEF Begin, TypeInv, TypeOK
  <2>4. GotTo(p)'
    BY <2>1 DEF GotTo, Deciding
  <2>5. UNCHANGED store /\ UNCHANGED advisory
    BY <1>1 DEF Begin
  <2>6. QED
    BY <1>0, <2>1, <2>2, <2>3, <2>4, <2>5, MySQLKeeps DEF NothingPending, Ended
<1>2. ASSUME NEW p \in Instances, PrepareLedger(p) PROVE MySQLInv'
  <2>1. phase[p] = "prepare" /\ Prepared(p) /\ UNCHANGED <<advisory, plan, walk>>
    BY <1>2 DEF PrepareLedger
  <2>a. step'[p] = 0
    BY <1>a, <2>1 DEF GotTo
  <2>2. db'.row = db.row /\ db'.tables = db.tables
    BY <1>2, LedgerWriteInside DEF PrepareLedger, TypeInv
  <2>3. NothingPending'
    BY <1>2 DEF PrepareLedger, Write, Autocommits, NothingPending
  <2>4. \A q \in Instances :
           phase'[q] = IF q = p THEN (IF Asking(p) THEN "read" ELSE "lock") ELSE phase[q]
    BY <2>1 DEF Prepared, Goto, TypeInv, TypeOK
  <2>5. GotTo(p)'
    BY <2>a, <2>4 DEF GotTo, Deciding
  <2>6. target[p] = 0 <=> Asking(p)
    BY DEF Asking
  <2>7. phase[p] \notin Ended
    BY <2>1 DEF Ended
  <2>8. \A q \in Instances \ {p} : phase'[q] = phase[q]
    BY <2>4
  <2>9. phase'[p] = IF Asking(p) THEN "read" ELSE "lock"
    BY <2>4
  <2>10. QED
    BY <1>0, <1>a, <2>1, <2>2, <2>3, <2>5, <2>6, <2>8, <2>9, MySQLKeeps
<1>3. ASSUME NEW p \in Instances, LedgerRaceLost(p) \/ LedgerRaceWon(p) PROVE MySQLInv'
  <2>1. phase[p] = "racing"
    BY <1>3 DEF LedgerRaceLost, LedgerRaceWon
  <2>2. QED
    BY <2>1 DEF NobodyRaces
<1>4. ASSUME NEW p \in Instances, TakeLock(p) PROVE MySQLInv'
  <2>1. phase[p] = "lock" /\ UNCHANGED <<store, plan, walk>> /\ MayHold(p)
        /\ advisory' = [by |-> p, session |-> conn[p], depth |-> advisory.depth + 1]
    BY <1>4 DEF TakeLock
  <2>2. \A q \in Instances : phase'[q] = IF q = p THEN "read" ELSE phase[q]
    BY <1>4 DEF TakeLock, Goto, TypeInv, TypeOK
  <2>3. \A q \in Instances \ {p} : advisory.by # q
    BY <2>1, InstancesAssumption DEF MayHold
  <2>4. ~Asking(p)
    BY <2>1 DEF OnlyAsks, Ended
  <2>5. GotTo(p)'
    BY <2>1, <2>2 DEF GotTo, Deciding
  <2>6. QED
    BY <1>0, <1>a, <2>1, <2>2, <2>3, <2>4, <2>5, MySQLKeeps DEF Asking, NothingPending
<1>5. ASSUME NEW p \in Instances, LockRefused(p) PROVE MySQLInv'
  BY <1>0, <1>5, MySQLEnds DEF LockRefused, Fail, NothingPending
<1>6. ASSUME NEW p \in Instances, ReadLedger(p) PROVE MySQLInv'
  <2>1. phase[p] = "read" /\ UNCHANGED <<store, advisory, plan, step>>
    BY <1>6 DEF ReadLedger
  <2>2. Seen(p).row = db.row
    BY SeenOnMySQL DEF TypeInv
  <2>3. at' = [at EXCEPT ![p] = db.row]
    BY <1>6, <2>2 DEF ReadLedger
  <2>4. CASE \E ph \in {"done", "rollback"} : Goto(p, ph)
    BY <1>0, <2>1, <2>3, <2>4, MySQLEnds DEF NothingPending, TypeInv, TypeOK
  <2>5. CASE /\ ~Asking(p)
             /\ Goto(p, IF db.row = target[p] THEN "release" ELSE "apply")
    <3>1. target[p] = Latest
      BY <1>a, <2>5 DEF Asking
    <3>2. \A q \in Instances :
             /\ phase'[q] = IF q = p THEN (IF db.row = Latest THEN "release" ELSE "apply")
                            ELSE phase[q]
             /\ at'[q] = IF q = p THEN db.row ELSE at[q]
      BY <2>3, <2>5, <3>1 DEF Goto, TypeInv, TypeOK
    <3>3. advisory.by = p /\ advisory.session = conn[p]
      BY <2>1, <2>5 DEF HeldBySession
    <3>4. GotTo(p)'
      <4>1. step'[p] = 0 /\ db' = db /\ target'[p] = Latest
        BY <1>a, <2>1, <3>1 DEF GotTo
      <4>2. CASE db.row = Latest
        BY <3>2, <4>1, <4>2 DEF GotTo, Deciding
      <4>3. CASE db.row # Latest
        <5>1. /\ \E k \in 0..StepsOf(LegUp(db.row)) : db.tables = OnLeg(LegUp(db.row), k)
              /\ StepsOf(LegUp(db.row)) > 0
          BY <4>3, LegUpIsLeg DEF OnTheWayUp, TypeInv, TypeOK, Database
        <5>2. LegUp(at'[p]) = LegUp(db.row) /\ phase'[p] = "apply" /\ at'[p] = db.row
          BY <3>2, <4>3
        <5>3. QED
          BY <4>1, <4>3, <5>1, <5>2 DEF GotTo, Deciding
      <4>4. QED
        BY <4>2, <4>3
    <3>5. QED
      BY <1>0, <2>1, <2>5, <3>1, <3>2, <3>3, <3>4, MySQLKeeps, HistoryAssumption
      DEF NothingPending
  <2>6. QED
    BY <1>6, <2>2, <2>4, <2>5 DEF ReadLedger, Fail
<1>7. ASSUME NEW p \in Instances, ProjectionRefused(p) PROVE MySQLInv'
  BY <1>0, <1>7, MySQLEnds DEF ProjectionRefused, Fail, NothingPending
<1>8. ASSUME NEW p \in Instances, RunAction(p) PROVE MySQLInv'
  <2> DEFINE l == LegUp(at[p])
             ph == IF step[p] + 1 = StepsOf(l) THEN "record" ELSE "apply"
  <2>1. phase[p] = "apply" /\ UNCHANGED <<advisory, plan, at>> /\ ActionEffect(p)
    BY <1>8 DEF RunAction, ActionEffect
  <2>2. /\ at[p] = db.row /\ target[p] = Latest /\ at[p] # Latest /\ Leg(p) = l
        /\ at[p] \in 0..Latest
    BY <1>a, <2>1 DEF GotTo, Deciding, Leg, LegUp, TypeInv, TypeOK
  <2>3. /\ db'.row = db.row /\ NothingPending'
        /\ step[p] + 1 \in 1..StepsOf(l)
        /\ \E k \in (step[p] + 1)..StepsOf(l) : db'.tables = OnLeg(l, k)
    BY <2>1, ActionCommits
  <2>4. l \in Legs /\ StepsOf(l) \in Nat \ {0} /\ step[p] \in Nat
    BY <2>2, LegUpIsLeg DEF TypeInv, TypeOK
  <2>5. /\ \A q \in Instances : step'[q] = IF q = p THEN step[p] + 1 ELSE step[q]
        /\ Goto(p, ph)
        /\ phase'[p] = ph
    BY <1>8, <2>2 DEF RunAction, Goto, TypeInv, TypeOK
  <2> HIDE DEF l
  <2>6. OnTheWayUp'
    BY <2>2, <2>3, <2>4 DEF OnTheWayUp, l
  <2>7. GotTo(p)'
    <3>1. /\ at'[p] = at[p] /\ target'[p] = Latest /\ LegUp(at'[p]) = l
          /\ db'.row = at'[p] /\ step'[p] = step[p] + 1
      BY <2>1, <2>2, <2>3, <2>5 DEF l
    <3>2. CASE step[p] + 1 = StepsOf(l)
      <4>1. db'.tables = OnLeg(l, StepsOf(l))
        BY <2>3, <2>4, <3>2
      <4>2. db'.tables = Whole(l[2])
        BY <2>4, <4>1, LegEnds
      <4>3. QED
        BY <2>2, <2>5, <3>1, <3>2, <4>2 DEF GotTo, Deciding
    <3>3. CASE step[p] + 1 # StepsOf(l)
      <4>1. step[p] + 1 < StepsOf(l)
        BY <2>3, <2>4, <3>3
      <4>2. QED
        BY <2>2, <2>3, <2>5, <3>1, <3>3, <4>1 DEF GotTo, Deciding
    <3>4. QED
      BY <3>2, <3>3
  <2>8. ph \in {"apply", "record", "release", "rollback"}
    OBVIOUS
  <2>9. \A q \in Instances \ {p} : at'[q] = at[q] /\ step'[q] = step[q]
    BY <2>1, <2>5
  <2>10. UNCHANGED <<advisory, plan>>
    BY <2>1
  <2> HIDE DEF ph
  <2>11. QED
    BY <1>0, <2>1, <2>3, <2>5, <2>6, <2>7, <2>8, <2>9, <2>10, WriterKeeps
<1>9. ASSUME NEW p \in Instances, ActionRefused(p) PROVE MySQLInv'
  BY <1>0, <1>9, MySQLEnds DEF ActionRefused, Fail, NothingPending
<1>10. ASSUME NEW p \in Instances, Record(p) PROVE MySQLInv'
  <2> DEFINE w == LegUp(at[p])[2]
             ph == IF w = Latest THEN "release" ELSE "apply"
  <2>1. phase[p] = "record" /\ UNCHANGED <<advisory, plan>> /\ RecordEffect(p)
    BY <1>10 DEF Record, RecordEffect
  <2>2. /\ target[p] = Latest /\ at[p] # Latest /\ at[p] \in 0..Latest
    BY <1>a, <2>1 DEF GotTo, Deciding, TypeInv, TypeOK
  <2>3. db'.row = w /\ db'.tables = Whole(w) /\ Leg(p) = LegUp(at[p]) /\ NothingPending'
    BY <2>1, RecordCommits
  <2>4. w \in 0..Latest
    BY <2>2, LegUpIsLeg
  <2>5. /\ \A q \in Instances : at'[q] = IF q = p THEN w ELSE at[q]
        /\ \A q \in Instances : step'[q] = IF q = p THEN 0 ELSE step[q]
        /\ Goto(p, ph)
        /\ phase'[p] = ph
    BY <1>10, <2>2, <2>3 DEF Record, Goto, TypeInv, TypeOK
  <2> HIDE DEF w
  <2>6. OnTheWayUp'
    <3>1. w # Latest => \E k \in 0..StepsOf(LegUp(w)) : Whole(w) = OnLeg(LegUp(w), k)
      BY <2>4, WholeIsOnTheWay
    <3>2. QED
      BY <2>3, <3>1 DEF OnTheWayUp
  <2>7. GotTo(p)'
    <3>1. at'[p] = w /\ step'[p] = 0 /\ target'[p] = Latest /\ db'.row = w
      BY <2>1, <2>2, <2>3, <2>5
    <3>2. CASE w = Latest
      BY <2>5, <3>1, <3>2 DEF GotTo, Deciding
    <3>3. CASE w # Latest
      <4>1. /\ LegUp(w) \in Legs /\ LegUp(w)[1] = w /\ StepsOf(LegUp(w)) \in Nat \ {0}
        BY <2>4, <3>3, LegUpIsLeg
      <4>2. db'.tables = OnLeg(LegUp(w), 0)
        BY <2>3, <4>1, LegEnds
      <4>3. QED
        BY <2>5, <3>1, <3>3, <4>1, <4>2 DEF GotTo, Deciding
    <3>4. QED
      BY <3>2, <3>3
  <2>8. ph \in {"apply", "record", "release", "rollback"}
    OBVIOUS
  <2>9. \A q \in Instances \ {p} : at'[q] = at[q] /\ step'[q] = step[q]
    BY <2>5
  <2>10. UNCHANGED <<advisory, plan>>
    BY <2>1
  <2> HIDE DEF ph
  <2>11. QED
    BY <1>0, <2>1, <2>3, <2>5, <2>6, <2>7, <2>8, <2>9, <2>10, WriterKeeps
<1>11. ASSUME NEW p \in Instances, Release(p) PROVE MySQLInv'
  <2>1. phase[p] = "release" /\ UNCHANGED <<store, plan, walk>>
    BY <1>11 DEF Release
  <2>2. \A q \in Instances : phase'[q] = IF q = p THEN "commit" ELSE phase[q]
    BY <1>11 DEF Release, Goto, TypeInv, TypeOK
  <2>3. advisory.by # p => advisory' = advisory
    BY <1>11 DEF Release
  <2>4. GotTo(p)'
    BY <1>a, <2>1, <2>2 DEF GotTo, Deciding
  <2>5. ~Asking(p)
    BY <2>1 DEF OnlyAsks, Ended
  <2>6. QED
    BY <1>0, <1>a, <2>1, <2>2, <2>3, <2>4, <2>5, MySQLKeeps DEF Asking, NothingPending
<1>12. ASSUME NEW p \in Instances, Disown(p) PROVE NothingPending'
  BY <1>12, InstancesAssumption DEF Disown, NothingPending
<1>13. \A p \in Instances : Over(db, p) = db
  BY SeenOnMySQL DEF TypeInv
<1>14. ASSUME NEW p \in Instances, Commit(p) PROVE MySQLInv'
  BY <1>0, <1>12, <1>13, <1>14, MySQLEnds DEF Commit, EndTransaction
<1>15. ASSUME NEW p \in Instances, Busy(p) PROVE MySQLInv'
  BY <1>15 DEF Busy
<1>16. ASSUME NEW p \in Instances, Rollback(p) PROVE MySQLInv'
  BY <1>0, <1>12, <1>16, MySQLEnds DEF Rollback
<1>17. ASSUME NEW p \in Instances, StatementFails(p) PROVE MySQLInv'
  BY <1>0, <1>17, MySQLEnds DEF StatementFails, Fail, NothingPending
<1>18. ASSUME NEW p \in Instances, AnswerLost(p) PROVE MySQLInv'
  <2>1. UNCHANGED <<advisory, plan, walk>> /\ Goto(p, "rollback")
        /\ phase[p] \in {"apply", "record"}
    BY <1>18 DEF AnswerLost, Fail, ActionEffect, RecordEffect
  <2>2. GotTo(p)'
    BY <2>1 DEF GotTo, Goto, Deciding, TypeInv, TypeOK
  <2>3. at[p] = db.row /\ db.row # Latest /\ db.row \in 0..Latest
    BY <2>1, <1>a DEF GotTo, Deciding, TypeInv, TypeOK, Database
  <2>4. NothingPending' /\ OnTheWayUp'
    <3>1. CASE ActionEffect(p)
      <4>1. /\ db'.row = db.row /\ NothingPending'
            /\ step[p] + 1 \in 1..StepsOf(LegUp(at[p]))
            /\ \E k \in (step[p] + 1)..StepsOf(LegUp(at[p])) : db'.tables = OnLeg(LegUp(at[p]), k)
        BY <3>1, ActionCommits
      <4>2. StepsOf(LegUp(db.row)) \in Nat
        BY <2>3, LegUpIsLeg
      <4>3. QED
        BY <2>3, <4>1, <4>2 DEF OnTheWayUp
    <3>2. CASE RecordEffect(p)
      <4>1. /\ db'.row = LegUp(at[p])[2] /\ db'.tables = Whole(LegUp(at[p])[2])
            /\ NothingPending'
        BY <3>2, RecordCommits
      <4> DEFINE w == LegUp(at[p])[2]
      <4>2. w \in 0..Latest
        BY <2>3, LegUpIsLeg
      <4> HIDE DEF w
      <4>3. w # Latest => \E k \in 0..StepsOf(LegUp(w)) : Whole(w) = OnLeg(LegUp(w), k)
        BY <4>2, WholeIsOnTheWay
      <4>4. db'.row = w /\ db'.tables = Whole(w)
        BY <4>1 DEF w
      <4>5. QED
        BY <4>1, <4>3, <4>4 DEF OnTheWayUp
    <3>3. QED
      BY <1>18, <3>1, <3>2 DEF AnswerLost
  <2>5. UNCHANGED <<advisory, plan>>
    BY <2>1
  <2>6. \A q \in Instances \ {p} : at'[q] = at[q] /\ step'[q] = step[q]
    BY <2>1
  <2>7. QED
    BY <1>0, <2>1, <2>2, <2>4, <2>5, <2>6, WriterKeeps
<1>19. ASSUME NEW p \in Instances, CommitFails(p) PROVE MySQLInv'
  BY <1>0, <1>12, <1>13, <1>19, MySQLEnds DEF CommitFails, EndTransaction, Fail
<1>20. ASSUME NEW p \in Instances, Crash(p) PROVE MySQLInv'
  BY <1>0, <1>12, <1>20, MySQLEnds DEF Crash
<1>21. ASSUME NEW p \in Instances, CloseIdle(p) PROVE MySQLInv'
  <2>1. UNCHANGED <<store, phase, plan, walk>> /\ advisory.by = p
        /\ (phase[p] \in Ended \/ advisory.session # conn[p])
    BY <1>21 DEF CloseIdle
  <2>2. HeldBySession'
    BY <2>1 DEF HeldBySession, Asking, Ended
  <2>3. QED
    BY <1>0, <2>1, <2>2
    DEF OnlyAsks, Asking, NothingPending, NobodyRaces, Aims, OnTheWayUp, GotTo
<1>22. CASE UNCHANGED vars
  BY <1>0, <1>22
  DEF vars, OnlyAsks, Asking, NothingPending, NobodyRaces, Aims, HeldBySession, OnTheWayUp, GotTo
<1>23. QED
  BY <1>1, <1>2, <1>3, <1>4, <1>5, <1>6, <1>7, <1>8, <1>9, <1>10, <1>11, <1>14,
     <1>15, <1>16, <1>17, <1>18, <1>19, <1>20, <1>21, <1>22
  DEF Next, Proceed, World, Rest

LEMMA MySQLInit ==
    ASSUME Engine = "mysql", Lock = "session", Init
    PROVE  MySQLInv
<1>1. TypeInv
  BY TypeInit
<1>2. PICK v \in 0..Latest : db.row = v /\ db.tables = Whole(v)
  BY HistoryAssumption DEF Init
<1>3. OnTheWayUp
  <2>1. v # Latest => \E k \in 0..StepsOf(LegUp(v)) : Whole(v) = OnLeg(LegUp(v), k)
    BY WholeIsOnTheWay
  <2>2. QED
    BY <1>2, <2>1 DEF OnTheWayUp
<1>4. \A p \in Instances : phase[p] = "idle" /\ target[p] = 0
  BY DEF Init
<1>5. OnlyAsks /\ NobodyRaces /\ Aims /\ HeldBySession
  BY <1>4 DEF OnlyAsks, NobodyRaces, Aims, HeldBySession, Asking, Ended
<1>6. \A p \in Instances : GotTo(p)
  BY <1>4 DEF GotTo, Deciding
<1>7. NothingPending
  BY DEF Init, NothingPending
<1>8. QED
  BY <1>1, <1>3, <1>5, <1>6, <1>7 DEF MySQLInv

\* "The ledger says which step was the last to finish": on MySQL, under the
\* named lock, the tables are never anywhere but at the version of the row or
\* on the one leg from it to the next, whatever crashed, failed, or had its
\* answer lost, and whichever session was left holding the lock.
THEOREM LedgerAccountsForTables ==
    ASSUME Engine = "mysql", Lock = "session", NewestOnly, StatementsOnly
    PROVE  Spec => []LedgerNamesLastStep
<1>1. Init => MySQLInv
  BY MySQLInit
<1>2. MySQLInv /\ [Next]_vars => MySQLInv'
  BY MySQLStep
<1>3. MySQLInv => LedgerNamesLastStep
  <2> SUFFICES ASSUME MySQLInv PROVE LedgerNamesLastStep
    OBVIOUS
  <2>1. db.row \in 0..Latest
    BY DEF MySQLInv, TypeInv, TypeOK, Database
  <2>2. CASE db.row = Latest
    BY <2>2 DEF MySQLInv, OnTheWayUp, LedgerNamesLastStep, Coherent
  <2>3. CASE db.row # Latest
    <3>1. LegUp(db.row) \in Legs /\ LegUp(db.row)[1] = db.row
      BY <2>1, <2>3, LegUpIsLeg
    <3>2. \E k \in 0..StepsOf(LegUp(db.row)) : db.tables = OnLeg(LegUp(db.row), k)
      BY <2>3 DEF MySQLInv, OnTheWayUp
    <3>3. QED
      BY <3>1, <3>2 DEF LedgerNamesLastStep
  <2>4. QED
    BY <2>2, <2>3
<1>4. QED
  BY <1>1, <1>2, <1>3, PTL DEF Spec

\* And a run acts on the version the ledger still holds: the session's lock is
\* as good there as a transaction's is on Postgres, although it is given back
\* before the commit.
THEOREM DecidesUnderNamedLock ==
    ASSUME Engine = "mysql", Lock = "session", NewestOnly, StatementsOnly
    PROVE  Spec => []DecisionFresh
<1>1. Init => MySQLInv
  BY MySQLInit
<1>2. MySQLInv /\ [Next]_vars => MySQLInv'
  BY MySQLStep
<1>3. MySQLInv => DecisionFresh
  <2> SUFFICES ASSUME MySQLInv, NEW p \in Instances, phase[p] \in Deciding
               PROVE  Seen(p).row = at[p]
    BY DEF DecisionFresh
  <2>1. Seen(p) = db
    BY SeenOnMySQL DEF MySQLInv, TypeInv
  <2>2. QED
    BY <2>1 DEF MySQLInv, GotTo
<1>4. QED
  BY <1>1, <1>2, <1>3, PTL DEF Spec

----------------------------------------------------------------------------
(* SQLite: no lock, one writer, and a snapshot per transaction.            *)

Writes(p) == owner.ledger = p \/ owner.row = p \/ owner.tables = p

\* The file has one writer.
OneAtATime == \A p, q \in Instances : Writes(p) /\ Writes(q) => p = q

\* What the transaction of p sees: what it found, under what it has written.
View(p) == Over(snapshot[p], p)

\* A run is on its course in its own view, which was a version with its tables
\* when it began to read; and the one who writes found what is still committed.
InTransaction(p) ==
    /\ phase[p] # "racing"
    /\ Asking(p) => phase[p] \in Ended \cup {"prepare", "read", "rollback"}
    /\ Writes(p) =>
          /\ ~Asking(p)
          /\ phase[p] \in {"lock", "read", "rollback"} \cup Deciding
          /\ snapshot[p] = db
    /\ owner.row = p \/ owner.tables = p => phase[p] \in {"rollback"} \cup Deciding
    /\ phase[p] \in {"lock", "read"} /\ ~Asking(p) =>
          snapshot[p].tables = Whole(snapshot[p].row)
    /\ phase[p] \in {"prepare", "lock", "read"} => step[p] = 0
    /\ phase[p] \in Deciding => View(p).row = at[p]
    /\ phase[p] = "apply" =>
          /\ at[p] # target[p]
          /\ step[p] < StepsOf(Leg(p))
          /\ View(p).tables = OnLeg(Leg(p), step[p])
    /\ phase[p] = "record" =>
          /\ at[p] # target[p]
          /\ View(p).tables = Whole(Leg(p)[2])
    /\ phase[p] \in {"release", "commit"} =>
          /\ at[p] = target[p]
          /\ View(p).tables = Whole(at[p])

SQLiteInv ==
    /\ TypeInv
    /\ Coherent
    /\ OneAtATime
    /\ \A p \in Instances : InTransaction(p)

\* A replica none of whose own state a step touches is where it was, unless
\* what is committed moves under one who has written.
LEMMA BesideIt ==
    ASSUME NEW q \in Instances, InTransaction(q),
           phase'[q] = phase[q], target'[q] = target[q],
           at'[q] = at[q], step'[q] = step[q], snapshot'[q] = snapshot[q],
           owner'.ledger = q <=> owner.ledger = q,
           owner'.row = q <=> owner.row = q,
           owner'.tables = q <=> owner.tables = q,
           owner.row = q => pending'.row = pending.row,
           owner.tables = q => pending'.tables = pending.tables,
           Writes(q) => db' = db
    PROVE  InTransaction(q)'
<1>1. View(q)'.row = View(q).row /\ View(q)'.tables = View(q).tables
  BY DEF View, Over
<1>2. Leg(q)' = Leg(q) /\ (Asking(q)' <=> Asking(q))
  BY DEF Leg, Asking
<1>3. Writes(q)' <=> Writes(q)
  BY DEF Writes
<1>4. QED
  BY <1>1, <1>2, <1>3 DEF InTransaction

\* A step that writes nothing: everybody else is where it was.
LEMMA WritesNothing ==
    ASSUME SQLiteInv, TypeInv', NEW p \in Instances, NEW ph, Goto(p, ph), UNCHANGED store,
           \A q \in Instances \ {p} :
              target'[q] = target[q] /\ at'[q] = at[q] /\ step'[q] = step[q],
           InTransaction(p)'
    PROVE  SQLiteInv'
<1> USE DEF SQLiteInv, store
<1>1. Coherent' /\ OneAtATime'
  BY DEF Coherent, OneAtATime, Writes
<1>2. ASSUME NEW q \in Instances \ {p} PROVE InTransaction(q)'
  <2>1. phase'[q] = phase[q]
    BY DEF Goto, TypeInv, TypeOK
  <2>2. QED
    BY <2>1, BesideIt
<1>3. QED
  BY <1>1, <1>2

\* Nor does one that fails.
LEMMA FailsOnSQLite ==
    ASSUME SQLiteInv, TypeInv', NEW p \in Instances, NEW r, Fail(p, r),
           UNCHANGED <<store, plan, step>>,
           \A q \in Instances \ {p} : at'[q] = at[q]
    PROVE  SQLiteInv'
<1>1. phase'[p] = "rollback"
  BY DEF Fail, Goto, SQLiteInv, TypeInv, TypeOK
<1>2. InTransaction(p)
  BY DEF SQLiteInv
<1>3. InTransaction(p)'
  BY <1>1, <1>2 DEF InTransaction, Writes, Asking, store, plan, Deciding
<1>4. QED
  BY <1>3, WritesNothing DEF Fail, plan

\* Where a transaction commits what it wrote, the version and the tables agree:
\* it found what is committed, and is at the end of its course.
LEMMA CommitsAVersion ==
    ASSUME SQLiteInv, NEW p \in Instances, phase[p] = "commit"
    PROVE  /\ Over(db, p).tables = Whole(Over(db, p).row)
           /\ ~Writes(p) => Over(db, p) = db
<1>1. CASE Writes(p)
  <2>1. snapshot[p] = db
    BY <1>1 DEF SQLiteInv, InTransaction
  <2>2. QED
    BY <1>1, <2>1 DEF SQLiteInv, InTransaction, View, Deciding
<1>2. CASE ~Writes(p)
  BY <1>2 DEF SQLiteInv, Coherent, Writes, Over, TypeInv, TypeOK, Database
<1>3. QED
  BY <1>1, <1>2

\* The end of a transaction: nobody else was writing if anything is committed.
LEMMA EndsOnSQLite ==
    ASSUME SQLiteInv, TypeInv', NEW p \in Instances, Disown(p),
           NEW ph \in {"done", "failed", "rollback"}, Goto(p, ph),
           db' = db \/ (phase[p] = "commit" /\ db' = Over(db, p)),
           UNCHANGED <<plan, walk>>
    PROVE  SQLiteInv'
<1> USE DEF SQLiteInv, plan, walk
<1>1. \A q \in Instances : phase'[q] = IF q = p THEN ph ELSE phase[q]
  BY DEF Goto, TypeInv, TypeOK
<1>2. /\ owner'.ledger = IF owner.ledger = p THEN NoOne ELSE owner.ledger
      /\ owner'.row = IF owner.row = p THEN NoOne ELSE owner.row
      /\ owner'.tables = IF owner.tables = p THEN NoOne ELSE owner.tables
  BY DEF Disown
<1>3. Coherent'
  BY CommitsAVersion DEF Coherent
<1>4. OneAtATime'
  BY <1>2, InstancesAssumption DEF OneAtATime, Writes
<1>5. InTransaction(p)'
  BY <1>1, <1>2, InstancesAssumption DEF InTransaction, Writes, Deciding, Ended, Asking
<1>6. ASSUME NEW q \in Instances \ {p} PROVE InTransaction(q)'
  <2>1. /\ owner'.ledger = q <=> owner.ledger = q
        /\ owner'.row = q <=> owner.row = q
        /\ owner'.tables = q <=> owner.tables = q
    BY <1>2, InstancesAssumption
  <2>2. /\ owner.row = q => pending'.row = pending.row
        /\ owner.tables = q => pending'.tables = pending.tables
    BY DEF Disown
  <2>3. Writes(q) => db' = db
    BY CommitsAVersion DEF OneAtATime
  <2>4. snapshot'[q] = snapshot[q]
    BY DEF Disown, TypeInv, TypeOK
  <2>5. QED
    BY <1>1, <2>1, <2>2, <2>3, <2>4, BesideIt
<1>7. QED
  BY <1>3, <1>4, <1>5, <1>6

\* A write of the row or of the tables: the one that writes is then the only
\* one, in that place its view is what it wrote, and nobody else's changes.
LEMMA WritesOnSQLite ==
    ASSUME Engine = "sqlite", SQLiteInv, NEW p \in Instances, ~Asking(p),
           phase[p] \in Deciding,
           NEW f \in {"row", "tables"}, NEW v, Writable(p, f), Write(p, f, v),
           UNCHANGED snapshot
    PROVE  /\ db' = db /\ snapshot[p] = db
           /\ OneAtATime'
           /\ f = "row" => View(p)'.row = v /\ View(p)'.tables = View(p).tables
           /\ f = "tables" => View(p)'.tables = v /\ View(p)'.row = View(p).row
           /\ \A q \in Instances \ {p} :
                 /\ owner'.ledger = q <=> owner.ledger = q
                 /\ owner'.row = q <=> owner.row = q
                 /\ owner'.tables = q <=> owner.tables = q
                 /\ owner.row # q /\ owner.tables # q
<1> USE DEF SQLiteInv
<1>1. /\ db' = db /\ pending' = [pending EXCEPT ![f] = v] /\ owner' = [owner EXCEPT ![f] = p]
  BY DEF Write, Autocommits
<1>2. snapshot[p] = db
  BY DEF Writable, Base
<1>3. \A q \in Instances \ {p} : ~Writes(q)
  BY InstancesAssumption DEF Writable, OthersWrite, Writes
<1>4. \A q \in Instances \ {p} : ~Writes(q)'
  BY <1>1, <1>3, InstancesAssumption DEF Writes, TypeInv, TypeOK
<1>5. OneAtATime'
  BY <1>4 DEF OneAtATime
<1>6. f = "row" => View(p)'.row = v /\ View(p)'.tables = View(p).tables
  BY <1>1 DEF View, Over, TypeInv, TypeOK, Database
<1>7. f = "tables" => View(p)'.tables = v /\ View(p)'.row = View(p).row
  BY <1>1 DEF View, Over, TypeInv, TypeOK, Database
<1>8. QED
  BY <1>1, <1>2, <1>3, <1>4, <1>5, <1>6, <1>7 DEF Writes

\* On SQLite every step keeps the invariant.
LEMMA SQLiteStep ==
    ASSUME Engine = "sqlite", SQLiteInv, [Next]_vars
    PROVE  SQLiteInv'
<1> USE DEF SQLiteInv
<1>0. TypeInv' /\ Lock = "none"
  BY TypeStep, ServerAssumption
<1>a. \A p \in Instances : InTransaction(p)
  OBVIOUS
<1>1. ASSUME NEW p \in Instances, Begin(p) PROVE SQLiteInv'
  <2>1. phase[p] \in Ended /\ Goto(p, "prepare") /\ UNCHANGED store
    BY <1>1 DEF Begin
  <2>2. phase'[p] = "prepare" /\ step'[p] = 0
    BY <1>1 DEF Begin, Goto, TypeInv, TypeOK
  <2>3. \A q \in Instances \ {p} :
           target'[q] = target[q] /\ at'[q] = at[q] /\ step'[q] = step[q]
    BY <1>1 DEF Begin, TypeInv, TypeOK
  <2>4. ~Writes(p)
    BY <2>1, <1>a DEF InTransaction, Ended, Deciding
  <2>5. InTransaction(p)'
    BY <2>1, <2>2, <2>4 DEF InTransaction, Writes, Deciding, store
  <2>6. QED
    BY <1>0, <2>1, <2>3, <2>5, WritesNothing
<1>2. ASSUME NEW p \in Instances, PrepareLedger(p) PROVE SQLiteInv'
  <2>1. phase[p] = "prepare" /\ Prepared(p) /\ UNCHANGED <<plan, walk>>
    BY <1>2 DEF PrepareLedger
  <2>2. ~Writes(p) /\ step[p] = 0
    BY <2>1, <1>a DEF InTransaction, Deciding
  <2>3. \A q \in Instances :
           phase'[q] = IF q = p THEN (IF Asking(p) THEN "read" ELSE "lock") ELSE phase[q]
    BY <2>1 DEF Prepared, Goto, TypeInv, TypeOK
  <2>4. snapshot' = IF Asking(p) THEN snapshot ELSE [snapshot EXCEPT ![p] = db]
    BY <1>2 DEF PrepareLedger
  <2>5. /\ \A q \in Instances \ {p} : snapshot'[q] = snapshot[q]
        /\ ~Asking(p) => snapshot'[p] = db
    BY <2>4 DEF TypeInv, TypeOK
  <2>6. \/ UNCHANGED <<db, pending, owner>>
        \/ ~OthersWrite(p) /\ Write(p, "ledger", TRUE)
    BY <1>2 DEF PrepareLedger
  <2>7. CASE UNCHANGED <<db, pending, owner>>
    <3>1. InTransaction(p)'
      BY <2>1, <2>2, <2>3, <2>5, <2>7
      DEF InTransaction, Writes, Asking, Coherent, Deciding, plan, walk
    <3>2. ASSUME NEW q \in Instances \ {p} PROVE InTransaction(q)'
      BY <2>1, <2>3, <2>5, <2>7, BesideIt DEF plan, walk
    <3>3. QED
      BY <1>0, <2>7, <3>1, <3>2 DEF Coherent, OneAtATime, Writes
  <2>8. CASE ~OthersWrite(p) /\ Write(p, "ledger", TRUE)
    <3>1. /\ db'.row = db.row /\ db'.tables = db.tables
          /\ owner'.row = owner.row /\ owner'.tables = owner.tables
          /\ pending'.row = pending.row /\ pending'.tables = pending.tables
      BY <2>8, LedgerWriteInside DEF TypeInv
    <3>2. /\ Asking(p) => owner' = owner
          /\ ~Asking(p) => owner'.ledger = p /\ db' = db
      BY <2>8 DEF Write, Autocommits, TypeInv, TypeOK
    <3>3. \A q \in Instances \ {p} : ~Writes(q)
      BY <2>8, InstancesAssumption DEF OthersWrite, Writes
    <3>4. \A q \in Instances \ {p} : ~Writes(q)'
      BY <3>1, <3>2, <3>3 DEF Writes
    <3>5. Coherent' /\ OneAtATime'
      BY <3>1, <3>4 DEF Coherent, OneAtATime
    <3>6. InTransaction(p)'
      BY <2>1, <2>2, <2>3, <2>5, <3>1, <3>2
      DEF InTransaction, Writes, Asking, Coherent, Deciding, plan, walk
    <3>7. ASSUME NEW q \in Instances \ {p} PROVE InTransaction(q)'
      <4>1. ~Writes(q) /\ ~Writes(q)'
        BY <3>3, <3>4
      <4>2. QED
        BY <2>1, <2>3, <2>5, <4>1, BesideIt DEF plan, walk, Writes
    <3>8. QED
      BY <1>0, <3>5, <3>6, <3>7
  <2>9. QED
    BY <2>6, <2>7, <2>8
<1>3. ASSUME NEW p \in Instances, LedgerRaceLost(p) \/ LedgerRaceWon(p) PROVE SQLiteInv'
  BY <1>3, <1>a DEF LedgerRaceLost, LedgerRaceWon, InTransaction
<1>4. ASSUME NEW p \in Instances, TakeLock(p) PROVE SQLiteInv'
  <2>1. phase[p] = "lock" /\ Goto(p, "read") /\ UNCHANGED <<store, plan, walk>>
    BY <1>4 DEF TakeLock
  <2>2. phase'[p] = "read"
    BY <2>1 DEF Goto, TypeInv, TypeOK
  <2>3. InTransaction(p)'
    BY <2>1, <2>2, <1>a
    DEF InTransaction, Writes, Asking, Ended, Deciding, store, plan, walk
  <2>4. QED
    BY <1>0, <2>1, <2>3, WritesNothing DEF plan, walk
<1>5. ASSUME NEW p \in Instances, LockRefused(p) PROVE SQLiteInv'
  BY <1>0, <1>5 DEF LockRefused
<1>6. ASSUME NEW p \in Instances, ReadLedger(p) PROVE SQLiteInv'
  <2> DEFINE v == Seen(p).row
  <2>1. /\ phase[p] = "read"
        /\ at' = [at EXCEPT ![p] = v]
        /\ UNCHANGED <<store, plan, step>>
        /\ \/ Asking(p) /\ Goto(p, "done")
           \/ Fail(p, "unknown")
           \/ ~Asking(p) /\ Goto(p, IF v = target[p] THEN "release" ELSE "apply")
    BY <1>6 DEF ReadLedger
  <2>2. \A q \in Instances \ {p} : at'[q] = at[q]
    BY <2>1 DEF TypeInv, TypeOK
  <2>3. CASE Fail(p, "unknown")
    BY <1>0, <2>1, <2>2, <2>3, FailsOnSQLite
  <2>4. CASE Asking(p) /\ Goto(p, "done")
    <3>1. phase'[p] = "done"
      BY <2>4 DEF Goto, TypeInv, TypeOK
    <3>2. ~Writes(p)
      BY <2>4, <1>a DEF InTransaction
    <3>3. InTransaction(p)'
      BY <2>1, <3>1, <3>2 DEF InTransaction, Writes, Ended, Deciding, store
    <3>4. QED
      BY <1>0, <2>1, <2>2, <2>4, <3>3, WritesNothing DEF plan
  <2>5. CASE ~Asking(p) /\ Goto(p, IF v = target[p] THEN "release" ELSE "apply")
    <3> DEFINE ph == IF v = target[p] THEN "release" ELSE "apply"
    <3>1. Seen(p) = View(p) /\ phase'[p] = ph
      BY <2>5 DEF Seen, Base, View, Goto, TypeInv, TypeOK
    <3>2. owner.row # p /\ owner.tables # p
      BY <2>1, <1>a DEF InTransaction, Deciding
    <3>3. View(p).row = v /\ View(p).tables = Whole(v)
      BY <2>1, <2>5, <3>1, <3>2, <1>a DEF InTransaction, View, Over
    <3>4. View(p)'.row = v /\ View(p)'.tables = Whole(v)
      BY <2>1, <3>3 DEF View, Over, store
    <3>5. at'[p] = v /\ v \in 0..Latest /\ step'[p] = 0 /\ target'[p] = target[p]
      BY <1>0, <1>a, <2>1 DEF TypeInv, TypeOK, InTransaction, plan
    <3>6. ~Asking(p)' /\ snapshot'[p] = snapshot[p] /\ db' = db /\ (Writes(p)' <=> Writes(p))
      BY <2>1, <2>5 DEF Asking, Writes, store, plan
    <3>7. CASE v # target[p]
      <4>1. target[p] \in Versions
        BY <2>5 DEF TypeInv, TypeOK, Asking, Versions
      <4>2. <<v, NextOn(v, target[p])>> \in Legs
        BY <3>5, <3>7, <4>1, NextOnLeg
      <4>3. Leg(p)' = <<v, NextOn(v, target[p])>>
        BY <3>5 DEF Leg
      <4>4. StepsOf(Leg(p)') > 0 /\ OnLeg(Leg(p)', 0) = Whole(v)
        BY <4>2, <4>3, StepsPositive, LegEnds
      <4>5. InTransaction(p)'
        BY <1>a, <3>1, <3>4, <3>5, <3>6, <3>7, <4>4 DEF InTransaction, Deciding
      <4>6. QED
        BY <1>0, <2>1, <2>2, <2>5, <4>5, WritesNothing DEF plan
    <3>8. CASE v = target[p]
      <4>1. InTransaction(p)'
        BY <1>a, <3>1, <3>4, <3>5, <3>6, <3>8 DEF InTransaction, Deciding
      <4>2. QED
        BY <1>0, <2>1, <2>2, <2>5, <4>1, WritesNothing DEF plan
    <3>9. QED
      BY <3>7, <3>8
  <2>6. QED
    BY <2>1, <2>3, <2>4, <2>5
<1>7. ASSUME NEW p \in Instances, ProjectionRefused(p) PROVE SQLiteInv'
  BY <1>0, <1>7, FailsOnSQLite DEF ProjectionRefused, walk
<1>8. ASSUME NEW p \in Instances, RunAction(p) PROVE SQLiteInv'
  <2> DEFINE k == step[p] + 1
             ph == IF k = StepsOf(Leg(p)) THEN "record" ELSE "apply"
  <2>1. phase[p] = "apply" /\ ~Asking(p) /\ Writable(p, "tables") /\ UNCHANGED snapshot
    BY <1>8, <1>a DEF RunAction, ActionEffect, InTransaction, Ended
  <2>2. /\ at[p] # target[p]
        /\ step[p] \in Nat /\ step[p] < StepsOf(Leg(p))
        /\ View(p).tables = OnLeg(Leg(p), step[p])
        /\ View(p).row = at[p]
    BY <2>1, <1>a DEF InTransaction, Deciding, TypeInv, TypeOK
  <2>3. Leg(p) \in Legs
    <3>1. target[p] \in Versions /\ at[p] \in 0..Latest
      BY <2>1 DEF TypeInv, TypeOK, Asking, Versions
    <3>2. QED
      BY <2>2, <3>1, NextOnLeg DEF Leg
  <2>4. Write(p, "tables", OnLeg(Leg(p), k))
    <3>1. Seen(p) = View(p)
      BY <2>1 DEF Seen, Base, View
    <3>2. PICK t \in Outcomes(View(p).tables, Leg(p), k) : Write(p, "tables", t)
      BY <1>8, <3>1 DEF RunAction, ActionEffect
    <3>3. k - 1 = step[p] /\ k \in Nat /\ k > 0 /\ k <= StepsOf(Leg(p))
      BY <2>2, <2>3, StepsPositive
    <3>4. t = OnLeg(Leg(p), k)
      BY <2>2, <2>3, <3>2, <3>3, OnItsLeg
    <3>5. QED
      BY <3>2, <3>4
  <2>5. /\ UNCHANGED <<plan, at>>
        /\ step' = [step EXCEPT ![p] = k]
        /\ Goto(p, ph)
    BY <1>8 DEF RunAction
  <2>6. /\ \A q \in Instances : phase'[q] = IF q = p THEN ph ELSE phase[q]
        /\ \A q \in Instances : step'[q] = IF q = p THEN k ELSE step[q]
    BY <2>5 DEF Goto, TypeInv, TypeOK
  <2>7. /\ db' = db /\ snapshot[p] = db /\ OneAtATime'
        /\ View(p)'.tables = OnLeg(Leg(p), k)
        /\ View(p)'.row = View(p).row
        /\ \A q \in Instances \ {p} :
              /\ owner'.ledger = q <=> owner.ledger = q
              /\ owner'.row = q <=> owner.row = q
              /\ owner'.tables = q <=> owner.tables = q
              /\ owner.row # q /\ owner.tables # q
    BY <2>1, <2>4, WritesOnSQLite DEF Deciding
  <2>8. ASSUME NEW q \in Instances \ {p} PROVE InTransaction(q)'
    BY <2>1, <2>5, <2>6, <2>7, BesideIt DEF plan
  <2>9. /\ Leg(p)' = Leg(p) /\ at'[p] = at[p] /\ target'[p] = target[p]
        /\ ~Asking(p)' /\ snapshot'[p] = db'
    BY <2>1, <2>5, <2>7 DEF Leg, Asking, plan
  <2>10. InTransaction(p)'
    <3>1. CASE k = StepsOf(Leg(p))
      <4>1. phase'[p] = "record" /\ View(p)'.tables = Whole(Leg(p)[2])
        BY <2>3, <2>6, <2>7, <3>1, LegEnds
      <4>2. QED
        BY <2>2, <2>7, <2>9, <4>1 DEF InTransaction, Deciding
    <3>2. CASE k # StepsOf(Leg(p))
      <4>1. phase'[p] = "apply" /\ step'[p] = k /\ k < StepsOf(Leg(p))
        BY <2>2, <2>3, <2>6, <3>2, StepsPositive
      <4>2. QED
        BY <2>2, <2>7, <2>9, <4>1 DEF InTransaction, Deciding
    <3>3. QED
      BY <3>1, <3>2
  <2>11. QED
    BY <1>0, <2>7, <2>8, <2>10 DEF Coherent
<1>9. ASSUME NEW p \in Instances, ActionRefused(p) PROVE SQLiteInv'
  BY <1>0, <1>9, FailsOnSQLite DEF ActionRefused, walk
<1>10. ASSUME NEW p \in Instances, Record(p) PROVE SQLiteInv'
  <2> DEFINE w == Leg(p)[2]
             ph == IF w = target[p] THEN "release" ELSE "apply"
  <2>1. /\ phase[p] = "record" /\ ~Asking(p) /\ Writable(p, "row") /\ Write(p, "row", w)
        /\ UNCHANGED snapshot
    BY <1>10, <1>a DEF Record, RecordEffect, InTransaction, Ended
  <2>2. at[p] # target[p] /\ View(p).tables = Whole(w)
    BY <2>1, <1>a DEF InTransaction
  <2>3. target[p] \in Versions /\ w \in 0..Latest
    <3>1. target[p] \in Versions
      BY <2>1 DEF TypeInv, TypeOK, Asking, Versions
    <3>2. w \in 0..Latest
      BY LegType DEF TypeInv
    <3>3. QED
      BY <3>1, <3>2
  <2>4. UNCHANGED plan /\ Goto(p, ph)
    BY <1>10 DEF Record
  <2>5. /\ \A q \in Instances : step'[q] = IF q = p THEN 0 ELSE step[q]
        /\ \A q \in Instances : at'[q] = IF q = p THEN w ELSE at[q]
    BY <1>10 DEF Record, TypeInv, TypeOK
  <2> HIDE DEF w, ph
  <2>6. \A q \in Instances : phase'[q] = IF q = p THEN ph ELSE phase[q]
    BY <2>4 DEF Goto, TypeInv, TypeOK
  <2>7. /\ db' = db /\ snapshot[p] = db /\ OneAtATime'
        /\ View(p)'.row = w
        /\ View(p)'.tables = View(p).tables
        /\ \A q \in Instances \ {p} :
              /\ owner'.ledger = q <=> owner.ledger = q
              /\ owner'.row = q <=> owner.row = q
              /\ owner'.tables = q <=> owner.tables = q
              /\ owner.row # q /\ owner.tables # q
    BY <2>1, WritesOnSQLite DEF Deciding
  <2>8. ASSUME NEW q \in Instances \ {p} PROVE InTransaction(q)'
    BY <2>1, <2>4, <2>5, <2>6, <2>7, BesideIt DEF plan
  <2>9. /\ at'[p] = w /\ target'[p] = target[p] /\ step'[p] = 0
        /\ ~Asking(p)' /\ snapshot'[p] = db'
    BY <2>1, <2>4, <2>5, <2>7 DEF Asking, plan
  <2>10. InTransaction(p)'
    <3>1. CASE w = target[p]
      <4>1. phase'[p] = "release"
        BY <2>6, <3>1 DEF ph
      <4>2. QED
        BY <2>2, <2>7, <2>9, <3>1, <4>1 DEF InTransaction, Deciding
    <3>2. CASE w # target[p]
      <4>1. Leg(p)' = <<w, NextOn(w, target[p])>>
        BY <2>9 DEF Leg
      <4>2. Leg(p)' \in Legs
        BY <2>3, <3>2, <4>1, NextOnLeg
      <4>3. StepsOf(Leg(p)') > 0 /\ OnLeg(Leg(p)', 0) = Whole(w)
        BY <4>1, <4>2, StepsPositive, LegEnds
      <4>4. phase'[p] = "apply"
        BY <2>6, <3>2 DEF ph
      <4>5. QED
        BY <2>2, <2>7, <2>9, <3>2, <4>3, <4>4 DEF InTransaction, Deciding
    <3>3. QED
      BY <3>1, <3>2
  <2>11. QED
    BY <1>0, <2>7, <2>8, <2>10 DEF Coherent
<1>11. ASSUME NEW p \in Instances, Release(p) PROVE SQLiteInv'
  <2>1. phase[p] = "release" /\ Goto(p, "commit") /\ UNCHANGED <<store, plan, walk>>
    BY <1>11 DEF Release
  <2>2. phase'[p] = "commit"
    BY <2>1 DEF Goto, TypeInv, TypeOK
  <2>3. InTransaction(p)'
    BY <2>1, <2>2, <1>a
    DEF InTransaction, Writes, View, Over, Asking, Ended, Deciding, store, plan, walk
  <2>4. QED
    BY <1>0, <2>1, <2>3, WritesNothing DEF plan, walk
<1>12. ASSUME NEW p \in Instances, Commit(p) PROVE SQLiteInv'
  BY <1>0, <1>12, EndsOnSQLite DEF Commit, EndTransaction
<1>13. ASSUME NEW p \in Instances, Busy(p) PROVE SQLiteInv'
  BY <1>0, <1>13, FailsOnSQLite DEF Busy, walk
<1>14. ASSUME NEW p \in Instances, Rollback(p) PROVE SQLiteInv'
  BY <1>0, <1>14, EndsOnSQLite DEF Rollback
<1>15. ASSUME NEW p \in Instances, StatementFails(p) PROVE SQLiteInv'
  BY <1>0, <1>15, FailsOnSQLite DEF StatementFails, walk
<1>16. ASSUME NEW p \in Instances, AnswerLost(p) PROVE SQLiteInv'
  BY <1>16 DEF AnswerLost
<1>17. ASSUME NEW p \in Instances, CommitFails(p) PROVE SQLiteInv'
  <2>1. db' = db \/ (phase[p] = "commit" /\ db' = Over(db, p))
    BY <1>17 DEF CommitFails
  <2>2. QED
    BY <1>0, <1>17, <2>1, EndsOnSQLite DEF CommitFails, EndTransaction, Fail
<1>18. ASSUME NEW p \in Instances, Crash(p) PROVE SQLiteInv'
  BY <1>0, <1>18, EndsOnSQLite DEF Crash
<1>19. CASE UNCHANGED <<store, phase, plan, walk>>
  <2>1. Coherent' /\ OneAtATime'
    BY <1>19 DEF store, Coherent, OneAtATime, Writes
  <2>2. ASSUME NEW q \in Instances PROVE InTransaction(q)'
    BY <1>19, <1>a, BesideIt DEF store, plan, walk
  <2>3. QED
    BY <1>0, <2>1, <2>2
<1>20. ASSUME NEW p \in Instances, CloseIdle(p) PROVE SQLiteInv'
  BY <1>19, <1>20 DEF CloseIdle
<1>21. CASE UNCHANGED vars
  BY <1>19, <1>21 DEF vars
<1>22. QED
  BY <1>1, <1>2, <1>3, <1>4, <1>5, <1>6, <1>7, <1>8, <1>9, <1>10, <1>11, <1>12,
     <1>13, <1>14, <1>15, <1>16, <1>17, <1>18, <1>20, <1>21
  DEF Next, Proceed, World, Rest

LEMMA SQLiteInit == Init => SQLiteInv
<1> SUFFICES ASSUME Init PROVE SQLiteInv
  OBVIOUS
<1>1. Coherent
  BY DEF Init, Coherent
<1>2. OneAtATime /\ \A p \in Instances : InTransaction(p)
  BY InstancesAssumption DEF Init, OneAtATime, InTransaction, Writes, Ended, Deciding
<1>3. QED
  BY <1>1, <1>2, TypeInit DEF SQLiteInv

\* "SQLite needs none": with no lock at all, between builds of different ages
\* and runs in either direction, the committed row names the version the
\* committed tables are at, because a transaction that reads what is no longer
\* so is refused its write.
THEOREM OneWriterIsEnough ==
    ASSUME Engine = "sqlite"
    PROVE  Spec => []Coherent
<1>1. SQLiteInv => Coherent
  BY DEF SQLiteInv
<1>2. SQLiteInv /\ [Next]_vars => SQLiteInv'
  BY SQLiteStep
<1>3. QED
  BY <1>1, <1>2, SQLiteInit, PTL DEF Spec
=============================================================================
