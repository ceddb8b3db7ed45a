------------------------------ MODULE Migrate ------------------------------
(***************************************************************************)
(* Bringing one aggregate's tables to a version, from several replicas at  *)
(* once: migrate.Apply and migrate.Current, the ledger they keep, the lock *)
(* they may take, and the transaction they run in (sql.Transact).          *)
(*                                                                         *)
(* A version is its place in the history, 1..Latest; 0 is "nothing of this *)
(* aggregate is here".  What a version's tables look like is not modelled: *)
(* the tables are AT a version, or part of the way along one leg of the    *)
(* history, or drifted (something ran that was not written for them).      *)
(*                                                                         *)
(* The server is external.  Postgres and SQLite roll DDL back; MySQL       *)
(* commits every statement as it goes, because the first one Apply runs is *)
(* DDL and DDL ends the transaction it is in.  SQLite has one writer, and  *)
(* refuses a write to a transaction that reads what is no longer so.       *)
(***************************************************************************)
EXTENDS Naturals, Sequences

CONSTANTS
    Instances,    \* the replicas that may run Apply
    NoOne,        \* not a replica: nobody holds it
    Latest,       \* how many versions the newest build's history declares
    Knows,        \* Knows[p]: how many of them the build p runs declares
    Asked,        \* Asked[p]: the targets p is run with; 0 is Current, not Apply
    Starts,       \* the versions the database may be found at
    Engine,       \* "postgres", "mysql" or "sqlite"
    Lock,         \* Plan.Lock: "none", "transaction" (PostgresAdvisory)
                  \* or "session" (MySQLNamed)
    PoolSize,     \* how many connections a replica's pool may open
    ActionsOf,    \* ActionsOf[leg]: the kinds of the actions of one leg
    Unprojectable,\* the legs the dialect refuses to spell
    MaxRuns,      \* bound: how often one replica is started
    MaxFaults     \* bound: how many faults the world injects

Versions == 1..Latest

\* A leg is what is recorded at once: making the tables as of a version, or
\* stepping between neighbours in either direction.
Legs == {l \in (0..Latest) \X Versions :
            \/ l[1] = 0
            \/ l[1] = l[2] + 1
            \/ l[2] = l[1] + 1}

\* An action is a statement that may run once (ADD COLUMN), a statement that
\* may run again (SET DEFAULT), or a function that moves rows.
ActionKinds == {"once", "again", "rows"}

ASSUME InstancesAssumption == NoOne \notin Instances
ASSUME HistoryAssumption ==
    /\ Latest \in Nat \ {0}
    /\ Knows \in [Instances -> Versions]
    /\ Asked \in [Instances -> SUBSET (0..Latest)]
    /\ \A p \in Instances : \A t \in Asked[p] : t <= Knows[p]
    /\ Starts \subseteq 0..Latest
ASSUME ServerAssumption ==
    /\ Engine \in {"postgres", "mysql", "sqlite"}
    /\ Lock \in {"none", "transaction", "session"}
    /\ Lock = "transaction" => Engine = "postgres"
    /\ Lock = "session" => Engine = "mysql"
    /\ PoolSize \in Nat \ {0}
ASSUME ActionsAssumption ==
    /\ ActionsOf \in [Legs -> Seq(ActionKinds)]
    /\ \A l \in Legs : Len(ActionsOf[l]) > 0
    /\ Unprojectable \subseteq Legs
ASSUME BoundsAssumption == MaxRuns \in Nat /\ MaxFaults \in Nat

VARIABLES
    db,        \* what is committed: the ledger table, its row, the tables
    pending,   \* what is written and not committed
    owner,     \* who wrote it, and so holds the server's lock on it
    snapshot,  \* SQLite: what each transaction found when it began to read
    advisory,  \* the migration's own lock: who, on which session, how deep
    phase,     \* where each replica's run is
    target,    \* the version the run was asked for
    conn,      \* the pooled connection the run is on
    from,      \* the version the run read in the ledger
    at,        \* the version the run has got to
    step,      \* how many actions of the leg in hand have run
    why,       \* the fault the run ended with
    runs,      \* how often each replica was started
    faults     \* how many faults were injected

store == <<db, pending, owner, snapshot>>
plan  == <<target, conn>>
walk  == <<from, at, step>>
count == <<runs, faults>>
vars  == <<store, advisory, phase, plan, walk, why, count>>

Nothing == [by |-> NoOne, session |-> 0, depth |-> 0]

Ended   == {"idle", "done", "failed"}
Working == {"prepare", "racing", "lock", "read", "apply", "record", "release"}
Phases  == Ended \cup Working \cup {"commit", "rollback"}

----------------------------------------------------------------------------
(* The tables. *)

Whole(v) == [from |-> v, to |-> v, done |-> 0, sound |-> TRUE]
Drifted  == [from |-> 0, to |-> 0, done |-> 0, sound |-> FALSE]

StepsOf(leg) == Len(ActionsOf[leg])

\* The tables with exactly the first k actions of a leg run on them.
OnLeg(leg, k) ==
    IF k = 0 THEN Whole(leg[1])
    ELSE IF k = StepsOf(leg) THEN Whole(leg[2])
    ELSE [from |-> leg[1], to |-> leg[2], done |-> k, sound |-> TRUE]

RunBefore(t, leg, k) == \E j \in k..StepsOf(leg) : t = OnLeg(leg, j)

\* What action k of a leg makes of tables t.  On the tables it was written
\* for it advances; where it has run before, running it again changes nothing
\* or moves rows a second time; anywhere else nobody wrote down what it does.
Outcomes(t, leg, k) ==
    {u \in {OnLeg(leg, k), t, Drifted} :
        \/ t = OnLeg(leg, k - 1) /\ u = OnLeg(leg, k)
        \/ RunBefore(t, leg, k) /\ ActionsOf[leg][k] = "again" /\ u = t
        \/ RunBefore(t, leg, k) /\ ActionsOf[leg][k] = "rows" /\ u = Drifted
        \/ ~RunBefore(t, leg, k - 1) /\ u = Drifted}

\* The server refuses a statement on tables it does not fit: the column is
\* there already, or is gone.
Refuses(t, leg, k) ==
    /\ t # OnLeg(leg, k - 1)
    /\ RunBefore(t, leg, k) => ActionsOf[leg][k] = "once"

----------------------------------------------------------------------------
(* The server: what a run sees, what it may write, how it ends.            *)

Asking(p) == target[p] = 0
Autocommits(p) == Engine = "mysql" \/ Asking(p)

\* The committed state a statement of p starts from.
Base(p) == IF Engine = "sqlite" /\ ~Asking(p) THEN snapshot[p] ELSE db

Over(base, p) ==
    [ledger |-> IF owner.ledger = p THEN pending.ledger ELSE base.ledger,
     row    |-> IF owner.row = p THEN pending.row ELSE base.row,
     tables |-> IF owner.tables = p THEN pending.tables ELSE base.tables]

Seen(p) == Over(Base(p), p)

OthersWrite(p) == \E f \in {"ledger", "row", "tables"} : owner[f] \notin {p, NoOne}

Writable(p, f) ==
    IF Engine = "sqlite" THEN ~OthersWrite(p) /\ Base(p) = db
    ELSE owner[f] \in {p, NoOne}

Write(p, f, value) ==
    IF Autocommits(p)
    THEN /\ db' = [db EXCEPT ![f] = value]
         /\ UNCHANGED <<pending, owner>>
    ELSE /\ pending' = [pending EXCEPT ![f] = value]
         /\ owner' = [owner EXCEPT ![f] = p]
         /\ UNCHANGED db

Blank == [ledger |-> FALSE, row |-> 0, tables |-> Whole(0)]

\* What p wrote and has not committed is gone, and what it found is.
Disown(p) ==
    /\ owner' = [ledger |-> IF owner.ledger = p THEN NoOne ELSE owner.ledger,
                 row    |-> IF owner.row = p THEN NoOne ELSE owner.row,
                 tables |-> IF owner.tables = p THEN NoOne ELSE owner.tables]
    /\ pending' = [ledger |-> owner.ledger # p /\ pending.ledger,
                   row    |-> IF owner.row = p THEN 0 ELSE pending.row,
                   tables |-> IF owner.tables = p THEN Whole(0)
                              ELSE pending.tables]
    /\ snapshot' = [snapshot EXCEPT ![p] = Blank]

\* The transaction ends, and with it a lock of the transaction's.
EndTransaction(p) ==
    /\ Disown(p)
    /\ advisory' = IF Lock = "transaction" /\ advisory.by = p
                   THEN Nothing ELSE advisory

MayHold(p) ==
    \/ advisory.by = NoOne
    \/ advisory.by = p /\ advisory.session = conn[p]

Goto(p, ph) == phase' = [phase EXCEPT ![p] = ph]

Fail(p, reason) ==
    /\ Goto(p, "rollback")
    /\ why' = [why EXCEPT ![p] = reason]

----------------------------------------------------------------------------
(* One run of Apply, or of Current. *)

\* Transact begins: a connection is taken from the pool.
Begin(p) ==
    /\ phase[p] \in Ended
    /\ runs[p] < MaxRuns
    /\ \E t \in Asked[p] : target' = [target EXCEPT ![p] = t]
    /\ \E s \in 1..PoolSize : conn' = [conn EXCEPT ![p] = s]
    /\ Goto(p, "prepare")
    /\ why' = [why EXCEPT ![p] = "none"]
    /\ from' = [from EXCEPT ![p] = 0]
    /\ at' = [at EXCEPT ![p] = 0]
    /\ step' = [step EXCEPT ![p] = 0]
    /\ runs' = [runs EXCEPT ![p] = @ + 1]
    /\ UNCHANGED <<store, advisory, faults>>

Prepared(p) == Goto(p, IF Asking(p) THEN "read" ELSE "lock")

\* CREATE TABLE IF NOT EXISTS, first thing and before the lock.  Current's
\* statements are in no transaction, and none begins to read for them.
PrepareLedger(p) ==
    /\ phase[p] = "prepare"
    /\ snapshot' = IF Engine = "sqlite" /\ ~Asking(p)
                   THEN [snapshot EXCEPT ![p] = db] ELSE snapshot
    /\ \/ /\ db.ledger
          /\ Prepared(p)
          /\ UNCHANGED <<db, pending, owner>>
       \/ /\ ~db.ledger /\ owner.ledger = NoOne
          /\ Engine = "sqlite" => ~OthersWrite(p)
          /\ Write(p, "ledger", TRUE)
          /\ Prepared(p)
       \/ /\ ~db.ledger /\ owner.ledger # NoOne
          /\ Engine = "postgres"
          /\ Goto(p, "racing")
          /\ UNCHANGED <<db, pending, owner>>
    /\ UNCHANGED <<advisory, plan, walk, why, count>>

\* Another transaction is making the same table.  Postgres did not see it, and
\* waits in its own catalogue: on that one's commit the statement fails.
LedgerRaceLost(p) ==
    /\ phase[p] = "racing"
    /\ db.ledger
    /\ Fail(p, "race")
    /\ UNCHANGED <<store, advisory, plan, walk, count>>

LedgerRaceWon(p) ==
    /\ phase[p] = "racing"
    /\ ~db.ledger /\ owner.ledger = NoOne
    /\ Write(p, "ledger", TRUE)
    /\ Prepared(p)
    /\ UNCHANGED <<snapshot, advisory, plan, walk, why, count>>

\* Mutant: the lock is taken beside whoever holds it.
TakeLockBeside(p) ==
    /\ phase[p] = "lock"
    /\ advisory' = [by |-> p, session |-> conn[p], depth |-> 1]
    /\ Goto(p, "read")
    /\ UNCHANGED <<store, plan, walk, why, count>>

TakeLock(p) ==
    /\ phase[p] = "lock"
    /\ \/ Lock = "none" /\ UNCHANGED advisory
       \/ /\ Lock # "none"
          /\ MayHold(p)
          /\ advisory' = [by |-> p, session |-> conn[p],
                          depth |-> advisory.depth + 1]
    /\ Goto(p, "read")
    /\ UNCHANGED <<store, plan, walk, why, count>>

\* Mutant: nought is read as a yes.
LockRefusalIgnored(p) ==
    /\ phase[p] = "lock"
    /\ ~MayHold(p)
    /\ Goto(p, "read")
    /\ UNCHANGED <<store, advisory, plan, walk, why, count>>

\* GET_LOCK answers nought after its ten seconds; Postgres waits for ever.
LockRefused(p) ==
    /\ phase[p] = "lock"
    /\ Lock = "session"
    /\ ~MayHold(p)
    /\ Fail(p, "lock")
    /\ UNCHANGED <<store, advisory, plan, walk, count>>

\* Mutant: anything recorded counts as being there already.
ReadLedgerOnceOnly(p) ==
    /\ phase[p] = "read"
    /\ from' = [from EXCEPT ![p] = Seen(p).row]
    /\ at' = [at EXCEPT ![p] = Seen(p).row]
    /\ Goto(p, IF Asking(p) THEN "done"
               ELSE IF Seen(p).row = 0 THEN "apply" ELSE "release")
    /\ UNCHANGED <<store, advisory, plan, step, why, count>>

\* ledgerVersion, and what decideDirection makes of it.
ReadLedger(p) ==
    /\ phase[p] = "read"
    /\ LET v == Seen(p).row IN
       /\ from' = [from EXCEPT ![p] = v]
       /\ at' = [at EXCEPT ![p] = v]
       /\ \/ Asking(p) /\ Goto(p, "done") /\ UNCHANGED why
          \/ ~Asking(p) /\ v > Knows[p] /\ Fail(p, "unknown")
          \/ /\ ~Asking(p) /\ v <= Knows[p]
             /\ Goto(p, IF v = target[p] THEN "release" ELSE "apply")
             /\ UNCHANGED why
    /\ UNCHANGED <<store, advisory, plan, step, count>>

\* The next version of the route: the target itself the first time, else the
\* neighbour in its direction.
NextOn(v, t) ==
    IF v = 0 THEN t
    ELSE IF v < t THEN v + 1
    ELSE v - 1

Leg(p) == <<at[p], NextOn(at[p], target[p])>>

ProjectionRefused(p) ==
    /\ phase[p] = "apply" /\ step[p] = 0
    /\ Leg(p) \in Unprojectable
    /\ Fail(p, "project")
    /\ UNCHANGED <<store, advisory, plan, walk, count>>

\* What running the next action of the leg does to the tables.
ActionEffect(p) ==
    /\ phase[p] = "apply"
    /\ Leg(p) \notin Unprojectable
    /\ Writable(p, "tables")
    /\ \E t \in Outcomes(Seen(p).tables, Leg(p), step[p] + 1) :
          Write(p, "tables", t)
    /\ UNCHANGED snapshot

\* Mutant: the last action of a step is left out.
RunActionShort(p) ==
    /\ ActionEffect(p)
    /\ step' = [step EXCEPT ![p] = @ + 1]
    /\ Goto(p, IF step[p] + 2 >= StepsOf(Leg(p)) THEN "record" ELSE "apply")
    /\ UNCHANGED <<advisory, plan, from, at, why, count>>

RunAction(p) ==
    /\ ActionEffect(p)
    /\ step' = [step EXCEPT ![p] = @ + 1]
    /\ Goto(p, IF step[p] + 1 = StepsOf(Leg(p)) THEN "record" ELSE "apply")
    /\ UNCHANGED <<advisory, plan, from, at, why, count>>

ActionRefused(p) ==
    /\ phase[p] = "apply"
    /\ Leg(p) \notin Unprojectable
    /\ Writable(p, "tables")
    /\ Refuses(Seen(p).tables, Leg(p), step[p] + 1)
    /\ Fail(p, "refused")
    /\ UNCHANGED <<store, advisory, plan, walk, count>>

\* Mutants: the version after the one reached is recorded; the target is, at
\* the first step; the record is written beside the transaction, not in it.
RecordTooFar(p) ==
    /\ phase[p] = "record"
    /\ Write(p, "row", Leg(p)[2] + 1)
    /\ UNCHANGED snapshot
RecordTarget(p) ==
    /\ phase[p] = "record"
    /\ Write(p, "row", target[p])
    /\ UNCHANGED snapshot
RecordOutside(p) ==
    /\ phase[p] = "record"
    /\ db' = [db EXCEPT !.row = Leg(p)[2]]
    /\ UNCHANGED <<pending, owner, snapshot>>

\* recordVersion: an INSERT the first time and an UPDATE after.  Where the row
\* is there already so are the tables, and the first CREATE TABLE was refused:
\* no run gets as far as an INSERT the ledger's key refuses.
RecordEffect(p) ==
    /\ phase[p] = "record"
    /\ Writable(p, "row")
    /\ at[p] = 0 => Seen(p).row = 0
    /\ Write(p, "row", Leg(p)[2])
    /\ UNCHANGED snapshot

\* Mutant: the route is walked one leg short.
RecordAndStop(p) ==
    /\ RecordEffect(p)
    /\ at' = [at EXCEPT ![p] = Leg(p)[2]]
    /\ step' = [step EXCEPT ![p] = 0]
    /\ Goto(p, IF Leg(p)[2] \in {target[p] - 1, target[p]} THEN "release"
               ELSE "apply")
    /\ UNCHANGED <<advisory, plan, from, why, count>>

Record(p) ==
    /\ RecordEffect(p)
    /\ at' = [at EXCEPT ![p] = Leg(p)[2]]
    /\ step' = [step EXCEPT ![p] = 0]
    /\ Goto(p, IF Leg(p)[2] = target[p] THEN "release" ELSE "apply")
    /\ UNCHANGED <<advisory, plan, from, why, count>>

\* Mutant: the lock is given back whatever it is, before the commit.
ReleaseEarly(p) ==
    /\ phase[p] = "release"
    /\ advisory' = Nothing
    /\ Goto(p, "commit")
    /\ UNCHANGED <<store, plan, walk, why, count>>

\* releaseLock: a statement for a session's lock, nothing for a transaction's.
Release(p) ==
    /\ phase[p] = "release"
    /\ advisory' = IF Lock = "session" /\ advisory.by = p
                   THEN IF advisory.depth = 1 THEN Nothing
                        ELSE [advisory EXCEPT !.depth = @ - 1]
                   ELSE advisory
    /\ Goto(p, "commit")
    /\ UNCHANGED <<store, plan, walk, why, count>>

Commit(p) ==
    /\ phase[p] = "commit"
    /\ db' = Over(db, p)
    /\ EndTransaction(p)
    /\ Goto(p, "done")
    /\ UNCHANGED <<plan, walk, why, count>>

\* SQLITE_BUSY: somebody else is writing, or wrote since this transaction
\* began to read; or, keeping a rollback journal, somebody is reading.
Busy(p) ==
    /\ Engine = "sqlite"
    /\ \/ phase[p] = "prepare" /\ ~db.ledger /\ OthersWrite(p)
       \/ phase[p] = "apply" /\ ~Writable(p, "tables")
       \/ phase[p] = "record" /\ ~Writable(p, "row")
       \/ /\ phase[p] = "commit" /\ Over(db, p) # db
          /\ \E q \in Instances \ {p} : snapshot[q] # Blank
    /\ Fail(p, "busy")
    /\ UNCHANGED <<store, advisory, plan, walk, count>>

\* Mutants: the finalizer commits; the finalizer does not end the transaction.
RollbackCommits(p) ==
    /\ phase[p] = "rollback"
    /\ db' = Over(db, p)
    /\ EndTransaction(p)
    /\ Goto(p, "failed")
    /\ UNCHANGED <<plan, walk, why, count>>
RollbackForgotten(p) ==
    /\ phase[p] = "rollback"
    /\ Goto(p, "failed")
    /\ UNCHANGED <<store, advisory, plan, walk, why, count>>

\* The scope's release.  A pooled MySQL session outlives it, and so does a
\* lock that is the session's; or the connection goes, and takes it along.
Rollback(p) ==
    /\ phase[p] = "rollback"
    /\ Disown(p)
    /\ \E closed \in BOOLEAN :
          advisory' = IF /\ advisory.by = p
                         /\ \/ Lock = "transaction"
                            \/ closed /\ advisory.session = conn[p]
                      THEN Nothing ELSE advisory
    /\ Goto(p, "failed")
    /\ UNCHANGED <<db, plan, walk, why, count>>

----------------------------------------------------------------------------
(* What the world does. *)

Injected ==
    /\ faults < MaxFaults
    /\ faults' = faults + 1

\* A statement fails and did nothing: the connection, the context, the server.
StatementFails(p) ==
    /\ Injected
    /\ phase[p] \in Working
    /\ Fail(p, "fault")
    /\ UNCHANGED <<store, advisory, plan, walk, runs>>

\* A statement that commits itself was carried out and its answer lost; the
\* same for a function that moved its rows and then failed.
AnswerLost(p) ==
    /\ Injected
    /\ Engine = "mysql"
    /\ ActionEffect(p) \/ RecordEffect(p)
    /\ Fail(p, "fault")
    /\ UNCHANGED <<advisory, plan, walk, runs>>

\* The commit's answer is lost: it was carried out, or it was not.
CommitFails(p) ==
    /\ Injected
    /\ phase[p] = "commit"
    /\ db' \in {db, Over(db, p)}
    /\ EndTransaction(p)
    /\ Fail(p, "fault")
    /\ UNCHANGED <<plan, walk, runs>>

\* The replica dies: the server ends its sessions, whatever they held.
Crash(p) ==
    /\ Injected
    /\ phase[p] \notin Ended
    /\ Disown(p)
    /\ advisory' = IF advisory.by = p THEN Nothing ELSE advisory
    /\ Goto(p, "failed")
    /\ why' = [why EXCEPT ![p] = "fault"]
    /\ UNCHANGED <<db, plan, walk, runs>>

\* The pool closes a connection nothing uses (Connections.MaxIdleTime).
CloseIdle(p) ==
    /\ advisory.by = p
    /\ phase[p] \in Ended \/ advisory.session # conn[p]
    /\ advisory' = Nothing
    /\ UNCHANGED <<store, phase, plan, walk, why, count>>

----------------------------------------------------------------------------

Init ==
    /\ \E v \in Starts, ledger \in BOOLEAN :
          /\ v # 0 => ledger
          /\ db = [ledger |-> ledger, row |-> v, tables |-> Whole(v)]
    /\ pending = Blank
    /\ snapshot = [p \in Instances |-> Blank]
    /\ owner = [ledger |-> NoOne, row |-> NoOne, tables |-> NoOne]
    /\ advisory = Nothing
    /\ phase = [p \in Instances |-> "idle"]
    /\ target = [p \in Instances |-> 0]
    /\ conn = [p \in Instances |-> 1]
    /\ from = [p \in Instances |-> 0]
    /\ at = [p \in Instances |-> 0]
    /\ step = [p \in Instances |-> 0]
    /\ why = [p \in Instances |-> "none"]
    /\ runs = [p \in Instances |-> 0]
    /\ faults = 0

\* What a run does of its own accord once it is started.
Proceed(p) ==
    \/ PrepareLedger(p) \/ LedgerRaceLost(p) \/ LedgerRaceWon(p)
    \/ TakeLock(p) \/ LockRefused(p) \/ ReadLedger(p)
    \/ ProjectionRefused(p) \/ RunAction(p) \/ ActionRefused(p)
    \/ Record(p) \/ Release(p) \/ Commit(p)
    \/ Busy(p) \/ Rollback(p)

World(p) ==
    \/ StatementFails(p) \/ AnswerLost(p) \/ CommitFails(p)
    \/ Crash(p) \/ CloseIdle(p)

\* Every replica has been started as often as the bound allows.
Rest ==
    /\ \A p \in Instances : phase[p] \in Ended /\ runs[p] = MaxRuns
    /\ UNCHANGED vars

Next ==
    \/ \E p \in Instances : Begin(p) \/ Proceed(p) \/ World(p)
    \/ Rest

Spec == Init /\ [][Next]_vars

FairSpec == Spec /\ \A p \in Instances : WF_vars(Proceed(p))

----------------------------------------------------------------------------
(* Properties. *)

TableStates == [from : 0..Latest, to : 0..Latest, done : Nat, sound : BOOLEAN]
Database    == [ledger : BOOLEAN, row : 0..Latest, tables : TableStates]
Reasons     == {"none", "race", "lock", "unknown", "project", "refused",
                "busy", "fault"}

\* The type of every variable.
TypeOK ==
    /\ db \in Database
    /\ pending \in Database
    /\ snapshot \in [Instances -> Database]
    /\ owner \in [ledger : Instances \cup {NoOne}, row : Instances \cup {NoOne},
                  tables : Instances \cup {NoOne}]
    /\ advisory \in [by : Instances \cup {NoOne}, session : Nat, depth : Nat]
    /\ phase \in [Instances -> Phases]
    /\ target \in [Instances -> 0..Latest]
    /\ conn \in [Instances -> 1..PoolSize]
    /\ from \in [Instances -> 0..Latest]
    /\ at \in [Instances -> 0..Latest]
    /\ step \in [Instances -> Nat]
    /\ why \in [Instances -> Reasons]
    /\ runs \in [Instances -> Nat]
    /\ faults \in Nat

\* "One row per aggregate, holding the version its tables are at": whatever
\* crashed, failed or ran beside it, the committed row names the version the
\* committed tables are at, with every row-moving function run exactly once.
Coherent == db.tables = Whole(db.row)

Deciding == {"apply", "record", "release", "commit"}

\* A replica acts on the version the ledger still holds: nobody moved the
\* database between its reading of the ledger and the end of its run.
DecisionFresh ==
    \A p \in Instances :
        phase[p] \in Deciding /\ ~Asking(p) => Seen(p).row = at[p]

\* The lock closes "every replica starting at once": beside an injected fault,
\* a build older than the database and a step the dialect cannot spell, no
\* replica fails -- no statement of one is refused because of another.
FailsOnlyForCause ==
    \A p \in Instances : why[p] \in {"none", "fault", "unknown", "project"}

\* Report.From and Report.To are what the commit did: when a run says it is
\* done the database has gone from the one to the other, in that step.
ReportTrue ==
    [][\A p \in Instances :
          phase[p] = "commit" /\ phase'[p] = "done" =>
             /\ db.row = from[p]
             /\ db'.row = target[p]
             /\ db'.tables = Whole(target[p])]_vars

\* Where DDL commits as it goes: "the ledger says which step was the last to
\* finish".  The tables are at the row's version or part of the way along one
\* leg out of it, never anywhere the ledger does not account for.
LedgerNamesLastStep ==
    \/ Coherent
    \/ \E leg \in Legs : \E k \in 0..StepsOf(leg) :
          leg[1] = db.row /\ db.tables = OnLeg(leg, k)

\* Every run that is started ends, with a report or with a fault.
EveryRunEnds ==
    \A p \in Instances : (phase[p] \notin Ended) ~> (phase[p] \in Ended)

\* A run that starts when the faults are over leaves the tables at its target,
\* itself or because another replica got them there first.
CleanRunArrives ==
    \A p \in Instances :
        (phase[p] = "prepare" /\ faults = MaxFaults /\ ~Asking(p)) ~> (db.row = Latest /\ Coherent)

\* The promise, kept: the whole of a run is one step of the database.
OutcomeOf(p) == IF phase[p] \in Ended THEN phase[p] ELSE "running"

Promise == INSTANCE MigrationPromise WITH
    recorded <- db.row,
    shape    <- IF db.tables = Whole(db.tables.from) THEN db.tables.from
                ELSE Latest + 1,
    wanted   <- target,
    outcome  <- [p \in Instances |-> OutcomeOf(p)]

\* Apply is atomic: every step of every replica is a step the promise allows,
\* or one nobody outside the transaction can see.
KeepsPromise == Promise!Spec

\* One statement to take the lock and one to give it back: a replica that is
\* not running a migration does not hold the migration's lock.
LockGivenBack ==
    \A p \in Instances : phase[p] \in Ended => advisory.by # p
=============================================================================
