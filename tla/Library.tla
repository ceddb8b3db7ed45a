------------------------------ MODULE Library ------------------------------
(***************************************************************************)
(* Transactions, cursors and a bounded pool (sql/transact.go, session.go,  *)
(* database.go, query.go, cursor.go), as the lending library uses them     *)
(* (examples/library/library.go): people adding, listing, restocking and   *)
(* taking books at once, any of them interrupted at any point.             *)
(*                                                                         *)
(* An operation is the statements it runs, in order.  What its scope       *)
(* acquired -- a cursor, a transaction -- is released when it is over,     *)
(* however it ends.  A row is a title.  The server and the driver are      *)
(* external: READ COMMITTED, a row written held by its transaction, one of *)
(* two that wait for each other failed, and a transaction ended by itself  *)
(* when its context is cancelled.                                          *)
(***************************************************************************)
EXTENDS Integers, Sequences, FiniteSets

CONSTANTS
    People, Titles,
    MaxOpen,      \* Connections.MaxOpen: how many connections there may be
    May(_),       \* the operations a person may ask for
    Shelved,      \* the books there at first
    MaxJobs,      \* bound: how many operations are asked for
    MaxFaults     \* bound: how much goes wrong

Statements ==
    [does : {"transact", "rows", "one"}, of : {Titles}]
        \cup [does : {"row", "insert", "delete"}, of : {{t} : t \in Titles}]

S(does, of) == [does |-> does, of |-> of]

\* What the library does, and a transaction asked for in a transaction.
Add(t)      == <<S("insert", {t})>>
All         == <<S("rows", Titles)>>
OnlyOne     == <<S("one", Titles)>>
ByTitle(t)  == <<S("row", {t})>>
Restock(ts) == <<S("transact", Titles)>> \o [i \in DOMAIN ts |-> S("insert", {ts[i]})]
Take(t)     == <<S("transact", Titles)>> \o ByTitle(t) \o <<S("delete", {t})>>
Nested(t)   == <<S("transact", Titles)>> \o Add(t) \o <<S("transact", Titles)>> \o ByTitle(t)

Written(job, how) == {t \in Titles : \E i \in DOMAIN job : job[i].does = how /\ t \in job[i].of}
Inserted(job) == Written(job, "insert")
Deleted(job)  == Written(job, "delete")

ASSUME LibraryAssumption ==
    /\ IsFiniteSet(People) /\ IsFiniteSet(Titles)
    /\ MaxOpen \in Nat \ {0}
    /\ \A p \in People : May(p) \subseteq Seq(Statements) \ {<< >>}
    /\ Shelved \subseteq Titles
    /\ MaxJobs \in Nat /\ MaxFaults \in Nat

\* More than one statement is asked for in one transaction, and what is put
\* there is not what is taken.
ASSUME JobsAssumption ==
    \A p \in People : \A job \in May(p) :
        /\ Len(job) = 1 \/ Head(job).does = "transact"
        /\ Inserted(job) \cap Deleted(job) = {}

VARIABLES
    shelf,   \* the titles there, as committed
    free,    \* how many connections the pool has for whoever asks
    op,      \* op[p]: what each person's operation is doing
    put,     \* put[n]: the titles operation n put on the shelf
    jobs,    \* how many operations were asked for
    faults   \* how much went wrong

vars == <<shelf, free, op, put, jobs, faults>>

\* rows: what is left of the cursor's; read: how many were, and saw: how many
\* there were; lost: a rollback that did not happen, a cursor not closed.
Rest ==
    [phase |-> "idle", n |-> 0, job |-> << >>, todo |-> << >>, tx |-> "none", conns |-> 0,
     rows |-> {}, read |-> 0, saw |-> 0, added |-> {}, removed |-> {}, told |-> "none",
     lost |-> FALSE]

Init ==
    /\ shelf = Shelved
    /\ free = MaxOpen
    /\ op = [p \in People |-> Rest]
    /\ put = [n \in 1..MaxJobs |-> {}]
    /\ jobs = 0
    /\ faults = 0

-----------------------------------------------------------------------------
(* What a statement sees and waits for. *)

Seen(p) == (shelf \cup op[p].added) \ op[p].removed

\* An INSERT waits for whoever wrote that title, a DELETE for whoever deleted
\* the row it finds.
Waits(p, s) ==
    \E q \in People \ {p} :
        \/ s.does = "insert" /\ s.of \cap (op[q].added \cup op[q].removed) # {}
        \/ s.does = "delete" /\ s.of \cap op[q].removed # {}

Now(p) == Head(op[p].todo)

AtStatement(p, does) ==
    op[p].phase = "run" /\ op[p].todo # << >> /\ op[p].conns > 0 /\ Now(p).does \in does

Waiting(p) == AtStatement(p, {"insert", "delete"}) /\ Waits(p, Now(p))

\* What an operation comes to, with what it acquired still to be released.
Over(o, told) == [o EXCEPT !.phase = "over", !.told = told]

-----------------------------------------------------------------------------
(* Asking, and the connection a statement or a transaction runs on. *)

Ask(p, job) ==
    /\ op[p].phase = "idle"
    /\ jobs < MaxJobs
    /\ jobs' = jobs + 1
    /\ op' = [op EXCEPT ![p] =
                 [Rest EXCEPT !.phase = "run", !.n = jobs + 1, !.job = job, !.todo = job]]
    /\ UNCHANGED <<shelf, free, put, faults>>

\* The pool's: whoever finds none free waits.
Connect(p) ==
    /\ op[p].phase = "run" /\ op[p].todo # << >> /\ op[p].conns = 0
    /\ free > 0
    /\ free' = free - 1
    /\ op' = [op EXCEPT ![p].conns = 1]
    /\ UNCHANGED <<shelf, put, jobs, faults>>

\* Mutant: no transaction is begun.
BeginNothing(p) ==
    /\ AtStatement(p, {"transact"})
    /\ op[p].tx = "none"
    /\ op' = [op EXCEPT ![p].todo = Tail(@)]
    /\ UNCHANGED <<shelf, free, put, jobs, faults>>

Begin(p) ==
    /\ AtStatement(p, {"transact"})
    /\ op[p].tx = "none"
    /\ op' = [op EXCEPT ![p].tx = "open", ![p].todo = Tail(@)]
    /\ UNCHANGED <<shelf, free, put, jobs, faults>>

\* Mutant: a transaction of its own, on a connection of its own.
JoinAnew(p) ==
    /\ AtStatement(p, {"transact"})
    /\ op[p].tx = "open"
    /\ free > 0
    /\ free' = free - 1
    /\ op' = [op EXCEPT ![p].todo = Tail(@), ![p].conns = @ + 1]
    /\ UNCHANGED <<shelf, put, jobs, faults>>

\* Work already in a transaction runs in that one.
Join(p) ==
    /\ AtStatement(p, {"transact"})
    /\ op[p].tx = "open"
    /\ op' = [op EXCEPT ![p].todo = Tail(@)]
    /\ UNCHANGED <<shelf, free, put, jobs, faults>>

-----------------------------------------------------------------------------
(* Statements. *)

\* A statement on its own gives its connection back; one in a transaction does
\* not have one of its own.
Done(o) ==
    [o EXCEPT !.todo = Tail(@), !.rows = {}, !.read = 0,
              !.phase = "run", !.conns = IF o.tx = "none" THEN 0 ELSE @]

\* Mutant: only what a transaction had is given back.
FreedLater(o) == 0

Freed(o) == IF o.tx = "none" THEN o.conns ELSE 0

\* Refused: a title that is there, or that somebody of the transaction put.
Execute(p) ==
    LET s == Now(p)
        inserts == s.does = "insert"
        o == op[p]
    IN  /\ AtStatement(p, {"insert", "delete"})
        /\ ~Waits(p, s)
        /\ IF inserts /\ s.of \subseteq Seen(p)
           THEN /\ op' = [op EXCEPT ![p] = Over(@, "refused")]
                /\ UNCHANGED <<shelf, free, put>>
           ELSE IF o.tx = "none"
           THEN /\ shelf' = IF inserts THEN shelf \cup s.of ELSE shelf \ s.of
                /\ put' = IF inserts THEN [put EXCEPT ![o.n] = @ \cup s.of] ELSE put
                /\ free' = free + Freed(o)
                /\ op' = [op EXCEPT ![p] = Done(@)]
           ELSE /\ op' = [op EXCEPT ![p] = [Done(o) EXCEPT
                             !.added = IF inserts THEN @ \cup s.of ELSE @ \ s.of,
                             !.removed = IF inserts THEN @ \ s.of ELSE @ \cup (s.of \cap shelf)]]
                /\ UNCHANGED <<shelf, free, put>>
        /\ UNCHANGED <<jobs, faults>>

\* A cursor over what the statement sees.
Open(p) ==
    /\ AtStatement(p, {"row", "one", "rows"})
    /\ op' = [op EXCEPT ![p].phase = "walk", ![p].rows = Seen(p) \cap Now(p).of,
                            ![p].saw = Cardinality(Seen(p) \cap Now(p).of)]
    /\ UNCHANGED <<shelf, free, put, jobs, faults>>

\* Mutant: one row is all that is read of one row.
EnoughAtOne(o) == Head(o.todo).does \in {"row", "one"} /\ o.read = 1

\* Two, so that a second row is noticed.
Enough(o) == Head(o.todo).does \in {"row", "one"} /\ o.read = 2

ReadRow(p) ==
    /\ op[p].phase = "walk" /\ ~Enough(op[p])
    /\ \E t \in op[p].rows : op' = [op EXCEPT ![p].rows = @ \ {t}, ![p].read = @ + 1]
    /\ UNCHANGED <<shelf, free, put, jobs, faults>>

\* The end of the rows, or of those wanted: a stream is read as far as its
\* reader likes, and its cursor closed.  One row is one row.
CloseCursor(p) ==
    LET o == op[p]
        one == Now(p).does \in {"row", "one"}
    IN  /\ o.phase = "walk"
        /\ one => Enough(o) \/ o.rows = {}
        /\ IF one /\ o.read # 1
           THEN /\ op' = [op EXCEPT ![p] = Over(@, IF @.read = 0 THEN "norows" ELSE "several")]
                /\ UNCHANGED free
           ELSE /\ op' = [op EXCEPT ![p] = Done(@)]
                /\ free' = free + Freed(o)
        /\ UNCHANGED <<shelf, put, jobs, faults>>

-----------------------------------------------------------------------------
(* The end of an operation. *)

Committed(p) ==
    /\ shelf' = Seen(p)
    /\ put' = [put EXCEPT ![op[p].n] = @ \cup op[p].added]

\* What the transaction wrote is everybody's, or nobody's, and no longer held.
Ended(o, tx) == [o EXCEPT !.tx = tx, !.added = {}, !.removed = {}]

\* The work succeeded: a transaction commits, and its connection goes back.
Succeed(p) ==
    LET o == op[p]
    IN  /\ o.phase = "run" /\ o.todo = << >>
        /\ IF o.tx = "open"
           THEN Committed(p) /\ free' = free + o.conns
           ELSE UNCHANGED <<shelf, put, free>>
        /\ op' = [op EXCEPT ![p] =
              IF o.tx = "open" THEN [Over(Ended(@, "done"), "done") EXCEPT !.conns = 0]
              ELSE Over(@, "done")]
        /\ UNCHANGED <<jobs, faults>>

\* A commit done whose answer is lost.
LoseAnswer(p) ==
    LET o == op[p]
    IN  /\ o.phase = "run" /\ o.todo = << >> /\ o.tx = "open"
        /\ faults < MaxFaults
        /\ faults' = faults + 1
        /\ Committed(p)
        /\ free' = free + o.conns
        /\ op' = [op EXCEPT ![p] = [Over(Ended(@, "done"), "fault") EXCEPT !.conns = 0]]
        /\ UNCHANGED <<jobs>>

\* What goes wrong: a statement, a row that will not decode, an interruption.
Fail(p) ==
    /\ op[p].phase \in {"run", "walk"}
    /\ faults < MaxFaults
    /\ faults' = faults + 1
    /\ \E told \in {"fault", "interrupted"} : op' = [op EXCEPT ![p] = Over(@, told)]
    /\ UNCHANGED <<shelf, free, put, jobs>>

\* A cursor that is not closed, for a reason that is not its context's: a defect
\* beside whatever was told.
FailToClose(p) ==
    /\ op[p].phase = "walk"
    /\ faults < MaxFaults
    /\ faults' = faults + 1
    /\ op' = [op EXCEPT ![p] = [Over(@, "defect") EXCEPT !.lost = TRUE]]
    /\ UNCHANGED <<shelf, free, put, jobs>>

\* Two transactions wait for each other: the server fails one.
Deadlocked(p, q) ==
    /\ p # q
    /\ Waiting(p) /\ Waiting(q)
    /\ op' = [op EXCEPT ![p] = Over(@, "fault")]
    /\ UNCHANGED <<shelf, free, put, jobs, faults>>

\* The context of a fiber whose work failed is cancelled, and the driver ends
\* its transaction by itself.
DriverEnds(p) ==
    /\ op[p].phase = "over" /\ op[p].tx = "open"
    /\ free' = free + op[p].conns
    /\ op' = [op EXCEPT ![p] = [Ended(@, "ended") EXCEPT !.conns = 0]]
    /\ UNCHANGED <<shelf, put, jobs, faults>>

\* What Rollback may answer.
RollbackErrors(tx) ==
    CASE tx \in {"none", "open"} -> {"none"}
      [] tx = "done" -> {"txDone"}
      [] tx = "ended" -> {"txDone", "context"}

\* Mutant: only the driver's own word for it.
IsTransactionDoneBefore(err) == err \in {"none", "txDone"}

IsTransactionDone(err) == err \in {"none", "txDone", "context"}

\* Mutant: a scope that was interrupted is not released.
ReleaseUnlessInterrupted(p) ==
    /\ op[p].phase = "over" /\ op[p].told # "interrupted"
    /\ free' = free + op[p].conns
    /\ op' = [op EXCEPT ![p] = Rest]
    /\ UNCHANGED <<shelf, put, jobs, faults>>

\* Nothing is left of it but what is told.
Answered(o, told, lost) ==
    [Rest EXCEPT !.phase = "answered", !.n = o.n, !.job = o.job, !.saw = o.saw,
                 !.told = told, !.lost = lost]

\* The scope's finalizers: the cursor closed, the transaction rolled back.  An
\* error that does not say it has ended is a defect beside what was told.
Release(p) ==
    LET o == op[p]
    IN  /\ o.phase = "over"
        /\ free' = free + o.conns
        /\ \E err \in RollbackErrors(o.tx) :
              op' = [op EXCEPT ![p] =
                  Answered(o, IF IsTransactionDone(err) THEN o.told ELSE "defect", o.lost)]
        /\ UNCHANGED <<shelf, put, jobs, faults>>

\* A rollback that did not happen: the connection is given up.
FailToRollBack(p) ==
    LET o == op[p]
    IN  /\ o.phase = "over" /\ o.tx = "open"
        /\ faults < MaxFaults
        /\ faults' = faults + 1
        /\ free' = free + o.conns
        /\ op' = [op EXCEPT ![p] = Answered(o, "defect", TRUE)]
        /\ UNCHANGED <<shelf, put, jobs>>

Return(p) ==
    /\ op[p].phase = "answered"
    /\ op' = [op EXCEPT ![p] = Rest]
    /\ UNCHANGED <<shelf, free, put, jobs, faults>>

Step(p) ==
    \/ Connect(p) \/ Begin(p) \/ Join(p)
    \/ Execute(p) \/ Open(p) \/ ReadRow(p) \/ CloseCursor(p)
    \/ Succeed(p) \/ Release(p) \/ Return(p)
    \/ \E q \in People : Deadlocked(p, q)

Next ==
    \E p \in People :
        \/ \E job \in May(p) : Ask(p, job)
        \/ Step(p)
        \/ Fail(p) \/ LoseAnswer(p) \/ FailToClose(p) \/ DriverEnds(p) \/ FailToRollBack(p)

Spec == Init /\ [][Next]_vars

\* Everybody goes on once there is a connection, or the title they wait for is
\* free; nobody has to ask, and nothing has to go wrong.
FairSpec == Spec /\ \A p \in People : WF_vars(Step(p))

-----------------------------------------------------------------------------
(* Properties. *)

Phases == {"idle", "run", "walk", "over", "answered"}
Tellings == {"none", "done", "refused", "norows", "several", "fault", "interrupted", "defect"}

\* Every variable has its type.
TypeOK ==
    /\ shelf \subseteq Titles
    /\ free \in 0..MaxOpen
    /\ DOMAIN op = People
    /\ \A p \in People :
          /\ op[p].phase \in Phases /\ op[p].tx \in {"none", "open", "done", "ended"}
          /\ op[p].conns \in {0, 1}
          /\ op[p].rows \subseteq Titles /\ op[p].read \in 0..Cardinality(Titles)
          /\ op[p].added \subseteq Titles /\ op[p].removed \subseteq Titles
          /\ op[p].told \in Tellings
    /\ jobs \in 0..MaxJobs /\ faults \in 0..MaxFaults

\* Every connection is the pool's or one person's, who has it only while an
\* operation is under way: whatever way one ends, its cursor is closed, its
\* transaction is ended, what it wrote is no longer held, and the connection is
\* back (transact.go: rollbackTransaction; query.go: closeCursor).
Connected == {p \in People : op[p].conns = 1}

ConnectionsComeBack ==
    /\ free + Cardinality(Connected) = MaxOpen
    /\ \A p \in People :
          op[p].phase \in {"idle", "answered"} =>
              /\ op[p].conns = 0 /\ op[p].tx = "none" /\ op[p].rows = {}
              /\ op[p].added = {} /\ op[p].removed = {}

\* Either the shelf is given all of a restocking or none of it, whatever it was
\* told and wherever it was interrupted; only the answer of its commit may be
\* lost (library.go: Restock).
RestockedWholeOrNot ==
    \A p \in People :
        LET o == op[p]
        IN  o.phase = "answered" =>
                /\ put[o.n] \in {{}, Inserted(o.job)}
                /\ o.told = "done" => put[o.n] = Inserted(o.job)
                /\ o.told # "fault" /\ o.told # "done" /\ Head(o.job).does = "transact"
                      => put[o.n] = {}

\* A refusal reaches its caller as one: a defect is told only of a transaction
\* or a cursor that could not be ended, never of one the driver had ended
\* already (transact.go: rollbackTransaction; query.go: closeCursor).
RefusalsStayRefusals ==
    \A p \in People : op[p].told = "defect" => op[p].lost

\* What is answered of one row is true of the rows there were: one, none, or
\* several, and none and several are refused (query.go: QueryRow).
OneRowIsOne ==
    \A p \in People :
        op[p].phase = "answered" =>
            /\ op[p].told = "done" /\ op[p].job = OnlyOne => op[p].saw = 1
            /\ op[p].told = "norows" => op[p].saw = 0
            /\ op[p].told = "several" => op[p].saw > 1

\* Whoever asks is answered, however few connections there are: nobody holds
\* one and waits for another, and a title waited for is let go.
EveryoneIsAnswered ==
    \A p \in People : op[p].phase # "idle" ~> op[p].phase = "idle"
=============================================================================
