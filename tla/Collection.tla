----------------------------- MODULE Collection -----------------------------
(***************************************************************************)
(* One owner's collection in an order a person chose: Insert, Move and     *)
(* Remove (sql/collection_ops.go, collection_places.go), from several      *)
(* writers at once, each on its own or in a transaction (InTransaction).   *)
(*                                                                         *)
(* Every statement names the owner, so one owner is all there is.  A row   *)
(* is an element and its key; NoKey is no row.  The server is external:    *)
(* each statement sees what is committed and what its own transaction      *)
(* wrote (READ COMMITTED, Postgres' own default), a row written belongs to *)
(* its writer until the transaction ends, and one of two that wait for     *)
(* each other is failed.                                                   *)
(***************************************************************************)
EXTENDS OrderKeys, FiniteSets

CONSTANTS
    Elements,
    Writers,
    Longest,       \* longestOrderKey
    May,           \* the operations writers ask for: [does, element, at, beside]
    Alone,         \* those of them asked for outside a transaction too
    NoJob,         \* none of them
    MaxJobs,       \* bound: how many are asked for
    MaxFaults      \* bound: how many statements fail or lose their answer

Places == {"first", "last", "before", "after"}

\* First, Last, Before and After: the place of the first two names no element.
Jobs ==
    {j \in [does : {"insert", "move", "remove"}, element : Elements,
            at : Places, beside : Elements] :
        /\ j.at \in {"first", "last"} => j.beside = j.element
        /\ j.does = "remove" => j.at = "last"}

ASSUME CollectionAssumption ==
    /\ IsFiniteSet(Elements)
    /\ Longest \in Nat \ {0}
    /\ May \subseteq Jobs /\ Alone \subseteq May /\ NoJob \notin Jobs
    /\ MaxJobs \in Nat /\ MaxFaults \in Nat

VARIABLES
    db,     \* db[e]: the key of e's row, as committed
    op,     \* op[w]: where each writer's operation is, and what it wrote
    jobs,   \* how many operations were asked for
    faults  \* how many faults there were

vars == <<db, op, jobs, faults>>

Idle(r) ==
    [phase |-> "idle", job |-> NoJob, within |-> FALSE, beside |-> NoKey, key |-> NoKey,
     rest |-> << >>, again |-> FALSE, held |-> {},
     mine |-> [e \in Elements |-> NoKey], result |-> r]

Init ==
    /\ db = [e \in Elements |-> NoKey]
    /\ op = [w \in Writers |-> Idle("none")]
    /\ jobs = 0
    /\ faults = 0

-----------------------------------------------------------------------------
(* What a statement sees, and what it waits for. *)

Seen(w) == [e \in Elements |-> IF e \in op[w].held THEN op[w].mine[e] ELSE db[e]]

Rows(seen) == {e \in Elements : seen[e] # NoKey}

\* extreme: any of those that none sorts beyond, and no key of none.
Least(ks)    == IF ks = {} THEN {NoKey} ELSE {k \in ks : \A l \in ks : ~Less(l, k)}
Greatest(ks) == IF ks = {} THEN {NoKey} ELSE {k \in ks : \A l \in ks : ~Less(k, l)}

HeldByOther(w, e) == \E v \in Writers \ {w} : e \in op[v].held

\* An UPDATE or DELETE waits for whoever wrote the row it finds; an INSERT for
\* whoever wrote one of the same key, whether it is there yet or not.
Waits(w, e, inserting) == HeldByOther(w, e) /\ (inserting \/ db[e] # NoKey)

\* The row a writer's next statement is about.
Target(w) ==
    IF op[w].phase = "rewrite" THEN Head(op[w].rest).element ELSE op[w].job.element

Waiting(w) ==
    /\ op[w].phase \in {"rewrite", "write"}
    /\ Waits(w, Target(w), op[w].phase = "write" /\ op[w].job.does = "insert")

\* A row written: with the transaction, or at once.
Wrote(o, e, k) ==
    IF o.within THEN [o EXCEPT !.mine[e] = k, !.held = @ \cup {e}] ELSE o

Stored(w, e, k) == IF op[w].within THEN db ELSE [db EXCEPT ![e] = k]

-----------------------------------------------------------------------------
(* Asking, and finding a place. *)

\* Where a place is looked for: beside an element, or at an end.
Looking(j) == IF j.at \in {"before", "after"} THEN "beside" ELSE "place"

Start(w, j, within) ==
    /\ op[w].phase = "idle"
    /\ within \/ j \in Alone
    /\ jobs < MaxJobs
    /\ jobs' = jobs + 1
    /\ op' = [op EXCEPT ![w] = [Idle("none") EXCEPT
                 !.job = j, !.within = within,
                 !.phase = IF j.does = "remove" THEN "write" ELSE Looking(j)]]
    /\ UNCHANGED <<db, faults>>

\* placeOf: the key of the element it is put beside, which has to be there.
ReadBeside(w) ==
    LET k == Seen(w)[op[w].job.beside] IN
    /\ op[w].phase = "beside"
    /\ op' = [op EXCEPT ![w] =
                 IF k = NoKey THEN Idle("absent")
                 ELSE [@ EXCEPT !.phase = "place", !.beside = k]]
    /\ UNCHANGED <<db, jobs, faults>>

\* Mutant: the neighbour of the last place, whatever it is put beside.
NeighboursOfEnds(w) ==
    LET seen == Seen(w)
        ks == {seen[e] : e \in Rows(seen)}
    IN  CASE op[w].job.at \in {"first", "before"} -> {<<NoKey, l>> : l \in Least(ks)}
          [] op[w].job.at = "after" -> {<<op[w].beside, l>> : l \in Least(ks \ {op[w].beside})}
          [] op[w].job.at = "last" -> {<<k, NoKey>> : k \in Greatest(ks)}

\* placeFor: the keys a place is between.  What is moved is not in its own way.
Neighbours(w) ==
    LET j == op[w].job
        at == op[w].beside
        seen == Seen(w)
        others == Rows(seen) \ (IF j.does = "move" THEN {j.element} ELSE {})
        ks == {seen[e] : e \in others}
    IN  CASE j.at = "first"  -> {NoKey} \X Least(ks)
          [] j.at = "before" -> Greatest({k \in ks : Less(k, at)}) \X {at}
          [] j.at = "after"  -> {at} \X Least({k \in ks : Less(at, k)})
          [] j.at = "last"   -> Greatest(ks) \X {NoKey}

\* A key of the place; one too long has the keys rewritten first.  Neighbours
\* that do not sort byte by byte, as the server says they do, are refused.
Placing(w, rewrite) ==
    /\ op[w].phase = "place"
    /\ \E n \in Neighbours(w) :
          LET k == OrderKeyBetween(n[1], n[2]) IN
          op' = [op EXCEPT ![w] =
                    IF OutOfOrder(n[1], n[2]) THEN Idle("order")
                    ELSE [@ EXCEPT !.key = k, !.phase =
                            IF rewrite /\ Len(k) > Longest THEN "rows" ELSE "write"]]
    /\ UNCHANGED <<db, jobs, faults>>

\* Mutant: keyFor again where placeFor is called again.
PlaceUntilShort(w) == Placing(w, TRUE)

\* The keys are rewritten once: the place found again is taken as it is.
Place(w) == Placing(w, ~op[w].again)

-----------------------------------------------------------------------------
(* rewriteKeys. *)

\* Mutant: the rows as they come.
StandingAnyhow(seen) ==
    {s \in [1..Cardinality(Rows(seen)) -> Rows(seen)] :
        \A i, j \in DOMAIN s : i < j => s[i] # s[j]}

\* The rows in the order they stand; those of one key in any.
Standing(seen) ==
    {s \in [1..Cardinality(Rows(seen)) -> Rows(seen)] :
        \A i, j \in DOMAIN s :
            i < j => s[i] # s[j] /\ ~Less(seen[s[j]], seen[s[i]])}

\* After the last row the place is found again.
Going(j, rest) == IF rest = << >> THEN Looking(j) ELSE "rewrite"

ReadRows(w) ==
    /\ op[w].phase = "rows"
    /\ \E s \in Standing(Seen(w)) :
          LET even == EvenKeys(Len(s))
              rest == [i \in 1..Len(s) |-> [element |-> s[i], key |-> even[i]]]
          IN  op' = [op EXCEPT ![w].rest = rest, ![w].again = TRUE,
                               ![w].phase = Going(op[w].job, rest)]
    /\ UNCHANGED <<db, jobs, faults>>

\* Mutant: a row that is gone is written all the same.
RewriteRowAnyway(w) ==
    LET row == Head(op[w].rest)
        rest == Tail(op[w].rest)
    IN  /\ op[w].phase = "rewrite"
        /\ ~Waiting(w)
        /\ op' = [op EXCEPT ![w] = [Wrote(@, row.element, row.key) EXCEPT
                     !.rest = rest, !.phase = Going(op[w].job, rest)]]
        /\ db' = Stored(w, row.element, row.key)
        /\ UNCHANGED <<jobs, faults>>

\* One UPDATE of rewriteKeys: of no row where the element has gone since.
RewriteRow(w) ==
    LET row == Head(op[w].rest)
        rest == Tail(op[w].rest)
        there == Seen(w)[row.element] # NoKey
    IN  /\ op[w].phase = "rewrite"
        /\ ~Waiting(w)
        /\ op' = [op EXCEPT ![w] =
                     [(IF there THEN Wrote(@, row.element, row.key) ELSE @) EXCEPT
                        !.rest = rest, !.phase = Going(op[w].job, rest)]]
        /\ db' = IF there THEN Stored(w, row.element, row.key) ELSE db
        /\ UNCHANGED <<jobs, faults>>

-----------------------------------------------------------------------------
(* The one statement an operation is for, and how it ends. *)

\* After it: a commit to ask for, or an answer, which may be lost.
Ended(w, o) ==
    \/ /\ op' = [op EXCEPT ![w] = IF o.within THEN [o EXCEPT !.phase = "commit"]
                                  ELSE Idle("done")]
       /\ UNCHANGED faults
    \/ /\ ~o.within
       /\ faults < MaxFaults
       /\ faults' = faults + 1
       /\ op' = [op EXCEPT ![w] = Idle("fault")]

\* Mutant: what is there already is put where it was asked.
InsertRowOver(w) ==
    LET e == op[w].job.element IN
    /\ op[w].phase = "write" /\ op[w].job.does = "insert"
    /\ ~Waiting(w)
    /\ db' = Stored(w, e, op[w].key)
    /\ Ended(w, Wrote(op[w], e, op[w].key))
    /\ UNCHANGED jobs

InsertRow(w) ==
    LET e == op[w].job.element IN
    /\ op[w].phase = "write" /\ op[w].job.does = "insert"
    /\ ~Waiting(w)
    /\ Seen(w)[e] = NoKey
    /\ db' = Stored(w, e, op[w].key)
    /\ Ended(w, Wrote(op[w], e, op[w].key))
    /\ UNCHANGED jobs

\* ErrAlreadyThere: the table's key is owner and element.
InsertRefused(w) ==
    /\ op[w].phase = "write" /\ op[w].job.does = "insert"
    /\ ~Waiting(w)
    /\ Seen(w)[op[w].job.element] # NoKey
    /\ op' = [op EXCEPT ![w] = Idle("there")]
    /\ UNCHANGED <<db, jobs, faults>>

\* moveIn's UPDATE and removeIn's DELETE, of no row where there is none.
ChangeRow(w) ==
    LET e == op[w].job.element
        there == Seen(w)[e] # NoKey
        key == IF op[w].job.does = "move" THEN op[w].key ELSE NoKey
    IN  /\ op[w].phase = "write" /\ op[w].job.does # "insert"
        /\ ~Waiting(w)
        /\ db' = IF there THEN Stored(w, e, key) ELSE db
        /\ Ended(w, IF there THEN Wrote(op[w], e, key) ELSE op[w])
        /\ UNCHANGED jobs

Commit(w) ==
    /\ op[w].phase = "commit"
    /\ db' = Seen(w)
    /\ \/ op' = [op EXCEPT ![w] = Idle("done")] /\ UNCHANGED faults
       \/ /\ faults < MaxFaults
          /\ faults' = faults + 1
          /\ op' = [op EXCEPT ![w] = Idle("fault")]
    /\ UNCHANGED jobs

\* Mutant: a failure that leaves the transaction open.
FailForgotten(w) ==
    /\ op[w].phase # "idle"
    /\ faults < MaxFaults
    /\ faults' = faults + 1
    /\ op' = [op EXCEPT ![w] = [Idle("fault") EXCEPT !.held = op[w].held, !.mine = op[w].mine]]
    /\ UNCHANGED <<db, jobs>>

\* A statement fails, or whoever runs it is interrupted: the scope rolls back.
Fail(w) ==
    /\ op[w].phase # "idle"
    /\ faults < MaxFaults
    /\ faults' = faults + 1
    /\ op' = [op EXCEPT ![w] = Idle("fault")]
    /\ UNCHANGED <<db, jobs>>

\* The server fails one of two that wait for each other.
Deadlocked(w) ==
    /\ Waiting(w)
    /\ \E v \in Writers \ {w} :
          Waiting(v) /\ Target(w) \in op[v].held /\ Target(v) \in op[w].held
    /\ op' = [op EXCEPT ![w] = Idle("fault")]
    /\ UNCHANGED <<db, jobs, faults>>

Rest ==
    /\ jobs = MaxJobs
    /\ \A w \in Writers : op[w].phase = "idle"
    /\ UNCHANGED vars

Step(w) ==
    \/ ReadBeside(w) \/ Place(w)
    \/ ReadRows(w) \/ RewriteRow(w)
    \/ InsertRow(w) \/ InsertRefused(w) \/ ChangeRow(w)
    \/ Commit(w) \/ Deadlocked(w)

Next ==
    \/ \E w \in Writers : (\E j \in May, within \in BOOLEAN : Start(w, j, within)) \/ Step(w) \/ Fail(w)
    \/ Rest

Spec == Init /\ [][Next]_vars

\* A writer goes on, and is answered; one of two that wait for a row gets it.
FairSpec == Spec /\ \A w \in Writers : WF_vars(Step(w))

-----------------------------------------------------------------------------
(* What should hold. *)

\* Every row has a key, every transaction holds only rows it wrote keys to or
\* took, and a finished operation holds none.
TypeOK ==
    /\ db \in [Elements -> Ends]
    /\ \A w \in Writers :
          /\ op[w].phase \in {"idle", "beside", "place", "rows", "rewrite", "write", "commit"}
          /\ op[w].phase = "idle" <=> op[w].job = NoJob
          /\ op[w].phase = "rewrite" <=> op[w].rest # << >>
          /\ op[w].phase = "idle" \/ ~op[w].within => op[w].held = {}
          /\ op[w].phase # "idle" => op[w].job \in May
          /\ \A e \in op[w].held : op[w].mine[e] \in Ends
          /\ op[w].result \in {"none", "done", "absent", "there", "order", "fault"}

Finished(w, does) ==
    /\ op[w].phase # "idle" /\ op[w].job.does = does
    /\ op[w]'.phase = "idle" /\ op[w]'.result \in {"done", "fault"}

\* Elements come by an insertion of them and go by a removal, whatever else is
\* rewritten meanwhile: no UPDATE brings back a row that was deleted while the
\* keys were being rewritten, and none of a transaction that failed stays.
ElementsComeAndGo ==
    [][\A e \in Elements :
          /\ db[e] = NoKey /\ db'[e] # NoKey =>
                \E w \in Writers : Finished(w, "insert") /\ op[w].job.element = e
          /\ db[e] # NoKey /\ db'[e] = NoKey =>
                \E w \in Writers : Finished(w, "remove") /\ op[w].job.element = e]_vars

\* "An element already there is refused ... by the table's key rather than by a
\* lookup first": of two writers that insert one element, one is told it did.
InsertionsAreNew ==
    [][\A w \in Writers :
          Finished(w, "insert") /\ op[w]'.result = "done" =>
              db[op[w].job.element] = NoKey /\ db'[op[w].job.element] # NoKey]_vars

\* Whatever moves between the statement that finds the element beside and the
\* one that finds its neighbour, there is a key between what they found.
NeverOutOfOrder == \A w \in Writers : op[w].result # "order"

\* Every operation is answered, though each may wait for rows of the other.
EveryOperationEnds == \A w \in Writers : op[w].phase # "idle" ~> op[w].phase = "idle"

\* The elements as the table has them, in order.
Order ==
    [i \in 1..Cardinality(Rows(db)) |->
        CHOOSE e \in Rows(db) :
            Cardinality({f \in Rows(db) : Less(db[f], db[e])}) = i - 1]

Promise == INSTANCE PersonOrder WITH
    order  <- Order,
    asked  <- [w \in Writers |-> op[w].job],
    answer <- [w \in Writers |-> op[w].result]

\* One writer, which places in transactions (a removal is one statement): the
\* list does at once what was asked or nothing, through failures and any
\* rewriting of its keys.
KeepsPromise == Promise!Spec
=============================================================================
