----------------------------- MODULE Repository -----------------------------
(***************************************************************************)
(* One aggregate kept by a repository (sql/repository*.go): found, saved   *)
(* whole, as the changes between two values, its root alone, inserted and  *)
(* deleted, statement by statement, from several sessions at once.  Its    *)
(* tables are the ones ddl derives of a root that holds an ordered list of *)
(* entities, each with at most one entity beneath it.                      *)
(*                                                                         *)
(* The server is external: a statement sees what is committed and what its *)
(* own transaction wrote (READ COMMITTED), a row written belongs to its    *)
(* transaction until that ends, a foreign key cascades, and one of two     *)
(* transactions waiting for each other is failed.                          *)
(***************************************************************************)
EXTENDS ListPositions, SequencesExt, FiniteSets

CONSTANTS
    Elements,      \* the identities of the list's elements
    Values,        \* what a root or an element holds besides its key
    Root,          \* the aggregate's identity
    Sessions,
    Mappings,      \* what a mapping may declare: may a root, or an element, not
                   \* hold a value another one does
    Taken,         \* the values other aggregates' roots hold
    Batch,         \* how many rows one statement binds (mostBound)
    Kept,          \* what may be stored at first
    May(_),        \* what a session may ask for
    NoRow, NoAggregate,
    MaxJobs,       \* bound: how many operations are asked for
    MaxFaults      \* bound: how many statements fail or lose their answer

Entities == [key : Elements, value : Values, noted : BOOLEAN]

KeysOf(list) == [i \in DOMAIN list |-> list[i].key]

\* A list names an element once: a second of the same key is a refused insert.
Aggregates ==
    {a \in [name : Values, list : SeqOf(Entities, Cardinality(Elements))] :
        IsInjective(KeysOf(a.list))}

Jobs ==
    [does : {"save", "change", "insert", "saveRoot"}, value : Aggregates]
        \cup [does : {"find", "delete"}, value : {NoAggregate}]

ASSUME RepositoryAssumption ==
    /\ Mappings \subseteq [alsoUnique : BOOLEAN, uniqueValues : BOOLEAN]
    /\ Taken \subseteq Values
    /\ Batch \in Nat \ {0}
    /\ Kept \subseteq Aggregates
    /\ NoAggregate \notin Aggregates
    /\ NoRow \notin [value : Values \cup {NoRow}, position : Int]
    /\ \A w \in Sessions : May(w) \subseteq Jobs
    /\ MaxJobs \in Nat /\ MaxFaults \in Nat
    /\ Cardinality(Sessions) <= 2   \* so that to wait is to wait for the other
    /\ IsFiniteSet(Elements)
    /\ 0 \in Lowest..Highest        \* a list of every element can be numbered
    /\ (Cardinality(Elements) - 1) * Gap <= Highest

VARIABLES
    db,     \* db[r]: each row, as committed
    op,     \* op[w]: what each session is doing
    mapping,   \* what this repository's declares
    jobs, faults

vars == <<db, op, mapping, jobs, faults>>

-----------------------------------------------------------------------------
(* An aggregate's tables: the root's, the list's, and the one beneath it.  *)
(* A row is its table and its key; it belongs to its holder.               *)

RootRow == <<1, Root>>
Line(e) == <<2, e>>
Note(e) == <<3, e>>

Rows == {RootRow} \cup ({2, 3} \X Elements)

Above(r) == IF r[1] = 3 THEN {RootRow, Line(r[2])} ELSE IF r[1] = 2 THEN {RootRow} ELSE {}

Content(v, p) == [value |-> v, position |-> p]

\* An UPDATE that leaves the position as it is.
Ignored == Highest + 1

\* Those of a sequence that are in S, in its order.
Only(s, S) ==
    LET upTo[i \in 0..Len(s)] ==
            IF i = 0 THEN << >>
            ELSE IF s[i] \in S THEN Append(upTo[i - 1], s[i]) ELSE upTo[i - 1]
    IN  upTo[Len(s)]

\* rows: an aggregate's rows of one table, in its list's order.
RowsIn(t, a) ==
    IF a = NoAggregate THEN << >>
    ELSE CASE t = 1 -> <<RootRow>>
           [] t = 2 -> [i \in DOMAIN a.list |-> Line(a.list[i].key)]
           [] t = 3 -> Only([i \in DOMAIN a.list |-> Note(a.list[i].key)],
                            {Note(l.key) : l \in {m \in Range(a.list) : m.noted}})

Entity(a, e) == CHOOSE l \in Range(a.list) : l.key = e

\* takeApart: the aggregate's rows, its list's positions given.
TakenApart(a, positions) ==
    [r \in UNION {Range(RowsIn(t, a)) : t \in 1..3} |->
        CASE r[1] = 1 -> Content(a.name, 0)
          [] r[1] = 2 -> Content(Entity(a, r[2]).value,
                                 positions[CHOOSE i \in DOMAIN a.list : a.list[i].key = r[2]])
          [] r[1] = 3 -> Content(NoRow, 0)]

Apart(a) == TakenApart(a, IF a = NoAggregate THEN << >> ELSE Numbered(Len(a.list)))

Present(rows, t) == {r \in DOMAIN rows : r[1] = t /\ rows[r] # NoRow}

\* Mutant: a list read in whatever order.
AnyListings(rows) ==
    LET lines == Present(rows, 2)
    IN  {s \in [1..Cardinality(lines) -> lines] : Range(s) = lines}

\* The lists ORDER BY position may give: any order of those that are level.
Listings(rows) ==
    LET lines == Present(rows, 2)
    IN  {s \in [1..Cardinality(lines) -> lines] :
            /\ Range(s) = lines
            /\ \A i, j \in DOMAIN s : i < j => rows[s[i]].position <= rows[s[j]].position}

\* assemble: the aggregates those rows may be read as.
Assembled(rows) ==
    IF Present(rows, 1) = {} THEN {NoAggregate}
    ELSE {[name |-> rows[RootRow].value,
           list |-> [i \in DOMAIN s |->
               [key |-> s[i][2], value |-> rows[s[i]].value,
                noted |-> Note(s[i][2]) \in Present(rows, 3)]]] : s \in Listings(rows)}

-----------------------------------------------------------------------------
(* What a save or a delete says to the database. *)

\* Mutant: a list is numbered whenever it is saved.
PlacedAfresh(kept, a) == Numbered(Len(a.list))

\* placeRows: each row's position, stored or between its neighbours'.
Placed(kept, a) ==
    LET known == {i \in DOMAIN a.list : Line(a.list[i].key) \in DOMAIN kept}
    IN  PlaceList([i \in DOMAIN a.list |->
                      IF i \in known THEN kept[Line(a.list[i].key)].position ELSE 0], known)

Statement(does, rows) == [does |-> does, rows |-> rows]

Batches(s) ==
    [i \in 1..((Len(s) + Batch - 1) \div Batch) |->
        SubSeq(s, (i - 1) * Batch + 1, IF i * Batch < Len(s) THEN i * Batch ELSE Len(s))]

InsertRows(s, wanted) ==
    LET batches == Batches(s)
    IN  [i \in DOMAIN batches |->
            Statement("insert", [r \in Range(batches[i]) |-> wanted[r]])]

\* Grouped by the holder: all the list's rows, the rows beneath each line.
DeleteRows(t, gone) ==
    LET s == SetToSeq(gone)
        batches == IF t = 3 THEN [i \in DOMAIN s |-> <<s[i]>>] ELSE Batches(s)
    IN  [i \in DOMAIN batches |->
            Statement("delete", [r \in Range(batches[i]) |-> NoRow])]

Gone(t, kept, a) == {r \in DOMAIN kept : r[1] = t} \ Range(RowsIn(t, a))

Deletes(t, kept, a) == DeleteRows(t, Gone(t, kept, a))

\* What the rows are to be, a list placed by what is kept or not.
ToBe(kept, a, placed) ==
    IF placed /\ a # NoAggregate THEN TakenApart(a, Placed(kept, a)) ELSE Apart(a)

Same(r, kept, wanted, placed) ==
    /\ kept[r].value = wanted[r].value
    /\ placed => kept[r].position = wanted[r].position

Update(r, wanted, placed) ==
    Statement("update", [q \in {r} |-> Content(wanted[r].value,
                            IF placed THEN wanted[r].position ELSE Ignored)])

\* New rows, then changed ones, one by one.  Where a list is not placed, it
\* kept its order and gained nothing, and positions are left as they are.
Writes(t, kept, a, placed) ==
    LET rows == RowsIn(t, a)
        wanted == ToBe(kept, a, placed)
        new == Only(rows, Range(rows) \ DOMAIN kept)
        changed == Only(rows, {r \in DOMAIN kept \cap Range(rows) : ~Same(r, kept, wanted, placed)})
    IN  InsertRows(new, wanted)
            \o [i \in DOMAIN changed |-> Update(changed[i], wanted, placed)]

\* Mutant: what is new is written before what is gone is deleted.
ChangesBeforeDeletions(tables, kept, a, placed) ==
    IF tables = 1 THEN Deletes(1, kept, a) \o Writes(1, kept, a, placed)
    ELSE Writes(1, kept, a, placed) \o Writes(2, kept, a, placed) \o Writes(3, kept, a, placed)
            \o Deletes(3, kept, a) \o Deletes(2, kept, a) \o Deletes(1, kept, a)

\* changes: of the first tables, deletions from the bottom up, then writes from
\* the top down.
Changes(tables, kept, a, placed) ==
    IF tables = 1 THEN Deletes(1, kept, a) \o Writes(1, kept, a, placed)
    ELSE Deletes(3, kept, a) \o Deletes(2, kept, a) \o Deletes(1, kept, a)
            \o Writes(1, kept, a, placed) \o Writes(2, kept, a, placed) \o Writes(3, kept, a, placed)

\* Mutant: a list that gained nothing is left in the order it has.
Gained(before, after) == ~(Range(KeysOf(after.list)) \subseteq Range(KeysOf(before.list)))

\* reordered: an element the list gained, or one that changed places.
Reordered(before, after) ==
    LET was == KeysOf(before.list)
        is  == KeysOf(after.list)
        At(e) == CHOOSE i \in DOMAIN was : was[i] = e
    IN  \/ ~(Range(is) \subseteq Range(was))
        \/ \E i, j \in DOMAIN is : i < j /\ At(is[i]) > At(is[j])

-----------------------------------------------------------------------------
(* What a statement sees, does and waits for. *)

Seen(w) == [r \in Rows |-> IF r \in op[w].held THEN op[w].mine[r] ELSE db[r]]

Beneath(rows) == {r \in Rows : Above(r) \cap rows # {}}

\* The rows a statement writes, and what they become.
Written(s, seen) ==
    LET rows == DOMAIN s.rows
        there == {r \in rows : seen[r] # NoRow}
    IN  CASE s.does = "delete" ->
                [r \in {q \in rows \cup Beneath(rows) : seen[q] # NoRow} |-> NoRow]
          [] s.does = "update" ->
                [r \in there |-> IF s.rows[r].position = Ignored
                                 THEN [seen[r] EXCEPT !.value = s.rows[r].value]
                                 ELSE s.rows[r]]
          [] s.does \in {"insert", "upsert"} -> s.rows

\* Refused: a key or a unique value that is there, a holder that is not.
Refused(s, seen) ==
    LET written == Written(s, seen)
        after == [r \in Rows |-> IF r \in DOMAIN written THEN written[r] ELSE seen[r]]
        lines == Present(after, 2)
    IN  \/ s.does = "insert" /\ \E r \in DOMAIN s.rows :
                seen[r] # NoRow \/ \E h \in Above(r) : after[h] = NoRow
        \/ mapping.alsoUnique /\ RootRow \in DOMAIN written /\ s.does # "delete"
                /\ written[RootRow].value \in Taken
        \/ mapping.uniqueValues /\ s.does # "delete"
                /\ \E r \in DOMAIN written \cap lines : \E q \in lines \ {r} :
                       after[r].value = after[q].value

\* Rows another transaction wrote hold a statement up: its own where they are
\* there or it inserts them, those beneath one it deletes, the holder of one
\* it inserts, and whatever may hold a value it makes its own.
Waits(w, s) ==
    \E v \in Sessions \ {w} :
        LET theirs == op[v].held
            rows == DOMAIN s.rows
        IN  \/ \E r \in rows \cap theirs : db[r] # NoRow \/ s.does \in {"insert", "upsert"}
            \/ s.does = "delete" /\ Beneath(rows) \cap theirs # {}
            \/ s.does = "insert" /\ \E r \in rows : \E h \in Above(r) \cap theirs :
                   op[v].mine[h] = NoRow
            \/ mapping.uniqueValues /\ s.does # "delete" /\ \E r \in rows, q \in theirs :
                   /\ r[1] = 2 /\ q[1] = 2 /\ r # q
                   /\ s.rows[r].value \in {x.value : x \in {db[q], op[v].mine[q]} \ {NoRow}}

Waiting(w) == op[w].phase = "run" /\ op[w].todo # << >> /\ Waits(w, Head(op[w].todo))

-----------------------------------------------------------------------------
(* The operations, a statement at a time. *)

NoJob == [does |-> "none", value |-> NoAggregate]

Rest ==
    [phase |-> "idle", job |-> NoJob, read |-> << >>, before |-> NoAggregate, todo |-> << >>,
     held |-> {}, mine |-> [r \in Rows |-> NoRow], rows |-> 0, says |-> "none",
     found |-> NoAggregate, was |-> << >>, alone |-> FALSE]

Stored(a) == LET rows == Apart(a) IN [r \in Rows |-> IF r \in DOMAIN rows THEN rows[r] ELSE NoRow]

Init ==
    /\ \E a \in Kept \cup {NoAggregate} : db = Stored(a)
    /\ op = [w \in Sessions |-> Rest]
    /\ mapping \in Mappings
    /\ jobs = 0
    /\ faults = 0

\* Mutant: how many were found is not told.
AnswerOnly(o, says) ==
    [Rest EXCEPT !.phase = "answered", !.job = o.job, !.says = says, !.was = o.was,
                 !.alone = o.alone]

\* An operation over: what it held is let go, what it answers is told.
Answer(o, says) ==
    [Rest EXCEPT !.phase = "answered", !.job = o.job, !.says = says, !.rows = o.rows,
                 !.was = o.was, !.alone = o.alone]

\* The other sessions, once what is committed is another: theirs is disturbed.
Disturbed(ops, w, after) ==
    [v \in Sessions |->
        IF v = w \/ after = db \/ ops[v].phase = "idle" THEN ops[v]
        ELSE [ops[v] EXCEPT !.alone = FALSE, !.was = << >>]]

\* saveRoot: the upsert of the root, or what its row is read for.
SavingRoot(a) ==
    [phase |-> IF mapping.alsoUnique THEN "root" ELSE "run",
     todo  |-> IF mapping.alsoUnique THEN << >>
               ELSE <<Statement("upsert", [r \in {RootRow} |-> Content(a.name, 0)])>>]

\* insert: nothing is read, and a list is numbered.
Inserting(a) ==
    [phase |-> "run",
     todo  |-> InsertRows(RowsIn(1, a), Apart(a)) \o InsertRows(RowsIn(2, a), Apart(a))
                   \o InsertRows(RowsIn(3, a), Apart(a))]

\* Everything else reads what is kept first.
Starting(j) ==
    CASE j.does = "insert" -> Inserting(j.value)
      [] j.does = "saveRoot" -> SavingRoot(j.value)
      [] OTHER -> [phase |-> "root", todo |-> << >>]

Ask(w, j) ==
    /\ op[w].phase = "idle"
    /\ jobs < MaxJobs
    /\ jobs' = jobs + 1
    /\ op' = [op EXCEPT ![w] =
                 [Rest EXCEPT !.job = j, !.was = db, !.alone = TRUE,
                              !.phase = Starting(j).phase, !.todo = Starting(j).todo]]
    /\ UNCHANGED <<mapping, db, faults>>

ReadIn(w, t) == LET seen == Seen(w) IN [r \in Present(seen, t) |-> seen[r]]

\* The rows of a table beside those of the tables read before.
Joined(read, more) ==
    [r \in DOMAIN read \cup DOMAIN more |-> IF r \in DOMAIN read THEN read[r] ELSE more[r]]

\* save and delete: what is kept made what is to be.
Saving(o, read) ==
    [o EXCEPT !.phase = "run", !.read = << >>, !.todo = Changes(3, read, o.job.value, TRUE)]

\* kept: the root's row, and nothing beneath none.
ReadRoot(w) ==
    LET j == op[w].job
        read == ReadIn(w, 1)
        o == [op[w] EXCEPT !.read = read, !.rows = Cardinality(DOMAIN read)]
    IN  /\ op[w].phase = "root"
        /\ op' = [op EXCEPT ![w] =
              CASE j.does = "saveRoot" ->
                     [o EXCEPT !.phase = "run", !.todo = Changes(1, read, j.value, TRUE)]
                [] j.does \in {"find", "change"} /\ read = << >> -> Answer(o, "absent")
                [] j.does \in {"save", "delete"} /\ read = << >> -> Saving(o, read)
                [] OTHER -> [o EXCEPT !.phase = "lines"]]
        /\ UNCHANGED <<mapping, db, jobs, faults>>

\* readTree: each table beneath with a statement of its own.
ReadLines(w) ==
    /\ op[w].phase = "lines"
    /\ op' = [op EXCEPT ![w].read = Joined(@, ReadIn(w, 2)), ![w].phase = "notes"]
    /\ UNCHANGED <<mapping, db, jobs, faults>>

\* saveChanges, from an aggregate found in the same transaction.
SavingChanges(o, before) ==
    IF Reordered(before, o.job.value)
    THEN [o EXCEPT !.phase = "again", !.read = << >>, !.before = before]
    ELSE [o EXCEPT !.phase = "run", !.read = << >>,
                   !.todo = Changes(3, Apart(before), o.job.value, FALSE)]

ReadNotes(w) ==
    LET does == op[w].job.does
        read == Joined(op[w].read, ReadIn(w, 3))
    IN  /\ op[w].phase = "notes"
        /\ \E a \in Assembled(read) :
              op' = [op EXCEPT ![w] =
                  CASE does = "find" -> [Answer(@, "found") EXCEPT !.found = a]
                    [] does = "change" -> SavingChanges(@, a)
                    [] does \in {"save", "delete"} -> Saving(@, read)]
        /\ UNCHANGED <<mapping, db, jobs, faults>>

\* saveChanges: where the elements of a list that changed order stand.
ReadAgain(w) ==
    LET before == Apart(op[w].before)
        kept == Joined([r \in {q \in DOMAIN before : q[1] # 2} |-> before[r]], ReadIn(w, 2))
    IN  /\ op[w].phase = "again"
        /\ op' = [op EXCEPT ![w].phase = "run", ![w].before = NoAggregate,
                            ![w].todo = Changes(3, kept, op[w].job.value, TRUE)]
        /\ UNCHANGED <<mapping, db, jobs, faults>>

\* The next statement, within the transaction; a refusal ends it.
Run(w) ==
    LET s == Head(op[w].todo)
        seen == Seen(w)
        written == Written(s, seen)
    IN  /\ op[w].phase = "run" /\ op[w].todo # << >>
        /\ ~Waits(w, s)
        /\ op' = [op EXCEPT ![w] =
              IF Refused(s, seen) THEN Answer(@, "refused")
              ELSE [op[w] EXCEPT !.todo = Tail(@), !.held = @ \cup DOMAIN written,
                                 !.mine = [r \in Rows |-> IF r \in DOMAIN written
                                                          THEN written[r] ELSE @[r]]]]
        /\ UNCHANGED <<mapping, db, jobs, faults>>

Commit(w) ==
    /\ op[w].phase = "run" /\ op[w].todo = << >>
    /\ db' = Seen(w)
    /\ op' = Disturbed([op EXCEPT ![w] = Answer(@, "done")], w, Seen(w))
    /\ UNCHANGED <<mapping, jobs, faults>>

\* A statement fails, and the transaction is rolled back.
Fail(w) ==
    /\ op[w].phase \notin {"idle", "answered"}
    /\ faults < MaxFaults
    /\ faults' = faults + 1
    /\ op' = [op EXCEPT ![w] = Answer(@, "fault")]
    /\ UNCHANGED <<mapping, db, jobs>>

\* A commit done whose answer is lost.
LoseAnswer(w) ==
    /\ op[w].phase = "run" /\ op[w].todo = << >>
    /\ faults < MaxFaults
    /\ faults' = faults + 1
    /\ db' = Seen(w)
    /\ op' = Disturbed([op EXCEPT ![w] = Answer(@, "fault")], w, Seen(w))
    /\ UNCHANGED <<mapping, jobs>>

\* Two wait for each other: the server fails one.
Deadlocked(w, v) ==
    /\ w # v
    /\ Waiting(w) /\ Waiting(v)
    /\ op' = [op EXCEPT ![w] = Answer(@, "deadlock")]
    /\ UNCHANGED <<mapping, db, jobs, faults>>

Return(w) ==
    /\ op[w].phase = "answered"
    /\ op' = [op EXCEPT ![w] = Rest]
    /\ UNCHANGED <<mapping, db, jobs, faults>>

Step(w) ==
    \/ ReadRoot(w) \/ ReadLines(w) \/ ReadNotes(w) \/ ReadAgain(w)
    \/ Run(w) \/ Commit(w) \/ Return(w)
    \/ \E v \in Sessions : Deadlocked(w, v)

Next ==
    \E w \in Sessions :
        \/ \E j \in May(w) : Ask(w, j)
        \/ Step(w)
        \/ Fail(w)
        \/ LoseAnswer(w)

Spec == Init /\ [][Next]_vars

-----------------------------------------------------------------------------
(* Properties. *)

Contents == [value : Values \cup {NoRow}, position : Lowest..Highest]

\* Every variable has its type: each row is one of its table, and a session
\* holds rows only while it runs statements.
TypeOK ==
    /\ db \in [Rows -> Contents \cup {NoRow}]
    /\ \A w \in Sessions :
          /\ op[w].phase \in {"idle", "root", "lines", "notes", "again", "run", "answered"}
          /\ op[w].mine \in [Rows -> Contents \cup {NoRow}]
          /\ op[w].held \subseteq Rows
          /\ op[w].held # {} => op[w].phase = "run"
          /\ op[w].says \in {"none", "found", "absent", "done", "refused", "fault", "deadlock"}
    /\ jobs \in 0..MaxJobs /\ faults \in 0..MaxFaults

\* An operation answered that no other session's commit came in between of.
Alone(w) == op[w].phase = "answered" /\ op[w].alone

Was(w) == Assembled(op[w].was)

\* What was stored can be read as one aggregate only.
OneWas(w) == \E a \in Was(w) : Was(w) = {a}

Wanted(w) ==
    LET j == op[w].job
        was == CHOOSE a \in Was(w) : TRUE
    IN  IF j.does # "saveRoot" THEN j.value
        ELSE [name |-> j.value.name, list |-> IF was = NoAggregate THEN << >> ELSE was.list]

\* What was written is what is then found: every member, every entity beneath,
\* and each list in its order, whichever operation wrote it and from whatever
\* was stored before (repository_changes.go: changes; repository_writes.go).
\* Elements left level by sessions that saved at once are told apart by the
\* next that saves the list, not by one that leaves its order as it found it.
SavedIsStored ==
    \A w \in Sessions :
        Alone(w) /\ op[w].says = "done" /\ OneWas(w) =>
            Assembled(db) = {Wanted(w)}

\* What is answered is true of what was stored: the aggregate found is it, none
\* is found only where there was none, and a deletion says whether it removed
\* one (repository.go: findIn; repository_writes.go: deleteIn).
AnswersAreTrue ==
    \A w \in Sessions :
        Alone(w) =>
            /\ op[w].says = "found" => op[w].found \in Was(w)
            /\ op[w].says = "absent" => Was(w) = {NoAggregate}
            /\ op[w].says = "done" /\ op[w].job.does = "delete" =>
                  (op[w].rows = 0 <=> op[w].was[RootRow] = NoRow)

\* The elements of a list whose stored positions increase in the order wanted.
InOrder(a, rows) ==
    LET At(i) == rows[Line(a.list[i].key)]
    IN  {K \in SUBSET {i \in DOMAIN a.list : At(i) # NoRow} :
            \A i, j \in K : i < j => At(i).position < At(j).position}

Longest(a, rows) == {K \in InOrder(a, rows) : \A L \in InOrder(a, rows) : Cardinality(L) <= Cardinality(K)}

\* An element moved is the one row written: of the elements that stay, as few
\* change position as any way of keeping the others in order would change; a
\* list is numbered again only where its neighbours leave no room for what goes
\* between them, or where there are no more positions (sql.md: "an element moved
\* or inserted is the one row written"; repository_positions.go: placeList).
FewestMoved ==
    \A w \in Sessions :
        Alone(w) /\ op[w].says = "done" /\ op[w].job.does \in {"save", "change"}
                /\ OneWas(w) =>
            LET a == op[w].job.value
                was == op[w].was
                stay == {i \in DOMAIN a.list : was[Line(a.list[i].key)] # NoRow}
                At(i) == db[Line(a.list[i].key)].position
                moved == {i \in stay : was[Line(a.list[i].key)].position # At(i)}
                None(K) ==
                    LET positions == [i \in DOMAIN a.list |->
                                        IF i \in K THEN was[Line(a.list[i].key)].position ELSE 0]
                    IN  ~Room(positions, K)
                            \/ \E i \in DOMAIN a.list :
                                   PlacedAt(positions, K, i) \notin Lowest..Highest
            IN  \E K \in Longest(a, was) :
                    \/ moved \subseteq stay \ K
                    \/ None(K) /\ \A i \in DOMAIN a.list : At(i) = Numbered(Len(a.list))[i]

\* An aggregate saved unchanged writes nothing (sql.md).
UnchangedWritesNothing ==
    \A w \in Sessions :
        op[w].phase = "run" /\ op[w].job.does \in {"save", "change"} /\ op[w].alone
                /\ Was(w) = {op[w].job.value} =>
            op[w].todo = << >> /\ op[w].held = {}

\* A write nobody came in between of is refused only for what it asks: a new
\* aggregate that is there, a unique value another aggregate has, or one that
\* another element of its list still had when it was saved -- updates are one
\* by one, so two elements cannot exchange theirs (repository_changes.go:
\* changes).
RefusedOnlyForCause ==
    \A w \in Sessions :
        Alone(w) /\ op[w].says = "refused" =>
            LET a == op[w].job.value
                was == op[w].was
            IN  \/ op[w].job.does = "insert" /\ was[RootRow] # NoRow
                \/ mapping.alsoUnique /\ a.name \in Taken
                \/ mapping.uniqueValues /\ \E i, j \in DOMAIN a.list :
                       /\ i # j
                       /\ \/ a.list[i].value = a.list[j].value
                          \/ /\ was[Line(a.list[j].key)] # NoRow
                             /\ was[Line(a.list[j].key)].value = a.list[i].value
=============================================================================
