----------------------------- MODULE Alteration -----------------------------
(***************************************************************************)
(* One aggregate's table carried from version to version: the statements   *)
(* ddl makes of each change, as migrate runs them, and what each server    *)
(* does with them.  The same values are carried in memory beside the rows. *)
(*                                                                         *)
(* A column's type is the set of values it holds; a check is a rule under  *)
(* a name made of its column and its rule.  A relation's entity has a      *)
(* table of its own, with a unique index where there may be one and a      *)
(* position where there may be many; a row says how many it holds.         *)
(***************************************************************************)
EXTENDS Evolve, FiniteSets, FiniteSetsExt

CONSTANTS
    Dialects,   \* of "postgres", "mysql" and "sqlite"
    Histories,  \* what aggregates have been
    Most,       \* the greatest number, and the longest text
    MostHeld,   \* the most entities a row holds
    Rows,       \* the rows there may be
    MaxRuns     \* how many migrations are run

Values == 0..Most

\* What a width spans.  The widest has no limits a bound is compared with.
Span(bits) == CASE bits = 8 -> 2..3 [] bits = 16 -> 1..(Most - 1) [] bits = 64 -> Values

Kept(rule, v) ==
    IF rule.rule \in {"at_least", "min_length"} THEN v >= rule.bound ELSE v <= rule.bound

\* What a description admits of a field.
Stated(field) == {v \in Values : \A rule \in field.node.rules : Kept(rule, v)}

Admitted(field) ==
    IF Relation(field.node)
    THEN (IF field.node.kind = "many" THEN 0..MostHeld
          ELSE IF field.optional THEN {0, 1} ELSE {1})
    ELSE (IF field.node.kind = "whole" THEN Stated(field) \cap Span(field.node.bits)
          ELSE Stated(field))
         \cup (IF field.optional \/ field.node.null THEN {None} ELSE {})

\* The descriptions of a history, those between its versions too.
Descriptions(h) ==
    Range(h.objects)
    \cup UNION {LET plain == PlainlyAll(h.steps[v])
                IN  {Before(plain, i, At(h, v)) : i \in DOMAIN plain} : v \in DOMAIN h.steps}

Described == [h \in Histories |-> UNION {Range(object) : object \in Descriptions(h)}]

Columns == [h \in Histories |-> {f.name : f \in {f \in Described[h] : ~Relation(f.node)}}]
Entities == [h \in Histories |-> {f.node.entity : f \in {f \in Described[h] : Relation(f.node)}}]
Members == [h \in Histories |-> {f.name : f \in Described[h]}]

ASSUME AlterationAssumption ==
    /\ Dialects \subseteq {"postgres", "mysql", "sqlite"}
    /\ Most \in 4..100 /\ MostHeld \in 2..Most /\ MaxRuns \in Nat
    /\ \A h \in Histories : WellMade(h) /\ Columns[h] \cap Entities[h] = {}

VARIABLES
    dialect,  \* whose server it is
    history,  \* what the aggregate has been
    db,       \* what is there: the version recorded, the table, its rows
    saved,    \* what a rollback goes back to
    mem,      \* each row's value, carried in memory to the version recorded
    run,      \* the migration under way
    runs      \* how many were started

vars == <<dialect, history, db, saved, mem, run, runs>>

-----------------------------------------------------------------------------
(* Columns and checks. *)

Bounds(node, rule) == {r.bound : r \in {r \in node.rules : r.rule = rule}}

\* A whole number is as narrow as the range stated of it, never wider than it
\* was declared.
Narrowed(node) ==
    LET low == Bounds(node, "at_least")
        high == Bounds(node, "at_most")
        fits == {b \in {8, 16} : b < node.bits /\ Max(low) \in Span(b) /\ Min(high) \in Span(b)}
    IN  IF node.kind # "whole" \/ low = {} \/ high = {} \/ fits = {} THEN node
        ELSE [node EXCEPT !.bits = Min(fits)]

Varchar(n) == [is |-> "varchar", holds |-> 0..n]
NoType == [is |-> "unsaid", holds |-> Values]

TextType(node) ==
    IF Bounds(node, "max_length") = {} THEN [is |-> "text", holds |-> Values]
    ELSE Varchar(Min(Bounds(node, "max_length")))

Integer(values) == [is |-> "integer", holds |-> values]

MySQLType(node) ==
    IF node.kind = "text" THEN TextType(node) ELSE Integer(Span(node.bits))

\* No width below sixteen.
PostgresType(node) ==
    IF node.kind = "text" THEN TextType(node)
    ELSE Integer(Span(IF node.bits = 8 THEN 16 ELSE node.bits))

\* No width at all.
SQLiteType(node) ==
    IF node.kind = "text" THEN [is |-> "text", holds |-> Values] ELSE Integer(Values)

TypeOf(d, node) ==
    CASE d = "mysql" -> MySQLType(Narrowed(node))
      [] d = "postgres" -> PostgresType(Narrowed(node))
      [] d = "sqlite" -> SQLiteType(node)

\* A bound that is the width's own is left to the type.
Implied(node, rule) ==
    /\ node.kind = "whole" /\ node.bits \in {8, 16}
    /\ \/ rule.rule = "at_least" /\ rule.bound = Min(Span(node.bits))
       \/ rule.rule = "at_most" /\ rule.bound = Max(Span(node.bits))

ChecksFor(column, node, type) ==
    {[name |-> <<column, r.rule>>, on |-> column, rule |-> r] :
        r \in {r \in node.rules : /\ ~Implied(Narrowed(node), r)
                                  /\ ~(r.rule = "max_length" /\ type.is = "varchar")}}

ColumnOf(d, field) ==
    [type |-> TypeOf(d, field.node), null |-> field.node.null \/ field.optional,
     default |-> field.default]

\* An entity there may be many of has a position, one alone a unique index.
ChildOf(node) ==
    [position |-> node.kind = "many", index |-> IF node.kind = "one" THEN "unique" ELSE "ordinary"]

Made(d, object) ==
    LET scalar == {f \in Range(object) : ~Relation(f.node)}
        related == {f \in Range(object) : Relation(f.node)}
    IN  [columns |-> [c \in {f.name : f \in scalar} |-> ColumnOf(d, FieldOf(object, c))],
         checks |-> UNION {ChecksFor(f.name, f.node, TypeOf(d, f.node)) : f \in scalar},
         children |-> [e \in {f.node.entity : f \in related} |->
                          ChildOf((CHOOSE f \in related : f.node.entity = e).node)]]

\* MySQL takes no default on an unbounded text.
Projectable(d, object) ==
    \A f \in Range(object) :
        (d = "mysql" /\ f.node.kind = "text" /\ f.default # None)
            => Bounds(f.node, "max_length") # {}

-----------------------------------------------------------------------------
(* What each change becomes.  A statement is a record of its clauses. *)

AddColumn(d, field) ==
    IF Relation(field.node)
    THEN <<[does |-> "create child", child |-> field.node.entity, as |-> ChildOf(field.node)]>>
    ELSE <<[does |-> "add column", column |-> field.name, as |-> ColumnOf(d, field),
            adds |-> ChecksFor(field.name, field.node, TypeOf(d, field.node))]>>

DropColumn(field) ==
    IF Relation(field.node)
    THEN <<[does |-> "drop child", child |-> field.node.entity]>>
    ELSE <<[does |-> "drop column", column |-> field.name]>>

\* Mutant: on the column's old name.
RemadeAsBefore(field, to) == ChecksFor(field.name, field.node, NoType)

\* The checks of a column under its new name.
Remade(field, to) == ChecksFor(to, field.node, NoType)

\* The checks follow the name: renamed, or dropped and made again, or left.  A
\* relation's name is nowhere in the database.
RenameColumn(d, field, to) ==
    LET before == ChecksFor(field.name, field.node, NoType)
        rename == [does |-> "rename column", from |-> field.name, to |-> to,
                   drops |-> {}, adds |-> {}]
    IN  IF Relation(field.node) THEN << >>
        ELSE CASE d = "postgres" ->
                    <<rename>> \o SetToSeq({[does |-> "rename check", from |-> c.name,
                                             to |-> <<to, c.name[2]>>] : c \in before})
               [] d = "mysql" ->
                    <<[rename EXCEPT !.drops = {c.name : c \in before},
                                     !.adds = Remade(field, to)]>>
               [] d = "sqlite" -> <<rename>>

\* Mutant: the checks that arrive are those whose rule was not there.
ArrivedByRule(before, after) == {c \in after : \A b \in before : b.name # c.name}

Arrived(before, after) == after \ before

\* What is restated is of the shape alone.
RetypeColumn(d, field, node) ==
    LET was == ColumnOf(d, [field EXCEPT !.optional = FALSE, !.default = None])
        is == ColumnOf(d, [field EXCEPT !.optional = FALSE, !.default = None, !.node = node])
        before == ChecksFor(field.name, field.node, was.type)
        after == ChecksFor(field.name, node, is.type)
        type == IF was = is THEN "kept" ELSE IF d = "mysql" THEN "whole" ELSE "only"
    IN  IF was = is /\ before = after THEN << >>
        ELSE <<[does |-> "alter column", column |-> field.name, type |-> type, as |-> is,
                drops |-> {c.name : c \in before \ after}, adds |-> Arrived(before, after)]>>

Recardinalise(field, node) ==
    IF field.node.kind = node.kind THEN << >>
    ELSE <<[does |-> "place child", child |-> node.entity, as |-> node.kind = "many"],
           [does |-> "drop index", child |-> node.entity],
           [does |-> "create index", child |-> node.entity, as |-> ChildOf(node).index]>>

\* The same kind of value, and no relation made of a column.
CanRetype(d, field, node) ==
    IF Relation(field.node) THEN Relation(node) /\ field.node.entity = node.entity
    ELSE field.node.kind = node.kind /\ d # "sqlite"

StatementsOne(d, change, object) ==
    CASE change.does = "add" -> AddColumn(d, change.field)
      [] change.does = "remove" -> DropColumn(FieldOf(object, change.name))
      [] change.does = "rename" -> RenameColumn(d, FieldOf(object, change.from), change.to)
      [] change.does = "retype" ->
            LET field == FieldOf(object, change.name)
            IN  IF Relation(field.node) THEN Recardinalise(field, change.node)
                ELSE RetypeColumn(d, field, change.node)

Statements(d, changes, object) ==
    FlattenSeq([i \in DOMAIN changes |->
                   StatementsOne(d, changes[i], Before(changes, i, object))])

\* What arrives, the function, what goes.
Actions(d, stage) ==
    LET change == stage.change
    IN  IF change.does # "recompute" THEN StatementsOne(d, change, stage.before)
        ELSE Statements(d, change.additions, stage.before)
             \o (IF "rows" \in change.forward.says
                 THEN <<[does |-> "move rows", by |-> change.forward]>> ELSE << >>)
             \o Statements(d, change.removals, Applied(change.additions, stage.before))

CanWriteOne(d, change, object) ==
    /\ Projectable(d, object)
    /\ change.does = "add" => Projectable(d, <<change.field>>)
    /\ change.does = "retype" => CanRetype(d, FieldOf(object, change.name), change.node)

CanWrite(d, stage) ==
    LET plain == Plainly(stage.change)
    IN  \A i \in DOMAIN plain : CanWriteOne(d, plain[i], Before(plain, i, stage.before))

\* A step between neighbouring versions, projected when it is reached.
CanProject(d, h, from, to) ==
    /\ IsWay(h, from, to)
    /\ LET stages == Stages(h, from, to) IN \A i \in DOMAIN stages : CanWrite(d, stages[i])

ActionsBetween(d, h, from, to) ==
    LET stages == Stages(h, from, to)
    IN  FlattenSeq([i \in DOMAIN stages |-> Actions(d, stages[i])])

-----------------------------------------------------------------------------
(* The servers. *)

CheckNames(table) == {c.name : c \in table.checks}

\* What a table takes of a column.
Takes(table, column) ==
    {v \in table.columns[column].type.holds :
        \A c \in table.checks : c.on = column => Kept(c.rule, v)}

With(column, table, to) == [table EXCEPT !.columns = (column :> to) @@ @]
Without(column, columns) == [c \in DOMAIN columns \ {column} |-> columns[c]]

\* A rename: the expressions of the checks follow in every server.
Renamed(columns, from, to) == (to :> columns[from]) @@ Without(from, columns)
OnRenamed(checks, from, to) == {IF c.on = from THEN [c EXCEPT !.on = to] ELSE c : c \in checks}

\* The table after a statement.
Altered(s, table) ==
    CASE s.does = "add column" ->
            [With(s.column, table, s.as) EXCEPT !.checks = @ \cup s.adds]
      [] s.does = "drop column" ->
            [table EXCEPT !.columns = Without(s.column, @),
                          !.checks = {c \in @ : c.on # s.column}]
      [] s.does = "rename column" ->
            [table EXCEPT !.columns = Renamed(@, s.from, s.to),
                          !.checks = OnRenamed({c \in @ : c.name \notin s.drops}, s.from, s.to)
                                     \cup s.adds]
      [] s.does = "rename check" ->
            [table EXCEPT !.checks =
                {IF c.name = s.from THEN [c EXCEPT !.name = s.to] ELSE c : c \in @}]
      [] s.does = "alter column" ->
            [table EXCEPT
                !.columns[s.column] = CASE s.type = "kept" -> @
                                        [] s.type = "only" -> [@ EXCEPT !.type = s.as.type]
                                        [] s.type = "whole" -> s.as,
                !.checks = {c \in @ : c.name \notin s.drops} \cup s.adds]
      [] s.does = "create child" -> [table EXCEPT !.children = (s.child :> s.as) @@ @]
      [] s.does = "drop child" -> [table EXCEPT !.children = Without(s.child, @)]
      [] s.does = "place child" -> [table EXCEPT !.children[s.child].position = s.as]
      [] s.does = "drop index" -> [table EXCEPT !.children[s.child].index = "none"]
      [] s.does = "create index" -> [table EXCEPT !.children[s.child].index = s.as]
      [] s.does = "move rows" -> table

\* A row after it.
Moved(s, row) ==
    CASE s.does = "add column" -> [row EXCEPT ![s.column] = s.as.default]
      [] s.does = "drop column" -> [row EXCEPT ![s.column] = None]
      [] s.does = "rename column" ->
            [row EXCEPT ![s.to] = row[s.from], ![s.from] = None]
      [] s.does \in {"create child", "drop child"} -> [row EXCEPT ![s.child] = 0]
      [] s.does = "move rows" -> Computed(s.by, row)
      [] OTHER -> row

\* What a statement names that is not there, or makes that is.
Misnamed(s, table) ==
    LET columns == DOMAIN table.columns
        children == DOMAIN table.children
        checks == CheckNames(table)
    IN  CASE s.does = "add column" ->
                s.column \in columns \/ {c.name : c \in s.adds} \cap checks # {}
          [] s.does = "drop column" -> s.column \notin columns
          [] s.does = "rename column" ->
                \/ s.from \notin columns \/ s.to \in columns
                \/ ~(s.drops \subseteq checks)
                \/ {c.name : c \in s.adds} \cap (checks \ s.drops) # {}
          [] s.does = "rename check" -> s.from \notin checks \/ s.to \in checks
          [] s.does = "alter column" ->
                \/ s.column \notin columns \/ ~(s.drops \subseteq checks)
                \/ {c.name : c \in s.adds} \cap (checks \ s.drops) # {}
          [] s.does = "create child" -> s.child \in children
          [] s.does = "drop child" -> s.child \notin children
          [] s.does = "drop index" ->
                s.child \notin children \/ table.children[s.child].index = "none"
          [] s.does = "create index" ->
                s.child \notin children \/ table.children[s.child].index # "none"
          [] s.does = "place child" ->
                s.child \notin children \/ table.children[s.child].position = s.as
          [] s.does = "move rows" -> ~({s.by.from, s.by.to} \subseteq columns)

\* MySQL renames no column a check it keeps is on.
Held(d, s, table) ==
    /\ d = "mysql" /\ s.does = "rename column"
    /\ \E c \in table.checks : c.on = s.from /\ c.name \notin s.drops

\* A column that takes no null and has no default is added to no row; SQLite
\* adds it to no table.
Unsupplied(d, s, table, rows) ==
    /\ s.does = "place child" /\ s.as
    /\ d = "sqlite" \/ (d = "postgres" /\ \E r \in DOMAIN rows : rows[r][s.child] > 0)

\* The values there that what comes of a statement would not take.
Broken(s, table, rows) ==
    LET after == Altered(s, table)
        touched == IF s.does \in {"add column", "alter column"} THEN {s.column}
                   ELSE IF s.does = "move rows" THEN {s.by.to} ELSE {}
    IN  \/ \E r \in DOMAIN rows : \E c \in touched :
              LET v == Moved(s, rows[r])[c] IN v # None /\ v \notin Takes(after, c)
        \/ /\ s.does = "create index" /\ s.as = "unique"
           /\ \E r \in DOMAIN rows : rows[r][s.child] > 1

Emptied(s, table, rows) ==
    /\ s.does \in {"add column", "alter column", "move rows"}
    /\ LET column == IF s.does = "move rows" THEN s.by.to ELSE s.column
       IN  /\ ~Altered(s, table).columns[column].null
           /\ \E r \in DOMAIN rows : Moved(s, rows[r])[column] = None

\* Why a server refuses a statement.
Why(d, s, table, rows) ==
    IF Misnamed(s, table) THEN {"misnamed"}
    ELSE (IF Held(d, s, table) THEN {"held"} ELSE {})
         \cup (IF Unsupplied(d, s, table, rows) THEN {"unsupplied"} ELSE {})
         \cup (IF Broken(s, table, rows) THEN {"broken"} ELSE {})
         \cup (IF Emptied(s, table, rows) THEN {"emptied"} ELSE {})

-----------------------------------------------------------------------------
(* The aggregate, read and written, and carried. *)

NoRow ==
    [c \in Columns[history] \cup Entities[history] |->
        IF c \in Entities[history] THEN 0 ELSE None]

\* A value as a row: a relation's under its entity's name.
AsRow(object, value) ==
    [c \in Columns[history] \cup Entities[history] |->
        LET of == {f \in Range(object) :
                       c = IF Relation(f.node) THEN f.node.entity ELSE f.name}
        IN  IF of = {} THEN NoRow[c]
            ELSE LET v == value[(CHOOSE f \in of : TRUE).name]
                 IN  IF v = None THEN NoRow[c] ELSE v]

Idle == [phase |-> "idle", from |-> 0, to |-> 0, todo |-> << >>, last |-> << >>, why |-> {},
         torn |-> FALSE, auto |-> FALSE]

\* The tables are made as of any version.
Init ==
    /\ dialect \in Dialects
    /\ history \in Histories
    /\ \E v \in Versions(history) :
          /\ Projectable(dialect, At(history, v))
          /\ db = [at |-> v, table |-> Made(dialect, At(history, v)), rows |-> << >>, part |-> 0]
    /\ saved = db
    /\ mem = << >>
    /\ run = Idle
    /\ runs = 0

\* A row of the version that is there, of values its description admits.
TakesRow(table, object, value) ==
    \A f \in Range(object) :
        IF Relation(f.node)
        THEN value[f.name] > 1 => table.children[f.node.entity].index # "unique"
        ELSE IF value[f.name] = None THEN table.columns[f.name].null
             ELSE value[f.name] \in Takes(table, f.name)

Write(r) ==
    LET object == At(history, db.at)
    IN  /\ run.phase = "idle" /\ db.part = 0
        /\ r \notin DOMAIN mem
        /\ \E given \in [Names(object) -> UNION {Admitted(f) : f \in Range(object)}] :
              LET value == [n \in Members[history] |->
                              IF n \in Names(object) THEN given[n] ELSE None]
              IN  /\ \A f \in Range(object) : value[f.name] \in Admitted(f)
                  /\ TakesRow(db.table, object, value)
                  /\ mem' = (r :> value) @@ mem
                  /\ db' = [db EXCEPT !.rows = (r :> AsRow(object, value)) @@ @]
        /\ saved' = db'
        /\ UNCHANGED <<dialect, history, run, runs>>

\* A migration to any version there is, through every one between.
Start(to) ==
    /\ run.phase = "idle"
    /\ runs < MaxRuns /\ to # db.at
    /\ runs' = runs + 1
    /\ run' = [Idle EXCEPT !.phase = "step", !.from = db.at, !.to = to,
                           !.torn = db.part > 0]
    /\ UNCHANGED <<dialect, history, db, saved, mem>>

Towards == IF run.to > db.at THEN db.at + 1 ELSE db.at - 1

Project ==
    /\ run.phase = "step" /\ db.at # run.to
    /\ IF CanProject(dialect, history, db.at, Towards)
       THEN /\ run' = [run EXCEPT !.phase = "act",
                          !.todo = ActionsBetween(dialect, history, db.at, Towards)]
            /\ UNCHANGED <<dialect, history, db, saved, mem, runs>>
       ELSE /\ db' = saved
            /\ run' = [run EXCEPT !.phase = "over", !.to = saved.at,
                                  !.why = {"unprojectable"},
                                  !.last = history.steps[IF Towards > db.at THEN db.at ELSE Towards]]
            /\ UNCHANGED <<dialect, history, saved, mem, runs>>

\* On MySQL a statement that alters a table commits what was before it, and
\* itself; the transaction is over by that, and each later statement commits
\* itself too (auto).
Act ==
    LET s == Head(run.todo)
        commits == dialect = "mysql" /\ (s.does # "move rows" \/ run.auto)
    IN  /\ run.phase = "act" /\ run.todo # << >>
        /\ Why(dialect, s, db.table, db.rows) = {}
        /\ db' = [db EXCEPT !.table = Altered(s, @), !.part = @ + (IF commits THEN 1 ELSE 0),
                            !.rows = [r \in DOMAIN @ |-> Moved(s, @[r])]]
        /\ saved' = IF commits THEN db' ELSE saved
        /\ run' = [run EXCEPT !.todo = Tail(@), !.auto = commits]
        /\ UNCHANGED <<dialect, history, mem, runs>>

Refuse ==
    LET s == Head(run.todo)
        why == Why(dialect, s, db.table, db.rows)
        left == IF dialect = "mysql" /\ s.does # "move rows" THEN db ELSE saved
    IN  /\ run.phase = "act" /\ run.todo # << >> /\ why # {}
        /\ db' = left /\ saved' = left
        /\ run' = [run EXCEPT !.phase = "over", !.to = left.at, !.todo = << >>,
                              !.last = <<s>>, !.why = why]
        /\ UNCHANGED <<dialect, history, mem, runs>>

\* A step is recorded as it completes, and what is not committed by then
\* committed at the run's end.
Record ==
    /\ run.phase = "act" /\ run.todo = << >>
    /\ db' = [db EXCEPT !.at = Towards, !.part = IF run.torn THEN @ ELSE 0]
    /\ saved' = IF run.auto THEN db' ELSE saved
    /\ run' = [run EXCEPT !.phase = "step"]
    /\ UNCHANGED <<dialect, history, mem, runs>>

Commit ==
    /\ run.phase = "step" /\ db.at = run.to
    /\ saved' = db
    /\ run' = [run EXCEPT !.phase = "over"]
    /\ UNCHANGED <<dialect, history, db, mem, runs>>

\* The values in memory are carried to the version the run came to; one nothing
\* carries is forgotten.
Carry ==
    /\ run.phase = "over"
    /\ mem' = IF run.from = db.at THEN mem
              ELSE [r \in {q \in DOMAIN mem : CanMigrate(history, run.from, db.at)} |->
                       Migrated(history, run.from, db.at, mem[r])]
    /\ run' = Idle
    /\ UNCHANGED <<dialect, history, db, saved, runs>>

Next ==
    \/ \E r \in Rows : Write(r)
    \/ \E to \in Versions(history) : Start(to)
    \/ Project \/ Act \/ Refuse \/ Record \/ Commit \/ Carry

Spec == Init /\ [][Next]_vars

-----------------------------------------------------------------------------
(* Properties. *)

\* Every variable has its type: a row has a value for each column there is and
\* none for the others, and a check is on a column there is.
TypeOK ==
    /\ dialect \in Dialects /\ history \in Histories /\ runs \in 0..MaxRuns
    /\ db.at \in Versions(history) /\ saved.at \in Versions(history)
    /\ DOMAIN mem \subseteq DOMAIN db.rows
    /\ \A r \in DOMAIN mem : mem[r] \in [Members[history] -> Values \cup {None}]
    /\ \A r \in DOMAIN db.rows :
          /\ DOMAIN db.rows[r] = Columns[history] \cup Entities[history]
          /\ \A c \in Columns[history] : db.rows[r][c] # None => c \in DOMAIN db.table.columns
          /\ \A e \in Entities[history] : db.rows[r][e] # 0 => e \in DOMAIN db.table.children
    /\ \A c \in db.table.checks : c.on \in DOMAIN db.table.columns
    /\ run.phase \in {"idle", "step", "act", "over"}

AtRest == run.phase = "idle" /\ db.part = 0

\* The bounds a type is taken to keep and does not: there is no width below
\* sixteen on Postgres and none at all on SQLite (notes.go:76-89).
Unkept(field) ==
    {r \in field.node.rules :
        /\ Implied(Narrowed(field.node), r)
        /\ dialect = "sqlite" \/ (dialect = "postgres" /\ Narrowed(field.node).bits = 8)}

\* What a field meets as some changes are made, whatever it is called by then.
Met(changes, name) ==
    FoldLeft(LAMBDA f, c :
                CASE c.does = "rename" /\ c.from = f.name -> [f EXCEPT !.name = c.to]
                  [] c.does = "retype" /\ c.name = f.name -> [f EXCEPT !.met = @ \cup {c}]
                  [] c.does = "remove" /\ c.name = f.name -> [name |-> "", met |-> f.met \cup {c}]
                  [] c.does = "add" /\ c.field.name = f.name ->
                        [name |-> "", met |-> f.met \cup {c}]
                  [] OTHER -> f,
             [name |-> name, met |-> {}], changes).met

ReadBack(c) == IF c.does = "rename" THEN [c EXCEPT !.from = c.to, !.to = c.from] ELSE c

\* All that a field of the version there is meets: it is added, by the first
\* version or a step, retyped, and may be removed by a later one.
Life(name) ==
    LET first == At(history, 1)
        made == [i \in DOMAIN first |-> [does |-> "add", field |-> first[i]]]
        before == made \o PlainlyAll(Forward(history, 1, db.at))
        after == PlainlyAll(Forward(history, db.at, Len(history.objects)))
    IN  Met(after, name) \cup Met(Reverse([i \in DOMAIN before |-> ReadBack(before[i])]), name)

Removed(name) == \E c \in Life(name) : c.does = "remove"
Retyped(name) == \E c \in Life(name) : c.does = "retype"
Shapes(name) ==
    {c.field.node : c \in {c \in Life(name) : c.does = "add"}}
        \cup {c.node : c \in {c \in Life(name) : c.does = "retype"}}

\* A column takes no value where its field does, but for three.  A removal undone
\* puts back a column that may be null (evolve/apply.go:61-72); Postgres leaves a
\* column retyped as it was, and MySQL restates it from its shape alone
\* (retype.go:76-82, 99-105).
TakesNoValueAs(field, column) ==
    \/ column.null = (field.optional \/ field.node.null)
    \/ column.null /\ field.default = None /\ Removed(field.name)
    \/ /\ dialect = "postgres"
       /\ \E node \in Shapes(field.name) : column.null = (field.optional \/ node.null)
    \/ dialect = "mysql" /\ column.null = field.node.null /\ Retyped(field.name)

\* And it has the field's default, which that restating loses.
HasDefaultOf(field, column) ==
    \/ column.default = field.default
    \/ dialect = "mysql" /\ column.default = None /\ Retyped(field.name)

\* The table a migration comes to is the one its version describes: its columns
\* and its children are those; each column takes the values the description
\* admits of its field and no other, but for the bounds of Unkept; it takes no
\* value, and has a default, where its field does and nowhere else, but for what
\* TakesNoValueAs and HasDefaultOf except; and each check has the name a later
\* change looks for.  So whichever way a version was come to, from the beginning,
\* by changes or by undoing them, the tables differ in nothing else (ddl: Create
\* and Alter).  A rule changed on a column that is there is kept, as evolve.md:88-93
\* says and ddl.md:185-187 denies.
TableIsTheVersion ==
    AtRest =>
        LET object == At(history, db.at)
            scalar == {f \in Range(object) : ~Relation(f.node)}
        IN  /\ DOMAIN db.table.columns = {f.name : f \in scalar}
            /\ db.table.children = Made(dialect, object).children
            /\ \A f \in scalar :
                  /\ Admitted(f) \ {None} \subseteq Takes(db.table, f.name)
                  /\ \A v \in Takes(db.table, f.name) :
                        \A rule \in f.node.rules \ Unkept(f) : Kept(rule, v)
                  /\ TakesNoValueAs(f, db.table.columns[f.name])
                  /\ HasDefaultOf(f, db.table.columns[f.name])
            /\ dialect # "sqlite" => \A c \in db.table.checks : c.name = <<c.on, c.rule.rule>>

\* A text renamed whose length its type keeps: the check it is taken to have is
\* not there (rename.go:33).
RenamesNoCheck(s) ==
    \/ s.does = "rename column" /\ \E c \in s.drops : c[2] = "max_length"
    \/ s.does = "rename check" /\ s.from[2] = "max_length"

\* Whatever goes wrong with a migration is what a description, a dialect or the
\* rows are answerable for: a change the dialect does not make or that says
\* nothing of going back, a value the new rule does not admit.  No statement
\* names what is not there, whichever way and from wherever the versions are
\* walked, apart from the three that follow a rename, a
\* relation made of many and MySQL's restating, which the README tells of.
RefusedForCause ==
    (run.phase = "over" /\ run.why # {} /\ ~run.torn) =>
        \/ run.why = {"unprojectable"} /\
              \E i \in DOMAIN run.last :
                 \/ run.last[i].does = "retype" /\ dialect = "sqlite"
                 \/ run.last[i].does = "recompute" /\ run.last[i].back.says = {}
                 \/ run.last[i].does = "add" /\ ~Projectable(dialect, <<run.last[i].field>>)
        \/ run.why \subseteq {"broken", "unsupplied"}
        \/ dialect = "mysql" /\ run.why \subseteq {"broken", "emptied"}
        \/ dialect # "sqlite" /\ run.why = {"misnamed"} /\ RenamesNoCheck(run.last[1])

\* A value carried in memory and a row carried by its table come to the same,
\* over any versions and both ways, so that the one is what the other would be
\* read as (evolve.Migrate and migrate.Apply).
CarriedIsThere ==
    AtRest => \A r \in DOMAIN mem : db.rows[r] = AsRow(At(history, db.at), mem[r])
=============================================================================
