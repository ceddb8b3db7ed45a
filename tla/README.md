# A verification of effect-golang-sql

TLA+ specifications of this repository, model-checked with TLC on small
instances and, where a result should hold for every size, proved with TLAPS.

## The system

The library maps schema-described aggregates to SQL tables on Postgres, MySQL
and SQLite. Everything runs as effects (a separate runtime, external here)
against a `Querier`: a database, or a transaction in one.

| component | state it keeps | operations | talks to | what makes it correct |
|---|---|---|---|---|
| `migrate` | the ledger row of an aggregate, the migration's lock; during a run, the version reached | `Apply`, `Current`, `Actions` | `evolve` for the steps, `ddl` for their statements, `sql.Transact` | the row names what the tables are; nobody decides on a stale row; a run is all or nothing where DDL rolls back; runs end |
| transactions (`sql/transact.go`, `session.go`, `database.go`) | a connection of the pool, an open transaction | `Transact`, `InTransaction`, `OpenWith` | the driver | every scope ends its transaction, exactly one way; a connection comes back; a refusal stays one |
| row streaming (`sql/query.go`, `cursor.go`) | an open cursor on a connection | `Query`, `QueryRow`, `Execute` | the driver | a cursor is closed on every exit; no one waits for a connection he holds; one row is one |
| ordered collections (`sql/collection*.go`, `order_keys.go`) | one row per element with its order key | `Insert`, `Move`, `Remove`, `Has` | transactions, listing | the keys sort the way the elements were put; nothing comes or goes by itself |
| repository (`sql/repository*.go`) | an aggregate's rows in several tables, a position per list element | find, save, save changes, save root, insert, delete | transactions | what was saved is what is found, whole and in order; few rows are written; refusals have causes |
| listing and paging (`sql/listing*.go`, `page_cursor.go`, `nulls.go`) | none; a cursor travels with the caller | `Page`, `Count`, `CountUpTo` | the tables others change | a row that stays is seen once, both ways; a cursor says truly whether there is more |
| `evolve` | a history: versions and the changes between them | `Start`, `Then`, `At`, `Stages`, `Between`, `Migrate` | -- | going forward and back agree with what each version says; values follow |
| `ddl` | none | `Create`, `Statements`, one per change | `evolve` | the statements of a step make the next version's tables, against tables with rows |
| examples | a library's shelf; a warehouse's history | add, list, restock, take; migrate | all of the above | a restocking is whole or not at all; whoever asks is answered |
| query composition, driver values, search | none | pure | -- | not modelled: text |

What is hard here, and what the models are for: replicas migrating at once;
statements that commit themselves beside statements that roll back; locks that
outlive a transaction; replies that are lost; rows read by one statement and
written from in another; keys made between neighbours that move; pages read
while rows come and go. `PROJECT.json` lists each hazard at its line, with the
properties that cover it or the reason none does yet.

## The modules

| module | what it is | models |
|---|---|---|
| `Migrate` | several replicas, one database, one lock, three engines | `migrate/*.go` but for wording, `sql/transact.go` as a migration uses it |
| `MigrationPromise` | abstract: row and tables move together, in one step | `migrate/apply.go`'s own doc comment |
| `MCMigrate` | instances for TLC | |
| `MigrateProofs` | theorems about `Migrate` | |
| `OrderKeys` | the arithmetic of order keys, as operators, with `midpoint` also as the recursion it is written as | `sql/order_keys.go` |
| `OrderedList` | one list of keys, nobody else about | `sql/collection_places.go` over `OrderKeys` |
| `WholeNumbers` | lemmas about least numbers, counting up, quotients | |
| `OrderKeysProofs`, `OrderedListProofs` | theorems about `OrderKeys`, about `OrderedList` | |
| `Collection` | one owner's collection, several writers, statement by statement | `sql/collection_ops.go`, `collection_places.go`, `session.go` |
| `PersonOrder` | abstract: a list that does what it is asked, at once or not at all | the same three operations, in one step |
| `MCCollection`, `CollectionProofs` | instances for TLC; theorems about `Collection` | |
| `Library` | people, a bounded pool, transactions, cursors, interruptions | `sql/transact.go`, `session.go`, `database.go`, `query.go`, `cursor.go`, as `examples/library` uses them |
| `MCLibrary`, `LibraryProofs` | an instance for TLC; theorems about `Library` | |
| `ListPositions` | where a saved list's elements stand, as operators | `sql/repository_positions.go` |
| `Repository` | an aggregate in three tables, several sessions, statement by statement | `sql/repository*.go` |
| `MCRepository`, `RepositoryProofs` | an instance for TLC; theorems about `Repository` | |
| `Listing` | pages of a table others write | `sql/listing.go`, `listing_page.go`, `page_cursor.go`, `nulls.go`, `criteria.go` where a page continues |
| `MCListing`, `ListingProofs` | an instance for TLC; theorems about `Listing` | |
| `Evolve` | descriptions, changes, inverses, histories, values carried, as operators | `evolve/*.go` |
| `Alteration` | a table with rows migrated between any versions, on three dialects | `ddl/*.go` with `migrate/actions.go`, `steps.go` |
| `MCAlteration` | histories that change a field in every way | |

`Collection` EXTENDS `OrderKeys` and `Repository` EXTENDS `ListPositions`, so
every key and position stored is the one the code makes. `Alteration` EXTENDS
`Evolve` and composes it with ddl's statements and the run of a step;
`Migrate` has the ledger, the locks and the replicas of the same run with a
step's statements reduced to their kinds. What a composed module would add to
the two is the product of their states and no call that either leaves out.
`Migrate`, `Collection`, `Repository` and `Library` are otherwise independent:
nothing in the code makes one call another. Operators marked `Mutant` are one plausible slip each
of the definition below them, for showing that a property notices.

### Migrate

State: `db` is what is committed -- does the ledger table exist, the
aggregate's row in it, and how far the tables are (`tables`: at a version, so
many actions along one leg of the history, or drifted). `pending`/`owner` are
uncommitted writes and whose they are; `snapshot` what a SQLite transaction
found; `advisory` the migration's lock, with the session that holds it and how
deep. Per replica: `phase`, and the locals of `migrateWithin` (`target`,
`from`, `at`, `step`).

One action per statement the code runs, in its order: `Begin`
(`beginTransaction`), `PrepareLedger`, `TakeLock`/`LockRefused`, `ReadLedger`
(with `decideDirection`), `RunAction`/`ActionRefused`/`ProjectionRefused`,
`Record`, `Release`, `Commit`, and `Rollback` (the scope's finalizer).
`LedgerRaceLost`/`LedgerRaceWon` are the two ends of two `CREATE TABLE IF NOT
EXISTS` at once. `World` is what happens to a run: a statement fails, an answer
is lost, a commit fails either way, a crash, the pool closing an idle session.

Abstracted: a version is its place in the history; a statement is one of three
kinds (may run once, may run again, moves rows), and `Outcomes`/`Refuses` say
what each does to tables it was, or was not, written for. The row-moving
function's effect is all or nothing (on MySQL with its answer possibly lost).
A leg has at least one action. An instance runs one migration at a time.

The server is external. Postgres and SQLite roll DDL back. MySQL commits with
every statement: the first one is DDL, which ends the transaction, and nothing
opens another. SQLite refuses a write to a transaction whose snapshot is no
longer current, and a commit while another reads (rollback journal).

### OrderKeys, OrderedList

A key is a sequence of digits `0..Base-1` not ending in 0; `NoKey`, the empty
one, is "no neighbour". `Midpoint` is stated without recursion (shared prefix,
then a digit between, or a digit kept and one above what follows), so that it
can be proved about; `MidpointWritten` is the recursion as it stands in the code,
a function of pairs. `MidpointAsWritten` compares them on every pair of
elements of every list reached, and `MidpointIsWritten` proves them the same. `OrderedList` is `placeFor` and `keyFor` with nobody
else about: `Put` an element after the first i, `Rewrite` all keys when one
would be too long.

### Collection

State: `db[e]` the committed key of each element (`NoKey`: no row); `op[w]` a
writer's operation: its phase, what it has read, the rows left to rewrite, and
what its transaction wrote. `jobs` and `faults` count towards the bounds.

One action per statement: `ReadBeside` (`placeOf`), `Place` (the `extreme`
query, with `OrderKeyBetween` and `keyFor`'s check of the length), `ReadRows`
and one `RewriteRow` per element (`rewriteKeys`), then `InsertRow` or
`InsertRefused` (`ErrAlreadyThere`, by the table's key), or `ChangeRow`
(`UPDATE` and `DELETE`); and `Commit`, `Fail`, `Deadlocked`. An operation asked
for in `Alone` may run without a transaction: its statements are then committed
one by one.

Abstracted: one owner (every statement names it). The server, external: READ
COMMITTED, row locks, an insert waiting for an uncommitted one of the same key,
and a deadlock found between two. A transaction holds one operation. Keys
compare digit by digit, as Go's strings do.

### Library

State: `shelf`, the titles as committed; `free`, the pool's connections for
whoever asks; `op[p]`, a person's operation: its phase, the statements left, its
transaction (`none`, `open`, `done`, `ended` by the driver), the connections it
has, its cursor's rows left and how many were read, what its transaction added
and removed, what it came to. `put[n]` remembers what operation n put on the
shelf, for the properties.

An operation is a sequence of statements (`Restock`, `Take`, `Nested`, ...), one
action each: `Connect` takes a connection from the pool or waits; `Begin` and
`Join` are the two ends of `InTransaction`; `Execute` an `INSERT` or `DELETE`;
`Open`, `ReadRow`, `CloseCursor` a cursor read as far as its reader likes
(`QueryRow` reads two rows at most); `Succeed` commits, `Release` is the scope's
finalizers. Faults: `Fail` (a statement, a row that will not decode, an
interruption, at any point), `LoseAnswer` (a commit done, its answer lost),
`FailToClose` (a cursor that will not close, for another reason than its
context: a defect beside whatever was told), `DriverEnds` (a cancelled context ends the transaction by itself, at any time
before the finalizer), `FailToRollBack`. `RollbackErrors` is what the driver may
answer the rollback, and `IsTransactionDone` which of it is no failure.

Abstracted: a row is a title; a statement is what it does and of which titles.
A connection whose cursor or transaction did not end well is database/sql's to
give back or to give up: either way the pool may open one in its place.
The idle limits of the pool are left to database/sql.

### ListPositions, Repository

`ListPositions` is `placeList`: the longest increasing run of stored positions
by patience sorting, as the code does it, the rest between their neighbours, a
list without room numbered afresh, also where a position would leave 32 bits.

State of `Repository`: `db[r]`, each row as committed (the root's; a line per
element with value and position; at most one note beneath a line);
`op[w]`, a session's operation: phase, what it has read, the value it was read
as, the statements left, the rows its transaction holds and what they are.
`was` and `alone` remember what was stored when it was asked, and whether
anybody committed since, for the properties.

`Find`, `Save`, `SaveRoot`, `SaveChanges`, `Insert` and `Delete` read a table a
statement (`ReadRoot`, `ReadLines`, `ReadNotes`, `ReadAgain` where a list's
order changed), then `Run` the statements `Changes` makes, in its order:
deletions from the bottom table up, then inserts in batches and updates one by
one from the top down. `mapping` is what may be declared: other unique columns,
which turn the root's upsert into a read and a write. `Fail`, `LoseAnswer` and
`Deadlocked` are faults.

Abstracted: a value is one of a few, a position its integer; one aggregate is
modelled, others by the unique values they hold (`Taken`). The server,
external: READ COMMITTED, rows held until their transaction ends, foreign keys
that cascade, unique keys checked statement by statement.

### Listing

State: `table`, `page` (what the reader has, with what was asked), and for the
properties `walk` (what pages read onwards or back from one another have shown,
of which rows that was due) and `came` (the page before). `Read` is one page:
the order with the key appended, reversed with its nulls when read back, the
criterion of `After`, one row too many, `pageOf`'s cursors; `Refuse` is every
refusal of `check` and of a cursor; `Write` is anybody inserting, changing or
deleting a row between pages.

Abstracted: a row is its key and one column that may be null; a cursor is a
position under a tag of its sort and filter, not its encoding. SQL's ordering
and comparison with null are external, with both places a server may put nulls
nobody placed.

### Evolve, Alteration

`Evolve` is the description and the value side: the five changes (add, remove,
rename, retype, recompute), what each applies to, its inverse made of the
description just before it, histories, the stages between any two versions, and
values carried along.

State of `Alteration`: `db`, the version recorded, the table (columns with type,
null and default; checks by name; child tables with position and unique index),
its rows, and how many statements of an unrecorded step are committed (`part`,
MySQL); `saved`, what a rollback goes back to; `mem`, each row's value carried in
memory; `run`. On MySQL the first statement that alters a table commits what was
before it and ends the transaction, so from then on (`run.auto`) moving rows and
recording a version commit by themselves too, and a refusal rolls nothing back.
Actions: `Write` a row the description admits, `Start` a run to
any version, `Project` a step's statements, `Act`/`Refuse` each, `Record`,
`Commit`, and `Carry` the values. Tables are made as of any version, and a row
has a place for every name, the ones two changes of a step have between them
included (`Descriptions`).

A type is the set of values it holds: `Span` of 8, 16 and 64 bits, lengths of a
text; `Why` is what each server refuses. Abstracted: texts to their lengths,
entities to how many a row holds, a recomputation to `most - v`. The author's
function is applied to rows and values alike, and it has no failure of its own.
One aggregate and one migration at a time; `Migrate` has the rest.

## The runs

| run | result | instance | what it shows |
|---|---|---|---|
| `migrate_postgres` | holds | 2 replicas, one a build older; 3 versions; 2 runs each; 1 fault; any direction, one leg no dialect can spell | types; the row is true; decisions fresh; failures only for cause; reports true; the whole implements `MigrationPromise` |
| `migrate_mysql` | holds | the same, upwards, 2 faults, named lock, 2 pooled sessions | decisions fresh; the tables are never further from the row than part of one step |
| `migrate_sqlite` | holds | the same on a file, no lock | the row is true |
| `migrate_live` | holds | Postgres, from any start, 1 fault, fair | every run ends; a run after the faults arrives |
| `migrate_lock_kept` | **violated** | MySQL, 1 fault | a failed run leaves the named lock on its pooled session |
| `order_keys` | holds | base 4, up to 8 elements, keys to 4 digits | keys sort as elements stand; `midpoint` as written; rewriting makes room |
| `collection_alone` | holds | 1 writer, 3 elements, base 4, rewriting past 1 digit, 4 operations, 1 fault | types; implements `PersonOrder` |
| `collection_two` | holds | 2 writers, 2 elements, base 2, rewriting past 1 digit, 4 operations at the end or after one element, in transactions or not | no placement out of order; elements come by insertion and go by removal; one insertion of an element is told it was; every operation ends |
| `library` | holds | 3 people, 2 titles, 2 connections, 3 operations, 1 fault, fair | connections come back; restocked whole or not; refusals stay refusals; one row is one; everyone is answered |
| `repository` | holds | 2 sessions, 3 elements, gap 2, positions -4 to 6, batches of 1, 3 operations, 1 fault, with and without unique values | what was saved is stored; answers are true; fewest rows moved; unchanged writes nothing; refused only for cause |
| `listing` | holds | 3 keys, 2 values and null, 3 sorts, 2 filters, pages of 1 and 2, 1 write, 3 pages | rows that stay neither skipped nor repeated; there and back; cursors true |
| `schema` | holds | 6 histories of 2 or 3 versions, 3 dialects, 2 rows, 2 runs | the table is its version, but for what is named; refused for cause; rows and values carried alike |

The bounds. Migrating: three versions give legs of every kind (making tables,
up, down, passing through a middle one); two replicas are the fewest that race
and two runs each the fewest in which a rerun meets what the first left.
`MaxFaults` is 2 where what one fault leaves can be met by another (MySQL),
else 1.

Collections: bases of 2 and 4 and `Longest` of 1 to 4 stand for 62 and 32: they
make two-digit keys, no room between neighbours, and rewriting happen within
four operations; four operations are what it takes for two writers to hold rows
in opposite orders (two equal keys, then two rewritings that list them
differently). Three elements in one writer's list are the fewest with a middle.
`order_keys` grows lists to eight so that rewritten keys need more than one
digit.

The library: three people and two connections are the fewest in which one waits
for the pool while two wait for one another's titles (the two restockings put
the same two in opposite orders); one fault, since what follows it -- the driver
ending the transaction, the rollback -- is no further fault. A second fault meets
nothing the first leaves but the pool, which the theorems count for any number.

The repository: three elements are the fewest of which one moves and two stay;
a gap of 2 has room for one element and not for two, and the ends, -4 and 6, are
reached in two operations or one and passed in the next, so lists run out of
room, and of positions, within three. Batches of 1 make every deletion and insertion more than one statement.

Listing: three keys with two values and null make ties, nulls at either end and
a page's edge in the middle of each; one write is enough to take away the row a
cursor was made of, or put one beside it; three pages are one, one onwards and
one back.

Schema: numbers to 4 have widths of two, three and five values, so a bound may
be inside a width, at its edge, or the width's own; two rows may disagree about
a rule; two runs go somewhere and on, or back, or are begun again after a torn
step. A child table is made one of many in three statements (place the rows, drop
the index, make the other), each committed by itself on MySQL. The histories
between them hold every change, alone and followed by one that meets its result
(renamed then retyped, retyped then dropped, recomputed then renamed; a default
and a null kept, lost and left by a retype).

Fairness. `FairSpec` of `Migrate` is weak fairness of each replica's own steps
(`Proceed`), `FairSpec` of `Collection` of each writer's and of `Library` of
each person's (`Step`): the effect runtime runs the next statement of a running effect, and the server answers it.
Nothing is assumed of faults, of idle connections being closed, of the
driver ending a transaction, or of a run being started. A lock waited for is a disabled step until it is free. Weak
fairness is enough because of two that wait, the one that gets the lock ends,
and because the bounds on what is asked for let nobody be overtaken for ever: a
pool that is fair to its waiters is database/sql's part, and is not claimed
beyond them.

## What the code and its words disagree on

One run ends in a violation; `PROJECT.json` "findings" quotes the line it
contradicts:

- `migrate_lock_kept` (`migrate/apply.go:77`): `releaseLock` follows the work
  only when it succeeded; a session's lock outlives the rollback.

Met while modelling, with no run of their own. Of migrating and collections:

- `migrate/apply.go:71` creates the ledger before the lock is taken: two replicas
  on an empty Postgres may both run `CREATE TABLE IF NOT EXISTS`, and one is
  refused, where `docs/reference/migrate.md:89-90` has the second wait.
  `FailsOnlyForCause` fails if `migrate_postgres` starts from `Blank`.
- `sql/collection_places.go:99` rewrites under READ COMMITTED: a rewriting and a
  placement that do not see each other reorder elements nobody moved, where
  `:88-90` has a transaction enough where several writers meet.
- `sql/order_keys.go:31`: two insertions at one place made at once get one key;
  keys have no random tail and the column no unique index.
  `docs/explanation/object-relational-mapping.md:314-316` says otherwise.
- `sql/collection.go:68` declares the position as any text, and MySQL's tables
  are `utf8mb4_0900_ai_ci` (`ddl/mysql.go:52`): small letters are capitals there,
  so what is put last may not stand last, against `:313-314` of the same document.

- `migrate/doc.go:24-26` "the row is taken for update inside a transaction":
  `ledgerVersion` (`apply.go:122`) is a plain `SELECT`. With `Lock = "none"` two
  replicas on Postgres act on one version; `DecisionFresh` fails.
- `docs/reference/migrate.md:60-62` "running again continues from there": a step
  of several statements that MySQL committed one by one and that was cut short
  is begun again at its first, which is refused, each time.
- `sql/collection_places.go:89-90` "interrupted, it leaves every element a key,
  and the order as it was or as it becomes": rows are rewritten from the first,
  whose new key may sort past old ones. With insertions anywhere, none in a transaction, one writer,
  base 4, `Longest` 2, four elements and five operations, `OrderKept` fails.
  `docs/explanation/object-relational-mapping.md:311-312` says "in one
  transaction"; `Insert` and `Move` open none.
- `sql/collection_ops.go:39-41` `ErrNotInCollection` is for "a place beside it,
  or it moved": moving an element that is not there updates no row and succeeds.
  `PersonOrder!After` says so.
- `sql/order_keys.go:49-50` "a digit more every sixty-odd appends": the digit a
  longer key starts with is half way up, so it is about thirty.

Of the repository, listings and the library:

- `sql/repository_tree.go:42` reads a table a statement: outside a snapshot a
  find beside a commit may assemble an aggregate that never was stored.
  `AnswersAreTrue` speaks of finds nobody committed beside.
- `sql/repository_writes.go:129` answers a deletion with how many roots it found;
  two that delete at once are both told of one.
- Two elements cannot exchange a unique value in one save: updates are one by
  one. `RefusedOnlyForCause` names it as a cause.
- `sql/listing_page.go:110` gives an empty page no cursors; a reader whose page
  emptied meanwhile is told there is nothing either way, though by
  `sql/listing.go:130-131` only the last page has no next one and only the first
  no previous.
  `CursorsAreTrue` speaks of pages with rows. A reader who begins at a position
  of his own, before the first row, is offered a page back that is empty.
- A sort that leaves the nulls of a column unplaced skips them from page to
  page; `docs/reference/sql.md:437-438` and `:479-485` put it on the author.
- `examples/library/library.go:118-121` and `docs/reference/sql.md:645-647` have
  the second of two who take one book refused; the `DELETE` at `:132` is not
  looked at, so on READ COMMITTED both are told they have it.

Of schemas (`TableIsTheVersion` and `RefusedForCause` name each exception in
their definitions):

- `ddl/rename.go:33` renames the check of every rule, also of a `max_length` that
  is the `VARCHAR`'s own and has no check: the rename of a bounded text is
  refused on Postgres and MySQL (`docs/reference/ddl.md:178-183`).
- `ddl/retype.go:76-82` makes the column of a retyped field of its name and shape
  alone, and on MySQL `MODIFY COLUMN` (`:102`) states a column whole: an optional
  one comes out `NOT NULL`, or the migration is refused where a row has no value,
  against `docs/explanation/object-relational-mapping.md:547`; and a default is
  gone. `docs/reference/evolve.md:189-190`, that a value carried in memory is one
  the migrated table accepts, is then not so of a value without the field.
- `ddl/retype.go:104`: on Postgres a retype changes a column's type and not
  whether it takes null, which stays as it was.
- `evolve/apply.go:61-72`: a removal undone puts back a column that may be null,
  though its version requires the field, and the same version made at once has it
  `NOT NULL`: the tables of one version differ by the way it was come to.
  `docs/reference/evolve.md:179-182` owns to it. This, Postgres' and MySQL's are
  the exceptions of `TakesNoValueAs` and `HasDefaultOf`, and each is needed:
  without any one of them `TableIsTheVersion` fails in `schema`.
- `ddl/retype.go:94-108` drops a check whose rule changed and makes it again when
  its column is retyped, as `docs/reference/evolve.md:88-93` says;
  `docs/reference/ddl.md:185-187` says such a constraint "is not migrated yet: the
  checks are written when a table or a column is made". The model and its
  properties are the code's.
- `ddl/retype.go:188-199` adds a position that takes no null and has no default:
  one made many is refused on Postgres where there are children, and always on
  SQLite.
- `ddl/notes.go:76-89` leaves out a bound that is the narrowed width's own,
  though Postgres has no width below sixteen bits and SQLite none (`Unkept`).
- `migrate/actions.go:88-89`: a recomputation with a function for values and none
  for rows drops the columns it would have read, and moves nothing.
- A MySQL step cut short (`part` > 0), then a migration the other way, records a
  version the table is not; `TableIsTheVersion` speaks of tables at rest.
- `evolve/history.go:116-118` appends to slices its receiver may share, so two
  histories grown from one whose array has room to spare write into it. Go's
  slices are outside the model.

## What is proved

Proofs hold for every value of the constants that the named assumptions admit;
those assumptions are evaluated in every run.

`MigrateProofs`:

- `Types`: `Spec => []TypeOK`, every engine and lock. `TypeOK` is not inductive:
  giving a session's lock back subtracts from its depth, so `TypeInv` adds that
  a held lock is at least one deep.
- `LedgerIsTrue`, `DecisionsAreFresh`: on Postgres under the advisory lock,
  `Coherent` and `DecisionFresh`, for any number of replicas, any history, any
  faults. `Coherent` speaks of committed state, and a commit publishes what a
  replica wrote long before, so the invariant `LedgerInv` has to say what is in
  between: from reading the row to the end of its transaction a replica holds
  the lock (`Guarded`); whoever holds it is in that stretch, on the connection
  it took it on (`HeldInside`); uncommitted rows and tables are the holder's
  (`WritesGuarded`); and the holder's own view of the database is where its
  locals say it has got to (`OnCourse`), so a commit is of a whole version.
  `LedgerStep` takes the actions one by one; `EndKeeps` is the lemma for every
  way a transaction ends, `LedgerWriteInside` for every write.

- `ReportsAreTrue`, `ApplyKeepsPromise`, there too: a run that reports having
  gone from one version to another found the database at the one and left row
  and tables at the other in the step of its commit; and `Migrate` implements
  `MigrationPromise`, every step being the abstract one or a stutter
  (`KeepsPromiseStep`). Both need `FromIsCommitted` beside `LedgerInv`: the row a
  run has read stays committed until its own commit.
- `FailuresHaveCauses`, there too, where the ledger is there (`0 \notin Starts`: a
  database migrated before). `CauseInv` adds that to `LedgerInv`
  (`LedgerIsThere`), and with it that nobody waits in the catalogue for another's
  `CREATE TABLE`. Without the hypothesis the property is false, as said above.
- `LedgerAccountsForTables`, `DecidesUnderNamedLock`: on MySQL under the named
  lock, `LedgerNamesLastStep` and `DecisionFresh`, where runs go to the newest
  version (`NewestOnly`) and no statement moves rows (`StatementsOnly`), which
  `migrate_mysql` assumes as well. No transaction has anything to commit
  (`NothingPending`), so the invariant is about what is committed: the tables
  are some way along the leg up from the row's version (`OnTheWayUp`), at least
  as far as the run that is at work has got (`GotTo`: one before it may have left
  them further), and the lock is held on the session the run is on
  (`HeldBySession`), whatever a failed run left held elsewhere.
- `OneWriterIsEnough`: on SQLite, `Coherent` with no lock at all. Each
  transaction is on its course in its own view (`InTransaction`); one has
  written (`OneAtATime`); and whoever has found what is still committed
  (`snapshot = db`), so its commit is of what it saw.

`OrderKeysProofs`:

- `BetweenSorts`: for any base of at least two and any two keys in order, or
  either end, `OrderKeyBetween` answers a key, strictly between them.
- `EvenKeysInOrder`: the keys of a rewriting are as many as asked, are keys, and
  sort one way. A key is what is left of a number's digits without the zeros it
  ends in: the lemmas say that the value of the digits is the number, that a
  larger number sorts later, and that `Width` digits are enough. `Capacity`, the
  base to a power, is a recursive function; that it exists and grows is proved
  by counting up.
- `MidpointIsWritten`: the recursive `midpoint` and the one the models use make
  the same key, of any key and any later one or the end of the order. A function
  defined by recursion is whatever satisfies its equation, if anything does: one
  that does is given outright (`MadeAnswers`), from how a key past another
  unfolds a digit at a time (`AboveUnfolds`), and two that do agree
  (`AnswersAreMade`), counting up the digits left. Past the digits two keys
  share the recursion shares none (`AlikeTails`), so it goes there but once.

`OrderedListProofs`, from those three:

- `AlwaysInOrder`: however many elements are put and wherever, and whenever the
  keys are rewritten, they sort the way the elements stand.
- `RewritingAlwaysMakesRoom`: between any two neighbours of rewritten keys there
  is a key no longer than they may be. Neighbours' numbers are two apart or
  more, and the number between needs no digit more.
- `MidpointIsAsWritten`: `MidpointAsWritten` of every list there ever is.

`CollectionProofs`, on any finite set of elements, any writers, jobs and faults:

- `TypesAreKept`, `NoPlaceOutOfOrder`, `RowsComeAndGo`, `OneInsertionIsTold`:
  every property of the two collection runs but the refinement, which is next,
  and liveness.
  `CollectionInv` has the types; what an operation has found where it is
  (`Found`: a place beside something has that one's key, what is to be written
  is a key); what a transaction wrote beside what is committed (`Written`: a row
  it rewrote is there in both, and only the inserted or removed one is there in
  one); and that no two writers hold one row. The last two are what the
  properties need of each other's commits: the row an insertion makes must not
  come by a rewriting of somebody else's. `BetweenSorts` gives each key placed.
- `OneWriterKeepsPromise`: `Collection` implements `PersonOrder`, for one writer
  who does nothing but remove outside a transaction (two writers can be given
  one key, and an interrupted rewriting need not keep the order: the
  disagreements). `OrderInv` adds to `CollectionInv` that the rows are a list in
  strict order of their keys (`Lists`), of which there is only one (`OneList`),
  and where the operation under way is (`Course`): before it writes, what it
  sees is that list as committed; while it rewrites, the list's first rows have
  their new keys and the rest are to be given theirs (`Rewriting`), which is in
  order again when the last is written though not in between; the key it is to
  write is after those its place is after and before the others (`Fits`); and
  once it wrote, what it sees is the list that was asked for. The write outside
  a transaction, or the commit, is then the promise's one step, whatever its
  writer is told, and every other step is none.

`RepositoryProofs`, on any finite set of elements, one or two sessions, any
values, batches, gaps, bounds of a position and faults: every property of the
run. Two sessions are all the model has, so that to wait is to wait for the other. The
other named assumptions are that a list of all the elements can be numbered
within those bounds (in the code, two million elements 1024 apart in 32 bits),
and that "no row" is no row's content.

- `AnswersAreAlwaysTrue`: `AnswersAreTrue`. An answer is given several statements
  after the first was read, so `Undisturbed` says for a session nobody committed
  beside what it has read by then: the root, the root and its lines, all three
  tables of what was stored when it was asked. `InTurn` says that nothing is held
  while it reads, so what it reads is what is committed. Together they are
  `RepositoryInv`.
- `AlwaysTyped`, `NoRowWithoutItsHolder`: `TypeOK`, and that a committed row's
  holder is committed. Neither is inductive alone: a commit publishes rows
  written statements ago, and a row may be deleted that another session is about
  to write beneath. `TablesInv` says, of every session, that what it holds is
  typed and, with what is committed, leaves no row without its holder whichever
  of the two sessions ends first, and either way (`Sound`): a row written holds
  the one above it as the server does, and deletions begin at the bottom.
- `DoneIsDone`, `RefusalsHaveACause`: what a session's statements lead to.
  `PlanInv` says that what is left of them, run on what the session sees by now,
  leads to one outcome (`Plan`, `Outcome`), at every step of a run and however the
  rows were batched; a statement refused was refused by a row that was there when
  it was asked, because the session's own deletions come before its inserts.
- `SavedIsAlwaysStored`, `UnchangedNeverWrites`, `FewestAreMoved`: from the
  outcome to the list. `LongestIs` proves the patience sorting of
  `longestIncreasing`: its runs (`RunFor`, `Runs`) keep the best last
  position of every length, and walking back from the last gives an increasing
  run than which none is longer. `PlacedIncreases` proves `placeKeeping`: with
  room, what is put between its neighbours is between them, and without, the
  numbering is in order; so what is stored sorts as the list stands, and there is
  one list it can be read back as (`OneReadingInPlace`, `LeftReadsBack`). Saving
  what is stored finds the whole list an increasing run (`LongestIsAll`), keeps
  it (`PlaceKeepingAll`), and no row differs; otherwise the rows whose positions
  differ are those outside one longest run (`LeftMovesFewest`).

`ListingProofs`, on any tables, any sorts by any columns, filters, sizes, writes
and reads:

- `ListingTypesAreKept`, `NoneSkippedNoneRepeated`, `CursorsAlwaysTrue`,
  `ThereAndBackAgain`: every property of the run. The order is one
  (`SortedIsAnOrder`, with the key at its end), reading back sorts the other way
  (`ReversedSorts`), and the criterion of a cursor admits what sorts after the
  row it was made of and nothing else (`AfterSorts`); from these
  (`PageIsTruthful`) a page is the first of what is due, in order, and its cursors
  say whether there is more. `ListingInv` then says of a walk that each row that
  stays was shown once and is behind the edge of the page, or not yet, is ahead of
  it, and there is a cursor to go on with (`SeenIs`): it speaks of the edge and
  not of the row it was, which may be gone. For there and back, a page is a window
  of consecutive rows (`EitherWindow`), and while nobody writes it begins where
  the one it was read from ends (`Linked`), so that there is one window it can
  be (`OneWindow`). `ListingInv` and `CameIs` were invariants of `listing` first.

`LibraryProofs`, on any people, titles, pool, jobs, operations and faults, where
more than one statement is asked for only in a transaction and a job does not
take what it puts (`JobsAssumption`, which every job of the library meets):

- `Typed`, `ConnectionsAlwaysComeBack`, `AlwaysRestockedWholeOrNot`,
  `RefusalsAlwaysStay`, `OneRowIsAlwaysOne`: `Spec => []` each property of the
  run but liveness, all from one invariant, `Inv`. None is inductive: what an
  answered operation put says nothing of one under way. `Inv` has the count of
  connections (`free` and those in hand are `MaxOpen`); for each operation what
  it holds where it is (`Sound`: a transaction only with a connection, rows held
  only in a transaction); what it has put (`Kept`: in a transaction nothing yet,
  and what it added together with what it has still to insert is the whole job);
  what it read (`Told`: rows read and rows left are the rows there were); and
  that operations have numbers of their own (`Numbered`), so that one's commit
  leaves another's `put` alone. `Frame` is the lemma every step goes through;
  then there is one lemma per action.

Induction over numbers is by the least number that has a property
(`WholeNumbers`), which is proved from well-foundedness without an operator
parameter: so is the first difference of two keys found, so do powers and digits
grow, so does the recursive midpoint have one answer, and so does an ordered
sequence of any finite set of rows exist.

Two proofs that failed corrected the models. `LedgerNamesLastStep` was false of
a history of one version, which has no legs. Two cases of `Listing`'s comparison
overlapped where both values are null, and only TLC's reading of them in order
made one the case meant.

Model-checked only:

- all liveness, `EveryRunEnds`, `CleanRunArrives`, `EveryOperationEnds`,
  `EveryoneIsAnswered`: fairness and `ENABLED` are out of the prover's reach;
- `Alteration` with `Evolve`: its four invariants are about what folds over a
  history compute, whatever its length, and that is an induction over data no
  prover here can be given.
- MySQL with statements that move rows or runs that go down, and any engine with
  another lock than it is documented with: there the properties are false, or
  nothing is claimed.

## Not modelled

- `Actions` of `migrate` lists and changes nothing; `Has`, `Count`, `CountUpTo`
  only read. A collection nobody orders is one insert, and its listing is any
  listing.
- Repository: `FindBy` and `FindOneBy`'s criteria (a find of several is one of
  each), join tables of references, `Upsert` and the operations of a table that
  is no aggregate's (`operations.go`), one statement each.
- `evolve`: `Validate` (`drift.go`), computed fields. `ddl`: unique keys and
  references between aggregates, join tables, upserts, searches, indexes for
  listings.
- Text -- statements, names, encodings, rendering -- is left out throughout; so
  are query composition, driver values and search, which are little else.
- Cancellation inside the effect runtime is `Fail` at any statement: the runtime
  is another repository's.

## Plan

1. *Done*: `Migrate`, order keys, `Collection`; `Library`, `Repository` with
   `ListPositions`, `Listing`, `Evolve` with `Alteration`; proofs of `Migrate` on
   each engine and of its refinement on Postgres, of order keys and lists, of
   `Collection` and of its refinement for one writer, of `Library`, of `Listing` and of `Repository`.
2. Proofs: `Alteration`'s types.
3. References between aggregates and their join tables in `Repository`; unique
   keys in `Alteration`.

Runs stay few: where a component arrives, runs of the earlier ones that ask
neighbouring questions are folded together.
