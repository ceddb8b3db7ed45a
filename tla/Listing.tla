------------------------------ MODULE Listing ------------------------------
(***************************************************************************)
(* A listing read a page at a time (sql/listing.go, listing_page.go,       *)
(* page_cursor.go, nulls.go, criteria.go: After, Beyond) while rows are    *)
(* written.                                                                *)
(*                                                                         *)
(* A row is its key and one column to sort by, which may be null; what a   *)
(* filter admits is told by the key.  A position is the values of a sort   *)
(* and of the key, a cursor a position under its tag.  The server sorts    *)
(* and compares as SQL does: external.                                     *)
(***************************************************************************)
EXTENDS Integers, Sequences, FiniteSets, SequencesExt

CONSTANTS
    Ids,           \* the keys
    Ranks,         \* the values of the column
    Null,
    Sorts,         \* the declared sorts: the orderings of each, in order
    Scope,         \* the rows the listing is of
    Wheres,        \* the filters a reader may ask for: what they admit
    DefaultSize, LargestSize, MaxPage,
    NullsAreGreat, \* whether the server takes an unplaced null for the greatest
    MayHold,       \* the tables there may be at first
    Sizes,         \* the sizes a reader may ask for
    Positions,     \* where a reader may begin: a row there may be or not
    MaxWrites,     \* bound: how many rows are written
    MaxReads       \* bound: how many pages are read

NoRow == [there |-> FALSE]
Rows  == [id : Ids, rank : Ranks \cup {Null}]

\* No cursor; and one the listing did not write.
Start   == [tag |-> << >>]
Garbage == [tag |-> <<0>>, at |-> << >>]

\* How a row's column stands to the reader's order.
Placements == {"unstated", "first", "last"}
Orderings  == [column : {"id", "rank"}, descending : BOOLEAN, nulls : Placements]

\* A table: the row of each key, if it has one.
Tables == {t \in [Ids -> Rows \cup {NoRow}] : \A i \in Ids : t[i] = NoRow \/ t[i].id = i}

ASSUME ListingAssumption ==
    /\ Ids \subseteq Nat /\ IsFiniteSet(Ids)
    /\ Ranks \subseteq Nat /\ Null \notin Ids \cup Ranks
    /\ Sorts \in Seq(Seq(Orderings)) /\ Sorts # << >>
    /\ Scope \subseteq Ids /\ Positions \subseteq Rows /\ MayHold \subseteq Tables
    /\ LargestSize \in Nat /\ DefaultSize \in 1..LargestSize /\ MaxPage \in Nat
    /\ MaxWrites \in Nat /\ MaxReads \in Nat

VARIABLES
    table,   \* table[i]: the row of that key
    page,    \* the page the reader has, and what was asked
    walk,    \* what pages read onwards, or back, from one another have shown
    came,    \* the page the reader had before, if nothing was written since
    writes, reads

vars == <<table, page, walk, came, writes, reads>>

Ask(sort, where, size) ==
    [sort |-> sort, where |-> where, size |-> size, number |-> 0,
     after |-> Start, before |-> Start]

\* What is kept of a question: all but the position.
Kept(asked) == [asked EXCEPT !.after = Start, !.before = Start]

NoPage == [asked |-> Ask(1, Scope, 0), items |-> << >>, next |-> Start, previous |-> Start]

Init ==
    /\ table \in MayHold
    /\ page = NoPage
    /\ walk = [back |-> FALSE, sought |-> FALSE, sort |-> 1, due |-> {}, shown |-> {}, twice |-> {}]
    /\ came = [way |-> "none", page |-> NoPage]
    /\ writes = 0 /\ reads = 0

-----------------------------------------------------------------------------
(* Orders: the server's, and the criterion that continues after a position. *)

\* The key breaks ties, in the direction the sort ends in.
Order(sort) ==
    Append(Sorts[sort],
           [column |-> "id", nulls |-> "unstated",
            descending |-> Sorts[sort] # << >> /\ Last(Sorts[sort]).descending])

Value(row, o) == IF o.column = "id" THEN row.id ELSE row.rank

NullsFirst(o) ==
    \/ o.nulls = "first"
    \/ o.nulls = "unstated" /\ (NullsAreGreat <=> o.descending)

\* Of two values, which is read earlier.
Earlier(o, v, w) ==
    \/ v = Null /\ w # Null /\ NullsFirst(o)
    \/ v # Null /\ w = Null /\ ~NullsFirst(o)
    \/ v # Null /\ w # Null /\ (IF o.descending THEN v > w ELSE v < w)

\* ORDER BY.
Sorted(order, r, s) ==
    \E d \in DOMAIN order :
        /\ Earlier(order[d], Value(r, order[d]), Value(s, order[d]))
        /\ \A c \in 1..d - 1 : Value(r, order[c]) = Value(s, order[c])

\* Mutant: the nulls stay where they were.
ReversedButNulls(order) ==
    [d \in DOMAIN order |-> [order[d] EXCEPT !.descending = ~@]]

Reversed(order) ==
    [d \in DOMAIN order |->
        [order[d] EXCEPT !.descending = ~@,
                         !.nulls = CASE @ = "first" -> "last" [] @ = "last" -> "first"
                                     [] OTHER -> @]]

\* A comparison with a null is not true.
Compared(o, row, v) ==
    LET of == Value(row, o)
    IN  of # Null /\ v # Null /\ (IF o.descending THEN of < v ELSE of > v)

AtPosition(o, row, v) == Value(row, o) = v

\* Mutant: the nulls at the end are not past a value.
BeyondValues(o, row, v) ==
    IF v = Null THEN o.nulls # "last" /\ Value(row, o) # Null
    ELSE Compared(o, row, v)

\* Past a null is every value where nulls come first, and nothing where they
\* come last; past a value, what compares so and nulls that come last.
Beyond(o, row, v) ==
    IF v = Null THEN o.nulls # "last" /\ Value(row, o) # Null
    ELSE Compared(o, row, v) \/ (o.nulls = "last" /\ Value(row, o) = Null)

\* Past the first value, or at it and past the second.
After(order, row, at) ==
    at = << >> \/ \E d \in DOMAIN at :
                      /\ \A c \in 1..d - 1 : AtPosition(order[c], row, at[c])
                      /\ Beyond(order[d], row, at[d])

\* A null in an ordering that does not say where nulls go.
NullUnplaced(order, at) ==
    \E d \in DOMAIN at : at[d] = Null /\ order[d].nulls = "unstated"

-----------------------------------------------------------------------------
(* Cursors, and what is refused. *)

\* Mutant: under the sort alone.
TagOfSort(sort, where) == <<sort>>

Tag(sort, where) == <<sort, Scope \cap where>>

CursorOf(asked, values) == [tag |-> Tag(asked.sort, asked.where), at |-> values]

CursorAt(asked, row) ==
    LET order == Order(asked.sort)
    IN  CursorOf(asked, [d \in DOMAIN order |-> Value(row, order[d])])

\* The position a query is read from.
Given(asked) == IF asked.before # Start THEN asked.before ELSE asked.after
At(asked)    == IF Given(asked) = Start THEN << >> ELSE Given(asked).at
Back(asked)  == asked.before # Start

Size(asked) == IF asked.size = 0 THEN DefaultSize ELSE asked.size

NotOffered(asked) ==
    \/ Size(asked) \notin 1..LargestSize
    \/ asked.sort \notin DOMAIN Sorts
    \/ asked.after # Start /\ (asked.before # Start \/ asked.number # 0)
    \/ asked.before # Start /\ asked.number # 0
    \/ asked.number < 0
    \/ MaxPage > 0 /\ asked.number > MaxPage

NotItsCursor(asked) ==
    Given(asked) # Start /\ Given(asked).tag # Tag(asked.sort, asked.where)

Refused(asked) ==
    NotOffered(asked) \/ NotItsCursor(asked) \/ NullUnplaced(Order(asked.sort), At(asked))

-----------------------------------------------------------------------------
(* Reading a page: one statement. *)

Held == {table[i] : i \in {j \in Ids : table[j] # NoRow}}

Admitted(asked) == {r \in Held : r.id \in Scope \cap asked.where}

\* The rows as the server answers them.
Ordered(order, rows) ==
    CHOOSE s \in [1..Cardinality(rows) -> rows] :
        \A m, n \in DOMAIN s : m < n => Sorted(order, s[m], s[n])

\* What the statement answers: a row more than the page holds.
Reading(asked) ==
    LET order == IF Back(asked) THEN Reversed(Order(asked.sort)) ELSE Order(asked.sort)
        rows  == Ordered(order, {r \in Admitted(asked) : After(order, r, At(asked))})
        from  == IF asked.number > 0 THEN (asked.number - 1) * Size(asked) ELSE 0
        upto  == from + Size(asked) + 1
    IN  SubSeq(rows, from + 1, IF upto < Len(rows) THEN upto ELSE Len(rows))

\* A page of what is kept of the rows, with the cursors that continue it:
\* onwards if there was a row more, or the page was read back from one; back
\* likewise.
Paged(asked, kept, more) ==
    LET items  == IF Back(asked) THEN Reverse(kept) ELSE kept
        onward == more \/ Back(asked)
        back   == IF Back(asked) THEN more ELSE asked.after # Start \/ asked.number > 1
    IN  [asked |-> Kept(asked), items |-> items,
         next     |-> IF items # << >> /\ onward THEN CursorAt(asked, Last(items)) ELSE Start,
         previous |-> IF items # << >> /\ back THEN CursorAt(asked, Head(items)) ELSE Start]

\* Mutant: the row too many stays in the page.
PageOverfull(asked, rows) == Paged(asked, rows, Len(rows) > Size(asked))

\* Mutant: a full page is taken to have another after it.
PageGuessed(asked, rows) ==
    Paged(asked, SubSeq(rows, 1, IF Len(rows) > Size(asked) THEN Size(asked) ELSE Len(rows)),
          Len(rows) >= Size(asked))

PageOf(asked, rows) ==
    LET more == Len(rows) > Size(asked)
    IN  Paged(asked, IF more THEN SubSeq(rows, 1, Size(asked)) ELSE rows, more)

-----------------------------------------------------------------------------
(* What the reader has seen. *)

\* Handing back the cursor of the page is going on from it.
Onwards(asked) == asked.after # Start /\ asked.after = page.next
Backwards(asked) == asked.before # Start /\ asked.before = page.previous
Way(asked) ==
    IF Onwards(asked) THEN "onward" ELSE IF Backwards(asked) THEN "back" ELSE "none"

Ids_(items) == {items[n].id : n \in DOMAIN items}

\* The row at a position, to compare others with: it may be in no table.
AsRow(sort, at) ==
    LET order == Order(sort)
        Of(column) == CHOOSE d \in DOMAIN order : order[d].column = column
    IN  [id |-> at[Of("id")],
         rank |-> IF \E d \in DOMAIN order : order[d].column = "rank"
                  THEN at[Of("rank")] ELSE Null]

\* The rows a reader who starts there and goes on that way will come to.
Ahead(asked, items) ==
    LET order == Order(asked.sort)
        Past(r) ==
            IF Back(asked) THEN Sorted(order, r, AsRow(asked.sort, At(asked)))
            ELSE IF asked.after # Start THEN Sorted(order, AsRow(asked.sort, At(asked)), r)
            ELSE asked.number > 1 => items # << >> /\ ~Sorted(order, r, Head(items))
    IN  {r.id : r \in {s \in Admitted(asked) : Past(s)}}

Walked(asked, items) ==
    LET goesOn == \/ Onwards(asked) /\ ~walk.back
                  \/ Backwards(asked) /\ walk.back
        shown  == Ids_(items)
    IN  IF goesOn
        THEN [walk EXCEPT !.shown = @ \cup shown, !.twice = @ \cup (walk.shown \cap shown)]
        ELSE [back |-> Back(asked), sort |-> asked.sort, due |-> Ahead(asked, items),
              sought |-> IF Way(asked) = "none" THEN Given(asked) # Start ELSE walk.sought,
              shown |-> shown, twice |-> {}]

-----------------------------------------------------------------------------
(* Actions. *)

\* Somebody writes a row, takes it out or changes it.
Write(i, row) ==
    /\ writes < MaxWrites /\ reads < MaxReads
    /\ row # table[i]
    /\ table' = [table EXCEPT ![i] = row]
    /\ walk' = [walk EXCEPT !.due = @ \ {i}]
    /\ came' = [way |-> "written", page |-> NoPage]
    /\ writes' = writes + 1
    /\ UNCHANGED <<page, reads>>

Read(asked) ==
    /\ reads < MaxReads
    /\ ~Refused(asked)
    /\ page' = PageOf(asked, Reading(asked))
    /\ walk' = Walked(asked, page'.items)
    /\ came' = [way |-> IF came.way = "written" THEN "none" ELSE Way(asked), page |-> page]
    /\ reads' = reads + 1
    /\ UNCHANGED <<table, writes>>

\* The reader is told why, and has the page there was.
Refuse(asked) ==
    /\ reads < MaxReads
    /\ Refused(asked)
    /\ reads' = reads + 1
    /\ UNCHANGED <<table, page, walk, came, writes>>

\* A page from the start, by number, or from a position made of values.
Firsts == {Ask(s, w, n) : s \in DOMAIN Sorts, w \in Wheres, n \in Sizes}

Numbered == {[f EXCEPT !.number = n] : f \in Firsts, n \in {1, 2}}

Seeking == {Ask(s, Scope, 0) : s \in DOMAIN Sorts}

Sought ==
    {[f EXCEPT !.after = CursorAt(f, r)] : f \in Seeking, r \in Positions}
        \cup {[f EXCEPT !.before = CursorAt(f, r)] : f \in Seeking, r \in Positions}

\* By a cursor of the page at hand, under its sort and filter or others.
Followed ==
    {[f EXCEPT !.after = page.next] : f \in {g \in Firsts : page.next # Start}}
        \cup {[f EXCEPT !.before = page.previous] : f \in {g \in Firsts : page.previous # Start}}

Unoffered ==
    {Ask(1, Scope, LargestSize + 1), Ask(Len(Sorts) + 1, Scope, 0),
     [Ask(1, Scope, 0) EXCEPT !.number = MaxPage + 1],
     [Ask(1, Scope, 0) EXCEPT !.number = -1], [Ask(1, Scope, 0) EXCEPT !.after = Garbage],
     [Ask(1, Scope, 0) EXCEPT !.after = page.next, !.before = page.previous]}

\* A reader who asks afresh has seen nothing: once is enough.
Asked ==
    IF reads = 0 THEN Firsts \cup Numbered \cup Sought \cup Unoffered
    ELSE Followed

Next ==
    \/ \E i \in Ids : \E row \in {r \in Rows : r.id = i} \cup {NoRow} : Write(i, row)
    \/ \E asked \in Asked : Read(asked)
    \/ \E asked \in Asked : Refuse(asked)

Spec == Init /\ [][Next]_vars

-----------------------------------------------------------------------------
(* Properties. *)

Cursors == {Start} \cup [tag : (DOMAIN Sorts) \X SUBSET Ids, at : Seq(Ids \cup Ranks \cup {Null})]

\* Every variable has its type, and a page is no longer than it may be.
TypeOK ==
    /\ table \in Tables
    /\ page.items \in Seq(Rows) /\ Len(page.items) <= LargestSize
    /\ page.next \in Cursors /\ page.previous \in Cursors
    /\ walk.due \subseteq Ids /\ walk.twice \subseteq walk.shown /\ walk.shown \subseteq Ids
    /\ came.way \in {"none", "onward", "back", "written"}
    /\ writes \in 0..MaxWrites /\ reads \in 0..MaxReads

\* A sort that says where its nulls go, as one of a column that may be null has
\* to (docs/reference/sql.md, "A sort orders by columns").
Placed(sort) == \A d \in DOMAIN Sorts[sort] : Sorts[sort][d].nulls # "unstated"

AtEnd == IF walk.back THEN page.previous = Start ELSE page.next = Start

\* The reader has not come to that row yet.
Further(r) ==
    IF walk.back THEN Sorted(Order(walk.sort), r, Head(page.items))
    ELSE Sorted(Order(walk.sort), Last(page.items), r)

\* Of the rows nobody wrote meanwhile, whoever goes on from page to page is
\* shown every one that he has come to, at the end all there were ahead of him,
\* and none twice: with ties at a page's edge, nulls at either end, and a
\* cursor whose row is gone (listing_page.go: reading; criteria.go: After).
NeitherSkippedNorRepeated ==
    reads > 0 /\ Placed(walk.sort) =>
        /\ walk.due \cap walk.twice = {}
        /\ \A i \in walk.due : i \in walk.shown \/ (~AtEnd /\ Further(table[i]))

\* The same size of page, either time.
Same(p, q) == Size(p.asked) = Size(q.asked)

\* Going on and back, or back and on, when nobody wrote meanwhile, is being
\* where one was (listing_page.go: reversed, pageOf).
ThereAndBack ==
    [][/\ reads' # reads /\ Placed(page'.asked.sort) /\ Same(page', came.page)
       /\ {came.way, came'.way} = {"onward", "back"}
       => page'.items = came.page.items]_vars

\* A page with no cursor onwards, or back, has nothing there; when nobody has
\* written, one with a cursor has something, unless its reader began at a
\* position of his own (listing.go: Page; listing_page.go: pageOf).
CursorsAreTrue ==
    [][page' # page /\ page'.items # << >> /\ Placed(page'.asked.sort) =>
          LET order   == Order(page'.asked.sort)
              later   == {r \in Admitted(page'.asked) : Sorted(order, Last(page'.items), r)}
              earlier == {r \in Admitted(page'.asked) : Sorted(order, r, Head(page'.items))}
          IN  /\ page'.next = Start => later = {}
              /\ page'.previous = Start => earlier = {}
              /\ writes = 0 /\ ~walk'.sought =>
                    /\ page'.next # Start => later # {}
                    /\ page'.previous # Start => earlier # {}]_vars
=============================================================================
