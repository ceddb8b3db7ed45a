-------------------------- MODULE CollectionProofs --------------------------
(***************************************************************************)
(* Several writers of one owner's collection, each statement seeing what   *)
(* is committed just then: a row comes by an insertion and goes by a       *)
(* removal, whatever is rewritten meanwhile, and no place is refused; and  *)
(* one writer, to whom the collection is the list PersonOrder promises.    *)
(***************************************************************************)
EXTENDS Collection, OrderKeysProofs, FiniteSetTheorems, SequencesExt

Phases  == {"idle", "beside", "place", "rows", "rewrite", "write", "commit"}
Results == {"none", "done", "absent", "there", "order", "fault"}
RowOf   == [element : Elements, key : Keys]

Op == [phase : Phases, job : May \cup {NoJob}, within : BOOLEAN, beside : Ends, key : Ends,
       rest : Seq(RowOf), again : BOOLEAN, held : SUBSET Elements,
       mine : [Elements -> Ends], result : Results]

\* Where an operation is says what it has found: the row it is put beside, the
\* key it is to write, the rows it has still to rewrite.
Found(o) ==
    /\ o.phase = "idle" <=> o.job = NoJob
    /\ o.phase = "rewrite" <=> o.rest # << >>
    /\ o.phase = "idle" \/ ~ o.within => o.held = {}
    /\ o.phase = "commit" => o.within
    /\ o.phase = "place" /\ o.job.at \in {"before", "after"} => o.beside # NoKey
    /\ o.phase = "write" /\ o.job.does # "remove" => o.key # NoKey
    /\ o.result # "order"

\* What a transaction wrote and has not committed, beside what is committed: a
\* row rewritten is there in both, and only the element inserted or removed is
\* there in one.
Written(o, rows) ==
    /\ \A e \in o.held :
          /\ rows[e] = NoKey <=> o.phase = "commit" /\ o.job.does = "insert" /\ e = o.job.element
          /\ o.mine[e] = NoKey <=> o.phase = "commit" /\ o.job.does = "remove" /\ e = o.job.element
    /\ o.phase = "commit" /\ o.job.does = "insert" => o.job.element \in o.held

\* A row written belongs to one writer, and nobody else changes it meanwhile.
CollectionInv ==
    /\ db \in [Elements -> Ends]
    /\ op \in [Writers -> Op]
    /\ \A w \in Writers : Found(op[w]) /\ Written(op[w], db)
    /\ \A v, w \in Writers : v # w => op[v].held \cap op[w].held = {}

\* The bodies of the two action properties.
ComeAndGo ==
    \A e \in Elements :
        /\ db[e] = NoKey /\ db'[e] # NoKey =>
              \E w \in Writers : Finished(w, "insert") /\ op[w].job.element = e
        /\ db[e] # NoKey /\ db'[e] = NoKey =>
              \E w \in Writers : Finished(w, "remove") /\ op[w].job.element = e

AreNew ==
    \A w \in Writers :
        Finished(w, "insert") /\ op[w]'.result = "done" =>
            db[op[w].job.element] = NoKey /\ db'[op[w].job.element] # NoKey

-----------------------------------------------------------------------------
(* What the operators return. *)

\* The missing end is no key, and sorts before every key.
LEMMA NoKeyFirst ==
    ASSUME NEW k \in Keys
    PROVE  Less(NoKey, k) /\ k # NoKey
<1>1. Len(k) \in Nat /\ Len(k) > 0 /\ Len(NoKey) = 0
  BY LastDigit DEF NoKey
<1>2. 1 \in 1..Len(k) /\ 1 > Len(NoKey) /\ \A j \in 1..(1 - 1) : FALSE
  BY <1>1
<1>3. QED
  BY <1>1, <1>2 DEF Less

\* An end that is not missing is a key.
LEMMA EndIs ==
    ASSUME NEW k \in Ends
    PROVE  k # NoKey <=> k \in Keys
BY NoKeyFirst DEF Ends

\* What a writer sees is a table of keys.
LEMMA SeenIs ==
    ASSUME CollectionInv, NEW w \in Writers
    PROVE  /\ Seen(w) \in [Elements -> Ends]
           /\ \A e \in Elements :
                 Seen(w)[e] = IF e \in op[w].held THEN op[w].mine[e] ELSE db[e]
<1>1. op[w] \in Op /\ db \in [Elements -> Ends]
  BY DEF CollectionInv
<1>2. op[w].mine \in [Elements -> Ends]
  BY <1>1 DEF Op
<1>3. QED
  BY <1>1, <1>2 DEF Seen

\* A place found, whatever was changed since the element beside was read, has
\* a key.
LEMMA NeighboursInOrder ==
    ASSUME CollectionInv, NEW w \in Writers, op[w].phase = "place", NEW n \in Neighbours(w)
    PROVE  n[1] \in Ends /\ n[2] \in Ends /\ ~ OutOfOrder(n[1], n[2])
<1> DEFINE j == op[w].job
           at == op[w].beside
           others == Rows(Seen(w)) \ (IF j.does = "move" THEN {j.element} ELSE {})
           ks == {Seen(w)[e] : e \in others}
<1>1. ks \subseteq Keys
  BY SeenIs, EndIs DEF Rows
<1>2. op[w] \in Op /\ Found(op[w])
  BY DEF CollectionInv
<1>3. j \in Jobs /\ j.at \in Places /\ at \in Ends
  <2>1. j \in May
    BY <1>2 DEF Op, Found
  <2>2. QED
    BY <1>2, <2>1, CollectionAssumption DEF Jobs, Op
<1>4. j.at \in {"before", "after"} => at \in Keys
  BY <1>2, <1>3, EndIs DEF Found
<1>5. NoKey \in Ends /\ Keys \subseteq Ends
  BY DEF Ends
<1>6. n \in CASE j.at = "first"  -> {NoKey} \X Least(ks)
              [] j.at = "before" -> Greatest({k \in ks : Less(k, at)}) \X {at}
              [] j.at = "after"  -> {at} \X Least({k \in ks : Less(at, k)})
              [] j.at = "last"   -> Greatest(ks) \X {NoKey}
  BY DEF Neighbours
<1> HIDE DEF j, at, ks
<1>7. CASE j.at = "first"
  <2>1. n \in {NoKey} \X Least(ks)
    BY <1>6, <1>7
  <2>2. n[1] = NoKey /\ n[2] \in Keys \cup {NoKey}
    BY <1>1, <2>1 DEF Least
  <2>3. QED
    BY <1>5, <2>2, NoKeyFirst DEF OutOfOrder
<1>8. CASE j.at = "before"
  <2>1. n \in Greatest({k \in ks : Less(k, at)}) \X {at}
    BY <1>6, <1>8
  <2>2. n[2] = at /\ (n[1] = NoKey \/ (n[1] \in Keys /\ Less(n[1], at)))
    BY <1>1, <2>1 DEF Greatest
  <2>3. QED
    BY <1>4, <1>5, <1>8, <2>2, NoKeyFirst DEF OutOfOrder
<1>9. CASE j.at = "after"
  <2>1. n \in {at} \X Least({k \in ks : Less(at, k)})
    BY <1>6, <1>9
  <2>2. n[1] = at /\ (n[2] = NoKey \/ (n[2] \in Keys /\ Less(at, n[2])))
    BY <1>1, <2>1 DEF Least
  <2>3. QED
    BY <1>4, <1>5, <1>9, <2>2, NoKeyFirst DEF OutOfOrder
<1>10. CASE j.at = "last"
  <2>1. n \in Greatest(ks) \X {NoKey}
    BY <1>6, <1>10
  <2>2. n[2] = NoKey /\ n[1] \in Keys \cup {NoKey}
    BY <1>1, <2>1 DEF Greatest
  <2>3. QED
    BY <1>5, <2>2 DEF OutOfOrder
<1>11. QED
  BY <1>3, <1>7, <1>8, <1>9, <1>10 DEF Places

\* The rows to be rewritten, each with a key.
LEMMA RowsToRewrite ==
    ASSUME CollectionInv, NEW w \in Writers, NEW s \in Standing(Seen(w))
    PROVE  [i \in 1..Len(s) |-> [element |-> s[i], key |-> EvenKeys(Len(s))[i]]] \in Seq(RowOf)
<1> DEFINE rows == Rows(Seen(w))
           n == Cardinality(rows)
<1>1. rows \subseteq Elements /\ n \in Nat
  BY CollectionAssumption, FS_Subset, FS_CardinalityType DEF Rows
<1>2. s \in [1..n -> rows]
  BY DEF Standing
<1> HIDE DEF rows, n
<1>3. s \in Seq(Elements) /\ Len(s) \in Nat
  BY <1>1, <1>2
<1>4. \A i \in 1..Len(s) : s[i] \in Elements /\ EvenKeys(Len(s))[i] \in Keys
  <2> DEFINE even == EvenKeys(Len(s))
  <2>1. even \in Seq(Keys) /\ Len(even) = Len(s)
    BY <1>3, EvenKeysInOrder
  <2> HIDE DEF even
  <2>2. \A i \in 1..Len(s) : even[i] \in Keys
    BY <1>3, <2>1
  <2>3. QED
    BY <1>3, <2>2 DEF even
<1> DEFINE row(i) == [element |-> s[i], key |-> EvenKeys(Len(s))[i]]
<1>5. \A i \in 1..Len(s) : row(i) \in RowOf
  BY <1>4 DEF RowOf
<1> HIDE DEF row
<1>6. [i \in 1..Len(s) |-> row(i)] \in Seq(RowOf)
  BY <1>3, <1>5
<1>7. QED
  BY <1>6 DEF row

-----------------------------------------------------------------------------
(* A step of one writer. *)

\* It leaves the others as they are where it takes no row of theirs and leaves
\* those as they were.
LEMMA OneWriterSteps ==
    ASSUME CollectionInv, NEW w \in Writers, NEW o \in Op, NEW rows \in [Elements -> Ends],
           Found(o), Written(o, rows),
           \A v \in Writers \ {w} :
              o.held \cap op[v].held = {} /\ \A e \in op[v].held : rows[e] = db[e],
           op' = [op EXCEPT ![w] = o], db' = rows
    PROVE  CollectionInv'
<1>1. op' \in [Writers -> Op] /\ op'[w] = o /\ \A v \in Writers \ {w} : op'[v] = op[v]
  BY DEF CollectionInv
<1>2. db' \in [Elements -> Ends]
  OBVIOUS
<1>3. ASSUME NEW v \in Writers PROVE Found(op'[v]) /\ Written(op'[v], db')
  <2>1. CASE v = w
    BY <1>1, <2>1
  <2>2. CASE v # w
    <3>1. op'[v] = op[v] /\ op[v] \in Op /\ Found(op[v]) /\ Written(op[v], db)
      BY <1>1, <2>2 DEF CollectionInv
    <3>2. \A e \in op[v].held : db'[e] = db[e]
      BY <2>2
    <3>3. QED
      BY <3>1, <3>2 DEF Written
  <2>3. QED
    BY <2>1, <2>2
<1>4. ASSUME NEW u \in Writers, NEW v \in Writers, u # v
      PROVE  op'[u].held \cap op'[v].held = {}
  <2>1. CASE u = w
    BY <1>1, <1>4, <2>1
  <2>2. CASE v = w
    BY <1>1, <1>4, <2>2
  <2>3. CASE u # w /\ v # w
    BY <1>1, <1>4, <2>3 DEF CollectionInv
  <2>4. QED
    BY <2>1, <2>2, <2>3
<1>5. QED
  BY <1>1, <1>2, <1>3, <1>4 DEF CollectionInv

\* A step that writes nothing and does not say an insertion was done.
LEMMA QuietStep ==
    ASSUME CollectionInv, NEW w \in Writers, NEW o \in Op,
           Found(o), Written(o, db), o.held \subseteq op[w].held,
           op[w].phase = "idle" \/ o.phase # "idle" \/ o.result # "done",
           op' = [op EXCEPT ![w] = o], db' = db
    PROVE  CollectionInv' /\ ComeAndGo /\ AreNew
<1>1. db \in [Elements -> Ends] /\ \A v \in Writers \ {w} : o.held \cap op[v].held = {}
  BY DEF CollectionInv
<1>2. CollectionInv'
  BY <1>1, OneWriterSteps
<1>3. ComeAndGo
  BY DEF ComeAndGo
<1>4. op'[w] = o /\ \A v \in Writers \ {w} : op'[v] = op[v]
  BY DEF CollectionInv
<1>5. AreNew
  BY <1>4 DEF AreNew, Finished
<1>6. QED
  BY <1>2, <1>3, <1>5

\* A writer whose operation is over, whatever it was.
LEMMA IdleIs ==
    ASSUME NEW r \in Results \ {"order"}, NEW rows
    PROVE  Idle(r) \in Op /\ Found(Idle(r)) /\ Written(Idle(r), rows)
           /\ Idle(r).held = {} /\ Idle(r).phase = "idle" /\ Idle(r).result = r
<1>1. NoKey \in Ends /\ << >> \in Seq(RowOf)
  BY DEF Ends
<1>2. [e \in Elements |-> NoKey] \in [Elements -> Ends]
  BY <1>1
<1>3. Idle(r) \in Op
  BY <1>1, <1>2 DEF Idle, Op, Phases, Results
<1>4. QED
  BY <1>3 DEF Idle, Found, Written

\* An operation under way is one that may be asked for.
LEMMA WriterIs ==
    ASSUME CollectionInv, NEW w \in Writers
    PROVE  /\ op[w] \in Op /\ Found(op[w]) /\ Written(op[w], db)
           /\ op[w].held \in SUBSET Elements /\ op[w].mine \in [Elements -> Ends]
           /\ op[w].rest \in Seq(RowOf)
           /\ op[w].phase # "idle" =>
                 /\ op[w].job \in May /\ op[w].job \in Jobs /\ op[w].job # NoJob
                 /\ op[w].job.element \in Elements /\ op[w].job.beside \in Elements
                 /\ op[w].job.at \in Places
                 /\ op[w].job.does \in {"insert", "move", "remove"}
<1>1. op[w] \in Op /\ Found(op[w]) /\ Written(op[w], db)
  BY DEF CollectionInv
<1>2. /\ op[w].held \in SUBSET Elements /\ op[w].mine \in [Elements -> Ends]
      /\ op[w].rest \in Seq(RowOf) /\ op[w].job \in May \cup {NoJob}
  BY <1>1 DEF Op
<1>3. op[w].phase # "idle" => op[w].job \in May /\ op[w].job \in Jobs /\ op[w].job # NoJob
  BY <1>1, <1>2, CollectionAssumption DEF Found
<1>4. \A j \in Jobs : /\ j.element \in Elements /\ j.beside \in Elements /\ j.at \in Places
                      /\ j.does \in {"insert", "move", "remove"}
  BY DEF Jobs
<1>5. QED
  BY <1>1, <1>2, <1>3, <1>4

\* Asking keeps the invariant.
LEMMA StartSteps ==
    ASSUME CollectionInv, NEW w \in Writers, NEW j \in May, NEW within \in BOOLEAN,
           Start(w, j, within)
    PROVE  CollectionInv' /\ ComeAndGo /\ AreNew
<1> DEFINE o == [Idle("none") EXCEPT
                    !.job = j, !.within = within,
                    !.phase = IF j.does = "remove" THEN "write" ELSE Looking(j)]
<1>1. op' = [op EXCEPT ![w] = o] /\ db' = db /\ op[w].phase = "idle"
  BY DEF Start
<1>2. /\ Idle("none") \in Op /\ Idle("none").held = {} /\ Idle("none").rest = << >>
      /\ Idle("none").result = "none"
  BY IdleIs DEF Results, Idle
<1>3. j \in Jobs /\ j # NoJob
  BY CollectionAssumption
<1>4. o \in Op /\ o.held = {} /\ o.phase # "idle" /\ o.phase # "commit"
  BY <1>2 DEF Op, Phases, Looking
<1>5. Found(o)
  BY <1>2, <1>3, <1>4 DEF Found, Looking, Op
<1>6. Written(o, db)
  BY <1>4 DEF Written
<1> HIDE DEF o
<1>7. QED
  BY <1>1, <1>4, <1>5, <1>6, QuietStep

\* An operation that ends without writing.
LEMMA EndsUnwritten ==
    ASSUME CollectionInv, NEW w \in Writers, NEW r \in Results \ {"order", "done"},
           op' = [op EXCEPT ![w] = Idle(r)], db' = db
    PROVE  CollectionInv' /\ ComeAndGo /\ AreNew
<1> DEFINE o == Idle(r)
<1>1. o \in Op /\ Found(o) /\ Written(o, db) /\ o.held \subseteq op[w].held /\ o.result # "done"
  BY IdleIs
<1> HIDE DEF o
<1>2. op' = [op EXCEPT ![w] = o]
  BY DEF o
<1>3. QED
  BY <1>1, <1>2, QuietStep

\* A step that goes on to another statement and writes nothing.
LEMMA GoesOn ==
    ASSUME CollectionInv, NEW w \in Writers, NEW o \in Op, op[w].phase \notin {"idle", "commit"},
           Found(o), o.phase \notin {"idle", "commit"},
           o.held = op[w].held, o.mine = op[w].mine,
           op' = [op EXCEPT ![w] = o], db' = db
    PROVE  CollectionInv' /\ ComeAndGo /\ AreNew
<1>1. Written(op[w], db)
  BY WriterIs
<1>2. Written(o, db)
  BY <1>1 DEF Written
<1>3. QED
  BY <1>2, QuietStep

\* Reading the key of the row beside keeps the invariant.
LEMMA ReadBesideSteps ==
    ASSUME CollectionInv, NEW w \in Writers, ReadBeside(w)
    PROVE  CollectionInv' /\ ComeAndGo /\ AreNew
<1> DEFINE k == Seen(w)[op[w].job.beside]
           o == [op[w] EXCEPT !.phase = "place", !.beside = k]
<1>1. op[w].phase = "beside" /\ db' = db
      /\ op' = [op EXCEPT ![w] = IF k = NoKey THEN Idle("absent") ELSE o]
  BY WriterIs DEF ReadBeside, CollectionInv
<1>2. k \in Ends
  BY <1>1, WriterIs, SeenIs
<1> HIDE DEF k
<1>3. CASE k = NoKey
  <2>1. op' = [op EXCEPT ![w] = Idle("absent")] /\ db' = db
    BY <1>1, <1>3
  <2>2. "absent" \in Results \ {"order", "done"}
    BY DEF Results
  <2>3. QED
    BY <2>1, <2>2, EndsUnwritten
<1>4. CASE k # NoKey
  <2>1. o \in Op /\ o.held = op[w].held /\ o.mine = op[w].mine /\ o.phase = "place"
    BY <1>2, WriterIs DEF Op, Phases
  <2>2. Found(o)
    BY <1>1, <1>4, WriterIs DEF Found, Op
  <2> HIDE DEF o
  <2>3. QED
    BY <1>1, <1>4, <2>1, <2>2, GoesOn
<1>5. QED
  BY <1>3, <1>4

\* Finding a key for a place keeps the invariant.
LEMMA PlaceSteps ==
    ASSUME CollectionInv, NEW w \in Writers, Place(w)
    PROVE  CollectionInv' /\ ComeAndGo /\ AreNew
<1>1. op[w].phase = "place" /\ db' = db
  BY DEF Place, Placing
<1>2. PICK n \in Neighbours(w) :
         LET k == OrderKeyBetween(n[1], n[2]) IN
         op' = [op EXCEPT ![w] =
                   IF OutOfOrder(n[1], n[2]) THEN Idle("order")
                   ELSE [@ EXCEPT !.key = k, !.phase =
                           IF ~ op[w].again /\ Len(k) > Longest THEN "rows" ELSE "write"]]
  BY DEF Place, Placing
<1> DEFINE k == OrderKeyBetween(n[1], n[2])
           next == IF ~ op[w].again /\ Len(k) > Longest THEN "rows" ELSE "write"
           o == [op[w] EXCEPT !.key = k, !.phase = next]
<1>3. n[1] \in Ends /\ n[2] \in Ends /\ ~ OutOfOrder(n[1], n[2])
  BY <1>1, NeighboursInOrder
<1>4. k \in Keys /\ k # NoKey /\ k \in Ends
  BY <1>3, BetweenSorts, NoKeyFirst DEF Ends
<1>5. op' = [op EXCEPT ![w] = o]
  BY <1>2, <1>3 DEF CollectionInv
<1>6. next \in {"rows", "write"}
  OBVIOUS
<1> HIDE DEF k, next
<1>7. o \in Op /\ o.held = op[w].held /\ o.mine = op[w].mine /\ o.phase = next
  BY <1>4, <1>6, WriterIs DEF Op, Phases
<1>8. Found(o)
  BY <1>1, <1>4, <1>6, WriterIs DEF Found, Op
<1> HIDE DEF o
<1>9. QED
  BY <1>1, <1>5, <1>6, <1>7, <1>8, GoesOn

\* Where an operation goes after a row, or with no rows to rewrite.
LEMMA GoingIs ==
    ASSUME NEW j \in Jobs, NEW rest
    PROVE  /\ Going(j, rest) \in {"rewrite", "beside", "place"}
           /\ Going(j, rest) = "rewrite" <=> rest # << >>
           /\ Going(j, rest) = "place" => j.at \notin {"before", "after"}
BY DEF Going, Looking

\* Reading all rows for new keys keeps the invariant.
LEMMA ReadRowsSteps ==
    ASSUME CollectionInv, NEW w \in Writers, ReadRows(w)
    PROVE  CollectionInv' /\ ComeAndGo /\ AreNew
<1>1. op[w].phase = "rows" /\ db' = db
  BY DEF ReadRows
<1>2. PICK s \in Standing(Seen(w)) :
         LET even == EvenKeys(Len(s))
             rest == [i \in 1..Len(s) |-> [element |-> s[i], key |-> even[i]]]
         IN  op' = [op EXCEPT ![w].rest = rest, ![w].again = TRUE,
                              ![w].phase = Going(op[w].job, rest)]
  BY DEF ReadRows
<1> DEFINE rest == [i \in 1..Len(s) |-> [element |-> s[i], key |-> EvenKeys(Len(s))[i]]]
           next == Going(op[w].job, rest)
           o == [op[w] EXCEPT !.rest = rest, !.again = TRUE, !.phase = next]
<1>3. rest \in Seq(RowOf)
  BY RowsToRewrite
<1>4. /\ next \in {"rewrite", "beside", "place"}
      /\ next = "rewrite" <=> rest # << >>
      /\ next = "place" => op[w].job.at \notin {"before", "after"}
  BY <1>1, WriterIs, GoingIs
<1>5. op' = [op EXCEPT ![w] = o]
  BY <1>2 DEF CollectionInv
<1> HIDE DEF rest, next
<1>6. o \in Op /\ o.held = op[w].held /\ o.mine = op[w].mine /\ o.phase = next
  BY <1>3, <1>4, WriterIs DEF Op, Phases
<1>7. Found(o)
  BY <1>1, <1>4, WriterIs DEF Found, Op
<1> HIDE DEF o
<1>8. QED
  BY <1>1, <1>4, <1>5, <1>6, <1>7, GoesOn

-----------------------------------------------------------------------------
(* Steps that write. *)

\* A row that is there, or that is to be inserted, is written only where no
\* other transaction holds it.
LEMMA NobodyElseHolds ==
    ASSUME CollectionInv, NEW w \in Writers, NEW e \in Elements, NEW inserting \in BOOLEAN,
           ~ Waits(w, e, inserting), inserting \/ Seen(w)[e] # NoKey
    PROVE  \A v \in Writers \ {w} : e \notin op[v].held
<1>1. SUFFICES ASSUME NEW v \in Writers \ {w}, e \in op[v].held PROVE FALSE
  OBVIOUS
<1>2. HeldByOther(w, e)
  BY <1>1 DEF HeldByOther
<1>3. ~ inserting /\ db[e] = NoKey
  BY <1>2 DEF Waits
<1>4. e \in op[w].held
  BY <1>3, SeenIs
<1>5. QED
  BY <1>1, <1>4 DEF CollectionInv

\* One statement outside a transaction: it changes one row, and an insertion or
\* a removal of it ends with it.
LEMMA DirectWrite ==
    ASSUME CollectionInv, NEW w \in Writers, NEW o \in Op, NEW e \in Elements, NEW k \in Ends,
           Found(o), o.held = {}, o.phase # "commit",
           \A v \in Writers \ {w} : e \notin op[v].held,
           op' = [op EXCEPT ![w] = o], db' = [db EXCEPT ![e] = k],
           op[w].phase # "idle",
           db[e] = NoKey /\ k # NoKey =>
              /\ op[w].job.does = "insert" /\ op[w].job.element = e
              /\ o.phase = "idle" /\ o.result \in {"done", "fault"},
           db[e] # NoKey /\ k = NoKey =>
              /\ op[w].job.does = "remove" /\ op[w].job.element = e
              /\ o.phase = "idle" /\ o.result \in {"done", "fault"},
           op[w].job.does = "insert" /\ o.phase = "idle" /\ o.result = "done" =>
              op[w].job.element = e /\ db[e] = NoKey /\ k # NoKey
    PROVE  CollectionInv' /\ ComeAndGo /\ AreNew
<1> DEFINE rows == [db EXCEPT ![e] = k]
<1>1. rows \in [Elements -> Ends] /\ rows[e] = k /\ \A f \in Elements \ {e} : rows[f] = db[f]
  BY DEF CollectionInv
<1>2. db' = rows
  OBVIOUS
<1> HIDE DEF rows
<1>3. /\ \A v \in Writers : op[v].held \subseteq Elements
      /\ op'[w] = o /\ \A v \in Writers \ {w} : op'[v] = op[v]
  BY WriterIs DEF CollectionInv
<1>4. CollectionInv'
  <2>1. Written(o, rows)
    BY DEF Written
  <2>2. \A v \in Writers \ {w} : o.held \cap op[v].held = {} /\ \A f \in op[v].held : rows[f] = db[f]
    BY <1>1, <1>3
  <2>3. QED
    BY <1>1, <1>2, <2>1, <2>2, OneWriterSteps
<1>5. ComeAndGo
  <2>1. ASSUME NEW f \in Elements, f # e PROVE db'[f] = db[f]
    BY <1>1, <1>2, <2>1
  <2>2. db[e] = NoKey /\ db'[e] # NoKey => Finished(w, "insert") /\ op[w].job.element = e
    BY <1>1, <1>2, <1>3 DEF Finished
  <2>3. db[e] # NoKey /\ db'[e] = NoKey => Finished(w, "remove") /\ op[w].job.element = e
    BY <1>1, <1>2, <1>3 DEF Finished
  <2>4. QED
    BY <2>1, <2>2, <2>3 DEF ComeAndGo
<1>6. AreNew
  <2>1. SUFFICES ASSUME NEW v \in Writers, Finished(v, "insert"), op[v]'.result = "done"
                 PROVE  db[op[v].job.element] = NoKey /\ db'[op[v].job.element] # NoKey
    BY DEF AreNew
  <2>2. v = w
    BY <1>3, <2>1 DEF Finished
  <2>3. QED
    BY <1>1, <1>2, <1>3, <2>1, <2>2 DEF Finished
<1>7. QED
  BY <1>4, <1>5, <1>6

\* One statement of a transaction: it takes the row, and nothing is seen of it.
LEMMA HeldWrite ==
    ASSUME CollectionInv, NEW w \in Writers, NEW o \in Op, NEW e \in Elements, NEW k \in Ends,
           op[w].phase \notin {"idle", "commit"}, Found(o), o.phase # "idle",
           o.job = op[w].job, o.within,
           o.held = op[w].held \cup {e}, o.mine = [op[w].mine EXCEPT ![e] = k],
           \A v \in Writers \ {w} : e \notin op[v].held,
           LET inserts == o.phase = "commit" /\ o.job.does = "insert"
               removes == o.phase = "commit" /\ o.job.does = "remove"
           IN  /\ inserts \/ removes => e = o.job.element
               /\ db[e] = NoKey <=> inserts
               /\ k = NoKey <=> removes,
           op' = [op EXCEPT ![w] = o], db' = db
    PROVE  CollectionInv' /\ ComeAndGo /\ AreNew
<1>1. /\ op[w].held \subseteq Elements /\ op[w].mine \in [Elements -> Ends]
      /\ Written(op[w], db) /\ db \in [Elements -> Ends]
      /\ op'[w] = o /\ \A v \in Writers \ {w} : op'[v] = op[v]
  BY WriterIs DEF CollectionInv
<1>2. o.mine[e] = k /\ \A f \in op[w].held \ {e} : o.mine[f] = op[w].mine[f]
  BY <1>1
<1>3. \A f \in op[w].held : db[f] # NoKey /\ op[w].mine[f] # NoKey
  BY <1>1 DEF Written
<1>4. Written(o, db)
  BY <1>2, <1>3 DEF Written
<1>5. \A v \in Writers \ {w} : o.held \cap op[v].held = {}
  BY DEF CollectionInv
<1>6. CollectionInv'
  BY <1>1, <1>4, <1>5, OneWriterSteps
<1>7. ComeAndGo
  BY DEF ComeAndGo
<1>8. AreNew
  BY <1>1 DEF AreNew, Finished
<1>9. QED
  BY <1>6, <1>7, <1>8

\* Writing a row's new key keeps the invariant.
LEMMA RewriteRowSteps ==
    ASSUME CollectionInv, NEW w \in Writers, RewriteRow(w)
    PROVE  CollectionInv' /\ ComeAndGo /\ AreNew
<1> DEFINE row == Head(op[w].rest)
           rest == Tail(op[w].rest)
           there == Seen(w)[row.element] # NoKey
           next == Going(op[w].job, rest)
           e == row.element
           k == row.key
<1>1. op[w].phase = "rewrite" /\ ~ Waiting(w)
  BY DEF RewriteRow
<1>2. op[w].rest \in Seq(RowOf) /\ op[w].rest # << >>
  BY <1>1, WriterIs DEF Found
<1>3. row \in RowOf /\ rest \in Seq(RowOf)
  BY <1>2
<1>4. e \in Elements /\ k \in Keys /\ k \in Ends /\ k # NoKey
  BY <1>3, NoKeyFirst DEF RowOf, Ends
<1>5. /\ next \in {"rewrite", "beside", "place"}
      /\ next = "rewrite" <=> rest # << >>
      /\ next = "place" => op[w].job.at \notin {"before", "after"}
  BY <1>1, WriterIs, GoingIs
<1>6. there => \A v \in Writers \ {w} : e \notin op[v].held
  <2>1. ~ Waits(w, e, FALSE)
    BY <1>1 DEF Waiting, Target
  <2>2. QED
    BY <1>4, <2>1, NobodyElseHolds
<1> DEFINE x == IF there THEN Wrote(op[w], e, k) ELSE op[w]
           o == [x EXCEPT !.rest = rest, !.phase = next]
<1>7. /\ op' = [op EXCEPT ![w] = o]
      /\ db' = IF there THEN Stored(w, e, k) ELSE db
  BY DEF RewriteRow, CollectionInv
<1> HIDE DEF row, rest, next, there
<1>8. CASE ~ there
  <2> DEFINE q == [op[w] EXCEPT !.rest = rest, !.phase = next]
  <2>1. op' = [op EXCEPT ![w] = q] /\ db' = db
    BY <1>7, <1>8
  <2>2. q \in Op /\ q.held = op[w].held /\ q.mine = op[w].mine /\ q.phase = next
    BY <1>3, <1>5, WriterIs DEF Op, Phases
  <2>3. Found(q)
    BY <1>1, <1>5, WriterIs DEF Found, Op
  <2> HIDE DEF q
  <2>4. QED
    BY <1>1, <1>5, <2>1, <2>2, <2>3, GoesOn
<1>9. CASE there /\ ~ op[w].within
  <2> DEFINE q == [op[w] EXCEPT !.rest = rest, !.phase = next]
  <2>1. op' = [op EXCEPT ![w] = q] /\ db' = [db EXCEPT ![e] = k]
    BY <1>7, <1>9 DEF Wrote, Stored
  <2>2. q \in Op /\ q.held = op[w].held /\ q.mine = op[w].mine /\ q.phase = next
    BY <1>3, <1>5, WriterIs DEF Op, Phases
  <2>3. Found(q) /\ op[w].held = {}
    BY <1>1, <1>5, <1>9, WriterIs DEF Found, Op
  <2>4. db[e] # NoKey
    BY <1>4, <1>9, <2>3, SeenIs DEF there
  <2> HIDE DEF q, e, k
  <2>5. q.phase # "commit" /\ q.phase # "idle" /\ op[w].phase # "idle" /\ q.held = {}
    BY <1>1, <1>5, <2>2, <2>3
  <2>6. QED
    BY <1>4, <1>6, <1>9, <2>1, <2>2, <2>3, <2>4, <2>5, DirectWrite
<1>10. CASE there /\ op[w].within
  <2> DEFINE m == [op[w].mine EXCEPT ![e] = k]
             h == op[w].held \cup {e}
             q == [op[w] EXCEPT !.mine = m, !.held = h, !.rest = rest, !.phase = next]
  <2>1. op' = [op EXCEPT ![w] = q] /\ db' = db
    <3>1. Wrote(op[w], e, k) = [op[w] EXCEPT !.mine = m, !.held = h]
      BY <1>10 DEF Wrote
    <3>2. o = q
      BY <1>10, <3>1
    <3>3. QED
      BY <1>7, <1>10, <3>2 DEF Stored
  <2>2. m \in [Elements -> Ends] /\ h \in SUBSET Elements
    BY <1>4, WriterIs
  <2> HIDE DEF m, h
  <2>3. q \in Op
    <3>1. op[w] \in Op
      BY WriterIs
    <3>2. QED
      BY <1>3, <1>5, <2>2, <3>1, ZenonT(40) DEF Op, Phases
  <2>4. /\ q.held = h /\ q.mine = m
        /\ q.phase = next /\ q.job = op[w].job /\ q.within /\ q.rest = rest
        /\ q.beside = op[w].beside /\ q.result = op[w].result
    BY <1>10, WriterIs DEF Op
  <2>5. Found(op[w]) /\ Written(op[w], db)
    BY WriterIs
  <2>6. Found(q)
    BY <1>1, <1>5, <2>4, <2>5 DEF Found
  <2>7. db[e] # NoKey
    <3>1. CASE e \in op[w].held
      BY <1>1, <2>5, <3>1 DEF Written
    <3>2. CASE e \notin op[w].held
      BY <1>4, <1>10, <3>2, SeenIs DEF there
    <3>3. QED
      BY <3>1, <3>2
  <2> HIDE DEF q, e, k
  <2>8. q.phase # "commit" /\ q.phase # "idle" /\ op[w].phase \notin {"idle", "commit"}
    BY <1>1, <1>5, <2>4
  <2>9. q.held = op[w].held \cup {e} /\ q.mine = [op[w].mine EXCEPT ![e] = k]
    BY <2>4 DEF m, h
  <2>10. QED
    BY <1>4, <1>6, <1>10, <2>1, <2>3, <2>4, <2>6, <2>7, <2>8, <2>9, HeldWrite
<1>11. QED
  BY <1>8, <1>9, <1>10

\* The statement an operation is for, and its answer: inserting, the row is not
\* there; changing, it is.
LEMMA LastStatement ==
    ASSUME CollectionInv, NEW w \in Writers, op[w].phase = "write", ~ Waiting(w),
           NEW k \in Ends,
           LET e == op[w].job.element
               there == Seen(w)[e] # NoKey
               does == op[w].job.does
           IN  /\ there <=> does # "insert"
               /\ k = NoKey <=> does = "remove"
               /\ db' = Stored(w, e, k)
               /\ Ended(w, Wrote(op[w], e, k))
    PROVE  CollectionInv' /\ ComeAndGo /\ AreNew
<1> DEFINE e == op[w].job.element
           does == op[w].job.does
           inserting == does = "insert"
<1>1. e \in Elements /\ does \in {"insert", "move", "remove"} /\ inserting \in BOOLEAN
  BY WriterIs
<1>2. \A v \in Writers \ {w} : e \notin op[v].held
  <2>1. ~ Waits(w, e, inserting)
    BY DEF Waiting, Target
  <2> HIDE DEF inserting, e, does
  <2>2. inserting \/ Seen(w)[e] # NoKey
    BY DEF inserting, e, does
  <2>3. QED
    BY <1>1, <2>1, <2>2, NobodyElseHolds
<1>3. db[e] = NoKey <=> inserting
  <2>1. Written(op[w], db)
    BY WriterIs
  <2>2. CASE e \in op[w].held
    BY <1>1, <2>1, <2>2, SeenIs DEF Written
  <2>3. CASE e \notin op[w].held
    BY <1>1, <2>3, SeenIs
  <2>4. QED
    BY <2>2, <2>3
<1>4. CASE ~ op[w].within
  <2>1. PICK r \in {"done", "fault"} : op' = [op EXCEPT ![w] = Idle(r)]
    BY <1>4 DEF Ended, Wrote
  <2>2. db' = [db EXCEPT ![e] = k]
    BY <1>4 DEF Stored
  <2> DEFINE o == Idle(r)
  <2>3. o \in Op /\ Found(o) /\ o.held = {} /\ o.phase = "idle" /\ o.result = r
    BY IdleIs DEF Results
  <2>4. op' = [op EXCEPT ![w] = o]
    BY <2>1
  <2>5. (does = "insert" <=> db[e] = NoKey) /\ (does = "remove" <=> k = NoKey)
    BY <1>3
  <2>6. o.phase # "commit" /\ op[w].phase # "idle" /\ o.result \in {"done", "fault"}
    BY <2>1, <2>3
  <2>7. /\ op[w].job.element = e
        /\ db[e] = NoKey /\ k # NoKey => op[w].job.does = "insert"
        /\ db[e] # NoKey /\ k = NoKey => op[w].job.does = "remove"
        /\ op[w].job.does = "insert" => db[e] = NoKey /\ k # NoKey
    BY <2>5
  <2>8. db[e] = NoKey /\ k # NoKey =>
           /\ op[w].job.does = "insert" /\ op[w].job.element = e
           /\ o.phase = "idle" /\ o.result \in {"done", "fault"}
    BY <2>3, <2>6, <2>7
  <2>9. db[e] # NoKey /\ k = NoKey =>
           /\ op[w].job.does = "remove" /\ op[w].job.element = e
           /\ o.phase = "idle" /\ o.result \in {"done", "fault"}
    BY <2>3, <2>6, <2>7
  <2>10. op[w].job.does = "insert" /\ o.phase = "idle" /\ o.result = "done" =>
            op[w].job.element = e /\ db[e] = NoKey /\ k # NoKey
    BY <2>7
  <2>11. e \in Elements
    BY <1>1
  <2>12. o \in Op /\ Found(o) /\ o.held = {} /\ o.phase # "commit" /\ op[w].phase # "idle"
    BY <2>3, <2>6
  <2> HIDE DEF o, e, does, inserting
  <2>13. QED
    BY <1>2, <2>2, <2>4, <2>8, <2>9, <2>10, <2>11, <2>12, DirectWrite, ZenonT(40)
<1>5. CASE op[w].within
  <2> DEFINE m == [op[w].mine EXCEPT ![e] = k]
             h == op[w].held \cup {e}
             o == [op[w] EXCEPT !.mine = m, !.held = h, !.phase = "commit"]
  <2>1. op' = [op EXCEPT ![w] = o] /\ db' = db
    <3>1. Wrote(op[w], e, k) = [op[w] EXCEPT !.mine = m, !.held = h]
      BY <1>5 DEF Wrote
    <3>2. Wrote(op[w], e, k).within
      BY <1>5, <3>1, WriterIs DEF Op
    <3>3. op' = [op EXCEPT ![w] = [Wrote(op[w], e, k) EXCEPT !.phase = "commit"]]
      BY <3>2 DEF Ended
    <3>4. QED
      BY <1>5, <3>1, <3>3 DEF Stored
  <2>2. m \in [Elements -> Ends] /\ h \in SUBSET Elements
    BY <1>1, WriterIs
  <2> HIDE DEF m, h
  <2>3. o \in Op
    <3>1. op[w] \in Op
      BY WriterIs
    <3>2. QED
      BY <2>2, <3>1, ZenonT(40) DEF Op, Phases
  <2>4. /\ o.held = h /\ o.mine = m
        /\ o.phase = "commit" /\ o.job = op[w].job /\ o.within /\ o.rest = op[w].rest
        /\ o.beside = op[w].beside /\ o.result = op[w].result
    BY <1>5, WriterIs DEF Op
  <2>5. Found(op[w]) /\ op[w].job # NoJob
    BY WriterIs
  <2>6. Found(o)
    BY <2>4, <2>5 DEF Found
  <2>7. /\ e = o.job.element
        /\ db[e] = NoKey <=> o.job.does = "insert"
        /\ k = NoKey <=> o.job.does = "remove"
    BY <1>3, <2>4
  <2>8. o.held = op[w].held \cup {e} /\ o.mine = [op[w].mine EXCEPT ![e] = k]
    BY <2>4 DEF m, h
  <2> HIDE DEF o, e
  <2>9. QED
    BY <1>1, <1>2, <2>1, <2>3, <2>4, <2>6, <2>7, <2>8, HeldWrite
<1>6. QED
  BY <1>4, <1>5, WriterIs DEF Op

\* Inserting the row keeps the invariant, and the row is new.
LEMMA InsertRowSteps ==
    ASSUME CollectionInv, NEW w \in Writers, InsertRow(w)
    PROVE  CollectionInv' /\ ComeAndGo /\ AreNew
<1>1. /\ op[w].phase = "write" /\ op[w].job.does = "insert" /\ ~ Waiting(w)
      /\ Seen(w)[op[w].job.element] = NoKey
      /\ db' = Stored(w, op[w].job.element, op[w].key)
      /\ Ended(w, Wrote(op[w], op[w].job.element, op[w].key))
  BY DEF InsertRow
<1>2. op[w].key \in Ends /\ op[w].key # NoKey
  BY <1>1, WriterIs DEF Found, Op
<1>3. QED
  BY <1>1, <1>2, LastStatement

\* An UPDATE or a DELETE of no row: nothing was done, and in a transaction that
\* is committed still.
LEMMA NothingChanged ==
    ASSUME CollectionInv, NEW w \in Writers, op[w].phase = "write",
           op[w].job.does # "insert", Seen(w)[op[w].job.element] = NoKey,
           Ended(w, op[w]), db' = db
    PROVE  CollectionInv' /\ ComeAndGo /\ AreNew
<1>1. CASE ~ op[w].within
  <2>1. PICK r \in {"done", "fault"} : op' = [op EXCEPT ![w] = Idle(r)]
    BY <1>1 DEF Ended
  <2> DEFINE o == Idle(r)
  <2>2. o \in Op /\ Found(o) /\ Written(o, db) /\ o.held = {} /\ o.phase = "idle"
    BY IdleIs DEF Results
  <2>3. op' = [op EXCEPT ![w] = o] /\ op'[w] = o /\ \A v \in Writers \ {w} : op'[v] = op[v]
    BY <2>1 DEF CollectionInv
  <2> HIDE DEF o
  <2>4. CollectionInv'
    BY <2>2, <2>3, OneWriterSteps DEF CollectionInv
  <2>5. ComeAndGo /\ AreNew
    BY <2>3 DEF ComeAndGo, AreNew, Finished
  <2>6. QED
    BY <2>4, <2>5
<1>2. CASE op[w].within
  <2> DEFINE o == [op[w] EXCEPT !.phase = "commit"]
  <2>1. op' = [op EXCEPT ![w] = o]
    BY <1>2 DEF Ended
  <2>2. /\ o \in Op /\ o.held = op[w].held /\ o.mine = op[w].mine /\ o.phase = "commit"
        /\ o.job = op[w].job /\ o.within /\ o.rest = op[w].rest
        /\ o.beside = op[w].beside /\ o.result = op[w].result
    BY <1>2, WriterIs DEF Op, Phases
  <2>3. Found(o)
    BY <2>2, WriterIs DEF Found
  <2>4. op[w].job.element \notin op[w].held
    <3>1. op[w].job.element \in Elements /\ Written(op[w], db)
      BY WriterIs
    <3>2. QED
      BY <3>1, SeenIs DEF Written
  <2>5. Written(o, db)
    BY <2>2, <2>4, WriterIs DEF Written
  <2> HIDE DEF o
  <2>6. QED
    BY <2>1, <2>2, <2>3, <2>5, QuietStep
<1>3. QED
  BY <1>1, <1>2, WriterIs DEF Op

\* Updating or deleting the row keeps the invariant.
LEMMA ChangeRowSteps ==
    ASSUME CollectionInv, NEW w \in Writers, ChangeRow(w)
    PROVE  CollectionInv' /\ ComeAndGo /\ AreNew
<1> DEFINE e == op[w].job.element
           key == IF op[w].job.does = "move" THEN op[w].key ELSE NoKey
<1>1. op[w].phase = "write" /\ op[w].job.does # "insert" /\ ~ Waiting(w)
  BY DEF ChangeRow
<1>2. CASE Seen(w)[e] = NoKey
  <2>1. db' = db /\ Ended(w, op[w])
    BY <1>2 DEF ChangeRow
  <2>2. QED
    BY <1>1, <1>2, <2>1, NothingChanged
<1>3. CASE Seen(w)[e] # NoKey
  <2>1. db' = Stored(w, e, key) /\ Ended(w, Wrote(op[w], e, key))
    BY <1>3 DEF ChangeRow
  <2>2. op[w].key \in Ends /\ NoKey \in Ends
    BY WriterIs DEF Op, Ends
  <2>3. key \in Ends
    BY <2>2
  <2>4. key = NoKey <=> op[w].job.does = "remove"
    BY <1>1, WriterIs DEF Found
  <2> HIDE DEF key
  <2>5. QED
    BY <1>1, <1>3, <2>1, <2>3, <2>4, LastStatement
<1>4. QED
  BY <1>2, <1>3

\* Committing keeps the invariant, and only its element comes or goes.
LEMMA CommitSteps ==
    ASSUME CollectionInv, NEW w \in Writers, Commit(w)
    PROVE  CollectionInv' /\ ComeAndGo /\ AreNew
<1>1. op[w].phase = "commit" /\ db' = Seen(w)
  BY DEF Commit
<1>2. PICK r \in {"done", "fault"} : op' = [op EXCEPT ![w] = Idle(r)]
  BY DEF Commit
<1> DEFINE o == Idle(r)
           rows == Seen(w)
           does == op[w].job.does
           element == op[w].job.element
<1>3. /\ rows \in [Elements -> Ends]
      /\ \A e \in Elements : rows[e] = IF e \in op[w].held THEN op[w].mine[e] ELSE db[e]
  BY SeenIs
<1>4. /\ o \in Op /\ Found(o) /\ Written(o, rows) /\ o.held = {}
      /\ o.phase = "idle" /\ o.result \in {"done", "fault"}
  BY IdleIs DEF Results
<1>5. op' = [op EXCEPT ![w] = o] /\ op'[w] = o /\ \A v \in Writers \ {w} : op'[v] = op[v]
  BY <1>2 DEF CollectionInv
<1>6. db' = rows
  BY <1>1
<1>7. /\ \A e \in op[w].held : /\ e \in Elements
                               /\ db[e] = NoKey <=> does = "insert" /\ e = element
                               /\ op[w].mine[e] = NoKey <=> does = "remove" /\ e = element
      /\ does = "insert" => element \in op[w].held
  BY <1>1, WriterIs DEF Written
<1> HIDE DEF o, rows
<1>8. CollectionInv'
  <2>1. ASSUME NEW v \in Writers \ {w} PROVE \A e \in op[v].held : rows[e] = db[e]
    <3>1. op[v].held \subseteq Elements /\ op[v].held \cap op[w].held = {}
      BY WriterIs DEF CollectionInv
    <3>2. QED
      BY <1>3, <3>1
  <2>2. QED
    BY <1>3, <1>4, <1>5, <1>6, <2>1, OneWriterSteps
<1>9. ComeAndGo
  <2>1. ASSUME NEW e \in Elements, db[e] = NoKey, db'[e] # NoKey
        PROVE  Finished(w, "insert") /\ element = e
    BY <1>1, <1>3, <1>4, <1>5, <1>6, <1>7, <2>1 DEF Finished
  <2>2. ASSUME NEW e \in Elements, db[e] # NoKey, db'[e] = NoKey
        PROVE  Finished(w, "remove") /\ element = e
    BY <1>1, <1>3, <1>4, <1>5, <1>6, <1>7, <2>2 DEF Finished
  <2>3. QED
    BY <2>1, <2>2 DEF ComeAndGo
<1>10. AreNew
  <2>1. SUFFICES ASSUME NEW v \in Writers, Finished(v, "insert"), op[v]'.result = "done"
                 PROVE  db[op[v].job.element] = NoKey /\ db'[op[v].job.element] # NoKey
    BY DEF AreNew
  <2>2. v = w /\ does = "insert"
    BY <1>5, <2>1 DEF Finished
  <2>3. element \in op[w].held /\ element \in Elements
    BY <1>7, <2>2
  <2>4. QED
    BY <1>3, <1>6, <1>7, <2>2, <2>3
<1>11. QED
  BY <1>8, <1>9, <1>10

\* Whatever is asked, in whatever order the statements of several writers come,
\* and whichever of them fail.
LEMMA OneStepKeepsRows ==
    ASSUME CollectionInv, [Next]_vars
    PROVE  CollectionInv' /\ ((db' = db /\ op' = op) \/ (ComeAndGo /\ AreNew))
<1>1. CASE db' = db /\ op' = op
  BY <1>1 DEF CollectionInv, Found, Written
<1>2. ASSUME NEW w \in Writers, NEW j \in May, NEW within \in BOOLEAN, Start(w, j, within)
      PROVE  CollectionInv' /\ ComeAndGo /\ AreNew
  BY <1>2, StartSteps
<1>3. ASSUME NEW w \in Writers, Step(w) \/ Fail(w)
      PROVE  CollectionInv' /\ ComeAndGo /\ AreNew
  <2>1. CASE ReadBeside(w)
    BY <2>1, ReadBesideSteps
  <2>2. CASE Place(w)
    BY <2>2, PlaceSteps
  <2>3. CASE ReadRows(w)
    BY <2>3, ReadRowsSteps
  <2>4. CASE RewriteRow(w)
    BY <2>4, RewriteRowSteps
  <2>5. CASE InsertRow(w)
    BY <2>5, InsertRowSteps
  <2>6. CASE InsertRefused(w)
    <3>1. op' = [op EXCEPT ![w] = Idle("there")] /\ db' = db
      BY <2>6 DEF InsertRefused
    <3>2. "there" \in Results \ {"order", "done"}
      BY DEF Results
    <3>3. QED
      BY <3>1, <3>2, EndsUnwritten
  <2>7. CASE ChangeRow(w)
    BY <2>7, ChangeRowSteps
  <2>8. CASE Commit(w)
    BY <2>8, CommitSteps
  <2>9. CASE Deadlocked(w) \/ Fail(w)
    <3>1. op' = [op EXCEPT ![w] = Idle("fault")] /\ db' = db
      BY <2>9 DEF Deadlocked, Fail
    <3>2. "fault" \in Results \ {"order", "done"}
      BY DEF Results
    <3>3. QED
      BY <3>1, <3>2, EndsUnwritten
  <2>10. QED
    BY <1>3, <2>1, <2>2, <2>3, <2>4, <2>5, <2>6, <2>7, <2>8, <2>9 DEF Step
<1>4. CASE Rest \/ UNCHANGED vars
  BY <1>1, <1>4 DEF Rest, vars
<1>5. QED
  BY <1>2, <1>3, <1>4 DEF Next

\* A collection starts in the invariant: with nothing in it.
LEMMA StartsEmpty ==
    ASSUME Init
    PROVE  CollectionInv
<1>1. "none" \in Results \ {"order"} /\ NoKey \in Ends
  BY DEF Results, Ends
<1>2. Idle("none") \in Op /\ Found(Idle("none")) /\ Written(Idle("none"), db) /\ Idle("none").held = {}
  BY <1>1, IdleIs
<1>3. \A w \in Writers : op[w] = Idle("none")
  BY DEF Init
<1>4. db \in [Elements -> Ends] /\ op \in [Writers -> Op]
  BY <1>1, <1>2 DEF Init
<1>5. QED
  BY <1>2, <1>3, <1>4 DEF CollectionInv

-----------------------------------------------------------------------------

\* Every row has a key, every operation is where its statements leave it, and
\* only one that is under way in a transaction holds rows.
THEOREM TypesAreKept == Spec => []TypeOK
<1>1. Init => CollectionInv
  BY StartsEmpty
<1>2. CollectionInv /\ [Next]_vars => CollectionInv'
  BY OneStepKeepsRows
<1>3. CollectionInv => TypeOK
  <2>1. SUFFICES ASSUME CollectionInv PROVE TypeOK
    OBVIOUS
  <2>2. ASSUME NEW w \in Writers
        PROVE  /\ op[w].phase \in Phases /\ op[w].result \in Results
               /\ op[w].phase = "idle" <=> op[w].job = NoJob
               /\ op[w].phase = "rewrite" <=> op[w].rest # << >>
               /\ op[w].phase = "idle" \/ ~op[w].within => op[w].held = {}
               /\ op[w].phase # "idle" => op[w].job \in May
               /\ \A e \in op[w].held : op[w].mine[e] \in Ends
    BY <2>1, WriterIs DEF Op, Found
  <2>3. QED
    BY <2>1, <2>2 DEF TypeOK, CollectionInv, Phases, Results
<1>4. QED
  BY <1>1, <1>2, <1>3, PTL DEF Spec

\* Whatever moves between the statement that finds the element beside and the
\* one that finds its neighbour, the place has a key: none is refused.
THEOREM NoPlaceOutOfOrder == Spec => []NeverOutOfOrder
<1>1. Init => CollectionInv
  BY StartsEmpty
<1>2. CollectionInv /\ [Next]_vars => CollectionInv'
  BY OneStepKeepsRows
<1>3. CollectionInv => NeverOutOfOrder
  BY WriterIs DEF Found, NeverOutOfOrder
<1>4. QED
  BY <1>1, <1>2, <1>3, PTL DEF Spec

\* A row comes by an insertion of its element and goes by a removal of it,
\* whatever is rewritten meanwhile and whichever transactions fail.
THEOREM RowsComeAndGo == Spec => ElementsComeAndGo
<1>1. Init => CollectionInv
  BY StartsEmpty
<1>2. CollectionInv /\ [Next]_vars => CollectionInv' /\ [ComeAndGo]_vars
  <2>1. SUFFICES ASSUME CollectionInv, [Next]_vars PROVE CollectionInv' /\ ComeAndGo
    OBVIOUS
  <2>2. QED
    BY <2>1, OneStepKeepsRows DEF ComeAndGo
<1>3. Spec => [][ComeAndGo]_vars
  BY <1>1, <1>2, PTL DEF Spec
<1>4. QED
  BY <1>3 DEF ElementsComeAndGo, ComeAndGo

\* Of the writers that insert one element while it is not there, the one that
\* is told it did made the row.
THEOREM OneInsertionIsTold == Spec => InsertionsAreNew
<1>1. Init => CollectionInv
  BY StartsEmpty
<1>2. CollectionInv /\ [Next]_vars => CollectionInv' /\ [AreNew]_vars
  <2>1. SUFFICES ASSUME CollectionInv, [Next]_vars PROVE CollectionInv' /\ AreNew
    OBVIOUS
  <2>2. QED
    BY <2>1, OneStepKeepsRows DEF AreNew, Finished
<1>3. Spec => [][AreNew]_vars
  BY <1>1, <1>2, PTL DEF Spec
<1>4. QED
  BY <1>3 DEF InsertionsAreNew, AreNew

-----------------------------------------------------------------------------
(***************************************************************************)
(* One writer: Collection implements PersonOrder.  What the table holds is *)
(* one list (ListOf), and the lemmas say what a row more or less makes of  *)
(* that list, that a key between two neighbours is the place it was asked  *)
(* for, and that rewriting the keys leaves the list as it was.             *)
(***************************************************************************)

\* s is the elements that have a row, as their keys sort.
Lists(s, rows) ==
    /\ s \in Seq(Elements)
    /\ \A i \in 1..Len(s) : rows[s[i]] # NoKey
    /\ \A e \in Rows(rows) : \E i \in 1..Len(s) : s[i] = e
    /\ \A i, j \in 1..Len(s) : i < j => Less(rows[s[i]], rows[s[j]])

\* The rows that sort before one, and all of them in the order of their keys.
Ahead(rows, e) == {f \in Rows(rows) : Less(rows[f], rows[e])}

ListOf(rows) ==
    [i \in 1..Cardinality(Rows(rows)) |->
        CHOOSE e \in Rows(rows) : Cardinality(Ahead(rows, e)) = i - 1]

\* The order as the table has it is the list of its rows.
LEMMA OrderIs == Order = ListOf(db) /\ Order' = ListOf(db')
BY DEF Order, ListOf, Ahead

\* No key sorts before itself, nor two before each other.
LEMMA LessStrict ==
    ASSUME NEW k \in Keys, NEW l \in Keys, Less(k, l)
    PROVE  k # l /\ ~ Less(l, k)
<1>1. ASSUME NEW m \in Keys PROVE ~ Less(m, m)
  <2>1. \A n \in 1..Len(m) : m[n] \in Nat /\ n <= Len(m)
    BY BaseAssumption DEF Keys, Digits
  <2>2. QED
    BY <2>1 DEF Less
<1>2. QED
  BY <1>1, LessTransitive

\* What a list of rows has in it.
LEMMA ListHas ==
    ASSUME NEW rows \in [Elements -> Ends], NEW s, Lists(s, rows)
    PROVE  /\ Len(s) \in Nat /\ DOMAIN s = 1..Len(s)
           /\ \A i \in 1..Len(s) : s[i] \in Elements /\ s[i] \in Rows(rows) /\ rows[s[i]] \in Keys
           /\ \A i, j \in 1..Len(s) : s[i] = s[j] => i = j
           /\ \A i, j \in 1..Len(s) : Less(rows[s[i]], rows[s[j]]) <=> i < j
           /\ ToSet(s) = Rows(rows)
<1>1. Len(s) \in Nat /\ DOMAIN s = 1..Len(s) /\ \A i \in 1..Len(s) : s[i] \in Elements
  BY DEF Lists
<1>2. \A i \in 1..Len(s) : s[i] \in Rows(rows) /\ rows[s[i]] \in Keys
  BY <1>1 DEF Lists, Rows, Ends
<1>3. ASSUME NEW i \in 1..Len(s), NEW j \in 1..Len(s), s[i] = s[j] PROVE i = j
  <2>1. ~ Less(rows[s[i]], rows[s[j]]) /\ ~ Less(rows[s[j]], rows[s[i]])
    BY <1>2, <1>3, LessStrict
  <2>2. QED
    BY <1>1, <2>1 DEF Lists
<1>4. ASSUME NEW i \in 1..Len(s), NEW j \in 1..Len(s) PROVE Less(rows[s[i]], rows[s[j]]) <=> i < j
  <2>1. CASE i < j
    BY <2>1 DEF Lists
  <2>2. CASE j < i
    <3>1. Less(rows[s[j]], rows[s[i]])
      BY <2>2 DEF Lists
    <3>2. QED
      BY <1>1, <1>2, <2>2, <3>1, LessStrict
  <2>3. CASE i = j
    BY <1>1, <1>2, <2>3, LessStrict
  <2>4. QED
    BY <1>1, <2>1, <2>2, <2>3
<1>5. ToSet(s) = Rows(rows)
  BY <1>1, <1>2 DEF ToSet, Lists
<1>6. QED
  BY <1>1, <1>2, <1>3, <1>4, <1>5

\* A list of rows sorts any two of them.
LEMMA ListSorts ==
    ASSUME NEW rows \in [Elements -> Ends], NEW s, Lists(s, rows),
           NEW e \in Rows(rows), NEW f \in Rows(rows)
    PROVE  /\ rows[e] \in Keys /\ rows[f] \in Keys
           /\ e = f \/ Less(rows[e], rows[f]) \/ Less(rows[f], rows[e])
<1>1. PICK i \in 1..Len(s) : s[i] = e
  BY DEF Lists
<1>2. PICK j \in 1..Len(s) : s[j] = f
  BY DEF Lists
<1>3. Len(s) \in Nat /\ rows[s[i]] \in Keys /\ rows[s[j]] \in Keys
  BY ListHas
<1>4. i = j \/ i < j \/ j < i
  BY <1>3
<1>5. QED
  BY <1>1, <1>2, <1>3, <1>4, ListHas

\* So many are in the first of a list.
LEMMA FirstOf ==
    ASSUME NEW rows \in [Elements -> Ends], NEW s, Lists(s, rows), NEW n \in 0..Len(s),
           NEW S, S = {s[i] : i \in 1..n}
    PROVE  IsFiniteSet(S) /\ Cardinality(S) = n
<1>1. n \in Nat /\ 1 \in Int /\ n \in Int
  BY ListHas
<1>2. IsFiniteSet(1..n) /\ Cardinality(1..n) = n
  BY <1>1, FS_Interval
<1> DEFINE f == [i \in 1..n |-> s[i]]
<1>3. f \in Bijection(1..n, S)
  <2>1. f \in [1..n -> S]
    OBVIOUS
  <2>2. \A i, j \in 1..n : f[i] = f[j] => i = j
    BY <1>1, ListHas
  <2>3. \A e \in S : \E i \in 1..n : f[i] = e
    OBVIOUS
  <2>4. QED
    BY <2>1, <2>2, <2>3 DEF Bijection, Injection, Surjection, IsInjective
<1>4. ExistsBijection(1..n, S)
  BY <1>3 DEF ExistsBijection
<1>5. QED
  BY <1>2, <1>4, FS_Bijection

\* There is one list of rows, and it is the one the table has.
LEMMA OneList ==
    ASSUME NEW rows \in [Elements -> Ends], NEW s, Lists(s, rows)
    PROVE  ListOf(rows) = s
<1> DEFINE n == Len(s)
<1>1. n \in Nat /\ DOMAIN s = 1..n
  BY ListHas
<1>2. Cardinality(Rows(rows)) = n
  <2>1. Rows(rows) = {s[i] : i \in 1..n}
    BY <1>1, ListHas DEF ToSet
  <2>2. n \in 0..Len(s)
    BY <1>1
  <2>3. QED
    BY <2>1, <2>2, FirstOf
<1>3. ASSUME NEW i \in 1..n PROVE Cardinality(Ahead(rows, s[i])) = i - 1
  <2>1. Ahead(rows, s[i]) = {s[j] : j \in 1..(i - 1)}
    <3>1. \A f : f \in Ahead(rows, s[i]) => \E j \in 1..(i - 1) : f = s[j]
      <4>1. SUFFICES ASSUME NEW f \in Ahead(rows, s[i]) PROVE \E j \in 1..(i - 1) : f = s[j]
        OBVIOUS
      <4>2. PICK j \in 1..n : s[j] = f
        BY DEF Ahead, Lists
      <4>3. j < i
        BY <4>2, ListHas DEF Ahead
      <4>4. QED
        BY <1>1, <4>2, <4>3
    <3>2. \A j \in 1..(i - 1) : s[j] \in Ahead(rows, s[i])
      <4>1. SUFFICES ASSUME NEW j \in 1..(i - 1) PROVE s[j] \in Ahead(rows, s[i])
        OBVIOUS
      <4>2. j \in 1..n /\ j < i
        BY <1>1
      <4>3. QED
        BY <4>2, ListHas DEF Ahead
    <3>3. QED
      BY <3>1, <3>2
  <2>2. i - 1 \in 0..Len(s)
    BY <1>1
  <2>3. QED
    BY <2>1, <2>2, FirstOf
<1>4. ASSUME NEW i \in 1..n
      PROVE  (CHOOSE e \in Rows(rows) : Cardinality(Ahead(rows, e)) = i - 1) = s[i]
  <2>1. s[i] \in Rows(rows)
    BY ListHas
  <2>2. ASSUME NEW e \in Rows(rows), Cardinality(Ahead(rows, e)) = i - 1 PROVE e = s[i]
    <3>1. PICK k \in 1..n : s[k] = e
      BY DEF Lists
    <3>2. k - 1 = i - 1
      BY <1>3, <2>2, <3>1
    <3>3. QED
      BY <1>1, <3>1, <3>2
  <2>3. QED
    BY <1>3, <2>1, <2>2
<1>5. ListOf(rows) = [i \in 1..n |-> s[i]]
  BY <1>2, <1>4 DEF ListOf
<1>6. s = [i \in 1..n |-> s[i]]
  BY <1>1 DEF Lists
<1>7. QED
  BY <1>5, <1>6

\* A sequence with one of its elements left out.
LEMMA RemovedIs ==
    ASSUME NEW S, NEW s \in Seq(S), NEW k \in 1..Len(s)
    PROVE  LET t == RemoveAt(s, k) IN
           /\ t \in Seq(S) /\ Len(t) = Len(s) - 1
           /\ \A i \in 1..Len(t) : t[i] = IF i < k THEN s[i] ELSE s[i + 1]
<1> DEFINE a == SubSeq(s, 1, k - 1)
           b == SubSeq(s, k + 1, Len(s))
<1>1. Len(s) \in Nat /\ k \in Nat /\ 1 <= k /\ k <= Len(s)
  OBVIOUS
<1>2. a \in Seq(S) /\ Len(a) = k - 1 /\ \A i \in 1..(k - 1) : a[i] = s[i]
  BY <1>1
<1>3. b \in Seq(S) /\ Len(b) = Len(s) - k /\ \A i \in 1..(Len(s) - k) : b[i] = s[k + i]
  BY <1>1
<1>4. RemoveAt(s, k) = a \o b
  BY DEF RemoveAt
<1> HIDE DEF a, b
<1>5. a \o b \in Seq(S) /\ Len(a \o b) = Len(s) - 1
  <2>1. a \o b \in Seq(S) /\ Len(a \o b) = Len(a) + Len(b)
    BY <1>2, <1>3, Joined
  <2>2. QED
    BY <1>1, <1>2, <1>3, <2>1
<1>6. ASSUME NEW i \in 1..(Len(s) - 1) PROVE (a \o b)[i] = IF i < k THEN s[i] ELSE s[i + 1]
  <2>1. CASE i < k
    BY <1>1, <1>2, <1>3, <2>1
  <2>2. CASE ~ (i < k)
    <3>1. i - (k - 1) \in 1..(Len(s) - k) /\ k + (i - (k - 1)) = i + 1
      BY <1>1, <2>2
    <3>2. (a \o b)[i] = b[i - (k - 1)]
      BY <1>1, <1>2, <1>3, <2>2
    <3>3. QED
      BY <1>3, <2>2, <3>1, <3>2
  <2>3. QED
    BY <2>1, <2>2
<1>7. QED
  BY <1>4, <1>5, <1>6

\* t is s with e put at g, the rest moved on by one.
HasPut(s, g, e, S, t) ==
    /\ t \in Seq(S) /\ Len(t) = Len(s) + 1
    /\ \A i \in 1..Len(t) : t[i] = IF i < g THEN s[i] ELSE IF i = g THEN e ELSE s[i - 1]

\* A sequence with an element put in it.
LEMMA InsertedIs ==
    ASSUME NEW S, NEW s \in Seq(S), NEW g \in 1..(Len(s) + 1), NEW e \in S
    PROVE  HasPut(s, g, e, S, InsertAt(s, g, e))
<1> DEFINE a == SubSeq(s, 1, g - 1)
           b == SubSeq(s, g, Len(s))
           c == a \o <<e>>
<1>1. Len(s) \in Nat /\ g \in Nat /\ 1 <= g /\ g <= Len(s) + 1
  OBVIOUS
<1>2. a \in Seq(S) /\ Len(a) = g - 1 /\ \A i \in 1..(g - 1) : a[i] = s[i]
  BY <1>1
<1>3. b \in Seq(S) /\ Len(b) = Len(s) - g + 1 /\ \A i \in 1..(Len(s) - g + 1) : b[i] = s[g + i - 1]
  BY <1>1
<1>4. InsertAt(s, g, e) = c \o b
  BY DEF InsertAt
<1> HIDE DEF a, b
<1>5. c \in Seq(S) /\ Len(c) = g /\ c[g] = e /\ \A i \in 1..(g - 1) : c[i] = s[i]
  BY <1>1, <1>2
<1> HIDE DEF c
<1>6. c \o b \in Seq(S) /\ Len(c \o b) = Len(s) + 1
  <2>1. c \o b \in Seq(S) /\ Len(c \o b) = Len(c) + Len(b)
    BY <1>3, <1>5, Joined
  <2>2. QED
    BY <1>1, <1>3, <1>5, <2>1
<1>7. ASSUME NEW i \in 1..(Len(s) + 1)
      PROVE (c \o b)[i] = IF i < g THEN s[i] ELSE IF i = g THEN e ELSE s[i - 1]
  <2> USE <1>1
  <2>1. CASE i <= g
    <3>1. (c \o b)[i] = c[i]
      BY <1>1, <1>3, <1>5, <2>1
    <3>2. QED
      BY <1>1, <1>5, <2>1, <3>1
  <2>2. CASE ~ (i <= g)
    <3>1. i - g \in 1..(Len(s) - g + 1) /\ g + (i - g) - 1 = i - 1
      BY <1>1, <2>2
    <3>2. (c \o b)[i] = b[i - g]
      BY <1>1, <1>3, <1>5, <2>2
    <3>3. QED
      BY <1>1, <1>3, <2>2, <3>1, <3>2
  <2>3. QED
    BY <2>1, <2>2
<1>8. QED
  BY <1>4, <1>6, <1>7 DEF HasPut

\* The rows without one, listed.
LEMMA ListWithout ==
    ASSUME NEW rows \in [Elements -> Ends], NEW s, Lists(s, rows), NEW k \in 1..Len(s)
    PROVE  Lists(RemoveAt(s, k), [rows EXCEPT ![s[k]] = NoKey])
<1> DEFINE t == RemoveAt(s, k)
           e == s[k]
           after == [rows EXCEPT ![e] = NoKey]
<1>1. s \in Seq(Elements) /\ Len(s) \in Nat /\ e \in Elements /\ k \in Nat
  BY ListHas DEF Lists
<1>2. /\ t \in Seq(Elements) /\ Len(t) = Len(s) - 1
      /\ \A i \in 1..Len(t) : t[i] = IF i < k THEN s[i] ELSE s[i + 1]
  BY <1>1, RemovedIs
<1>3. \A f \in Elements : after[f] = IF f = e THEN NoKey ELSE rows[f]
  BY <1>1
<1> HIDE DEF t, after
<1> DEFINE from(i) == IF i < k THEN i ELSE i + 1
<1>4. \A i \in 1..Len(t) : from(i) \in 1..Len(s) /\ from(i) # k /\ t[i] = s[from(i)]
  BY <1>1, <1>2
<1>5. \A i, j \in 1..Len(t) : i < j => from(i) < from(j)
  BY <1>1, <1>2
<1>6. \A m \in 1..Len(s) : m # k => \E i \in 1..Len(t) : m = from(i)
  <2>1. SUFFICES ASSUME NEW m \in 1..Len(s), m # k PROVE \E i \in 1..Len(t) : m = from(i)
    OBVIOUS
  <2>2. CASE m < k
    <3>1. m \in 1..Len(t) /\ from(m) = m
      BY <1>1, <1>2, <2>2
    <3>2. QED
      BY <3>1
  <2>3. CASE k < m
    <3>1. m - 1 \in 1..Len(t) /\ from(m - 1) = m
      BY <1>1, <1>2, <2>3
    <3>2. QED
      BY <3>1
  <2>4. QED
    BY <1>1, <2>1, <2>2, <2>3
<1> HIDE DEF from
<1>7. \A i \in 1..Len(t) : t[i] # e /\ t[i] \in Elements /\ after[t[i]] = rows[s[from(i)]] /\ after[t[i]] # NoKey
  <2>1. SUFFICES ASSUME NEW i \in 1..Len(t)
                 PROVE  t[i] # e /\ t[i] \in Elements /\ after[t[i]] = rows[s[from(i)]] /\ after[t[i]] # NoKey
    OBVIOUS
  <2>2. t[i] # e /\ t[i] \in Elements
    BY <1>4, ListHas
  <2>3. rows[s[from(i)]] # NoKey
    BY <1>4 DEF Lists
  <2>4. QED
    BY <1>3, <1>4, <2>2, <2>3
<1>8. \A f \in Rows(after) : \E i \in 1..Len(t) : t[i] = f
  <2>1. SUFFICES ASSUME NEW f \in Rows(after) PROVE \E i \in 1..Len(t) : t[i] = f
    OBVIOUS
  <2>2. f \in Rows(rows) /\ f # e
    BY <1>3 DEF Rows
  <2>3. PICK m \in 1..Len(s) : s[m] = f
    BY <2>2 DEF Lists
  <2>4. m # k
    BY <2>2, <2>3
  <2>5. QED
    BY <1>4, <1>6, <2>3, <2>4
<1>9. \A i, j \in 1..Len(t) : i < j => Less(after[t[i]], after[t[j]])
  BY <1>4, <1>5, <1>7 DEF Lists
<1>10. Lists(t, after)
  BY <1>2, <1>7, <1>8, <1>9 DEF Lists
<1>11. QED
  BY <1>10 DEF t, after

\* A row put among the others, its key between theirs, listed.
LEMMA ListWith ==
    ASSUME NEW rows \in [Elements -> Ends], NEW s, Lists(s, rows), NEW g \in 1..(Len(s) + 1),
           NEW e \in Elements, rows[e] = NoKey, NEW k \in Keys,
           \A i \in 1..Len(s) : IF i < g THEN Less(rows[s[i]], k) ELSE Less(k, rows[s[i]])
    PROVE  Lists(InsertAt(s, g, e), [rows EXCEPT ![e] = k])
<1> DEFINE t == InsertAt(s, g, e)
           after == [rows EXCEPT ![e] = k]
<1>1. s \in Seq(Elements) /\ Len(s) \in Nat /\ g \in Nat
  BY ListHas DEF Lists
<1>2. /\ t \in Seq(Elements) /\ Len(t) = Len(s) + 1
      /\ \A i \in 1..Len(t) : t[i] = IF i < g THEN s[i] ELSE IF i = g THEN e ELSE s[i - 1]
  <2>1. HasPut(s, g, e, Elements, t)
    BY <1>1, InsertedIs
  <2>2. QED
    BY <2>1 DEF HasPut
<1>3. \A f \in Elements : after[f] = IF f = e THEN k ELSE rows[f]
  BY <1>1
<1>4. k # NoKey
  BY NoKeyFirst
<1>5. \A i \in 1..Len(s) : s[i] \in Elements /\ s[i] # e /\ after[s[i]] = rows[s[i]] /\ rows[s[i]] # NoKey
  BY <1>1, <1>3, ListHas DEF Lists
<1> HIDE DEF t, after
<1> DEFINE from(i) == IF i < g THEN i ELSE i - 1
<1>6. \A i \in 1..Len(t) : i # g => from(i) \in 1..Len(s) /\ t[i] = s[from(i)]
  BY <1>1, <1>2
<1>7. \A i, j \in 1..Len(t) : i < j /\ i # g /\ j # g => from(i) < from(j)
  BY <1>1, <1>2
<1>8. \A i \in 1..Len(t) : i # g => (i < g <=> from(i) < g)
  BY <1>1, <1>2
<1>9. g \in 1..Len(t) /\ t[g] = e
  BY <1>1, <1>2
<1>10. \A m \in 1..Len(s) : \E i \in 1..Len(t) : i # g /\ m = from(i)
  <2>1. SUFFICES ASSUME NEW m \in 1..Len(s) PROVE \E i \in 1..Len(t) : i # g /\ m = from(i)
    OBVIOUS
  <2>2. CASE m < g
    <3>1. m \in 1..Len(t) /\ m # g /\ from(m) = m
      BY <1>1, <1>2, <2>2
    <3>2. QED
      BY <3>1
  <2>3. CASE ~ (m < g)
    <3>1. m + 1 \in 1..Len(t) /\ m + 1 # g /\ from(m + 1) = m
      BY <1>1, <1>2, <2>3
    <3>2. QED
      BY <3>1
  <2>4. QED
    BY <2>2, <2>3
<1> HIDE DEF from
<1>11. \A i \in 1..Len(t) : after[t[i]] # NoKey
  BY <1>3, <1>4, <1>5, <1>6, <1>9
<1>12. \A f \in Rows(after) : \E i \in 1..Len(t) : t[i] = f
  <2>1. SUFFICES ASSUME NEW f \in Rows(after), f # e PROVE \E i \in 1..Len(t) : t[i] = f
    BY <1>9
  <2>2. f \in Rows(rows)
    BY <1>3, <2>1 DEF Rows
  <2>3. PICK m \in 1..Len(s) : s[m] = f
    BY <2>2 DEF Lists
  <2>4. QED
    BY <1>6, <1>10, <2>3
<1>13. ASSUME NEW i \in 1..Len(t), NEW j \in 1..Len(t), i < j
       PROVE  Less(after[t[i]], after[t[j]])
  <2>1. CASE i = g
    <3>1. j # g /\ ~ (j < g)
      BY <1>1, <1>2, <1>13, <2>1
    <3>2. after[t[i]] = k /\ from(j) \in 1..Len(s) /\ after[t[j]] = rows[s[from(j)]] /\ ~ (from(j) < g)
      BY <1>3, <1>5, <1>6, <1>8, <1>9, <2>1, <3>1
    <3>3. QED
      BY <3>2
  <2>2. CASE j = g
    <3>1. i # g /\ i < g
      BY <1>1, <1>2, <1>13, <2>2
    <3>2. after[t[j]] = k /\ from(i) \in 1..Len(s) /\ after[t[i]] = rows[s[from(i)]] /\ from(i) < g
      BY <1>3, <1>5, <1>6, <1>8, <1>9, <2>2, <3>1
    <3>3. QED
      BY <3>2
  <2>3. CASE i # g /\ j # g
    <3>1. from(i) \in 1..Len(s) /\ from(j) \in 1..Len(s) /\ from(i) < from(j)
      BY <1>6, <1>7, <1>13, <2>3
    <3>2. after[t[i]] = rows[s[from(i)]] /\ after[t[j]] = rows[s[from(j)]]
      BY <1>5, <1>6, <2>3
    <3>3. QED
      BY <3>1, <3>2 DEF Lists
  <2>4. QED
    BY <2>1, <2>2, <2>3
<1>14. Lists(t, after)
  BY <1>2, <1>11, <1>12, <1>13 DEF Lists
<1>15. QED
  BY <1>14 DEF t, after

\* What the promise says of a list, of any list.
Without(s, e) == IF e \in ToSet(s) THEN RemoveAt(s, Promise!At(s, e)) ELSE s

PutIn(s, j) ==
    IF j.at \in {"before", "after"} /\ j.beside = j.element THEN s
    ELSE InsertAt(Without(s, j.element), Promise!Gap(Without(s, j.element), j), j.element)

DoableIn(s, j) ==
    /\ j.does = "insert" => j.element \notin ToSet(s)
    /\ j.at \in {"before", "after"} => j.beside \in ToSet(s)

AfterIn(s, j) ==
    IF j.does = "remove" THEN Without(s, j.element)
    ELSE IF j.does = "move" /\ j.element \notin ToSet(s) THEN s
    ELSE PutIn(s, j)

\* It says that of the order as the table has it.
LEMMA PromisedOf ==
    ASSUME NEW j
    PROVE  /\ Promise!Doable(j) = DoableIn(Order, j)
           /\ Promise!After(j) = AfterIn(Order, j)
           /\ \A e : Promise!Holds(e) <=> e \in ToSet(Order)
<1>1. \A e : Promise!Holds(e) = (e \in ToSet(Order))
  BY DEF Promise!Holds, Promise!ToSet, ToSet
<1>2. \A e : Promise!Others(e) = Without(Order, e)
  BY <1>1 DEF Promise!Others, Without, Promise!RemoveAt, RemoveAt
<1>3. Promise!Placed(j) = PutIn(Order, j)
  BY <1>2 DEF Promise!Placed, PutIn, Promise!InsertAt, InsertAt
<1>4. Promise!Doable(j) = DoableIn(Order, j)
  BY <1>1 DEF Promise!Doable, DoableIn
<1>5. Promise!After(j) = AfterIn(Order, j)
  BY <1>1, <1>2, <1>3 DEF Promise!After, AfterIn
<1>6. QED
  BY <1>1, <1>4, <1>5

\* Which of the others a place is after, by their keys.
Stands(j, f, rows) ==
    \/ j.at = "last"
    \/ j.at = "before" /\ Less(rows[f], rows[j.beside])
    \/ j.at = "after" /\ ~ Less(rows[j.beside], rows[f])

\* A key is where it was asked to be.
Fits(k, j, rows) ==
    \A f \in Rows(rows) \ {j.element} :
        IF Stands(j, f, rows) THEN Less(rows[f], k) ELSE Less(k, rows[f])

\* Where a row of a list stands.
LEMMA AtIs ==
    ASSUME NEW rows \in [Elements -> Ends], NEW s, Lists(s, rows), NEW e \in Rows(rows)
    PROVE  /\ Promise!At(s, e) \in 1..Len(s) /\ s[Promise!At(s, e)] = e
           /\ e \in ToSet(s)
<1>1. \E i \in 1..Len(s) : s[i] = e
  BY DEF Lists
<1>2. QED
  BY <1>1, ListHas DEF Promise!At

\* A list without an element lists the rows without its row.
LEMMA WithoutLists ==
    ASSUME NEW rows \in [Elements -> Ends], NEW s, Lists(s, rows), NEW e \in Elements
    PROVE  Lists(Without(s, e), [rows EXCEPT ![e] = NoKey])
<1>1. CASE e \in ToSet(s)
  <2>1. e \in Rows(rows)
    BY <1>1, ListHas
  <2>2. Promise!At(s, e) \in 1..Len(s) /\ s[Promise!At(s, e)] = e
    BY <2>1, AtIs
  <2>3. Lists(RemoveAt(s, Promise!At(s, e)), [rows EXCEPT ![s[Promise!At(s, e)]] = NoKey])
    BY <2>2, ListWithout
  <2>4. QED
    BY <1>1, <2>2, <2>3 DEF Without
<1>2. CASE e \notin ToSet(s)
  <2>1. e \notin Rows(rows)
    BY <1>2, ListHas
  <2>2. [rows EXCEPT ![e] = NoKey] = rows
    BY <2>1 DEF Rows
  <2>3. QED
    BY <1>2, <2>2 DEF Without
<1>3. QED
  BY <1>1, <1>2

\* The gap of a place is where those it is after end.
LEMMA GapIs ==
    ASSUME NEW j \in Jobs, NEW rows \in [Elements -> Ends], NEW s, Lists(s, rows),
           j.at \in {"before", "after"} => j.beside \in Rows(rows)
    PROVE  /\ Promise!Gap(s, j) \in 1..(Len(s) + 1)
           /\ \A i \in 1..Len(s) : i < Promise!Gap(s, j) <=> Stands(j, s[i], rows)
<1>1. Len(s) \in Nat /\ j.at \in Places
  BY ListHas DEF Jobs
<1>2. CASE j.at = "first"
  BY <1>1, <1>2 DEF Promise!Gap, Stands
<1>3. CASE j.at = "last"
  BY <1>1, <1>3 DEF Promise!Gap, Stands
<1>4. CASE j.at \in {"before", "after"}
  <2> DEFINE b == Promise!At(s, j.beside)
  <2>1. b \in 1..Len(s) /\ s[b] = j.beside
    BY <1>4, AtIs
  <2>2. \A i \in 1..Len(s) : /\ Less(rows[s[i]], rows[j.beside]) <=> i < b
                             /\ Less(rows[j.beside], rows[s[i]]) <=> b < i
    BY <2>1, ListHas
  <2> HIDE DEF b
  <2>3. CASE j.at = "before"
    <3>1. Promise!Gap(s, j) = b
      BY <2>3 DEF Promise!Gap, b
    <3>2. QED
      BY <1>1, <2>1, <2>2, <2>3, <3>1 DEF Stands
  <2>4. CASE j.at = "after"
    <3>1. Promise!Gap(s, j) = b + 1
      BY <2>4 DEF Promise!Gap, b
    <3>2. QED
      BY <1>1, <2>1, <2>2, <2>4, <3>1 DEF Stands
  <2>5. QED
    BY <1>4, <2>3, <2>4
<1>5. QED
  BY <1>1, <1>2, <1>3, <1>4 DEF Places

\* A row written where it was asked to be leaves the list that was asked for.
LEMMA PutLists ==
    ASSUME NEW j \in Jobs, NEW rows \in [Elements -> Ends], NEW s, Lists(s, rows),
           NEW k \in Keys, Fits(k, j, rows),
           j.at \in {"before", "after"} => j.beside \in Rows(rows)
    PROVE  \/ Lists(PutIn(s, j), [rows EXCEPT ![j.element] = k])
           \/ j.element \notin Rows(rows) /\ j.at \in {"before", "after"} /\ j.beside = j.element
<1> DEFINE e == j.element
           after == [rows EXCEPT ![e] = k]
<1>1. e \in Elements /\ j.beside \in Elements /\ j.at \in Places
  BY DEF Jobs
<1>2. CASE j.at \in {"before", "after"} /\ j.beside = e
  <2>1. e \in Rows(rows) /\ PutIn(s, j) = s
    BY <1>2 DEF PutIn
  <2>2. k # NoKey
    BY NoKeyFirst
  <2>3. \A f \in Elements : after[f] = IF f = e THEN k ELSE rows[f]
    BY <1>1
  <2> HIDE DEF after
  <2>4. Rows(after) = Rows(rows)
    BY <2>1, <2>2, <2>3 DEF Rows
  <2>5. \A i \in 1..Len(s) : s[i] \in Elements /\ s[i] \in Rows(rows)
    BY ListHas
  <2>6. ASSUME NEW i \in 1..Len(s), NEW m \in 1..Len(s), i < m
        PROVE  Less(after[s[i]], after[s[m]])
    <3>1. Less(rows[s[i]], rows[s[m]]) /\ s[i] # s[m]
      <4>1. Less(rows[s[i]], rows[s[m]]) /\ i # m
        BY <2>6, ListHas
      <4>2. QED
        BY <4>1, ListHas
    <3>2. rows[s[i]] \in Keys /\ rows[s[m]] \in Keys
      BY ListHas
    <3>3. CASE s[m] = e
      <4>1. Stands(j, s[i], rows)
        BY <1>2, <3>1, <3>2, <3>3, LessStrict DEF Stands
      <4>2. Less(rows[s[i]], k)
        BY <2>5, <3>1, <3>3, <4>1 DEF Fits
      <4>3. QED
        BY <2>3, <2>5, <3>1, <3>3, <4>2
    <3>4. CASE s[i] = e
      <4>1. ~ Stands(j, s[m], rows)
        BY <1>2, <3>1, <3>2, <3>4, LessStrict DEF Stands
      <4>2. Less(k, rows[s[m]])
        BY <2>5, <3>1, <3>4, <4>1 DEF Fits
      <4>3. QED
        BY <2>3, <2>5, <3>1, <3>4, <4>2
    <3>5. CASE s[i] # e /\ s[m] # e
      BY <2>3, <2>5, <3>1, <3>5
    <3>6. QED
      BY <3>3, <3>4, <3>5
  <2>7. \A i \in 1..Len(s) : after[s[i]] # NoKey
    BY <2>4, <2>5 DEF Rows
  <2>8. Lists(s, after)
    BY <2>4, <2>6, <2>7 DEF Lists
  <2>9. QED
    BY <2>1, <2>8 DEF after
<1>3. CASE ~ (j.at \in {"before", "after"} /\ j.beside = e)
  <2> DEFINE t == Without(s, e)
             others == [rows EXCEPT ![e] = NoKey]
             g == Promise!Gap(t, j)
  <2>1. Lists(t, others) /\ others \in [Elements -> Ends]
    BY <1>1, WithoutLists DEF Ends
  <2>2. \A f \in Elements : others[f] = IF f = e THEN NoKey ELSE rows[f]
    BY <1>1
  <2>3. PutIn(s, j) = InsertAt(t, g, e)
    BY <1>3 DEF PutIn
  <2>4. [others EXCEPT ![e] = k] = after
    BY <1>1
  <2> HIDE DEF t, others
  <2>5. j.at \in {"before", "after"} => j.beside \in Rows(others)
    BY <1>1, <1>3, <2>2 DEF Rows
  <2>6. g \in 1..(Len(t) + 1) /\ \A i \in 1..Len(t) : i < g <=> Stands(j, t[i], others)
    BY <2>1, <2>5, GapIs
  <2> HIDE DEF g
  <2>7. ASSUME NEW i \in 1..Len(t)
        PROVE  IF i < g THEN Less(others[t[i]], k) ELSE Less(k, others[t[i]])
    <3>1. t[i] \in Rows(others)
      BY <2>1, ListHas
    <3>2. t[i] \in Rows(rows) \ {e} /\ others[t[i]] = rows[t[i]]
      BY <2>2, <3>1 DEF Rows
    <3>3. Stands(j, t[i], others) <=> Stands(j, t[i], rows)
      BY <1>1, <1>3, <2>2, <3>2 DEF Stands
    <3>4. QED
      BY <2>6, <3>2, <3>3 DEF Fits
  <2>8. others[e] = NoKey
    BY <1>1, <2>2
  <2>9. Lists(InsertAt(t, g, e), [others EXCEPT ![e] = k])
    BY <1>1, <2>1, <2>6, <2>7, <2>8, ListWith
  <2>10. QED
    BY <2>3, <2>4, <2>9 DEF g
<1>4. QED
  BY <1>2, <1>3

\* The least and the greatest of some keys, beside any of them.
LEMMA EndsOf ==
    ASSUME NEW ks \in SUBSET Keys, NEW k \in ks,
           \A x, y \in ks : x = y \/ Less(x, y) \/ Less(y, x)
    PROVE  /\ \A l \in Least(ks) : l \in ks /\ (l = k \/ Less(l, k))
           /\ \A l \in Greatest(ks) : l \in ks /\ (l = k \/ Less(k, l))
BY DEF Least, Greatest

\* The key of a place is where it was asked to be.
LEMMA PlaceFits ==
    ASSUME CollectionInv, NEW w \in Writers, op[w].phase = "place", NEW s, Lists(s, Seen(w)),
           op[w].job.at \in {"before", "after"} =>
               /\ op[w].job.beside \in Rows(Seen(w))
               /\ op[w].beside = Seen(w)[op[w].job.beside],
           NEW n \in Neighbours(w)
    PROVE  LET k == OrderKeyBetween(n[1], n[2]) IN
           k \in Keys /\ Fits(k, op[w].job, Seen(w))
<1> DEFINE j == op[w].job
           at == op[w].beside
           seen == Seen(w)
           others == Rows(seen) \ (IF j.does = "move" THEN {j.element} ELSE {})
           ks == {seen[f] : f \in others}
           k == OrderKeyBetween(n[1], n[2])
<1>1. n[1] \in Ends /\ n[2] \in Ends /\ ~ OutOfOrder(n[1], n[2])
  BY NeighboursInOrder
<1>2. k \in Keys /\ Less(n[1], k) /\ (n[2] # NoKey => Less(k, n[2]))
  BY <1>1, BetweenSorts
<1>3. j \in Jobs /\ j.at \in Places
  BY WriterIs
<1>4. seen \in [Elements -> Ends]
  BY SeenIs
<1>5. n \in (CASE j.at = "first"  -> {NoKey} \X Least(ks)
               [] j.at = "before" -> Greatest({l \in ks : Less(l, at)}) \X {at}
               [] j.at = "after"  -> {at} \X Least({l \in ks : Less(at, l)})
               [] j.at = "last"   -> Greatest(ks) \X {NoKey})
  BY DEF Neighbours
<1>6. /\ j.at \in {"before", "after"} => j.beside \in Rows(seen) /\ at = seen[j.beside]
      /\ Lists(s, seen)
  OBVIOUS
<1> HIDE DEF k, seen, others, j, at
<1>7. others \subseteq Rows(seen) /\ Rows(seen) \ {j.element} \subseteq others
  BY DEF others
<1>8. ks \in SUBSET Keys /\ \A x, y \in ks : x = y \/ Less(x, y) \/ Less(y, x)
  BY <1>4, <1>6, <1>7, ListSorts
<1>9. ASSUME NEW f \in Rows(seen) \ {j.element}
      PROVE  IF Stands(j, f, seen) THEN Less(seen[f], k) ELSE Less(k, seen[f])
  <2>1. seen[f] \in ks /\ seen[f] \in Keys
    BY <1>4, <1>6, <1>7, <1>9, ListSorts
  <2> HIDE DEF ks
  <2>2. CASE j.at = "first"
    <3>1. ~ Stands(j, f, seen)
      BY <2>2 DEF Stands
    <3>2. n[2] \in Least(ks)
      BY <1>5, <2>2
    <3>3. n[2] \in Keys /\ (n[2] = seen[f] \/ Less(n[2], seen[f]))
      BY <1>8, <2>1, <3>2, EndsOf
    <3>4. Less(k, n[2])
      BY <1>2, <3>3, NoKeyFirst
    <3>5. QED
      BY <1>2, <2>1, <3>1, <3>3, <3>4, LessTransitive
  <2>3. CASE j.at = "last"
    <3>1. Stands(j, f, seen)
      BY <2>3 DEF Stands
    <3>2. n[1] \in Greatest(ks)
      BY <1>5, <2>3
    <3>3. n[1] \in Keys /\ (n[1] = seen[f] \/ Less(seen[f], n[1]))
      BY <1>8, <2>1, <3>2, EndsOf
    <3>4. QED
      BY <1>2, <2>1, <3>1, <3>3, LessTransitive
  <2>4. CASE j.at = "before"
    <3> DEFINE below == {l \in ks : Less(l, at)}
    <3>1. at \in Keys /\ at = seen[j.beside] /\ (at = seen[f] \/ Less(at, seen[f]) \/ Less(seen[f], at))
      BY <1>4, <1>6, <1>9, <2>4, ListSorts
    <3>2. n[1] \in Greatest(below) /\ n[2] = at
      BY <1>5, <2>4
    <3>3. Less(k, at)
      BY <1>2, <3>1, <3>2, NoKeyFirst
    <3>4. CASE Stands(j, f, seen)
      <4>1. Less(seen[f], at)
        BY <2>4, <3>1, <3>4 DEF Stands
      <4>2. /\ below \in SUBSET Keys /\ seen[f] \in below
            /\ \A x, y \in below : x = y \/ Less(x, y) \/ Less(y, x)
        BY <1>8, <2>1, <4>1
      <4> HIDE DEF below
      <4>3. n[1] \in Keys /\ (n[1] = seen[f] \/ Less(seen[f], n[1]))
        BY <3>2, <4>2, EndsOf
      <4>4. QED
        BY <1>2, <2>1, <3>4, <4>3, LessTransitive
    <3>5. CASE ~ Stands(j, f, seen)
      <4>1. at = seen[f] \/ Less(at, seen[f])
        BY <2>4, <3>1, <3>5 DEF Stands
      <4>2. QED
        BY <1>2, <2>1, <3>1, <3>3, <3>5, <4>1, LessTransitive
    <3>6. QED
      BY <3>4, <3>5
  <2>5. CASE j.at = "after"
    <3> DEFINE above == {l \in ks : Less(at, l)}
    <3>1. at \in Keys /\ at = seen[j.beside] /\ (at = seen[f] \/ Less(at, seen[f]) \/ Less(seen[f], at))
      BY <1>4, <1>6, <1>9, <2>5, ListSorts
    <3>2. n[2] \in Least(above) /\ n[1] = at
      BY <1>5, <2>5
    <3>3. Less(at, k)
      BY <1>2, <3>2
    <3>4. CASE Stands(j, f, seen)
      <4>1. at = seen[f] \/ Less(seen[f], at)
        BY <2>5, <3>1, <3>4 DEF Stands
      <4>2. QED
        BY <1>2, <2>1, <3>1, <3>3, <3>4, <4>1, LessTransitive
    <3>5. CASE ~ Stands(j, f, seen)
      <4>1. Less(at, seen[f])
        BY <2>5, <3>1, <3>5 DEF Stands
      <4>2. /\ above \in SUBSET Keys /\ seen[f] \in above
            /\ \A x, y \in above : x = y \/ Less(x, y) \/ Less(y, x)
        BY <1>8, <2>1, <4>1
      <4> HIDE DEF above
      <4>3. n[2] \in Keys /\ (n[2] = seen[f] \/ Less(n[2], seen[f]))
        BY <3>2, <4>2, EndsOf
      <4>4. Less(k, n[2])
        BY <1>2, <4>3, NoKeyFirst
      <4>5. QED
        BY <1>2, <2>1, <3>5, <4>3, <4>4, LessTransitive
    <3>6. QED
      BY <3>4, <3>5
  <2>6. QED
    BY <1>3, <2>2, <2>3, <2>4, <2>5 DEF Places
<1>10. Fits(k, j, seen)
  BY <1>9 DEF Fits
<1>11. QED
  BY <1>2, <1>10 DEF k, j, seen

-----------------------------------------------------------------------------
(* What one writer's operation rests on. *)

\* What an operation sees: what it wrote, and what is committed for the rest.
SeenOf(o, rows) == [e \in Elements |-> IF e \in o.held THEN o.mine[e] ELSE rows[e]]

\* The first rows of a list are rewritten, the rest are to be.
Rewriting(rest, s, rows) ==
    /\ Len(rest) <= Len(s)
    /\ \A i \in 1..Len(rest) :
          rest[i] = [element |-> s[Len(s) - Len(rest) + i],
                     key |-> EvenKeys(Len(s))[Len(s) - Len(rest) + i]]
    /\ \A i \in 1..Len(s) :
          s[i] \in Rows(rows) /\ (i <= Len(s) - Len(rest) => rows[s[i]] = EvenKeys(Len(s))[i])
    /\ Rows(rows) = ToSet(s)

\* Where an operation is, what it sees stands as what is committed does; when
\* it has written, as it was asked.
Course(o, rows) ==
    LET seen == SeenOf(o, rows)
        s == ListOf(rows)
        j == o.job
        beside == j.at \in {"before", "after"}
    IN  /\ o.phase # "idle" /\ ~o.within => j.does = "remove"
        /\ o.phase # "idle" /\ j.does = "remove" => o.phase \in {"write", "commit"}
        /\ o.phase \in {"place", "rows", "rewrite", "write", "commit"} /\ beside =>
              rows[j.beside] # NoKey
        /\ o.phase = "beside" => beside
        /\ o.phase = "place" /\ beside => o.beside = seen[j.beside]
        /\ o.phase \in {"beside", "place", "rows", "write"} => Lists(s, seen)
        /\ o.phase = "rewrite" => Rewriting(o.rest, s, seen)
        /\ o.phase = "write" /\ j.does # "remove" => Fits(o.key, j, seen)
        /\ o.phase = "commit" => Lists(AfterIn(s, j), seen) /\ DoableIn(s, j)

\* The table is a list in order of its keys, and the operation under way is
\* where it should be.
InPlace ==
    /\ Lists(ListOf(db), db)
    /\ \A w \in Writers : Course(op[w], db)

\* The invariant of one writer.
OrderInv == CollectionInv /\ InPlace

\* What an operation that holds nothing sees is what is committed.
LEMMA SeesCommitted ==
    ASSUME NEW rows \in [Elements -> Ends], NEW o, o.held = {}
    PROVE  SeenOf(o, rows) = rows
BY DEF SeenOf

\* What a writer sees is what its operation says.
LEMMA SeesAs ==
    ASSUME NEW w \in Writers
    PROVE  Seen(w) = SeenOf(op[w], db)
BY DEF Seen, SeenOf

\* An operation that is over is nowhere.
LEMMA IdleInPlace ==
    ASSUME NEW r, NEW rows
    PROVE  Course(Idle(r), rows)
BY DEF Course, Idle

\* A step within an operation that writes nothing to the table is none of the
\* promise's.
LEMMA StepWithin ==
    ASSUME OrderInv, NEW w, Writers = {w}, NEW o,
           op' = [op EXCEPT ![w] = o], db' = db,
           o.job = op[w].job, o.result = op[w].result, Course(o, db)
    PROVE  InPlace' /\ UNCHANGED Promise!vars
<1>1. op = [v \in Writers |-> op[v]]
  BY DEF OrderInv, CollectionInv
<1>2. op'[w] = o
  BY <1>1
<1>3. Order' = Order
  BY OrderIs
<1>4. InPlace'
  BY <1>2 DEF OrderInv, InPlace
<1>5. \A v \in Writers : op'[v].job = op[v].job /\ op'[v].result = op[v].result
  BY <1>2
<1>6. QED
  BY <1>3, <1>4, <1>5 DEF Promise!vars

\* The list of the table after a step that leaves it as was asked, or as it was.
LEMMA ListAfter ==
    ASSUME OrderInv, db' \in [Elements -> Ends], NEW s, Lists(s, db')
    PROVE  Order' = s /\ Lists(ListOf(db), db)'
<1>1. ListOf(db') = s
  BY OneList
<1>2. Order' = ListOf(db')
  BY OrderIs
<1>3. QED
  BY <1>1, <1>2

\* The promise's own state, before a step that ends an operation and after it.
LEMMA PromisedAnswer ==
    ASSUME OrderInv, NEW w, Writers = {w}, op[w].phase # "idle", NEW r,
           op' = [op EXCEPT ![w] = Idle(r)]
    PROVE  /\ [v \in Writers |-> op[v].job][w] = op[w].job /\ op[w].job # NoJob
           /\ Promise!Answer(w, r)
           /\ \A v \in Writers : Course(op'[v], db')
<1>1. op = [v \in Writers |-> op[v]]
  BY DEF OrderInv, CollectionInv
<1>2. op[w].job # NoJob
  BY WriterIs DEF OrderInv
<1>3. op'[w] = Idle(r) /\ Idle(r).job = NoJob /\ Idle(r).result = r
  BY <1>1 DEF Idle
<1>4. /\ [v \in Writers |-> op'[v].job] = [[v \in Writers |-> op[v].job] EXCEPT ![w] = NoJob]
      /\ [v \in Writers |-> op'[v].result] = [[v \in Writers |-> op[v].result] EXCEPT ![w] = r]
  <2>1. \A v \in Writers : v = w
    OBVIOUS
  <2>2. /\ [v \in Writers |-> op'[v].job] = [v \in Writers |-> NoJob]
        /\ [v \in Writers |-> op'[v].result] = [v \in Writers |-> r]
    BY <1>3, <2>1
  <2>3. \A x, f : [[v \in Writers |-> f[v]] EXCEPT ![w] = x] = [v \in Writers |-> x]
    BY <2>1
  <2>4. QED
    BY <2>1, <2>2
<1>5. QED
  BY <1>2, <1>3, <1>4, IdleInPlace DEF Promise!Answer

\* An operation that is done, or may be, has done what it was asked at once.
LEMMA DoneAtOnce ==
    ASSUME OrderInv, NEW w, Writers = {w}, op[w].phase # "idle", NEW r \in {"done", "fault"},
           op' = [op EXCEPT ![w] = Idle(r)], db' \in [Elements -> Ends],
           DoableIn(ListOf(db), op[w].job), Lists(AfterIn(ListOf(db), op[w].job), db')
    PROVE  InPlace' /\ Promise!Next
<1> DEFINE j == op[w].job
<1>1. [v \in Writers |-> op[v].job][w] = j /\ j # NoJob /\ Promise!Answer(w, r)
  BY PromisedAnswer
<1>2. InPlace'
  BY PromisedAnswer, ListAfter, OneList DEF InPlace
<1>3. Order' = AfterIn(ListOf(db), j)
  BY ListAfter
<1>4. Promise!Doable(j) /\ Order' = Promise!After(j)
  BY <1>3, PromisedOf, OrderIs
<1> HIDE DEF j
<1>5. r = "done" => Promise!Do(w)
  BY <1>1, <1>4 DEF Promise!Do
<1>6. r = "fault" => Promise!GiveUp(w)
  BY <1>1, <1>4 DEF Promise!GiveUp
<1>7. QED
  BY <1>1, <1>2, <1>5, <1>6 DEF Promise!Next

\* An operation that ends otherwise has done nothing, and has a reason.
LEMMA NothingDone ==
    ASSUME OrderInv, NEW w, Writers = {w}, op[w].phase # "idle", NEW r,
           op' = [op EXCEPT ![w] = Idle(r)], db' = db,
           \/ r = "fault"
           \/ r = "there" /\ op[w].job.does = "insert" /\ db[op[w].job.element] # NoKey
           \/ r = "absent" /\ op[w].job.at \in {"before", "after"} /\ db[op[w].job.beside] = NoKey
    PROVE  InPlace' /\ Promise!Next
<1> DEFINE j == op[w].job
<1>1. [v \in Writers |-> op[v].job][w] = j /\ j # NoJob /\ Promise!Answer(w, r)
  BY PromisedAnswer
<1>2. InPlace'
  BY PromisedAnswer DEF OrderInv, InPlace
<1>3. Order' = Order
  BY OrderIs
<1>4. j.element \in Elements /\ j.beside \in Elements
  BY WriterIs DEF OrderInv
<1>5. ToSet(Order) = Rows(db)
  BY ListHas, OrderIs DEF OrderInv, InPlace, CollectionInv
<1>6. /\ \A e \in Elements : Promise!Holds(e) <=> db[e] # NoKey
      /\ j.at \in {"before", "after"} /\ db[j.beside] = NoKey => ~ Promise!Doable(j)
      /\ j.does = "insert" /\ db[j.element] # NoKey => ~ Promise!Doable(j)
  BY <1>4, <1>5, PromisedOf DEF Rows, DoableIn
<1> HIDE DEF j
<1>7. CASE r = "fault"
  BY <1>1, <1>2, <1>3, <1>7 DEF Promise!Next, Promise!GiveUp
<1>8. CASE r = "there" /\ j.does = "insert" /\ db[j.element] # NoKey
  <2>1. Promise!Refuse(w)
    BY <1>1, <1>3, <1>4, <1>6, <1>8 DEF Promise!Refuse
  <2>2. QED
    BY <1>1, <1>2, <2>1 DEF Promise!Next
<1>9. CASE r = "absent" /\ j.at \in {"before", "after"} /\ db[j.beside] = NoKey
  <2>1. Promise!Refuse(w)
    BY <1>1, <1>3, <1>4, <1>6, <1>9 DEF Promise!Refuse
  <2>2. QED
    BY <1>1, <1>2, <2>1 DEF Promise!Next
<1>10. QED
  BY <1>7, <1>8, <1>9 DEF j

\* Asking is the promise's asking.
LEMMA StartKeeps ==
    ASSUME OrderInv, NEW w, Writers = {w}, \A a \in Alone : a.does = "remove",
           NEW j \in May, NEW within \in BOOLEAN, Start(w, j, within)
    PROVE  InPlace' /\ Promise!Next
<1> DEFINE o == [Idle("none") EXCEPT !.job = j, !.within = within,
                     !.phase = IF j.does = "remove" THEN "write" ELSE Looking(j)]
<1>1. op = [v \in Writers |-> op[v]] /\ db \in [Elements -> Ends] /\ op[w].job = NoJob
  BY DEF OrderInv, CollectionInv, Found, Start
<1>2. op' = [op EXCEPT ![w] = o] /\ db' = db /\ (within \/ j.does = "remove")
  BY DEF Start
<1>3. /\ o.job = j /\ o.result = "none" /\ o.held = {} /\ o.within = within
      /\ o.phase = IF j.does = "remove" THEN "write" ELSE Looking(j)
  BY DEF Idle
<1>4. j \in Jobs /\ (j.does = "remove" => j.at = "last")
  BY CollectionAssumption DEF Jobs
<1> HIDE DEF o
<1>5. op'[w] = o
  BY <1>1, <1>2
<1>6. SeenOf(o, db) = db
  BY <1>1, <1>3, SeesCommitted
<1>7. Course(o, db)
  <2>1. Lists(ListOf(db), db)
    BY DEF OrderInv, InPlace
  <2>2. QED
    BY <1>2, <1>3, <1>4, <1>6, <2>1 DEF Course, Looking
<1>8. InPlace'
  BY <1>2, <1>5, <1>7 DEF OrderInv, InPlace
<1>9. Order' = Order
  BY <1>2, OrderIs
<1>10. /\ [v \in Writers |-> op'[v].job] = [[v \in Writers |-> op[v].job] EXCEPT ![w] = j]
       /\ [v \in Writers |-> op'[v].result] = [[v \in Writers |-> op[v].result] EXCEPT ![w] = "none"]
       /\ [v \in Writers |-> op[v].job][w] = NoJob
  BY <1>1, <1>3, <1>5
<1>11. Promise!Ask(w, j)
  BY <1>9, <1>10 DEF Promise!Ask
<1>12. QED
  BY <1>4, <1>8, <1>11 DEF Promise!Next

\* The rows in the order they stand are the list of them.
LEMMA StandingIs ==
    ASSUME NEW rows \in [Elements -> Ends], NEW s, Lists(s, rows), NEW t \in Standing(rows)
    PROVE  t = s
<1> DEFINE n == Len(s)
<1>1. n \in Nat /\ Rows(rows) \subseteq Elements
  BY ListHas DEF Rows
<1>2. Rows(rows) = {s[i] : i \in 1..n}
  BY ListHas DEF ToSet
<1>3. n \in 0..Len(s)
  BY <1>1
<1>4. IsFiniteSet(Rows(rows)) /\ Cardinality(Rows(rows)) = n
  BY <1>2, <1>3, FirstOf
<1>5. /\ t \in [1..n -> Rows(rows)]
      /\ \A i, j \in 1..n : i < j => t[i] # t[j] /\ ~ Less(rows[t[j]], rows[t[i]])
  BY <1>4 DEF Standing
<1>6. \A e \in Rows(rows) : \E i \in 1..n : t[i] = e
  <2>1. IsFiniteSet(1..n) /\ Cardinality(1..n) = n
    <3>1. 1 \in Int /\ n \in Int /\ n \in Nat
      BY <1>1
    <3> HIDE DEF n
    <3>2. QED
      BY <3>1, FS_Interval
  <2>2. \A i, j \in 1..n : t[i] = t[j] => i = j
    <3>1. \A i, j \in 1..n : i = j \/ i < j \/ j < i
      BY <1>1
    <3>2. QED
      BY <1>5, <3>1
  <2>3. t \in Injection(1..n, Rows(rows))
    BY <1>5, <2>2 DEF Injection, IsInjective
  <2>4. t \in Surjection(1..n, Rows(rows))
    BY <1>4, <2>1, <2>3, FS_Injection
  <2>5. QED
    BY <2>4 DEF Surjection
<1>7. t \in Seq(Elements) /\ Len(t) = n
  BY <1>1, <1>5
<1>8. \A i \in 1..n : rows[t[i]] # NoKey
  BY <1>5 DEF Rows
<1>9. ASSUME NEW i \in 1..n, NEW j \in 1..n, i < j PROVE Less(rows[t[i]], rows[t[j]])
  <2>1. t[i] \in Rows(rows) /\ t[j] \in Rows(rows) /\ t[i] # t[j] /\ ~ Less(rows[t[j]], rows[t[i]])
    BY <1>5, <1>9
  <2>2. QED
    BY <2>1, ListSorts
<1>10. Lists(t, rows)
  BY <1>6, <1>7, <1>8, <1>9 DEF Lists
<1>11. QED
  BY <1>10, OneList

\* A row is rewritten: the next of the list is what it was to be.
LEMMA OneRewritten ==
    ASSUME NEW rows0 \in [Elements -> Ends], NEW s, Lists(s, rows0),
           NEW rows \in [Elements -> Ends], NEW rest \in Seq(RowOf), rest # << >>,
           Rewriting(rest, s, rows)
    PROVE  LET row == Head(rest) IN
           /\ row.element \in Rows(rows) /\ row.key \in Keys
           /\ Rewriting(Tail(rest), s, [rows EXCEPT ![row.element] = row.key])
<1> DEFINE n == Len(s)
           m == n - Len(rest)
           e == Head(rest).element
           k == Head(rest).key
           after == [rows EXCEPT ![e] = k]
           left == Tail(rest)
           even == EvenKeys(n)
<1>1. n \in Nat /\ Len(rest) \in Nat /\ Len(rest) >= 1 /\ Len(rest) <= n
  BY ListHas DEF Rewriting
<1>2. m \in Nat /\ m + 1 \in 1..n
  BY <1>1
<1>3. Head(rest) = rest[1] /\ rest[1] \in RowOf /\ rest[1] = [element |-> s[m + 1], key |-> even[m + 1]]
  BY <1>1 DEF Rewriting
<1>4. e = s[m + 1] /\ k = even[m + 1] /\ e \in Elements /\ k \in Keys
  BY <1>3 DEF RowOf
<1>5. left \in Seq(RowOf) /\ Len(left) = Len(rest) - 1 /\ \A i \in 1..Len(left) : left[i] = rest[i + 1]
  BY <1>1
<1>6. Rows(rows) = ToSet(s) /\ e \in Rows(rows)
  BY <1>2, <1>4 DEF Rewriting
<1>7. \A f \in Elements : after[f] = IF f = e THEN k ELSE rows[f]
  BY <1>4
<1>8. k # NoKey
  BY <1>4, NoKeyFirst
<1> HIDE DEF after, left, e, k
<1>9. Rows(after) = Rows(rows)
  BY <1>6, <1>7, <1>8 DEF Rows
<1>10. Len(left) <= n
  BY <1>1, <1>5
<1>11. \A i \in 1..Len(left) : left[i] = [element |-> s[n - Len(left) + i], key |-> even[n - Len(left) + i]]
  <2>1. SUFFICES ASSUME NEW i \in 1..Len(left)
                 PROVE  left[i] = [element |-> s[n - Len(left) + i], key |-> even[n - Len(left) + i]]
    OBVIOUS
  <2>2. i + 1 \in 1..Len(rest) /\ n - Len(left) + i = n - Len(rest) + (i + 1)
    BY <1>1, <1>5
  <2>3. rest[i + 1] = [element |-> s[n - Len(rest) + (i + 1)], key |-> even[n - Len(rest) + (i + 1)]]
    BY <2>2 DEF Rewriting
  <2>4. left[i] = rest[i + 1]
    BY <1>5
  <2> HIDE DEF even
  <2>5. QED
    BY <2>2, <2>3, <2>4
<1>12. ASSUME NEW i \in 1..n
       PROVE  s[i] \in Rows(after) /\ (i <= n - Len(left) => after[s[i]] = even[i])
  <2>1. s[i] \in Rows(rows) /\ s[i] \in Elements
    BY ListHas DEF Rewriting
  <2>2. s[i] = e <=> i = m + 1
    BY <1>2, <1>4, ListHas
  <2>3. i <= m => rows[s[i]] = even[i]
    BY DEF Rewriting
  <2>4. n - Len(left) = m + 1
    BY <1>1, <1>5
  <2>5. i <= m + 1 => i <= m \/ i = m + 1
    BY <1>2
  <2> HIDE DEF even, m
  <2>6. i = m + 1 => after[s[i]] = even[i]
    BY <1>4, <1>7, <2>1, <2>2
  <2>7. i <= m => after[s[i]] = even[i] \/ s[i] = e
    BY <1>7, <2>1, <2>3
  <2>8. QED
    BY <1>9, <2>1, <2>2, <2>4, <2>5, <2>6, <2>7
<1>13. Rewriting(left, s, after)
  BY <1>6, <1>9, <1>10, <1>11, <1>12 DEF Rewriting
<1>14. QED
  BY <1>4, <1>6, <1>13 DEF left, after, e, k

\* When all are rewritten the list stands as it did.
LEMMA AllRewritten ==
    ASSUME NEW rows0 \in [Elements -> Ends], NEW s, Lists(s, rows0),
           NEW rows \in [Elements -> Ends], Rewriting(<< >>, s, rows)
    PROVE  Lists(s, rows)
<1> DEFINE n == Len(s)
<1>1. n \in Nat /\ s \in Seq(Elements) /\ DOMAIN s = 1..n
  BY ListHas DEF Lists
<1>2. \A i \in 1..n : s[i] \in Rows(rows) /\ rows[s[i]] = EvenKeys(n)[i]
  BY <1>1 DEF Rewriting
<1>3. \A i, j \in 1..n : i < j => Less(EvenKeys(n)[i], EvenKeys(n)[j])
  BY <1>1, EvenKeysInOrder
<1>4. \A e \in Rows(rows) : \E i \in 1..n : s[i] = e
  BY <1>1 DEF Rewriting, ToSet
<1>5. \A i \in 1..n : rows[s[i]] # NoKey
  BY <1>2 DEF Rows
<1>6. \A i, j \in 1..n : i < j => Less(rows[s[i]], rows[s[j]])
  BY <1>2, <1>3
<1>7. QED
  BY <1>1, <1>4, <1>5, <1>6 DEF Lists

\* What an operation under way rests on.
LEMMA UnderWay ==
    ASSUME OrderInv, NEW w \in Writers, op[w].phase # "idle"
    PROVE  LET o == op[w]
               s == ListOf(db) IN
           /\ db \in [Elements -> Ends] /\ Lists(s, db) /\ ToSet(s) = Rows(db)
           /\ o \in Op /\ Found(o) /\ Written(o, db) /\ Course(o, db)
           /\ Seen(w) = SeenOf(o, db) /\ Seen(w) \in [Elements -> Ends]
           /\ o.job \in Jobs /\ o.job.element \in Elements /\ o.job.beside \in Elements
           /\ o.job.at \in Places /\ o.job.does \in {"insert", "move", "remove"}
           /\ o.job.does = "remove" => o.job.at = "last"
<1>1. CollectionInv
  BY DEF OrderInv
<1>2. db \in [Elements -> Ends] /\ Lists(ListOf(db), db) /\ Course(op[w], db)
  BY DEF OrderInv, InPlace, CollectionInv
<1>3. ToSet(ListOf(db)) = Rows(db)
  BY <1>2, ListHas
<1>4. op[w].job \in Jobs /\ (op[w].job.does = "remove" => op[w].job.at = "last")
  BY <1>1, WriterIs DEF Jobs
<1>5. Seen(w) = SeenOf(op[w], db) /\ Seen(w) \in [Elements -> Ends]
  BY <1>1, SeesAs, SeenIs
<1>6. QED
  BY <1>1, <1>2, <1>3, <1>4, <1>5, WriterIs

\* Reading the key of the row beside finds it in the list, or it is not there
\* and the operation ends (keyOf).
LEMMA ReadBesideKeeps ==
    ASSUME OrderInv, NEW w, Writers = {w}, ReadBeside(w)
    PROVE  InPlace' /\ [Promise!Next]_(Promise!vars)
<1> DEFINE j == op[w].job
           seen == Seen(w)
           k == seen[j.beside]
           o == [op[w] EXCEPT !.phase = "place", !.beside = k]
           s == ListOf(db)
<1>1. /\ op[w].phase = "beside" /\ op = [v \in Writers |-> op[v]]
      /\ op' = [op EXCEPT ![w] = IF k = NoKey THEN Idle("absent") ELSE o]
      /\ db' = db
  BY DEF ReadBeside, OrderInv, CollectionInv
<1>2. /\ db \in [Elements -> Ends] /\ Lists(s, db) /\ ToSet(s) = Rows(db)
      /\ op[w] \in Op /\ Course(op[w], db)
      /\ seen = SeenOf(op[w], db) /\ seen \in [Elements -> Ends]
      /\ j.beside \in Elements
      /\ j.does \in {"insert", "move", "remove"}
  BY <1>1, UnderWay
<1>3. Lists(s, seen) /\ j.does # "remove" /\ op[w].within
  BY <1>1, <1>2 DEF Course
<1>4. Rows(seen) = Rows(db)
  BY <1>2, <1>3, ListHas
<1>5. k = NoKey <=> db[j.beside] = NoKey
  BY <1>2, <1>4 DEF Rows
<1>6. /\ o.phase = "place" /\ o.beside = k /\ o.job = j /\ o.result = op[w].result
      /\ o.held = op[w].held /\ o.mine = op[w].mine /\ o.within = op[w].within
  BY <1>2 DEF Op
<1> HIDE DEF k, o, seen, s
<1>7. CASE k = NoKey
  <2>1. j.at \in {"before", "after"}
    BY <1>1, <1>2 DEF Course
  <2>2. QED
    BY <1>1, <1>5, <1>7, <2>1, NothingDone
<1>8. CASE k # NoKey
  <2>1. SeenOf(o, db) = seen
    BY <1>2, <1>6 DEF SeenOf
  <2>2. Course(o, db)
    BY <1>3, <1>5, <1>6, <1>8, <2>1 DEF Course, s, k
  <2>3. QED
    BY <1>1, <1>6, <1>8, <2>2, StepWithin
<1>9. QED
  BY <1>7, <1>8

\* Reading the neighbours finds a key for the place that was asked for, within
\* the length or past it (placed).
LEMMA PlaceKeeps ==
    ASSUME OrderInv, NEW w, Writers = {w}, Place(w)
    PROVE  InPlace' /\ [Promise!Next]_(Promise!vars)
<1> DEFINE j == op[w].job
           seen == Seen(w)
           s == ListOf(db)
<1>1. op[w].phase = "place" /\ op = [v \in Writers |-> op[v]] /\ db' = db
  BY DEF Place, Placing, OrderInv, CollectionInv
<1>2. /\ db \in [Elements -> Ends] /\ Lists(s, db) /\ ToSet(s) = Rows(db)
      /\ op[w] \in Op /\ Course(op[w], db)
      /\ seen = SeenOf(op[w], db) /\ seen \in [Elements -> Ends]
      /\ j.beside \in Elements
      /\ j.does \in {"insert", "move", "remove"}
  BY <1>1, UnderWay
<1>3. /\ Lists(s, seen) /\ j.does # "remove" /\ op[w].within
      /\ j.at \in {"before", "after"} => db[j.beside] # NoKey /\ op[w].beside = seen[j.beside]
  BY <1>1, <1>2 DEF Course
<1>4. Rows(seen) = Rows(db)
  BY <1>2, <1>3, ListHas
<1>5. j.at \in {"before", "after"} => j.beside \in Rows(seen)
  BY <1>2, <1>3, <1>4 DEF Rows
<1>6. PICK n \in Neighbours(w) :
          LET k == OrderKeyBetween(n[1], n[2]) IN
          op' = [op EXCEPT ![w] =
                    IF OutOfOrder(n[1], n[2]) THEN Idle("order")
                    ELSE [@ EXCEPT !.key = k, !.phase =
                            IF ~ op[w].again /\ Len(k) > Longest THEN "rows" ELSE "write"]]
  BY DEF Place, Placing
<1>7. ~ OutOfOrder(n[1], n[2])
  BY <1>1, NeighboursInOrder DEF OrderInv
<1> DEFINE k == OrderKeyBetween(n[1], n[2])
           phase == IF ~ op[w].again /\ Len(k) > Longest THEN "rows" ELSE "write"
           o == [op[w] EXCEPT !.key = k, !.phase = phase]
<1>8. k \in Keys /\ Fits(k, j, seen)
  BY <1>1, <1>3, <1>5, PlaceFits DEF OrderInv
<1>9. op' = [op EXCEPT ![w] = o]
  BY <1>6, <1>7
<1> HIDE DEF k
<1>10. /\ o.phase \in {"rows", "write"} /\ o.key = k /\ o.job = j /\ o.result = op[w].result
       /\ o.held = op[w].held /\ o.mine = op[w].mine /\ o.within = op[w].within
  BY <1>2 DEF Op
<1> HIDE DEF o, seen, s
<1>11. SeenOf(o, db) = seen
  BY <1>2, <1>10 DEF SeenOf
<1>12. Course(o, db)
  BY <1>3, <1>8, <1>10, <1>11 DEF Course, s
<1>13. QED
  BY <1>1, <1>9, <1>10, <1>12, StepWithin

\* After the last row the place is found again in a list that stands as it did.
LEMMA GoingOn ==
    ASSUME OrderInv, NEW w \in Writers, op[w].phase \in {"rows", "rewrite"}, NEW o, NEW rest,
           o.job = op[w].job, o.within = op[w].within, o.rest = rest,
           o.phase = Going(op[w].job, rest),
           SeenOf(o, db) \in [Elements -> Ends],
           IF rest = << >> THEN Lists(ListOf(db), SeenOf(o, db))
           ELSE Rewriting(rest, ListOf(db), SeenOf(o, db))
    PROVE  Course(o, db)
<1>1. /\ Course(op[w], db) /\ op[w].job.at \in Places
  BY UnderWay
<1>2. /\ op[w].within /\ op[w].job.does # "remove"
      /\ op[w].job.at \in {"before", "after"} => db[op[w].job.beside] # NoKey
  BY <1>1 DEF Course
<1>3. CASE rest = << >>
  BY <1>2, <1>3 DEF Course, Going, Looking
<1>4. CASE rest # << >>
  BY <1>2, <1>4 DEF Course, Going
<1>5. QED
  BY <1>3, <1>4

\* Reading all rows for new keys reads the list as it stands.
LEMMA ReadRowsKeeps ==
    ASSUME OrderInv, NEW w, Writers = {w}, ReadRows(w)
    PROVE  InPlace' /\ [Promise!Next]_(Promise!vars)
<1> DEFINE seen == Seen(w)
           s == ListOf(db)
           n == Len(s)
           even == EvenKeys(n)
           rest == [i \in 1..n |-> [element |-> s[i], key |-> even[i]]]
           o == [op[w] EXCEPT !.rest = rest, !.again = TRUE, !.phase = Going(op[w].job, rest)]
<1>1. op[w].phase = "rows" /\ op = [v \in Writers |-> op[v]] /\ db' = db
  BY DEF ReadRows, OrderInv, CollectionInv
<1>2. /\ db \in [Elements -> Ends] /\ Lists(s, db) /\ op[w] \in Op /\ Course(op[w], db)
      /\ seen = SeenOf(op[w], db) /\ seen \in [Elements -> Ends]
  BY <1>1, UnderWay
<1>3. Lists(s, seen) /\ n \in Nat
  BY <1>1, <1>2, ListHas DEF Course
<1>4. op' = [op EXCEPT ![w] = o]
  <2>1. PICK t \in Standing(seen) :
            LET each == [i \in 1..Len(t) |-> [element |-> t[i], key |-> EvenKeys(Len(t))[i]]] IN
            op' = [op EXCEPT ![w].rest = each, ![w].again = TRUE, ![w].phase = Going(op[w].job, each)]
    BY DEF ReadRows
  <2>2. t = s
    BY <1>2, <1>3, StandingIs
  <2> HIDE DEF s, seen
  <2>3. op' = [op EXCEPT ![w].rest = rest, ![w].again = TRUE, ![w].phase = Going(op[w].job, rest)]
    BY <2>1, <2>2
  <2> HIDE DEF rest
  <2>4. QED
    BY <1>1, <2>3
<1>5. /\ o.phase = Going(op[w].job, rest) /\ o.rest = rest /\ o.job = op[w].job
      /\ o.result = op[w].result /\ o.held = op[w].held /\ o.mine = op[w].mine
      /\ o.within = op[w].within
  <2> HIDE DEF rest
  <2>1. QED
    BY <1>2 DEF Op
<1>6. Len(rest) = n /\ (rest = << >> <=> n = 0)
  BY <1>3
<1>7. \A i \in 1..n : rest[i] = [element |-> s[i], key |-> even[i]]
  BY <1>3
<1> HIDE DEF o, rest, even, seen
<1>8. SeenOf(o, db) = seen
  BY <1>2, <1>5 DEF SeenOf
<1>9. rest # << >> => Rewriting(rest, s, seen)
  <2>1. n - Len(rest) = 0
    BY <1>3, <1>6
  <2>2. \A i \in 1..n : s[i] \in Rows(seen) /\ ~ (i <= 0) /\ 0 + i = i
    BY <1>2, <1>3, ListHas
  <2>3. Rows(seen) = ToSet(s)
    BY <1>2, <1>3, ListHas
  <2>4. QED
    BY <1>3, <1>6, <1>7, <2>1, <2>2, <2>3 DEF Rewriting, even
<1> HIDE DEF n
<1>10. Course(o, db)
  BY <1>1, <1>2, <1>3, <1>5, <1>8, <1>9, GoingOn DEF s
<1>11. QED
  BY <1>1, <1>4, <1>5, <1>10, StepWithin

\* Writing a row's new key goes on from the head of the list by one.
LEMMA RewriteRowKeeps ==
    ASSUME OrderInv, NEW w, Writers = {w}, RewriteRow(w)
    PROVE  InPlace' /\ [Promise!Next]_(Promise!vars)
<1> DEFINE seen == Seen(w)
           s == ListOf(db)
           row == Head(op[w].rest)
           left == Tail(op[w].rest)
           wrote == Wrote(op[w], row.element, row.key)
           o == [wrote EXCEPT !.rest = left, !.phase = Going(op[w].job, left)]
<1>1. op[w].phase = "rewrite" /\ op = [v \in Writers |-> op[v]]
  BY DEF RewriteRow, OrderInv, CollectionInv
<1>2. /\ db \in [Elements -> Ends] /\ Lists(s, db) /\ op[w] \in Op /\ Course(op[w], db)
      /\ seen = SeenOf(op[w], db) /\ seen \in [Elements -> Ends] /\ Found(op[w])
  BY <1>1, UnderWay
<1>3. /\ Rewriting(op[w].rest, s, seen) /\ op[w].within
      /\ op[w].rest \in Seq(RowOf) /\ op[w].rest # << >>
  BY <1>1, <1>2 DEF Course, Found, Op
<1>4. /\ row.element \in Rows(seen) /\ row.key \in Keys
      /\ Rewriting(left, s, [seen EXCEPT ![row.element] = row.key])
      /\ left \in Seq(RowOf)
  <2> DEFINE rest == op[w].rest
  <2>1. rest \in Seq(RowOf) /\ rest # << >> /\ Rewriting(rest, s, seen)
    BY <1>3
  <2>2. Tail(rest) \in Seq(RowOf)
    BY <2>1
  <2> HIDE DEF rest, s, seen
  <2>3. /\ Head(rest).element \in Rows(seen) /\ Head(rest).key \in Keys
        /\ Rewriting(Tail(rest), s, [seen EXCEPT ![Head(rest).element] = Head(rest).key])
    BY <1>2, <2>1, OneRewritten
  <2>4. QED
    BY <2>2, <2>3 DEF rest
<1>5. seen[row.element] # NoKey /\ row.element \in Elements
  BY <1>4 DEF Rows
<1>6. op' = [op EXCEPT ![w] = o] /\ db' = db
  BY <1>1, <1>3, <1>5 DEF RewriteRow, Stored
<1> HIDE DEF left, row, seen, s
<1>7. wrote = [op[w] EXCEPT !.mine[row.element] = row.key, !.held = op[w].held \cup {row.element}]
  BY <1>3 DEF Wrote
<1>8. /\ o.phase = Going(op[w].job, left) /\ o.rest = left /\ o.job = op[w].job
      /\ o.result = op[w].result /\ o.within = op[w].within
      /\ o.held = op[w].held \cup {row.element}
      /\ o.mine = [op[w].mine EXCEPT ![row.element] = row.key]
  BY <1>2, <1>7 DEF Op
<1> HIDE DEF o, wrote
<1>9. SeenOf(o, db) = [seen EXCEPT ![row.element] = row.key]
  BY <1>2, <1>5, <1>8 DEF SeenOf, Op
<1>10. SeenOf(o, db) \in [Elements -> Ends]
  BY <1>2, <1>4, <1>9 DEF Ends
<1>11. IF left = << >> THEN Lists(s, SeenOf(o, db)) ELSE Rewriting(left, s, SeenOf(o, db))
  BY <1>2, <1>4, <1>9, <1>10, AllRewritten
<1>12. Course(o, db)
  BY <1>1, <1>8, <1>10, <1>11, GoingOn DEF s
<1>13. QED
  BY <1>1, <1>6, <1>8, <1>12, StepWithin

\* The one statement an operation is for makes of the list what was asked.
LEMMA AskedIsMade ==
    ASSUME OrderInv, NEW w, Writers = {w}, op[w].phase = "write",
           LET j == op[w].job IN
           j.does = "insert" => Seen(w)[j.element] = NoKey,
           NEW after,
           LET j == op[w].job
               seen == Seen(w) IN
           after = IF j.does = "move" /\ seen[j.element] = NoKey THEN seen
                   ELSE [seen EXCEPT ![j.element] = IF j.does = "remove" THEN NoKey ELSE op[w].key]
    PROVE  /\ after \in [Elements -> Ends]
           /\ DoableIn(ListOf(db), op[w].job)
           /\ Lists(AfterIn(ListOf(db), op[w].job), after)
<1> DEFINE j == op[w].job
           seen == Seen(w)
           s == ListOf(db)
           e == j.element
           k == op[w].key
<1>1. /\ db \in [Elements -> Ends] /\ Lists(s, db) /\ ToSet(s) = Rows(db)
      /\ op[w] \in Op /\ Found(op[w]) /\ Course(op[w], db)
      /\ seen = SeenOf(op[w], db) /\ seen \in [Elements -> Ends]
      /\ j \in Jobs /\ e \in Elements /\ j.beside \in Elements
      /\ j.at \in Places /\ j.does \in {"insert", "move", "remove"}
      /\ j.does = "remove" => j.at = "last"
  BY UnderWay
<1>2. /\ Lists(s, seen) /\ (j.does # "remove" => Fits(k, j, seen))
      /\ j.at \in {"before", "after"} => db[j.beside] # NoKey
  BY <1>1 DEF Course
<1>3. Rows(seen) = ToSet(s)
  BY <1>1, <1>2, ListHas
<1>4. j.does # "remove" => k \in Keys
  BY <1>1, EndIs DEF Found, Op
<1>5. j.does = "insert" => seen[e] = NoKey
  OBVIOUS
<1>6. after = IF j.does = "move" /\ seen[e] = NoKey THEN seen
              ELSE [seen EXCEPT ![e] = IF j.does = "remove" THEN NoKey ELSE k]
  OBVIOUS
<1> HIDE DEF k, e, seen, s, j
<1>7. /\ e \in ToSet(s) <=> seen[e] # NoKey
      /\ j.at \in {"before", "after"} => j.beside \in ToSet(s)
  BY <1>1, <1>2, <1>3 DEF Rows
<1>8. DoableIn(s, j)
  BY <1>5, <1>7 DEF DoableIn, e
<1>9. after \in [Elements -> Ends]
  BY <1>1, <1>4, <1>6 DEF Ends
<1>10. ASSUME j.does = "remove" PROVE Lists(AfterIn(s, j), after)
  <2>1. AfterIn(s, j) = Without(s, e) /\ after = [seen EXCEPT ![e] = NoKey]
    BY <1>6, <1>10 DEF AfterIn, e
  <2>2. QED
    BY <1>1, <1>2, <2>1, WithoutLists
<1>11. ASSUME j.does = "move" /\ seen[e] = NoKey PROVE Lists(AfterIn(s, j), after)
  BY <1>2, <1>6, <1>7, <1>11 DEF AfterIn, e
<1>12. ASSUME j.does # "remove" /\ ~ (j.does = "move" /\ seen[e] = NoKey)
       PROVE  Lists(AfterIn(s, j), after)
  <2>1. AfterIn(s, j) = PutIn(s, j) /\ after = [seen EXCEPT ![e] = k]
    BY <1>6, <1>7, <1>12 DEF AfterIn, e
  <2>2. j.at \in {"before", "after"} => j.beside \in Rows(seen)
    BY <1>3, <1>7
  <2>3. \/ Lists(PutIn(s, j), [seen EXCEPT ![j.element] = k])
        \/ j.element \notin Rows(seen) /\ j.at \in {"before", "after"} /\ j.beside = j.element
    BY <1>1, <1>2, <1>4, <1>12, <2>2, PutLists
  <2>4. QED
    BY <2>1, <2>2, <2>3 DEF e
<1>13. QED
  BY <1>8, <1>9, <1>10, <1>11, <1>12 DEF s, j

\* How the one statement an operation is for ends.
LEMMA EndedKeeps ==
    ASSUME OrderInv, NEW w, Writers = {w}, op[w].phase = "write",
           NEW o \in Op, Ended(w, o), o.job = op[w].job, o.result = op[w].result,
           o.within = op[w].within,
           IF op[w].within THEN db' = db ELSE db' = SeenOf(o, db'),
           SeenOf(o, db') \in [Elements -> Ends],
           DoableIn(ListOf(db), op[w].job), Lists(AfterIn(ListOf(db), op[w].job), SeenOf(o, db'))
    PROVE  InPlace' /\ [Promise!Next]_(Promise!vars)
<1>1. CASE op[w].within
  <2> DEFINE c == [o EXCEPT !.phase = "commit"]
  <2>1. op' = [op EXCEPT ![w] = c] /\ db' = db
    BY <1>1 DEF Ended
  <2>2. /\ c.phase = "commit" /\ c.job = op[w].job /\ c.result = op[w].result
        /\ c.within = o.within /\ c.held = o.held /\ c.mine = o.mine
    BY DEF Op
  <2> HIDE DEF c
  <2>3. SeenOf(c, db) = SeenOf(o, db)
    BY <2>2 DEF SeenOf
  <2>4. Course(op[w], db)
    BY UnderWay
  <2>5. Course(c, db)
    BY <1>1, <2>1, <2>2, <2>3, <2>4 DEF Course
  <2>6. QED
    BY <2>1, <2>2, <2>5, StepWithin
<1>2. CASE ~ op[w].within
  <2>1. db' \in [Elements -> Ends] /\ Lists(AfterIn(ListOf(db), op[w].job), db')
    BY <1>2
  <2>2. op' = [op EXCEPT ![w] = Idle("done")] \/ op' = [op EXCEPT ![w] = Idle("fault")]
    BY <1>2 DEF Ended
  <2>3. QED
    BY <2>1, <2>2, DoneAtOnce
<1>3. QED
  BY <1>1, <1>2

\* What a writer sees after its statement wrote a row.
LEMMA SeesWritten ==
    ASSUME OrderInv, NEW w \in Writers, op[w].phase # "idle",
           NEW e \in Elements, NEW k \in Ends, db' = Stored(w, e, k)
    PROVE  LET o == Wrote(op[w], e, k) IN
           /\ o \in Op /\ o.job = op[w].job /\ o.result = op[w].result /\ o.within = op[w].within
           /\ SeenOf(o, db') = [Seen(w) EXCEPT ![e] = k]
           /\ IF op[w].within THEN db' = db ELSE db' = SeenOf(o, db')
<1> DEFINE o == Wrote(op[w], e, k)
<1>1. /\ db \in [Elements -> Ends] /\ op[w] \in Op /\ Found(op[w])
      /\ Seen(w) = SeenOf(op[w], db) /\ Seen(w) \in [Elements -> Ends]
  BY UnderWay
<1>2. /\ op[w].held \in SUBSET Elements /\ op[w].mine \in [Elements -> Ends]
      /\ [op[w].mine EXCEPT ![e] = k] \in [Elements -> Ends]
  BY <1>1 DEF Op
<1>3. CASE op[w].within
  <2>1. o = [op[w] EXCEPT !.mine = [op[w].mine EXCEPT ![e] = k], !.held = op[w].held \cup {e}]
    BY <1>3, <1>1 DEF Wrote, Op
  <2>2. o \in Op
    <3>1. op[w].held \cup {e} \in SUBSET Elements
      BY <1>2
    <3> DEFINE m == [op[w].mine EXCEPT ![e] = k]
               h == op[w].held \cup {e}
    <3>2. m \in [Elements -> Ends] /\ h \in SUBSET Elements /\ o = [op[w] EXCEPT !.mine = m, !.held = h]
      BY <1>2, <2>1, <3>1
    <3> HIDE DEF m, h, o
    <3>3. QED
      BY <1>1, <3>2 DEF Op
  <2>3. /\ o.job = op[w].job /\ o.result = op[w].result /\ o.within = op[w].within
        /\ o.held = op[w].held \cup {e} /\ o.mine = [op[w].mine EXCEPT ![e] = k]
    BY <1>1, <2>1 DEF Op
  <2>4. db' = db
    BY <1>3 DEF Stored
  <2> HIDE DEF o
  <2>5. SeenOf(o, db) = [Seen(w) EXCEPT ![e] = k]
    BY <1>1, <1>2, <2>3 DEF SeenOf
  <2>6. QED
    BY <1>3, <2>2, <2>3, <2>4, <2>5 DEF o
<1>4. CASE ~ op[w].within
  <2>1. o = op[w] /\ db' = [db EXCEPT ![e] = k]
    BY <1>4 DEF Wrote, Stored
  <2>2. op[w].held = {}
    BY <1>1, <1>4 DEF Found
  <2>3. Seen(w) = db
    BY <1>1, <2>2, SeesCommitted
  <2>4. db' \in [Elements -> Ends]
    BY <1>1, <2>1
  <2>5. SeenOf(o, db') = db'
    BY <2>1, <2>2, <2>4, SeesCommitted
  <2>6. QED
    BY <1>1, <1>4, <2>1, <2>3, <2>5
<1>5. QED
  BY <1>3, <1>4

\* Inserting the row makes the list what was asked, or will when committed.
LEMMA InsertRowKeeps ==
    ASSUME OrderInv, NEW w, Writers = {w}, InsertRow(w)
    PROVE  InPlace' /\ [Promise!Next]_(Promise!vars)
<1> DEFINE e == op[w].job.element
           k == op[w].key
           o == Wrote(op[w], e, k)
<1>1. /\ op[w].phase = "write" /\ op[w].job.does = "insert" /\ Seen(w)[e] = NoKey
      /\ db' = Stored(w, e, k) /\ Ended(w, o)
  BY DEF InsertRow
<1>2. e \in Elements /\ k \in Ends
  BY <1>1, UnderWay DEF Op
<1>3. /\ o \in Op /\ o.job = op[w].job /\ o.result = op[w].result /\ o.within = op[w].within
      /\ SeenOf(o, db') = [Seen(w) EXCEPT ![e] = k]
      /\ IF op[w].within THEN db' = db ELSE db' = SeenOf(o, db')
  BY <1>1, <1>2, SeesWritten
<1>4. /\ [Seen(w) EXCEPT ![e] = k] \in [Elements -> Ends]
      /\ DoableIn(ListOf(db), op[w].job)
      /\ Lists(AfterIn(ListOf(db), op[w].job), [Seen(w) EXCEPT ![e] = k])
  BY <1>1, AskedIsMade
<1>5. QED
  BY <1>1, <1>3, <1>4, EndedKeeps

\* A row that is there already is refused by the table, and is in the list.
LEMMA InsertRefusedKeeps ==
    ASSUME OrderInv, NEW w, Writers = {w}, InsertRefused(w)
    PROVE  InPlace' /\ [Promise!Next]_(Promise!vars)
<1> DEFINE e == op[w].job.element
<1>1. /\ op[w].phase = "write" /\ op[w].job.does = "insert" /\ Seen(w)[e] # NoKey
      /\ db' = db /\ op' = [op EXCEPT ![w] = Idle("there")]
  BY DEF InsertRefused
<1>2. /\ e \in Elements /\ db \in [Elements -> Ends] /\ Lists(ListOf(db), db)
      /\ Course(op[w], db) /\ Seen(w) = SeenOf(op[w], db) /\ Seen(w) \in [Elements -> Ends]
      /\ ToSet(ListOf(db)) = Rows(db)
  BY <1>1, UnderWay
<1>3. Rows(Seen(w)) = Rows(db)
  BY <1>1, <1>2, ListHas DEF Course
<1>4. db[e] # NoKey
  BY <1>1, <1>2, <1>3 DEF Rows
<1>5. QED
  BY <1>1, <1>4, NothingDone

\* Updating or deleting the row makes the list what was asked; if there is none
\* the list is that already.
LEMMA ChangeRowKeeps ==
    ASSUME OrderInv, NEW w, Writers = {w}, ChangeRow(w)
    PROVE  InPlace' /\ [Promise!Next]_(Promise!vars)
<1> DEFINE j == op[w].job
           e == j.element
           k == IF j.does = "move" THEN op[w].key ELSE NoKey
           there == Seen(w)[e] # NoKey
           o == IF there THEN Wrote(op[w], e, k) ELSE op[w]
           after == IF there THEN [Seen(w) EXCEPT ![e] = k] ELSE Seen(w)
<1>1. /\ op[w].phase = "write" /\ j.does # "insert"
      /\ db' = IF there THEN Stored(w, e, k) ELSE db
      /\ Ended(w, o)
  BY DEF ChangeRow
<1>2. /\ e \in Elements /\ db \in [Elements -> Ends] /\ op[w] \in Op /\ Found(op[w])
      /\ Seen(w) = SeenOf(op[w], db) /\ Seen(w) \in [Elements -> Ends]
      /\ j.does \in {"insert", "move", "remove"}
  BY <1>1, UnderWay
<1>3. k \in Ends
  BY <1>2 DEF Op, Ends
<1>4. /\ o \in Op /\ o.job = op[w].job /\ o.result = op[w].result /\ o.within = op[w].within
      /\ SeenOf(o, db') = after
      /\ IF op[w].within THEN db' = db ELSE db' = SeenOf(o, db')
  <2>1. CASE there
    BY <1>1, <1>2, <1>3, <2>1, SeesWritten
  <2>2. CASE ~ there
    <3>1. o = op[w] /\ db' = db /\ after = Seen(w)
      BY <1>1, <2>2
    <3>2. ~ op[w].within => SeenOf(op[w], db) = db
      BY <1>1, <1>2, SeesCommitted DEF Found
    <3>3. QED
      BY <1>2, <3>1, <3>2
  <2>3. QED
    BY <2>1, <2>2
<1>5. after = IF j.does = "move" /\ Seen(w)[e] = NoKey THEN Seen(w)
              ELSE [Seen(w) EXCEPT ![e] = IF j.does = "remove" THEN NoKey ELSE op[w].key]
  <2>1. ~ there => [Seen(w) EXCEPT ![e] = NoKey] = Seen(w)
    BY <1>2
  <2>2. QED
    BY <1>1, <1>2, <2>1
<1> HIDE DEF after, o
<1>6. after \in [Elements -> Ends] /\ DoableIn(ListOf(db), j) /\ Lists(AfterIn(ListOf(db), j), after)
  BY <1>1, <1>5, AskedIsMade
<1>7. QED
  BY <1>1, <1>4, <1>6, EndedKeeps

\* Committing makes the list what was asked, whatever the writer is told.
LEMMA CommitKeeps ==
    ASSUME OrderInv, NEW w, Writers = {w}, Commit(w)
    PROVE  InPlace' /\ [Promise!Next]_(Promise!vars)
<1>1. op[w].phase = "commit" /\ db' = Seen(w)
  BY DEF Commit
<1>2. op' = [op EXCEPT ![w] = Idle("done")] \/ op' = [op EXCEPT ![w] = Idle("fault")]
  BY DEF Commit
<1>3. /\ Course(op[w], db) /\ Seen(w) = SeenOf(op[w], db) /\ Seen(w) \in [Elements -> Ends]
  BY <1>1, UnderWay
<1>4. DoableIn(ListOf(db), op[w].job) /\ Lists(AfterIn(ListOf(db), op[w].job), db')
  BY <1>1, <1>3 DEF Course
<1>5. QED
  BY <1>1, <1>2, <1>3, <1>4, DoneAtOnce

\* However a step of the one writer goes, the list stands as it did or as was
\* asked, and it is a step of the promise or none of it.
LEMMA OneStepKeepsOrder ==
    ASSUME OrderInv, NEW w, Writers = {w}, \A a \in Alone : a.does = "remove", [Next]_vars
    PROVE  InPlace' /\ [Promise!Next]_(Promise!vars)
<1>1. CASE UNCHANGED vars
  <2>1. db' = db /\ op' = op
    BY <1>1 DEF vars
  <2>2. Order' = Order
    BY <2>1, OrderIs
  <2>3. QED
    BY <2>1, <2>2 DEF Promise!vars, OrderInv, InPlace
<1>2. ASSUME NEW j \in May, NEW within \in BOOLEAN, Start(w, j, within)
      PROVE  InPlace' /\ [Promise!Next]_(Promise!vars)
  BY <1>2, StartKeeps
<1>3. CASE Fail(w)
  BY <1>3, NothingDone DEF Fail
<1>4. CASE Deadlocked(w)
  BY <1>4, NothingDone DEF Deadlocked, Waiting
<1>5. CASE Step(w)
  BY <1>4, <1>5, ReadBesideKeeps, PlaceKeeps, ReadRowsKeeps, RewriteRowKeeps, InsertRowKeeps,
     InsertRefusedKeeps, ChangeRowKeeps, CommitKeeps DEF Step
<1>6. QED
  BY <1>1, <1>2, <1>3, <1>5 DEF Next, Rest

\* A collection starts as the promise does: with nothing in it.
LEMMA StartsInOrder ==
    ASSUME Init
    PROVE  InPlace /\ Promise!Init
<1>1. db \in [Elements -> Ends] /\ Rows(db) = {}
  BY DEF Init, Ends, Rows
<1>2. Lists(<< >>, db)
  BY <1>1 DEF Lists
<1>3. ListOf(db) = << >>
  BY <1>1, <1>2, OneList
<1>4. \A w \in Writers : op[w] = Idle("none")
  BY DEF Init
<1>5. InPlace
  BY <1>2, <1>3, <1>4, IdleInPlace DEF InPlace
<1>6. Order = << >>
  BY <1>3, OrderIs
<1>7. Idle("none").job = NoJob /\ Idle("none").result = "none"
  BY DEF Idle
<1>8. QED
  BY <1>4, <1>5, <1>6, <1>7 DEF Promise!Init

\* One writer, which places in transactions: what it asks happens to the list at
\* once and as a whole, or not at all, and it is told which, however long the
\* list is, wherever it puts an element, whenever the keys are rewritten and
\* whichever statement fails.
THEOREM OneWriterKeepsPromise ==
    ASSUME NEW w, Writers = {w}, \A j \in Alone : j.does = "remove"
    PROVE  Spec => KeepsPromise
<1>1. Init => OrderInv /\ Promise!Init
  BY StartsEmpty, StartsInOrder DEF OrderInv
<1>2. OrderInv /\ [Next]_vars => OrderInv' /\ [Promise!Next]_(Promise!vars)
  <2>1. SUFFICES ASSUME OrderInv, [Next]_vars PROVE OrderInv' /\ [Promise!Next]_(Promise!vars)
    OBVIOUS
  <2>2. CollectionInv'
    BY <2>1, OneStepKeepsRows DEF OrderInv
  <2>3. InPlace' /\ [Promise!Next]_(Promise!vars)
    BY <2>1, OneStepKeepsOrder
  <2>4. QED
    BY <2>2, <2>3 DEF OrderInv
<1>3. QED
  BY <1>1, <1>2, PTL DEF Spec, KeepsPromise, Promise!Spec
=============================================================================
