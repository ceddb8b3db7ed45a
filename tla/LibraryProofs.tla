---------------------------- MODULE LibraryProofs ----------------------------
(***************************************************************************)
(* What holds of Library for every set of people and titles, every pool    *)
(* and every number of operations and faults: its types; that connections  *)
(* come back (ConnectionsComeBack); that a refusal stays one               *)
(* (RefusalsStayRefusals); that a restocking is whole or not at all        *)
(* (RestockedWholeOrNot); and that what is said of one row is true         *)
(* (OneRowIsOne).                                                          *)
(***************************************************************************)
EXTENDS Library, FiniteSetTheorems, SequenceTheorems, TLAPS

Operations ==
    [phase : Phases, n : Nat, job : Seq(Statements), todo : Seq(Statements),
     tx : {"none", "open", "done", "ended"}, conns : {0, 1},
     rows : SUBSET Titles, read : Nat, saw : Nat,
     added : SUBSET Titles, removed : SUBSET Titles,
     told : Tellings, lost : BOOLEAN]

----------------------------------------------------------------------------
(* The jobs. *)

\* What a job writes is what its first statement does and what the rest does.
LEMMA WrittenHeadTail ==
    ASSUME NEW job \in Seq(Statements), job # << >>, NEW how
    PROVE  /\ Tail(job) \in Seq(Statements) /\ Head(job) \in Statements
           /\ Written(job, how) =
              (IF Head(job).does = how THEN Head(job).of ELSE {}) \cup Written(Tail(job), how)
<1> DEFINE N == Len(job)
<1>1. /\ N \in Nat \ {0} /\ DOMAIN job = 1..N
      /\ Tail(job) \in Seq(Statements) /\ DOMAIN Tail(job) = 1..(N - 1)
      /\ \A i \in 1..(N - 1) : Tail(job)[i] = job[i + 1]
      /\ Head(job) = job[1] /\ Head(job) \in Statements
  OBVIOUS
<1>2. Head(job).of \subseteq Titles
  BY <1>1 DEF Statements
<1> HIDE DEF N
<1>3. ASSUME NEW t \in Titles, NEW i \in 1..N, job[i].does = how, t \in job[i].of
      PROVE  t \in (IF Head(job).does = how THEN Head(job).of ELSE {}) \cup Written(Tail(job), how)
  <2>1. CASE i = 1
    BY <2>1, <1>3, <1>1
  <2>2. CASE i # 1
    <3>1. i - 1 \in 1..(N - 1) /\ Tail(job)[i - 1] = job[i]
      BY <2>2, <1>3, <1>1
    <3>2. QED
      BY <3>1, <1>3, <1>1 DEF Written
  <2>3. QED
    BY <2>1, <2>2
<1>4. ASSUME NEW t \in Titles, NEW i \in 1..(N - 1), Tail(job)[i].does = how, t \in Tail(job)[i].of
      PROVE  t \in Written(job, how)
  <2>1. i + 1 \in 1..N /\ job[i + 1] = Tail(job)[i]
    BY <1>4, <1>1
  <2>2. QED
    BY <2>1, <1>4, <1>1 DEF Written
<1>5. ASSUME Head(job).does = how, NEW t \in Head(job).of PROVE t \in Written(job, how)
  <2>1. 1 \in 1..N /\ t \in Titles
    BY <1>1, <1>2, <1>5
  <2>2. QED
    BY <2>1, <1>5, <1>1 DEF Written
<1>6. QED
  BY <1>1, <1>3, <1>4, <1>5 DEF Written

LEMMA WrittenEmpty == \A how : Written(<< >>, how) = {}
BY DEF Written

\* A job of one statement writes what that statement does.
LEMMA WrittenOne ==
    ASSUME NEW job \in Seq(Statements), Len(job) = 1, NEW how
    PROVE  /\ job # << >> /\ Tail(job) = << >> /\ Head(job) \in Statements
           /\ Written(job, how) = IF Head(job).does = how THEN Head(job).of ELSE {}
<1>1. job # << >>
  BY EmptySeq
<1>2. Tail(job) \in Seq(Statements) /\ Len(Tail(job)) = 0
  BY <1>1, HeadTailProperties
<1>3. Tail(job) = << >>
  BY <1>2, EmptySeq
<1>4. QED
  BY <1>1, <1>3, WrittenHeadTail, WrittenEmpty

----------------------------------------------------------------------------
(* The invariant: what is true of one person's operation, and between them. *)

Proper(job) ==
    /\ job \in Seq(Statements) /\ job # << >>
    /\ Len(job) = 1 \/ Head(job).does = "transact"
    /\ Inserted(job) \cap Deleted(job) = {}

\* What an operation holds, by where it is.
Sound(o) ==
    /\ o \in Operations
    /\ o.phase = "idle" => o = Rest
    /\ o.phase # "idle" => o.n \in 1..MaxJobs /\ Proper(o.job)
    /\ o.phase = "answered" =>
          o.conns = 0 /\ o.tx = "none" /\ o.rows = {} /\ o.added = {} /\ o.removed = {}
    /\ o.told = "defect" => o.lost /\ o.phase \in {"over", "answered"}
    /\ o.phase \in {"run", "walk"} => o.told = "none" /\ o.tx \in {"none", "open"}
    /\ o.tx = "open" => o.conns = 1
    /\ o.tx = "none" => o.added = {} /\ o.removed = {}
    /\ o.phase = "run" => o.rows = {} /\ o.read = 0
    /\ o.phase = "walk" =>
          o.conns = 1 /\ o.todo # << >> /\ Head(o.todo).does \in {"row", "one", "rows"}
    /\ o.read + Cardinality(o.rows) <= Cardinality(Titles)

\* What it put on the shelf, w.  At work in a transaction: nothing yet, and
\* what it added is what it has behind it.  At work without one: all of it or
\* nothing, as its one statement is.
Kept(o, w) ==
    /\ o.phase \in {"run", "walk"} =>
          \/ /\ Head(o.job).does = "transact" /\ w = {}
             /\ \/ o.todo = o.job /\ o.tx = "none"
                \/ /\ o.tx = "open"
                   /\ o.added \cup Inserted(o.todo) = Inserted(o.job)
                   /\ Deleted(o.todo) \subseteq Deleted(o.job)
          \/ /\ Head(o.job).does # "transact" /\ o.tx = "none"
             /\ \/ o.todo = o.job /\ w = {}
                \/ o.todo = << >> /\ w = Inserted(o.job)
    /\ o.phase \in {"over", "answered"} =>
          /\ w \in {{}, Inserted(o.job)}
          /\ o.told = "done" => w = Inserted(o.job)
          /\ Head(o.job).does = "transact" /\ o.told \notin {"done", "fault"} => w = {}
          /\ o.tx = "open" => w = {}

\* What was read of the rows there were, and what was said of them.
Told(o) ==
    /\ o.phase = "walk" => o.read + Cardinality(o.rows) = o.saw
    /\ o.phase = "run" /\ o.job = OnlyOne /\ o.todo = << >> => o.saw = 1
    /\ o.told = "done" /\ o.job = OnlyOne => o.saw = 1
    /\ o.told = "norows" => o.saw = 0
    /\ o.told = "several" => o.saw > 1

Types ==
    /\ shelf \subseteq Titles /\ free \in Nat
    /\ op \in [People -> Operations]
    /\ put \in [1..MaxJobs -> SUBSET Titles]
    /\ jobs \in 0..MaxJobs /\ faults \in 0..MaxFaults

\* Each operation under way has a number of its own, of those asked for.
Numbered ==
    /\ \A p \in People : op[p].phase # "idle" => op[p].n <= jobs
    /\ \A p, q \in People :
          p # q /\ op[p].phase # "idle" /\ op[q].phase # "idle" => op[p].n # op[q].n
    /\ \A m \in 1..MaxJobs : m > jobs => put[m] = {}

Inv ==
    /\ Types /\ Numbered
    /\ free + Cardinality(Connected) = MaxOpen
    /\ \A p \in People : Sound(op[p])
    /\ \A p \in People : op[p].phase # "idle" => Kept(op[p], put[op[p].n]) /\ Told(op[p])

LEMMA RestIsSound == Sound(Rest) /\ Rest \in Operations
<1>1. Cardinality({}) = 0 /\ Cardinality(Titles) \in Nat
  BY FS_EmptySet, FS_CardinalityType, LibraryAssumption
<1>2. << >> \in Seq(Statements)
  OBVIOUS
<1>3. Rest \in Operations
  BY <1>2 DEF Rest, Operations, Phases, Tellings
<1>4. QED
  BY <1>1, <1>3 DEF Rest, Sound

\* A connection somebody takes or gives back is one the pool has no more or
\* has again.
LEMMA CountStep ==
    ASSUME Types, NEW p \in People, NEW new \in Operations,
           op' = [op EXCEPT ![p] = new],
           free + Cardinality(Connected) = MaxOpen,
           free' = free + op[p].conns - new.conns,
           new.conns > op[p].conns => free > 0
    PROVE  free' + Cardinality(Connected') = MaxOpen /\ free' \in Nat
<1>1. /\ Connected \subseteq People /\ IsFiniteSet(Connected)
      /\ Cardinality(Connected) \in Nat /\ IsFiniteSet(Connected')
      /\ Cardinality(Connected') \in Nat /\ MaxOpen \in Nat
  BY FS_Subset, FS_CardinalityType, LibraryAssumption DEF Connected
<1>2. op[p].conns \in {0, 1} /\ new.conns \in {0, 1} /\ free \in Nat
  BY DEF Types, Operations
<1>3. \A q \in People : op'[q] = IF q = p THEN new ELSE op[q]
  BY DEF Types
<1>4. CASE op[p].conns = new.conns
  <2>1. Connected' = Connected
    BY <1>3, <1>4 DEF Connected
  <2>2. QED
    BY <2>1, <1>1, <1>2, <1>4
<1>5. CASE op[p].conns = 0 /\ new.conns = 1
  <2>1. Connected' = Connected \cup {p} /\ p \notin Connected
    BY <1>3, <1>5 DEF Connected
  <2>2. Cardinality(Connected') = Cardinality(Connected) + 1
    BY <2>1, <1>1, FS_AddElement
  <2>3. QED
    BY <2>2, <1>1, <1>2, <1>5
<1>6. CASE op[p].conns = 1 /\ new.conns = 0
  <2>1. Connected' = Connected \ {p} /\ p \in Connected
    BY <1>3, <1>6 DEF Connected
  <2>2. Cardinality(Connected') = Cardinality(Connected) - 1
    BY <2>1, <1>1, FS_RemoveElement
  <2>3. QED
    BY <2>2, <1>1, <1>2, <1>6
<1>7. QED
  BY <1>2, <1>4, <1>5, <1>6

\* A step of one person keeps the invariant if what becomes of that person's
\* operation does, and only what that operation put changes.
LEMMA Frame ==
    ASSUME Inv, NEW p \in People, NEW new, op' = [op EXCEPT ![p] = new],
           Sound(new),
           new.phase # "idle" =>
              /\ Kept(new, put'[new.n]) /\ Told(new) /\ new.n <= jobs'
              /\ new.n = jobs + 1 \/ (op[p].phase # "idle" /\ new.n = op[p].n),
           free' = free + op[p].conns - new.conns,
           new.conns > op[p].conns => free > 0,
           shelf' \subseteq Titles, jobs' \in {jobs, jobs + 1}, jobs' <= MaxJobs,
           faults' \in 0..MaxFaults, put' \in [1..MaxJobs -> SUBSET Titles],
           \A m \in 1..MaxJobs :
              m # op[p].n \/ op[p].phase = "idle" => put'[m] = put[m]
    PROVE  Inv'
<1>1. new \in Operations /\ op[p] \in Operations /\ jobs \in 0..MaxJobs /\ MaxJobs \in Nat
  BY LibraryAssumption DEF Sound, Inv, Types
<1>2. free' + Cardinality(Connected') = MaxOpen /\ free' \in Nat
  BY <1>1, CountStep DEF Inv
<1>3. Types'
  BY <1>1, <1>2 DEF Types, Inv
<1>4. op'[p] = new /\ \A q \in People \ {p} : op'[q] = op[q]
  BY DEF Inv, Types
<1>5. \A q \in People : Sound(op[q])'
  BY <1>4 DEF Inv
<1>6. \A q \in People : op[q].phase # "idle" => op[q].n \in 1..jobs
  BY <1>1 DEF Inv, Sound, Numbered
<1>7. Numbered'
  <2>1. \A q \in People : op'[q].phase # "idle" => op'[q].n <= jobs'
    BY <1>1, <1>4, <1>6
  <2>2. \A q \in People \ {p} :
           new.phase # "idle" /\ op[q].phase # "idle" => new.n # op[q].n
    BY <1>1, <1>6 DEF Inv, Numbered
  <2>3. \A q, r \in People :
           q # r /\ op'[q].phase # "idle" /\ op'[r].phase # "idle" => op'[q].n # op'[r].n
    BY <1>4, <2>2 DEF Inv, Numbered
  <2>4. \A m \in 1..MaxJobs : m > jobs' => put'[m] = {}
    <3>1. \A m \in 1..MaxJobs : m > jobs => put'[m] = put[m]
      BY <1>1, <1>6
    <3>2. QED
      BY <3>1, <1>1 DEF Inv, Numbered
  <2>5. QED
    BY <2>1, <2>3, <2>4 DEF Numbered
<1>8. \A q \in People : op'[q].phase # "idle" => Kept(op'[q], put'[op'[q].n]) /\ Told(op'[q])
  <2>1. ASSUME NEW q \in People \ {p}, op[q].phase # "idle" PROVE put'[op[q].n] = put[op[q].n]
    <3>1. op[q].n \in 1..MaxJobs /\ (op[p].phase # "idle" => op[q].n # op[p].n)
      BY <2>1, <1>1, <1>6 DEF Inv, Numbered
    <3>2. QED
      BY <3>1
  <2>2. QED
    BY <2>1, <1>4 DEF Inv
<1>9. QED
  BY <1>2, <1>3, <1>5, <1>7, <1>8 DEF Inv

\* As Frame, for a step that goes on with an operation and commits nothing.
LEMMA GoesOn ==
    ASSUME Inv, NEW p \in People, NEW new, op' = [op EXCEPT ![p] = new],
           op[p].phase # "idle", new.phase # "idle", new.n = op[p].n,
           Sound(new), Kept(new, put[op[p].n]), Told(new),
           free' = free + op[p].conns - new.conns,
           new.conns > op[p].conns => free > 0,
           faults' \in 0..MaxFaults, UNCHANGED <<shelf, put, jobs>>
    PROVE  Inv'
<1>1. jobs \in 0..MaxJobs /\ MaxJobs \in Nat /\ shelf \subseteq Titles
      /\ put \in [1..MaxJobs -> SUBSET Titles] /\ op[p].n <= jobs
  BY LibraryAssumption DEF Inv, Types, Numbered
<1>2. /\ Kept(new, put'[new.n]) /\ Told(new) /\ new.n <= jobs'
      /\ new.n = jobs + 1 \/ (op[p].phase # "idle" /\ new.n = op[p].n)
  BY <1>1
<1>3. /\ shelf' \subseteq Titles /\ jobs' \in {jobs, jobs + 1} /\ jobs' <= MaxJobs
      /\ put' \in [1..MaxJobs -> SUBSET Titles]
      /\ \A m \in 1..MaxJobs : m # op[p].n \/ op[p].phase = "idle" => put'[m] = put[m]
  BY <1>1
<1>4. QED
  BY <1>2, <1>3, Frame

\* An operation that is over, whatever it was told, holds what it held.
LEMMA OverIs ==
    ASSUME NEW o, NEW w, Sound(o), Kept(o, w), o.phase \in {"run", "walk"},
           NEW told \in {"refused", "norows", "several", "fault", "interrupted"}
    PROVE  /\ Sound(Over(o, told)) /\ Kept(Over(o, told), w)
           /\ Over(o, told).phase = "over" /\ Over(o, told).n = o.n
           /\ Over(o, told).conns = o.conns /\ Over(o, told).saw = o.saw
           /\ Over(o, told).told = told /\ Over(o, told).job = o.job
<1> DEFINE new == Over(o, told)
<1>1. o \in Operations
  BY DEF Sound
<1>2. /\ new.phase = "over" /\ new.told = told
      /\ new.n = o.n /\ new.job = o.job /\ new.todo = o.todo /\ new.tx = o.tx
      /\ new.conns = o.conns /\ new.rows = o.rows /\ new.read = o.read /\ new.saw = o.saw
      /\ new.added = o.added /\ new.removed = o.removed /\ new.lost = o.lost
  BY <1>1 DEF Over, Operations
<1>3. new \in Operations
  BY <1>1 DEF Over, Operations, Phases, Tellings
<1> HIDE DEF new
<1>4. Sound(new)
  BY <1>2, <1>3 DEF Sound
<1>5. Kept(new, w)
  BY <1>2 DEF Kept
<1>6. QED
  BY <1>2, <1>4, <1>5 DEF new

LEMMA OnlyOneIs == Head(OnlyOne).does = "one" /\ OnlyOne # << >>
BY DEF OnlyOne, S

\* An operation whose statement is done holds what its transaction does.
LEMMA DoneIs ==
    ASSUME NEW o, Sound(o), o.phase \in {"run", "walk"}, o.todo # << >>, o.conns = 1
    PROVE  LET new == Done(o) IN
           /\ Sound(new) /\ new.phase = "run" /\ new.n = o.n /\ new.job = o.job
           /\ new.todo = Tail(o.todo) /\ new.tx = o.tx /\ new.told = o.told
           /\ new.conns = o.conns - Freed(o)
           /\ new.saw = o.saw /\ new.added = o.added /\ new.removed = o.removed
<1> DEFINE new == Done(o)
<1>1. o \in Operations /\ Tail(o.todo) \in Seq(Statements) /\ o.todo \in Seq(Statements)
  BY HeadTailProperties DEF Sound, Operations
<1>2. /\ new.phase = "run" /\ new.told = o.told
      /\ new.n = o.n /\ new.job = o.job /\ new.todo = Tail(o.todo) /\ new.tx = o.tx
      /\ new.conns = o.conns - Freed(o)
      /\ new.conns = (IF o.tx = "none" THEN 0 ELSE o.conns)
      /\ new.rows = {} /\ new.read = 0 /\ new.saw = o.saw
      /\ new.added = o.added /\ new.removed = o.removed /\ new.lost = o.lost
  BY <1>1 DEF Done, Freed, Operations
<1>3. new \in Operations
  BY <1>1 DEF Done, Operations, Phases
<1>4. Cardinality({}) = 0 /\ Cardinality(Titles) \in Nat
  BY FS_EmptySet, FS_CardinalityType, LibraryAssumption
<1> HIDE DEF new
<1>5. Sound(new)
  BY <1>2, <1>3, <1>4 DEF Sound
<1>6. QED
  BY <1>2, <1>5 DEF new

\* What a statement that writes nothing leaves to be written.
LEMMA NothingWritten ==
    ASSUME NEW todo \in Seq(Statements), todo # << >>, Head(todo).does \notin {"insert", "delete"}
    PROVE  Inserted(Tail(todo)) = Inserted(todo) /\ Deleted(Tail(todo)) = Deleted(todo)
<1>1. Written(todo, "insert") = {} \cup Written(Tail(todo), "insert")
  BY WrittenHeadTail
<1>2. Written(todo, "delete") = {} \cup Written(Tail(todo), "delete")
  BY WrittenHeadTail
<1>3. QED
  BY <1>1, <1>2 DEF Inserted, Deleted

----------------------------------------------------------------------------
(* Each action keeps the invariant. *)

LEMMA AskStep ==
    ASSUME Inv, NEW p \in People, NEW job \in May(p), Ask(p, job) PROVE Inv'
<1> DEFINE new == [Rest EXCEPT !.phase = "run", !.n = jobs + 1, !.job = job, !.todo = job]
<1>1. /\ jobs \in 0..MaxJobs /\ MaxJobs \in Nat /\ jobs + 1 \in 1..MaxJobs
      /\ op \in [People -> Operations] /\ put \in [1..MaxJobs -> SUBSET Titles]
      /\ shelf \subseteq Titles /\ faults \in 0..MaxFaults
  BY LibraryAssumption DEF Inv, Types, Ask
<1>2. Proper(job)
  BY LibraryAssumption, JobsAssumption DEF Proper
<1>3. op' = [op EXCEPT ![p] = new] /\ op[p].phase = "idle"
  BY DEF Ask
<1>4. op[p].conns = 0
  <2>1. op[p] = Rest
    BY <1>3 DEF Inv, Sound
  <2>2. QED
    BY <2>1 DEF Rest
<1>5. /\ new.phase = "run" /\ new.n = jobs + 1 /\ new.job = job /\ new.todo = job
      /\ new.tx = "none" /\ new.conns = 0 /\ new.rows = {} /\ new.read = 0 /\ new.saw = 0
      /\ new.added = {} /\ new.removed = {} /\ new.told = "none" /\ new.lost = FALSE
  BY DEF Rest
<1>6. new \in Operations
  <2>1. jobs + 1 \in Nat /\ job \in Seq(Statements) /\ Rest \in Operations
    BY <1>1, <1>2, RestIsSound DEF Proper
  <2>2. QED
    BY <2>1 DEF Operations, Phases
<1>7. Cardinality({}) = 0 /\ Cardinality(Titles) \in Nat
  BY FS_EmptySet, FS_CardinalityType, LibraryAssumption
<1> HIDE DEF new
<1>8. Sound(new)
  BY <1>1, <1>2, <1>5, <1>6, <1>7 DEF Sound
<1>9. put'[jobs + 1] = {} /\ put' = put
  BY <1>1 DEF Inv, Numbered, Ask
<1>10. Kept(new, put'[new.n]) /\ Told(new)
  BY <1>2, <1>5, <1>9, OnlyOneIs DEF Kept, Told, Proper
<1>11. free' = free + op[p].conns - new.conns
  BY <1>4, <1>5 DEF Ask, Inv, Types
<1>12. jobs' = jobs + 1 /\ UNCHANGED <<shelf, faults>> /\ ~(new.conns > op[p].conns)
  BY <1>4, <1>5 DEF Ask
<1>13. /\ shelf' \subseteq Titles /\ jobs' \in {jobs, jobs + 1} /\ jobs' <= MaxJobs
       /\ faults' \in 0..MaxFaults /\ put' \in [1..MaxJobs -> SUBSET Titles]
       /\ new.n <= jobs' /\ new.n = jobs + 1
       /\ \A m \in 1..MaxJobs : put'[m] = put[m]
  BY <1>1, <1>5, <1>9, <1>12
<1>14. QED
  BY <1>3, <1>8, <1>10, <1>11, <1>12, <1>13, Frame

LEMMA ConnectStep == ASSUME Inv, NEW p \in People, Connect(p) PROVE Inv'
<1> DEFINE o == op[p]
           new == [o EXCEPT !.conns = 1]
<1>1. Sound(o) /\ o \in Operations /\ o.phase = "run" /\ o.conns = 0
  BY DEF Inv, Sound, Connect
<1>2. Kept(o, put[o.n]) /\ Told(o)
  BY <1>1 DEF Inv
<1>3. /\ new.phase = "run" /\ new.n = o.n /\ new.job = o.job /\ new.todo = o.todo
      /\ new.tx = o.tx /\ new.conns = 1 /\ new.rows = o.rows /\ new.read = o.read
      /\ new.saw = o.saw /\ new.added = o.added /\ new.removed = o.removed
      /\ new.told = o.told /\ new.lost = o.lost
  BY <1>1 DEF Operations
<1>4. new \in Operations
  BY <1>1 DEF Operations
<1>5. op' = [op EXCEPT ![p] = new]
  BY DEF Connect
<1> HIDE DEF new
<1>6. Sound(new)
  BY <1>1, <1>3, <1>4 DEF Sound
<1>7. Kept(new, put[o.n]) /\ Told(new)
  BY <1>1, <1>2, <1>3 DEF Kept, Told
<1>8. free' = free + o.conns - new.conns /\ free > 0 /\ faults' \in 0..MaxFaults
  BY <1>1, <1>3 DEF Connect, Inv, Types
<1>9. QED
  BY <1>1, <1>3, <1>5, <1>6, <1>7, <1>8, GoesOn DEF Connect

\* A transaction begun, and one joined: the work goes on in it.
LEMMA InTransaction ==
    ASSUME Inv, NEW p \in People, AtStatement(p, {"transact"}),
           op' = [op EXCEPT ![p].tx = "open", ![p].todo = Tail(@)],
           UNCHANGED <<shelf, free, put, jobs, faults>>
    PROVE  Inv'
<1> DEFINE o == op[p]
           new == [o EXCEPT !.tx = "open", !.todo = Tail(o.todo)]
<1>1. /\ Sound(o) /\ o \in Operations /\ o.phase = "run" /\ o.conns = 1
      /\ o.todo # << >> /\ Head(o.todo).does = "transact"
  BY DEF Inv, Sound, AtStatement, Now, Operations
<1>2. Kept(o, put[o.n]) /\ Told(o)
  BY <1>1 DEF Inv
<1>3. Tail(o.todo) \in Seq(Statements) /\ o.todo \in Seq(Statements)
  BY <1>1, HeadTailProperties DEF Operations
<1>4. /\ new.phase = "run" /\ new.n = o.n /\ new.job = o.job /\ new.todo = Tail(o.todo)
      /\ new.tx = "open" /\ new.conns = 1 /\ new.rows = o.rows /\ new.read = o.read
      /\ new.saw = o.saw /\ new.added = o.added /\ new.removed = o.removed
      /\ new.told = o.told /\ new.lost = o.lost
  BY <1>1 DEF Operations
<1>5. new \in Operations
  BY <1>1, <1>3 DEF Operations
<1>6. op' = [op EXCEPT ![p] = new]
  OBVIOUS
<1> HIDE DEF new
<1>7. Sound(new)
  BY <1>1, <1>4, <1>5 DEF Sound
<1>8. Head(o.job).does = "transact"
  BY <1>1, <1>2 DEF Kept
<1>9. Inserted(Tail(o.todo)) = Inserted(o.todo) /\ Deleted(Tail(o.todo)) = Deleted(o.todo)
  BY <1>1, <1>3, NothingWritten
<1>10. Kept(new, put[o.n])
  BY <1>1, <1>2, <1>4, <1>8, <1>9 DEF Kept, Sound
<1>11. Told(new)
  BY <1>1, <1>2, <1>4, <1>8, OnlyOneIs DEF Told
<1>12. /\ free' = free + o.conns - new.conns /\ ~(new.conns > o.conns)
       /\ faults' \in 0..MaxFaults /\ UNCHANGED <<shelf, put, jobs>>
       /\ o.phase # "idle" /\ new.phase # "idle"
  BY <1>1, <1>4 DEF Inv, Types
<1>13. QED
  BY <1>1, <1>4, <1>6, <1>7, <1>10, <1>11, <1>12, GoesOn

LEMMA BeginStep == ASSUME Inv, NEW p \in People, Begin(p) PROVE Inv'
BY InTransaction DEF Begin

LEMMA JoinStep == ASSUME Inv, NEW p \in People, Join(p) PROVE Inv'
<1>1. op' = [op EXCEPT ![p].tx = "open", ![p].todo = Tail(@)]
  BY DEF Join, Inv, Types, Operations
<1>2. QED
  BY <1>1, InTransaction DEF Join

----------------------------------------------------------------------------
(* Statements. *)

\* What is seen is titles, and so are those of a statement.
LEMMA SeenIsTitles ==
    ASSUME Inv, NEW p \in People
    PROVE  Seen(p) \subseteq Titles /\ IsFiniteSet(Titles)
<1>1. shelf \subseteq Titles /\ op[p].added \subseteq Titles
  BY DEF Inv, Types, Operations
<1>2. QED
  BY <1>1, LibraryAssumption DEF Seen

LEMMA OpenStep == ASSUME Inv, NEW p \in People, Open(p) PROVE Inv'
<1> DEFINE o == op[p]
           found == Seen(p) \cap Now(p).of
           new == [o EXCEPT !.phase = "walk", !.rows = found, !.saw = Cardinality(found)]
<1>1. /\ Sound(o) /\ o \in Operations /\ o.phase = "run" /\ o.conns = 1
      /\ o.todo # << >> /\ Head(o.todo).does \in {"row", "one", "rows"}
  BY DEF Inv, Sound, Open, AtStatement, Now, Operations
<1>2. Kept(o, put[o.n]) /\ Told(o) /\ o.read = 0
  BY <1>1 DEF Inv, Sound
<1>3. found \subseteq Titles /\ IsFiniteSet(Titles)
  BY SeenIsTitles
<1>4. op' = [op EXCEPT ![p] = new]
  BY DEF Open
<1> HIDE DEF found
<1>5. Cardinality(found) \in Nat /\ Cardinality(found) <= Cardinality(Titles)
      /\ Cardinality(Titles) \in Nat
  BY <1>3, FS_Subset, FS_CardinalityType
<1>6. /\ new.phase = "walk" /\ new.n = o.n /\ new.job = o.job /\ new.todo = o.todo
      /\ new.tx = o.tx /\ new.conns = o.conns /\ new.rows = found /\ new.read = o.read
      /\ new.saw = Cardinality(found) /\ new.added = o.added /\ new.removed = o.removed
      /\ new.told = o.told /\ new.lost = o.lost
  BY <1>1 DEF Operations
<1>7. new \in Operations
  BY <1>1, <1>3, <1>5 DEF Operations, Phases
<1> HIDE DEF new
<1>8. Sound(new)
  BY <1>1, <1>2, <1>5, <1>6, <1>7 DEF Sound
<1>9. Kept(new, put[o.n])
  BY <1>1, <1>2, <1>6 DEF Kept
<1>10. Told(new)
  BY <1>1, <1>2, <1>5, <1>6 DEF Told, Sound
<1>11. /\ free' = free + o.conns - new.conns /\ ~(new.conns > o.conns)
       /\ faults' \in 0..MaxFaults /\ UNCHANGED <<shelf, put, jobs>>
       /\ o.phase # "idle" /\ new.phase # "idle"
  BY <1>1, <1>6 DEF Open, Inv, Types
<1>12. QED
  BY <1>4, <1>6, <1>8, <1>9, <1>10, <1>11, GoesOn

LEMMA ReadRowStep == ASSUME Inv, NEW p \in People, ReadRow(p) PROVE Inv'
<1> DEFINE o == op[p]
<1>1. /\ Sound(o) /\ o \in Operations /\ o.phase = "walk" /\ o.conns = 1 /\ o.todo # << >>
      /\ o.read \in Nat /\ o.rows \subseteq Titles
  BY DEF Inv, Sound, ReadRow, Operations
<1>2. PICK t \in o.rows : op' = [op EXCEPT ![p].rows = @ \ {t}, ![p].read = @ + 1]
  BY DEF ReadRow
<1>3. Kept(o, put[o.n]) /\ Told(o)
  BY <1>1 DEF Inv
<1> DEFINE new == [o EXCEPT !.rows = o.rows \ {t}, !.read = o.read + 1]
<1>4. op' = [op EXCEPT ![p] = new]
  BY <1>2
<1>5. /\ Cardinality(o.rows \ {t}) = Cardinality(o.rows) - 1 /\ Cardinality(o.rows) \in Nat
      /\ Cardinality(Titles) \in Nat
  BY <1>1, FS_Subset, FS_CardinalityType, FS_RemoveElement, LibraryAssumption
<1>6. /\ new.phase = "walk" /\ new.n = o.n /\ new.job = o.job /\ new.todo = o.todo
      /\ new.tx = o.tx /\ new.conns = o.conns /\ new.rows = o.rows \ {t}
      /\ new.read = o.read + 1
      /\ new.saw = o.saw /\ new.added = o.added /\ new.removed = o.removed
      /\ new.told = o.told /\ new.lost = o.lost
  BY <1>1 DEF Operations
<1>7. new \in Operations
  <2>1. o.rows \ {t} \in SUBSET Titles /\ o.read + 1 \in Nat /\ o \in Operations
    BY <1>1
  <2>2. QED
    BY <2>1 DEF Operations
<1> HIDE DEF new
<1>8. Sound(new)
  BY <1>1, <1>5, <1>6, <1>7 DEF Sound
<1>9. Kept(new, put[o.n])
  BY <1>1, <1>3, <1>6 DEF Kept
<1>10. Told(new)
  BY <1>1, <1>3, <1>5, <1>6 DEF Told
<1>11. /\ free' = free + o.conns - new.conns /\ ~(new.conns > o.conns)
       /\ faults' \in 0..MaxFaults /\ UNCHANGED <<shelf, put, jobs>>
       /\ o.phase # "idle" /\ new.phase # "idle"
  BY <1>1, <1>6 DEF ReadRow, Inv, Types
<1>12. QED
  BY <1>4, <1>6, <1>8, <1>9, <1>10, <1>11, GoesOn

\* What is told of an operation that is over is true of what it read.
LEMMA OverStep ==
    ASSUME Inv, NEW p \in People, op[p].phase \in {"run", "walk"},
           NEW told \in {"refused", "norows", "several", "fault", "interrupted"},
           told = "norows" => op[p].saw = 0,
           told = "several" => op[p].saw > 1,
           op' = [op EXCEPT ![p] = Over(op[p], told)],
           UNCHANGED <<shelf, free, put, jobs>>, faults' \in 0..MaxFaults
    PROVE  Inv'
<1> DEFINE o == op[p]
           new == Over(o, told)
<1>1. Sound(o) /\ o \in Operations /\ o.phase # "idle"
  BY DEF Inv, Sound
<1>2. Kept(o, put[o.n]) /\ Told(o)
  BY <1>1 DEF Inv
<1>3. /\ Sound(new) /\ Kept(new, put[o.n]) /\ new.phase = "over" /\ new.n = o.n
      /\ new.conns = o.conns /\ new.saw = o.saw /\ new.told = told /\ new.job = o.job
  BY <1>1, <1>2, OverIs
<1> HIDE DEF new
<1>4. Told(new)
  BY <1>3 DEF Told
<1>5. op' = [op EXCEPT ![p] = new]
  BY DEF new
<1>6. /\ free' = free + o.conns - new.conns /\ ~(new.conns > o.conns)
  BY <1>1, <1>3 DEF Inv, Types, Operations
<1>7. QED
  BY <1>1, <1>3, <1>4, <1>5, <1>6, GoesOn

LEMMA CloseCursorStep == ASSUME Inv, NEW p \in People, CloseCursor(p) PROVE Inv'
<1> DEFINE o == op[p]
           one == Head(o.todo).does \in {"row", "one"}
<1>1. /\ Sound(o) /\ o \in Operations /\ o.phase = "walk" /\ o.conns = 1 /\ o.todo # << >>
      /\ o.read \in Nat /\ o.rows \subseteq Titles /\ o.saw \in Nat
      /\ o.todo \in Seq(Statements) /\ o.n \in 1..MaxJobs
  BY DEF Inv, Sound, CloseCursor, Operations
<1>2. Kept(o, put[o.n]) /\ Told(o)
  BY <1>1 DEF Inv
<1>3. /\ Cardinality(o.rows) \in Nat /\ (o.rows = {} => Cardinality(o.rows) = 0)
  BY <1>1, FS_Subset, FS_CardinalityType, FS_EmptySet, LibraryAssumption
<1>4. one => o.read = 2 \/ o.rows = {}
  BY DEF CloseCursor, Now, Enough
<1>5. CASE one /\ o.read # 1
  <2>1. CASE o.read = 0
    <3>1. o.saw = 0
      BY <1>1, <1>2, <1>3, <1>4, <1>5, <2>1 DEF Told
    <3>2. op' = [op EXCEPT ![p] = Over(o, "norows")] /\ UNCHANGED <<shelf, free, put, jobs, faults>>
      BY <1>5, <2>1 DEF CloseCursor, Now
    <3>3. faults' \in 0..MaxFaults
      BY <3>2 DEF Inv, Types
    <3>4. QED
      BY <1>1, <3>1, <3>2, <3>3, OverStep
  <2>2. CASE o.read # 0
    <3>1. o.saw > 1
      BY <1>1, <1>2, <1>3, <1>4, <1>5, <2>2 DEF Told
    <3>2. op' = [op EXCEPT ![p] = Over(o, "several")] /\ UNCHANGED <<shelf, free, put, jobs, faults>>
      BY <1>5, <2>2 DEF CloseCursor, Now
    <3>3. faults' \in 0..MaxFaults
      BY <3>2 DEF Inv, Types
    <3>4. QED
      BY <1>1, <3>1, <3>2, <3>3, OverStep
  <2>3. QED
    BY <2>1, <2>2
<1>6. CASE ~(one /\ o.read # 1)
  <2> DEFINE new == Done(o)
  <2>1. /\ op' = [op EXCEPT ![p] = new] /\ free' = free + Freed(o)
        /\ UNCHANGED <<shelf, put, jobs, faults>>
    BY <1>6 DEF CloseCursor, Now
  <2>2. /\ Sound(new) /\ new.phase = "run" /\ new.n = o.n /\ new.job = o.job
        /\ new.todo = Tail(o.todo) /\ new.tx = o.tx /\ new.told = o.told
        /\ new.conns = o.conns - Freed(o)
        /\ new.saw = o.saw /\ new.added = o.added /\ new.removed = o.removed
    BY <1>1, DoneIs
  <2>3. Head(o.todo).does \in {"row", "one", "rows"}
    BY <1>1 DEF Sound
  <2>4. Inserted(Tail(o.todo)) = Inserted(o.todo) /\ Deleted(Tail(o.todo)) = Deleted(o.todo)
    BY <1>1, <2>3, NothingWritten
  <2>8. /\ free' = free + o.conns - new.conns /\ ~(new.conns > o.conns)
        /\ faults' \in 0..MaxFaults /\ o.phase # "idle" /\ new.phase # "idle"
    BY <1>1, <2>1, <2>2 DEF Freed, Inv, Types
  <2> HIDE DEF new
  <2>5. CASE Head(o.job).does = "transact"
    <3>1. o.tx = "open"
      BY <1>1, <1>2, <2>3, <2>5 DEF Kept
    <3>2. Kept(new, put[o.n])
      BY <1>1, <1>2, <2>2, <2>4, <2>5, <3>1 DEF Kept
    <3>3. Told(new)
      BY <1>1, <1>2, <2>2, <2>5, OnlyOneIs DEF Told, Sound
    <3>4. QED
      BY <3>2, <3>3, <2>1, <2>2, <2>8, GoesOn
  <2>6. CASE Head(o.job).does # "transact"
    <3>1. o.tx = "none" /\ o.todo = o.job /\ put[o.n] = {}
      BY <1>1, <1>2, <2>6 DEF Kept
    <3>2. Len(o.job) = 1 /\ o.job \in Seq(Statements)
      BY <1>1, <2>6 DEF Sound, Proper
    <3>3. Tail(o.todo) = << >> /\ Inserted(o.job) = {}
      BY <3>1, <3>2, <2>3, WrittenOne DEF Inserted
    <3>4. Kept(new, put[o.n])
      BY <1>1, <2>2, <2>6, <3>1, <3>3 DEF Kept
    <3>5. Told(new)
      <4>1. ASSUME o.job = OnlyOne PROVE o.saw = 1
        <5>1. o.read = 1 /\ o.rows = {}
          BY <1>4, <1>6, <3>1, <4>1, OnlyOneIs
        <5>2. QED
          BY <5>1, <1>1, <1>2, <1>3 DEF Told
      <4>2. QED
        BY <4>1, <1>1, <2>2 DEF Told, Sound
    <3>6. QED
      BY <3>4, <3>5, <2>1, <2>2, <2>8, GoesOn
  <2>7. QED
    BY <2>5, <2>6
<1>7. QED
  BY <1>5, <1>6

LEMMA ExecuteStep == ASSUME Inv, NEW p \in People, Execute(p) PROVE Inv'
<1> DEFINE o == op[p]
           s == Head(o.todo)
           done == Done(o)
<1>1. /\ Sound(o) /\ o \in Operations /\ o.phase = "run" /\ o.conns = 1 /\ o.todo # << >>
      /\ o.todo \in Seq(Statements) /\ o.n \in 1..MaxJobs /\ o.told = "none"
      /\ s.does \in {"insert", "delete"} /\ UNCHANGED <<jobs, faults>>
      /\ o.added \subseteq Titles /\ o.removed \subseteq Titles
  BY DEF Inv, Sound, Execute, AtStatement, Now, Operations
<1>2. Kept(o, put[o.n]) /\ Told(o)
  BY <1>1 DEF Inv
<1>3. /\ shelf \subseteq Titles /\ s.of \subseteq Titles
      /\ put \in [1..MaxJobs -> SUBSET Titles] /\ faults' \in 0..MaxFaults
      /\ jobs \in 0..MaxJobs /\ MaxJobs \in Nat /\ o.n <= jobs
  BY <1>1, WrittenHeadTail, LibraryAssumption DEF Inv, Types, Statements, Numbered
<1>4. CASE s.does = "insert" /\ s.of \subseteq Seen(p)
  <2>1. op' = [op EXCEPT ![p] = Over(o, "refused")] /\ UNCHANGED <<shelf, free, put>>
    BY <1>4 DEF Execute, Now
  <2>2. QED
    BY <1>1, <1>3, <2>1, OverStep
<1>5. /\ Sound(done) /\ done.phase = "run" /\ done.n = o.n /\ done.job = o.job
      /\ done.todo = Tail(o.todo) /\ done.tx = o.tx /\ done.told = o.told
      /\ done.conns = o.conns - Freed(o)
      /\ done.saw = o.saw /\ done.added = o.added /\ done.removed = o.removed
  BY <1>1, DoneIs
<1> HIDE DEF done
<1>6. CASE o.tx = "none" /\ ~(s.does = "insert" /\ s.of \subseteq Seen(p))
  <2>1. /\ op' = [op EXCEPT ![p] = done] /\ free' = free + Freed(o)
        /\ shelf' = IF s.does = "insert" THEN shelf \cup s.of ELSE shelf \ s.of
        /\ put' = IF s.does = "insert" THEN [put EXCEPT ![o.n] = @ \cup s.of] ELSE put
    BY <1>6 DEF Execute, Now, done
  <2>2. /\ Head(o.job).does # "transact" /\ o.todo = o.job /\ put[o.n] = {}
    BY <1>1, <1>2, <1>6 DEF Kept
  <2>3. Len(o.job) = 1 /\ o.job \in Seq(Statements)
    BY <1>1, <2>2 DEF Sound, Proper
  <2>4. Tail(o.todo) = << >>
        /\ Inserted(o.job) = IF s.does = "insert" THEN s.of ELSE {}
    BY <2>2, <2>3, WrittenOne DEF Inserted
  <2>5. put'[o.n] = Inserted(o.job)
    BY <1>1, <1>3, <2>1, <2>2, <2>4
  <2>6. Kept(done, put'[done.n])
    BY <1>5, <1>6, <2>2, <2>4, <2>5 DEF Kept
  <2>7. o.job # OnlyOne
    BY <1>1, <2>2, OnlyOneIs
  <2>8. Told(done)
    BY <1>1, <1>2, <1>5, <2>7 DEF Told
  <2>9. /\ free' = free + o.conns - done.conns /\ ~(done.conns > o.conns)
    BY <1>1, <1>5, <1>6, <2>1 DEF Freed, Inv, Types
  <2>10. /\ shelf' \subseteq Titles /\ jobs' \in {jobs, jobs + 1} /\ jobs' <= MaxJobs
         /\ put' \in [1..MaxJobs -> SUBSET Titles]
         /\ done.n <= jobs' /\ o.phase # "idle" /\ done.n = o.n
         /\ \A m \in 1..MaxJobs : m # o.n \/ o.phase = "idle" => put'[m] = put[m]
    BY <1>1, <1>3, <1>5, <2>1
  <2>11. QED
    BY <1>3, <1>5, <2>1, <2>6, <2>8, <2>9, <2>10, Frame
<1>7. CASE o.tx # "none" /\ ~(s.does = "insert" /\ s.of \subseteq Seen(p))
  <2> DEFINE A == IF s.does = "insert" THEN o.added \cup s.of ELSE o.added \ s.of
             R == IF s.does = "insert" THEN o.removed \ s.of
                  ELSE o.removed \cup (s.of \cap shelf)
             new == [done EXCEPT !.added = A, !.removed = R]
  <2>1. done \in Operations /\ A \in SUBSET Titles /\ R \in SUBSET Titles
    BY <1>1, <1>3, <1>5 DEF Sound
  <2>2. op' = [op EXCEPT ![p] = new] /\ UNCHANGED <<shelf, free, put>>
    BY <1>5, <1>7 DEF Execute, Now, done
  <2>3. A = IF s.does = "insert" THEN o.added \cup s.of ELSE o.added \ s.of
    OBVIOUS
  <2> HIDE DEF A, R
  <2>4. new \in Operations
    BY <2>1 DEF Operations
  <2>5. /\ new.phase = "run" /\ new.n = o.n /\ new.job = o.job
        /\ new.todo = Tail(o.todo) /\ new.tx = o.tx /\ new.told = o.told
        /\ new.conns = o.conns - Freed(o) /\ new.saw = o.saw /\ new.added = A
        /\ new.rows = done.rows /\ new.read = done.read /\ new.lost = done.lost
    BY <1>5, <2>1 DEF Operations
  <2> HIDE DEF new
  <2>6. o.tx = "open" /\ Head(o.job).does = "transact" /\ put[o.n] = {}
        /\ o.added \cup Inserted(o.todo) = Inserted(o.job)
        /\ Deleted(o.todo) \subseteq Deleted(o.job)
    BY <1>1, <1>2, <1>7 DEF Kept
  <2>7. Sound(new)
    BY <1>1, <1>5, <2>4, <2>5, <2>6 DEF Sound
  <2>8. A \cup Inserted(Tail(o.todo)) = Inserted(o.job)
        /\ Deleted(Tail(o.todo)) \subseteq Deleted(o.job)
    <3>1. Inserted(o.todo) = (IF s.does = "insert" THEN s.of ELSE {}) \cup Inserted(Tail(o.todo))
      BY <1>1, WrittenHeadTail DEF Inserted
    <3>2. Deleted(o.todo) = (IF s.does = "delete" THEN s.of ELSE {}) \cup Deleted(Tail(o.todo))
      BY <1>1, WrittenHeadTail DEF Deleted
    <3>3. Inserted(o.job) \cap Deleted(o.job) = {}
      BY <1>1 DEF Sound, Proper
    <3>4. CASE s.does = "insert"
      BY <3>1, <3>2, <3>4, <2>3, <2>6
    <3>5. CASE s.does = "delete"
      BY <3>1, <3>2, <3>3, <3>5, <2>3, <2>6
    <3>6. QED
      BY <3>4, <3>5, <1>1
  <2>9. Kept(new, put[o.n])
    BY <2>5, <2>6, <2>8 DEF Kept
  <2>10. Told(new)
    BY <1>1, <1>2, <2>5, <2>6, OnlyOneIs DEF Told
  <2>11. /\ free' = free + o.conns - new.conns /\ ~(new.conns > o.conns)
         /\ o.phase # "idle" /\ new.phase # "idle"
    BY <1>1, <2>2, <2>5, <2>6 DEF Freed, Inv, Types
  <2>12. QED
    BY <1>1, <1>3, <2>2, <2>5, <2>7, <2>9, <2>10, <2>11, GoesOn
<1>8. QED
  BY <1>4, <1>6, <1>7

----------------------------------------------------------------------------
(* The end of an operation. *)

\* What is left of an operation whose transaction has ended.
LEMMA EndedIs ==
    ASSUME NEW o, Sound(o), NEW tx \in {"done", "ended"}, NEW told \in Tellings \ {"defect"},
           o.phase \in {"run", "over"}
    PROVE  LET new == [Over(Ended(o, tx), told) EXCEPT !.conns = 0] IN
           /\ Sound(new) /\ new.phase = "over" /\ new.n = o.n /\ new.job = o.job
           /\ new.tx = tx /\ new.told = told /\ new.conns = 0 /\ new.saw = o.saw
<1> DEFINE new == [Over(Ended(o, tx), told) EXCEPT !.conns = 0]
<1>1. o \in Operations
  BY DEF Sound
<1>2. /\ new.phase = "over" /\ new.n = o.n /\ new.job = o.job /\ new.todo = o.todo
      /\ new.tx = tx /\ new.conns = 0 /\ new.rows = o.rows /\ new.read = o.read
      /\ new.saw = o.saw /\ new.added = {} /\ new.removed = {}
      /\ new.told = told /\ new.lost = o.lost
  BY <1>1 DEF Over, Ended, Operations
<1>3. new \in Operations
  BY <1>1 DEF Over, Ended, Operations, Phases
<1> HIDE DEF new
<1>4. Sound(new)
  BY <1>2, <1>3 DEF Sound
<1>5. QED
  BY <1>2, <1>4 DEF new

\* A commit done, whether or not its answer comes back.
LEMMA CommitStep ==
    ASSUME Inv, NEW p \in People, NEW told \in {"done", "fault"},
           op[p].phase = "run", op[p].todo = << >>, op[p].tx = "open",
           Committed(p), free' = free + op[p].conns,
           op' = [op EXCEPT ![p] = [Over(Ended(op[p], "done"), told) EXCEPT !.conns = 0]],
           faults' \in 0..MaxFaults, UNCHANGED jobs
    PROVE  Inv'
<1> DEFINE o == op[p]
           new == [Over(Ended(o, "done"), told) EXCEPT !.conns = 0]
<1>1. Sound(o) /\ o \in Operations /\ o.conns = 1 /\ o.n \in 1..MaxJobs /\ o.told = "none"
      /\ o.added \in SUBSET Titles
  BY DEF Inv, Sound, Operations
<1>2. Kept(o, put[o.n]) /\ Told(o)
  BY DEF Inv
<1>3. /\ Sound(new) /\ new.phase = "over" /\ new.n = o.n /\ new.job = o.job
      /\ new.tx = "done" /\ new.told = told /\ new.conns = 0 /\ new.saw = o.saw
  <2>1. o.phase \in {"run", "over"} /\ told \in Tellings \ {"defect"}
        /\ "done" \in {"done", "ended"}
    BY DEF Tellings
  <2>2. QED
    BY <2>1, <1>1, EndedIs
<1>4. op' = [op EXCEPT ![p] = new]
  OBVIOUS
<1> HIDE DEF new
<1>5. /\ put \in [1..MaxJobs -> SUBSET Titles] /\ jobs \in 0..MaxJobs /\ MaxJobs \in Nat
      /\ o.n <= jobs /\ free \in Nat
  BY <1>1, LibraryAssumption DEF Inv, Types, Numbered
<1>6. Head(o.job).does = "transact" /\ put[o.n] = {} /\ o.added = Inserted(o.job)
  <2>1. Inserted(<< >>) = {}
    BY WrittenEmpty DEF Inserted
  <2>2. QED
    BY <2>1, <1>1, <1>2 DEF Kept, Sound
<1>7. put' = [put EXCEPT ![o.n] = @ \cup o.added] /\ shelf' \subseteq Titles
  BY SeenIsTitles DEF Committed
<1>8. put'[o.n] = Inserted(o.job) /\ put' \in [1..MaxJobs -> SUBSET Titles]
  BY <1>1, <1>5, <1>6, <1>7
<1>9. Kept(new, put'[new.n])
  BY <1>3, <1>6, <1>8 DEF Kept
<1>10. Told(new)
  BY <1>3, <1>6, OnlyOneIs DEF Told
<1>11. /\ free' = free + o.conns - new.conns /\ ~(new.conns > o.conns)
  BY <1>1, <1>3, <1>5
<1>12. /\ jobs' \in {jobs, jobs + 1} /\ jobs' <= MaxJobs
       /\ new.n <= jobs' /\ o.phase # "idle" /\ new.n = o.n
       /\ \A m \in 1..MaxJobs : m # o.n \/ o.phase = "idle" => put'[m] = put[m]
  BY <1>1, <1>3, <1>5, <1>7
<1>13. QED
  BY <1>3, <1>4, <1>7, <1>8, <1>9, <1>10, <1>11, <1>12, Frame

LEMMA LoseAnswerStep == ASSUME Inv, NEW p \in People, LoseAnswer(p) PROVE Inv'
<1>1. faults' \in 0..MaxFaults
  BY LibraryAssumption DEF LoseAnswer, Inv, Types
<1>2. QED
  BY <1>1, CommitStep DEF LoseAnswer

LEMMA SucceedStep == ASSUME Inv, NEW p \in People, Succeed(p) PROVE Inv'
<1> DEFINE o == op[p]
<1>1. /\ Sound(o) /\ o \in Operations /\ o.phase = "run" /\ o.todo = << >>
      /\ o.told = "none" /\ o.tx \in {"none", "open"}
      /\ faults' \in 0..MaxFaults /\ UNCHANGED jobs /\ o.conns \in {0, 1} /\ free \in Nat
  BY DEF Inv, Sound, Succeed, Types, Operations
<1>2. Kept(o, put[o.n]) /\ Told(o)
  BY <1>1 DEF Inv
<1>3. CASE o.tx = "open"
  BY <1>1, <1>3, CommitStep DEF Succeed
<1>4. CASE o.tx = "none"
  <2> DEFINE new == Over(o, "done")
  <2>1. op' = [op EXCEPT ![p] = new] /\ UNCHANGED <<shelf, put, free>>
    BY <1>4 DEF Succeed
  <2>2. /\ new.phase = "over" /\ new.told = "done"
        /\ new.n = o.n /\ new.job = o.job /\ new.todo = o.todo /\ new.tx = o.tx
        /\ new.conns = o.conns /\ new.rows = o.rows /\ new.read = o.read /\ new.saw = o.saw
        /\ new.added = o.added /\ new.removed = o.removed /\ new.lost = o.lost
    BY <1>1 DEF Over, Operations
  <2>3. new \in Operations
    BY <1>1 DEF Over, Operations, Phases, Tellings
  <2> HIDE DEF new
  <2>4. Sound(new)
    BY <1>1, <2>2, <2>3 DEF Sound
  <2>5. o.job # << >>
    BY <1>1 DEF Sound, Proper
  <2>6. Head(o.job).does # "transact" /\ put[o.n] = Inserted(o.job)
    BY <1>1, <1>2, <1>4, <2>5 DEF Kept
  <2>7. Kept(new, put[o.n])
    BY <1>4, <2>2, <2>6 DEF Kept
  <2>8. Told(new)
    BY <1>1, <1>2, <2>2 DEF Told
  <2>9. free' = free + o.conns - new.conns /\ ~(new.conns > o.conns)
    BY <1>1, <2>1, <2>2
  <2>10. QED
    BY <1>1, <2>1, <2>2, <2>4, <2>7, <2>8, <2>9, GoesOn
<1>5. QED
  BY <1>1, <1>3, <1>4

LEMMA FailStep == ASSUME Inv, NEW p \in People, Fail(p) PROVE Inv'
<1>1. PICK told \in {"fault", "interrupted"} : op' = [op EXCEPT ![p] = Over(@, told)]
  BY DEF Fail
<1>2. faults' \in 0..MaxFaults
  BY LibraryAssumption DEF Fail, Inv, Types
<1>3. QED
  BY <1>1, <1>2, OverStep DEF Fail

LEMMA FailToCloseStep == ASSUME Inv, NEW p \in People, FailToClose(p) PROVE Inv'
<1> DEFINE o == op[p]
           new == [Over(o, "defect") EXCEPT !.lost = TRUE]
<1>1. /\ Sound(o) /\ o \in Operations /\ o.phase = "walk" /\ o.tx \in {"none", "open"}
      /\ o.told = "none" /\ o.conns \in {0, 1} /\ free \in Nat
      /\ faults' \in 0..MaxFaults
      /\ UNCHANGED <<shelf, free, put, jobs>>
  BY LibraryAssumption DEF Inv, Sound, FailToClose, Types, Operations
<1>2. Kept(o, put[o.n]) /\ Told(o)
  BY <1>1 DEF Inv
<1>3. op' = [op EXCEPT ![p] = new]
  BY DEF FailToClose
<1>4. /\ new.phase = "over" /\ new.told = "defect" /\ new.lost
      /\ new.n = o.n /\ new.job = o.job /\ new.todo = o.todo /\ new.tx = o.tx
      /\ new.conns = o.conns /\ new.rows = o.rows /\ new.read = o.read /\ new.saw = o.saw
      /\ new.added = o.added /\ new.removed = o.removed
  BY <1>1 DEF Over, Operations
<1>5. new \in Operations
  BY <1>1 DEF Over, Operations, Phases, Tellings
<1> HIDE DEF new
<1>6. Sound(new)
  BY <1>1, <1>4, <1>5 DEF Sound
<1>7. Kept(new, put[o.n])
  BY <1>1, <1>2, <1>4 DEF Kept
<1>8. Told(new)
  BY <1>4 DEF Told
<1>9. free' = free + o.conns - new.conns /\ ~(new.conns > o.conns)
  BY <1>1, <1>4
<1>10. QED
  BY <1>1, <1>3, <1>4, <1>6, <1>7, <1>8, <1>9, GoesOn

LEMMA DeadlockedStep ==
    ASSUME Inv, NEW p \in People, NEW q \in People, Deadlocked(p, q) PROVE Inv'
<1>1. faults' \in 0..MaxFaults /\ op[p].phase = "run"
  BY DEF Deadlocked, Waiting, AtStatement, Inv, Types
<1>2. QED
  BY <1>1, OverStep DEF Deadlocked

LEMMA DriverEndsStep == ASSUME Inv, NEW p \in People, DriverEnds(p) PROVE Inv'
<1> DEFINE o == op[p]
           new == [Ended(o, "ended") EXCEPT !.conns = 0]
<1>1. /\ Sound(o) /\ o \in Operations /\ o.phase = "over" /\ o.tx = "open"
      /\ o.conns = 1 /\ free \in Nat /\ faults' \in 0..MaxFaults
  BY DEF Inv, Sound, DriverEnds, Types
<1>2. Kept(o, put[o.n]) /\ Told(o)
  BY <1>1 DEF Inv
<1>3. op' = [op EXCEPT ![p] = new]
  BY DEF DriverEnds
<1>4. /\ new.phase = "over" /\ new.n = o.n /\ new.job = o.job /\ new.todo = o.todo
      /\ new.tx = "ended" /\ new.conns = 0 /\ new.rows = o.rows /\ new.read = o.read
      /\ new.saw = o.saw /\ new.added = {} /\ new.removed = {}
      /\ new.told = o.told /\ new.lost = o.lost
  BY <1>1 DEF Ended, Operations
<1>5. new \in Operations
  BY <1>1 DEF Ended, Operations
<1> HIDE DEF new
<1>6. Sound(new)
  BY <1>1, <1>4, <1>5 DEF Sound
<1>7. Kept(new, put[o.n]) /\ Told(new)
  BY <1>1, <1>2, <1>4 DEF Kept, Told
<1>8. /\ free' = free + o.conns - new.conns /\ ~(new.conns > o.conns)
      /\ UNCHANGED <<shelf, put, jobs>>
  BY <1>1, <1>4 DEF DriverEnds
<1>9. QED
  BY <1>1, <1>3, <1>4, <1>6, <1>7, <1>8, GoesOn

\* What is answered of an operation whose scope is released.
LEMMA AnsweredStep ==
    ASSUME Inv, NEW p \in People, op[p].phase = "over",
           NEW told \in Tellings, NEW lost \in BOOLEAN,
           told = op[p].told \/ (told = "defect" /\ lost /\ op[p].tx = "open"),
           told = "defect" => lost,
           free' = free + op[p].conns,
           op' = [op EXCEPT ![p] = Answered(op[p], told, lost)],
           UNCHANGED <<shelf, put, jobs>>, faults' \in 0..MaxFaults
    PROVE  Inv'
<1> DEFINE o == op[p]
           new == Answered(o, told, lost)
<1>1. /\ Sound(o) /\ o \in Operations /\ o.conns \in {0, 1} /\ free \in Nat
      /\ o.n \in Nat /\ o.job \in Seq(Statements) /\ o.saw \in Nat
  BY DEF Inv, Sound, Types, Operations
<1>2. Kept(o, put[o.n]) /\ Told(o)
  BY DEF Inv
<1>3. /\ new.phase = "answered" /\ new.n = o.n /\ new.job = o.job
      /\ new.tx = "none" /\ new.conns = 0 /\ new.rows = {} /\ new.read = 0
      /\ new.saw = o.saw /\ new.added = {} /\ new.removed = {}
      /\ new.told = told /\ new.lost = lost
  BY DEF Rest, Answered
<1>4. new \in Operations
  <2>1. Rest \in Operations
    BY RestIsSound
  <2>2. QED
    BY <1>1, <2>1 DEF Answered, Operations, Phases
<1>5. Cardinality({}) = 0 /\ Cardinality(Titles) \in Nat
  BY FS_EmptySet, FS_CardinalityType, LibraryAssumption
<1> HIDE DEF new
<1>6. Sound(new)
  BY <1>1, <1>3, <1>4, <1>5 DEF Sound
<1>7. Kept(new, put[o.n])
  BY <1>2, <1>3 DEF Kept
<1>8. Told(new)
  BY <1>2, <1>3 DEF Told
<1>9. /\ free' = free + o.conns - new.conns /\ ~(new.conns > o.conns)
  BY <1>1, <1>3
<1>10. op' = [op EXCEPT ![p] = new]
  BY DEF new
<1>11. QED
  BY <1>3, <1>6, <1>7, <1>8, <1>9, <1>10, GoesOn

LEMMA ReleaseStep == ASSUME Inv, NEW p \in People, Release(p) PROVE Inv'
<1> DEFINE o == op[p]
<1>1. /\ Sound(o) /\ o \in Operations /\ o.phase = "over" /\ o.told \in Tellings
      /\ faults' \in 0..MaxFaults /\ UNCHANGED <<shelf, put, jobs>> /\ free' = free + o.conns
      /\ o.tx \in {"none", "open", "done", "ended"}
  BY DEF Inv, Sound, Release, Types, Operations
<1>2. PICK err \in RollbackErrors(o.tx) :
         op' = [op EXCEPT ![p] =
                  Answered(o, IF IsTransactionDone(err) THEN o.told ELSE "defect", o.lost)]
  BY DEF Release
<1>3. IsTransactionDone(err)
  BY <1>1, <1>2 DEF RollbackErrors, IsTransactionDone
<1>4. op' = [op EXCEPT ![p] = Answered(o, o.told, o.lost)]
  BY <1>2, <1>3
<1>5. (o.told = "defect" => o.lost) /\ o.lost \in BOOLEAN
  BY <1>1 DEF Sound, Operations
<1>6. QED
  BY <1>1, <1>4, <1>5, AnsweredStep

LEMMA FailToRollBackStep == ASSUME Inv, NEW p \in People, FailToRollBack(p) PROVE Inv'
<1> DEFINE o == op[p]
<1>1. /\ o.phase = "over" /\ o.tx = "open" /\ UNCHANGED <<shelf, put, jobs>>
      /\ free' = free + o.conns /\ faults' \in 0..MaxFaults
  BY LibraryAssumption DEF FailToRollBack, Inv, Types
<1>2. op' = [op EXCEPT ![p] = Answered(o, "defect", TRUE)]
  BY DEF FailToRollBack
<1>3. "defect" \in Tellings /\ TRUE \in BOOLEAN
  BY DEF Tellings
<1>4. QED
  BY <1>1, <1>2, <1>3, AnsweredStep

LEMMA ReturnStep == ASSUME Inv, NEW p \in People, Return(p) PROVE Inv'
<1>1. /\ Sound(op[p]) /\ op[p].phase = "answered" /\ op[p].conns = 0
      /\ op' = [op EXCEPT ![p] = Rest] /\ UNCHANGED <<shelf, free, put, jobs, faults>>
  BY DEF Inv, Sound, Return
<1>2. Sound(Rest) /\ Rest.phase = "idle" /\ Rest.conns = 0
  BY RestIsSound DEF Rest
<1>3. /\ free' = free + op[p].conns - Rest.conns /\ ~(Rest.conns > op[p].conns)
      /\ shelf' \subseteq Titles /\ jobs' \in {jobs, jobs + 1} /\ jobs' <= MaxJobs
      /\ faults' \in 0..MaxFaults /\ put' \in [1..MaxJobs -> SUBSET Titles]
  BY <1>1, <1>2, LibraryAssumption DEF Inv, Types
<1>4. QED
  BY <1>1, <1>2, <1>3, Frame

----------------------------------------------------------------------------
(* The invariant, and what follows from it. *)

LEMMA InitInv == Init => Inv
<1> SUFFICES ASSUME Init PROVE Inv
  OBVIOUS
<1>1. Types
  BY RestIsSound, LibraryAssumption DEF Init, Types
<1>2. op = [p \in People |-> Rest] /\ Rest.phase = "idle" /\ Rest.conns = 0
  BY DEF Init, Rest
<1>3. Connected = {} /\ free = MaxOpen /\ MaxOpen \in Nat
  BY <1>2, LibraryAssumption DEF Connected, Init
<1>4. Numbered
  BY <1>2 DEF Init, Numbered
<1>5. QED
  BY <1>1, <1>2, <1>3, <1>4, RestIsSound, FS_EmptySet DEF Inv

LEMMA NextInv == Inv /\ [Next]_vars => Inv'
<1> SUFFICES ASSUME Inv, [Next]_vars PROVE Inv'
  OBVIOUS
<1>1. ASSUME NEW p \in People, NEW job \in May(p), Ask(p, job) PROVE Inv'
  BY <1>1, AskStep
<1>2. ASSUME NEW p \in People, Step(p) PROVE Inv'
  <2>1. CASE Connect(p)
    BY <2>1, ConnectStep
  <2>2. CASE Begin(p)
    BY <2>2, BeginStep
  <2>3. CASE Join(p)
    BY <2>3, JoinStep
  <2>4. CASE Execute(p)
    BY <2>4, ExecuteStep
  <2>5. CASE Open(p)
    BY <2>5, OpenStep
  <2>6. CASE ReadRow(p)
    BY <2>6, ReadRowStep
  <2>7. CASE CloseCursor(p)
    BY <2>7, CloseCursorStep
  <2>8. CASE Succeed(p)
    BY <2>8, SucceedStep
  <2>9. CASE Release(p)
    BY <2>9, ReleaseStep
  <2>10. CASE Return(p)
    BY <2>10, ReturnStep
  <2>11. CASE \E q \in People : Deadlocked(p, q)
    BY <2>11, DeadlockedStep
  <2>12. QED
    BY <1>2, <2>1, <2>2, <2>3, <2>4, <2>5, <2>6, <2>7, <2>8, <2>9, <2>10, <2>11 DEF Step
<1>3. ASSUME NEW p \in People, Fail(p) PROVE Inv'
  BY <1>3, FailStep
<1>4. ASSUME NEW p \in People, LoseAnswer(p) PROVE Inv'
  BY <1>4, LoseAnswerStep
<1>5. ASSUME NEW p \in People, DriverEnds(p) PROVE Inv'
  BY <1>5, DriverEndsStep
<1>6. ASSUME NEW p \in People, FailToRollBack(p) PROVE Inv'
  BY <1>6, FailToRollBackStep
<1>7. ASSUME NEW p \in People, FailToClose(p) PROVE Inv'
  BY <1>7, FailToCloseStep
<1>8. CASE UNCHANGED vars
  BY <1>8 DEF vars, Inv, Types, Numbered, Connected
<1>9. QED
  BY <1>1, <1>2, <1>3, <1>4, <1>5, <1>6, <1>7, <1>8 DEF Next

LEMMA Invariance == Spec => []Inv
<1>1. QED
  BY InitInv, NextInv, PTL DEF Spec

\* Every variable keeps its type, for any number of people, titles, connections
\* and operations (TypeOK).
THEOREM Typed == Spec => []TypeOK
<1>1. ASSUME Inv PROVE TypeOK
  <2>1. Cardinality(Connected) \in Nat /\ MaxOpen \in Nat /\ Connected \subseteq People
    BY FS_Subset, FS_CardinalityType, LibraryAssumption DEF Connected
  <2>2. free \in 0..MaxOpen
    BY <1>1, <2>1 DEF Inv, Types
  <2>3. ASSUME NEW p \in People PROVE op[p].read \in 0..Cardinality(Titles)
    <3>1. /\ op[p].read \in Nat /\ op[p].rows \subseteq Titles
          /\ op[p].read + Cardinality(op[p].rows) <= Cardinality(Titles)
      BY <1>1 DEF Inv, Sound, Operations
    <3>2. Cardinality(op[p].rows) \in Nat /\ Cardinality(Titles) \in Nat
      BY <3>1, FS_Subset, FS_CardinalityType, LibraryAssumption
    <3>3. QED
      BY <3>1, <3>2
  <2>4. QED
    BY <1>1, <2>2, <2>3 DEF Inv, Types, Operations, TypeOK
<1>2. QED
  BY <1>1, Invariance, PTL

\* However an operation ends -- done, refused, failed, interrupted at any point,
\* its transaction ended by the driver, its rollback or its cursor's close
\* failed -- its connection is back and nothing it wrote is held (transact.go:
\* rollbackTransaction; query.go: closeCursor).
THEOREM ConnectionsAlwaysComeBack == Spec => []ConnectionsComeBack
<1>1. ASSUME Inv PROVE ConnectionsComeBack
  <2>1. ASSUME NEW p \in People, op[p].phase \in {"idle", "answered"}
        PROVE  /\ op[p].conns = 0 /\ op[p].tx = "none" /\ op[p].rows = {}
               /\ op[p].added = {} /\ op[p].removed = {}
    <3>1. Sound(op[p])
      BY <1>1 DEF Inv
    <3>2. CASE op[p].phase = "idle"
      BY <3>1, <3>2 DEF Sound, Rest
    <3>3. CASE op[p].phase = "answered"
      BY <3>1, <3>3 DEF Sound
    <3>4. QED
      BY <2>1, <3>2, <3>3
  <2>2. QED
    BY <1>1, <2>1 DEF Inv, ConnectionsComeBack
<1>2. QED
  BY <1>1, Invariance, PTL

\* A restocking of any number of titles, among any others that restock, take
\* and read at once, is on the shelf whole or not at all, and is told as it is
\* (library.go: Restock).
THEOREM AlwaysRestockedWholeOrNot == Spec => []RestockedWholeOrNot
<1>1. ASSUME Inv PROVE RestockedWholeOrNot
  <2>1. ASSUME NEW p \in People, op[p].phase = "answered" PROVE Kept(op[p], put[op[p].n])
    BY <1>1, <2>1 DEF Inv
  <2>2. QED
    BY <2>1 DEF RestockedWholeOrNot, Kept
<1>2. QED
  BY <1>1, Invariance, PTL

\* A refusal reaches its caller as one, unless a transaction or a cursor could
\* not be ended (transact.go: rollbackTransaction; query.go: closeCursor).
THEOREM RefusalsAlwaysStay == Spec => []RefusalsStayRefusals
<1>1. ASSUME Inv PROVE RefusalsStayRefusals
  BY <1>1 DEF Inv, Sound, RefusalsStayRefusals
<1>2. QED
  BY <1>1, Invariance, PTL

\* What is answered of one row is true of the rows there were (query.go:
\* QueryRow), however many there are.
THEOREM OneRowIsAlwaysOne == Spec => []OneRowIsOne
<1>1. ASSUME Inv PROVE OneRowIsOne
  <2>1. ASSUME NEW p \in People, op[p].phase = "answered" PROVE Told(op[p])
    BY <1>1, <2>1 DEF Inv
  <2>2. QED
    BY <2>1 DEF OneRowIsOne, Told
<1>2. QED
  BY <1>1, Invariance, PTL
=============================================================================
