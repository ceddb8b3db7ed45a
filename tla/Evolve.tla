------------------------------- MODULE Evolve -------------------------------
(***************************************************************************)
(* What an aggregate has been: a first version, and the changes that make  *)
(* each later one of the one before (evolve).  The same changes move a     *)
(* description, a value in memory and a table; here they move the first    *)
(* two.                                                                    *)
(*                                                                         *)
(* A description is a sequence of fields; its identity never changes and   *)
(* is left out.  A value is a function from names, None where it has no    *)
(* such member: a number stands for itself, a text for its length and a    *)
(* relation for how many entities it holds.                                *)
(***************************************************************************)
EXTENDS Integers, Sequences, SequencesExt

\* The absence of a value.
None == -1

Relation(node) == node.kind \in {"one", "many"}

Names(object) == {object[i].name : i \in DOMAIN object}

FieldOf(object, name) == object[CHOOSE i \in DOMAIN object : object[i].name = name]

-----------------------------------------------------------------------------
(* Changes, and what each makes of a description. *)

AppliesOne(change, object) ==
    CASE change.does = "add" ->
            /\ change.field.name \notin Names(object)
            /\ Relation(change.field.node) \/ change.field.optional \/ change.field.default # None
      [] change.does = "rename" ->
            change.from \in Names(object) /\ change.to \notin Names(object)
      [] OTHER -> change.name \in Names(object)

AppliedOne(change, object) ==
    CASE change.does = "add" -> Append(object, change.field)
      [] change.does = "remove" -> SelectSeq(object, LAMBDA f : f.name # change.name)
      [] change.does = "rename" ->
            [i \in DOMAIN object |->
                IF object[i].name = change.from THEN [object[i] EXCEPT !.name = change.to]
                ELSE object[i]]
      [] change.does = "retype" ->
            [i \in DOMAIN object |->
                IF object[i].name = change.name THEN [object[i] EXCEPT !.node = change.node]
                ELSE object[i]]

\* A recomputation is what arrives and then what goes, with a function between.
Plainly(change) ==
    IF change.does = "recompute" THEN change.additions \o change.removals ELSE <<change>>

PlainlyAll(changes) == FlattenSeq([i \in DOMAIN changes |-> Plainly(changes[i])])

Applied(changes, object) ==
    FoldLeft(LAMBDA o, change : AppliedOne(change, o), object, PlainlyAll(changes))

\* The description just before the i-th of some changes.
Before(changes, i, object) == Applied(SubSeq(changes, 1, i - 1), object)

AllApply(changes, object) ==
    \A i \in DOMAIN changes : AppliesOne(changes[i], Before(changes, i, object))

\* A recomputation says what it makes of the description, and of something else.
Applies(change, object) ==
    /\ change.does = "recompute" => Plainly(change) # << >> /\ change.forward.says # {}
    /\ AllApply(Plainly(change), object)

-----------------------------------------------------------------------------
(* Undoing them. *)

\* What a removal took is put back, its values are not: so it is optional.
Restored(field) ==
    [field EXCEPT !.optional = @ \/ (~Relation(field.node) /\ field.default = None)]

InverseOne(change, object) ==
    CASE change.does = "add" -> [does |-> "remove", name |-> change.field.name]
      [] change.does = "remove" ->
            [does |-> "add", field |-> Restored(FieldOf(object, change.name))]
      [] change.does = "rename" ->
            [does |-> "rename", from |-> change.to, to |-> change.from]
      [] change.does = "retype" ->
            [does |-> "retype", name |-> change.name, node |-> FieldOf(object, change.name).node]

Inverses(changes, object) ==
    Reverse([i \in DOMAIN changes |-> InverseOne(changes[i], Before(changes, i, object))])

\* What went is what arrives and what arrived is what goes, the other way round.
InverseOf(change, object) ==
    IF change.does # "recompute" THEN InverseOne(change, object)
    ELSE [change EXCEPT
            !.additions = Inverses(change.removals, Applied(change.additions, object)),
            !.removals = Inverses(change.additions, object),
            !.forward = change.back, !.back = change.forward]

Invertible(change) == change.does = "recompute" => change.back.says # {}

-----------------------------------------------------------------------------
(* Histories: what each version was, and the changes that made it of the one   *)
(* before.                                                                     *)

Started(object) == [objects |-> <<object>>, steps |-> << >>]

\* A version that is the one before it is not a version.
CanFollow(history, step) ==
    /\ step # << >>
    /\ \A i \in DOMAIN step : Applies(step[i], Before(step, i, Last(history.objects)))

Then(history, step) ==
    [objects |-> Append(history.objects, Applied(step, Last(history.objects))),
     steps |-> Append(history.steps, step)]

Versions(history) == DOMAIN history.objects

At(history, version) == history.objects[version]

WellMade(history) ==
    \A v \in DOMAIN history.steps :
        CanFollow([history EXCEPT !.objects = SubSeq(@, 1, v)], history.steps[v])

Forward(history, from, to) == FlattenSeq(SubSeq(history.steps, from, to - 1))

\* Mutant: undone in the order it was done in.
UndoneInOrder(history, version) ==
    LET step == history.steps[version - 1]
        first == At(history, version - 1)
    IN  [i \in DOMAIN step |-> InverseOf(step[i], Before(step, i, first))]

\* The step that made a version, undone: the last of its changes first.
Undone(history, version) ==
    LET step == history.steps[version - 1]
        first == At(history, version - 1)
    IN  Reverse([i \in DOMAIN step |-> InverseOf(step[i], Before(step, i, first))])

\* The steps the other way round too.
Backward(history, from, to) ==
    FlattenSeq([k \in 1..(from - to) |-> Undone(history, from - k + 1)])

Between(history, from, to) ==
    IF from <= to THEN Forward(history, from, to) ELSE Backward(history, from, to)

\* Each change with the description just before it.
Stages(history, from, to) ==
    LET changes == Between(history, from, to)
    IN  [i \in DOMAIN changes |->
            [change |-> changes[i], before |-> Before(changes, i, At(history, from))]]

\* Whether there is a way: a recomputation may say nothing about going back, and
\* a change derived may not apply.
IsWay(history, from, to) ==
    /\ to < from =>
           \A v \in to..(from - 1) : \A i \in DOMAIN history.steps[v] :
               Invertible(history.steps[v][i])
    /\ LET stages == Stages(history, from, to)
       IN  \A i \in DOMAIN stages : Applies(stages[i].change, stages[i].before)

-----------------------------------------------------------------------------
(* Values in memory. *)

\* Mutant: no default is written.
AddedAbsent(field, value) == [value EXCEPT ![field.name] = None]

\* A default is written; what the value had of that name is not kept.
AddedMember(field, value) == [value EXCEPT ![field.name] = field.default]

CarriedOne(change, value) ==
    CASE change.does = "add" -> AddedMember(change.field, value)
      [] change.does = "remove" -> [value EXCEPT ![change.name] = None]
      [] change.does = "rename" ->
            [value EXCEPT ![change.to] = value[change.from], ![change.from] = None]
      [] change.does = "retype" -> value

CarriedAll(changes, value) ==
    FoldLeft(LAMBDA v, change : CarriedOne(change, v), value, changes)

\* The author's function, of a value and of a row alike: one member computed
\* from another.  `most - v` stands for any computation that can be undone.
Computed(rewrite, value) ==
    [value EXCEPT ![rewrite.to] =
        IF value[rewrite.from] = None THEN None ELSE rewrite.most - value[rewrite.from]]

\* What arrives, the computation, what goes.
Carried(change, value) ==
    IF change.does # "recompute" THEN CarriedOne(change, value)
    ELSE CarriedAll(change.removals,
             Computed(change.forward, CarriedAll(change.additions, value)))

CanCarry(change) == change.does = "recompute" => "value" \in change.forward.says

CanMigrate(history, from, to) ==
    /\ IsWay(history, from, to)
    /\ LET changes == Between(history, from, to)
       IN  \A i \in DOMAIN changes : CanCarry(changes[i])

Migrated(history, from, to, value) ==
    FoldLeft(LAMBDA v, change : Carried(change, v), value, Between(history, from, to))
=============================================================================
