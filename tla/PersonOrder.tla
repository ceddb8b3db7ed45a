---------------------------- MODULE PersonOrder ----------------------------
(***************************************************************************)
(* What an ordered collection promises whoever orders it: what was asked   *)
(* happens to the list at once and as a whole, or not at all, and the      *)
(* answer says which -- but for a fault, which says neither.               *)
(***************************************************************************)
EXTENDS Naturals, Sequences, SequencesExt

CONSTANTS
    Elements,
    Writers,
    Jobs,     \* what may be asked
    NoJob     \* nothing is

VARIABLES
    order,    \* the elements, as they stand
    asked,    \* what each writer asked and was not answered yet
    answer    \* what each was answered last

vars == <<order, asked, answer>>

Holds(e) == e \in ToSet(order)

At(list, e) == CHOOSE i \in 1..Len(list) : list[i] = e

Others(e) == IF Holds(e) THEN RemoveAt(order, At(order, e)) ELSE order

\* Where an element stands that is put in a list of others.
Gap(list, j) ==
    LET beside == At(list, j.beside) IN
    CASE j.at = "first"  -> 1
      [] j.at = "last"   -> Len(list) + 1
      [] j.at = "before" -> beside
      [] j.at = "after"  -> beside + 1

Placed(j) ==
    IF j.at \in {"before", "after"} /\ j.beside = j.element THEN order
    ELSE InsertAt(Others(j.element), Gap(Others(j.element), j), j.element)

Doable(j) ==
    /\ j.does = "insert" => ~Holds(j.element)
    /\ j.at \in {"before", "after"} => Holds(j.beside)

\* Moving what is not there is answered, and nothing moves.
After(j) ==
    CASE j.does = "remove" -> Others(j.element)
      [] j.does = "move" /\ ~Holds(j.element) -> order
      [] OTHER -> Placed(j)

Init ==
    /\ order = << >>
    /\ asked = [w \in Writers |-> NoJob]
    /\ answer = [w \in Writers |-> "none"]

Ask(w, j) ==
    /\ asked[w] = NoJob
    /\ asked' = [asked EXCEPT ![w] = j]
    /\ answer' = [answer EXCEPT ![w] = "none"]
    /\ UNCHANGED order

Answer(w, a) ==
    /\ asked[w] # NoJob
    /\ asked' = [asked EXCEPT ![w] = NoJob]
    /\ answer' = [answer EXCEPT ![w] = a]

Do(w) ==
    /\ Doable(asked[w])
    /\ order' = After(asked[w])
    /\ Answer(w, "done")

Refuse(w) ==
    /\ ~Doable(asked[w])
    /\ UNCHANGED order
    /\ \/ asked[w].does = "insert" /\ Holds(asked[w].element) /\ Answer(w, "there")
       \/ asked[w].at \in {"before", "after"} /\ ~Holds(asked[w].beside)
             /\ Answer(w, "absent")

GiveUp(w) ==
    /\ \/ UNCHANGED order
       \/ Doable(asked[w]) /\ order' = After(asked[w])
    /\ Answer(w, "fault")

Next == \E w \in Writers :
    \/ \E j \in Jobs : Ask(w, j)
    \/ asked[w] # NoJob /\ (Do(w) \/ Refuse(w) \/ GiveUp(w))

Spec == Init /\ [][Next]_vars
=============================================================================
