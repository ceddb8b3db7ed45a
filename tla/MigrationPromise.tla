-------------------------- MODULE MigrationPromise --------------------------
(***************************************************************************)
(* What a migration promises where the database has transactional DDL:     *)
(* "the whole migration [is] atomic, so a failure at the fourth step       *)
(* leaves a database still at the version it started from".  The ledger's  *)
(* version and the tables' move together, in one step, to the version some *)
(* run was asked for; a run that failed moved nothing -- unless it was the *)
(* commit's own answer that was lost, which may have been carried out.     *)
(***************************************************************************)
EXTENDS Naturals

CONSTANTS Instances, Latest, Starts

VARIABLES
    recorded,  \* the version the ledger names
    shape,     \* the version the tables are at
    wanted,    \* what each run was asked for; 0 only asks where things are
    outcome    \* "idle", "running", "done" or "failed"

vars == <<recorded, shape, wanted, outcome>>

Init ==
    /\ recorded \in Starts
    /\ shape = recorded
    /\ wanted = [p \in Instances |-> 0]
    /\ outcome = [p \in Instances |-> "idle"]

Start(p) ==
    /\ outcome[p] # "running"
    /\ outcome' = [outcome EXCEPT ![p] = "running"]
    /\ \E v \in 0..Latest : wanted' = [wanted EXCEPT ![p] = v]
    /\ UNCHANGED <<recorded, shape>>

\* All of it at once.
Arrive(p) ==
    /\ wanted[p] # 0
    /\ recorded' = wanted[p]
    /\ shape' = wanted[p]

Done(p) ==
    /\ outcome[p] = "running"
    /\ outcome' = [outcome EXCEPT ![p] = "done"]
    /\ \/ Arrive(p)
       \/ wanted[p] = 0 /\ UNCHANGED <<recorded, shape>>
    /\ UNCHANGED wanted

Failed(p) ==
    /\ outcome[p] = "running"
    /\ outcome' = [outcome EXCEPT ![p] = "failed"]
    /\ UNCHANGED <<recorded, shape, wanted>>

\* The database arrived and the run does not hear of it.
Unheard(p) ==
    /\ outcome[p] = "running"
    /\ Arrive(p)
    /\ UNCHANGED <<wanted, outcome>>

Next == \E p \in Instances : Start(p) \/ Done(p) \/ Failed(p) \/ Unheard(p)

Spec == Init /\ [][Next]_vars
=============================================================================
