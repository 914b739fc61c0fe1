----------------------------- MODULE MCMediaDb -----------------------------
(***************************************************************************)
(* The offline write of media information for TLC: MediaDbApply, what one  *)
(* job does to the container and the database, and MediaDbPlan, what the   *)
(* imports and jobs of a package do to its plans, the databases and their  *)
(* backups. They share no variable; "part" says which one is explored and  *)
(* the other one rests.                                                    *)
(***************************************************************************)
EXTENDS MediaDbApply, MediaDbPlan, TLC

CONSTANTS i1, i2, n1, n2, Parts

VARIABLE part

\* The libraries start with two items of different names.
MCFirstNames == (i1 :> n1) @@ (i2 :> n2)

ASSUME PlanConstants == PlanAssumption

mcVars == <<part, vars, planVars>>

MCInit ==
  /\ part \in Parts
  /\ Init /\ PlanInit
  /\ part = "plan" => mode = "auto" /\ container = "stopped"
  /\ part = "apply" =>
       /\ media = [s \in Servers |-> [i \in Items |-> None]]
       /\ \E f \in Schemas : schema = [s \in Servers |-> f]
       /\ \A s \in Servers : backups[s] = {}

ApplyStep == part = "apply" /\ Next /\ UNCHANGED <<part, planVars>>
PlanStep == part = "plan" /\ PlanNext /\ UNCHANGED <<part, vars>>
MCNext == ApplyStep \/ PlanStep

MCSpec == MCInit /\ [][MCNext]_mcVars

\* Keys, servers and fingerprints are interchangeable.
Symmetry == Permutations(Keys) \cup Permutations(Servers) \cup Permutations(Schemas)
=============================================================================
