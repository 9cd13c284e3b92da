----------------------------- MODULE MCRepository ----------------------------
(***************************************************************************)
(* What dft keeps in a repository: the branches of a spec (Mergeback), the *)
(* records of a run (RunStore) and the provisioned assets (Provision).     *)
(* The three share no state, so a behaviour is about one of them, and the  *)
(* others stay as they are in a fresh repository.                          *)
(***************************************************************************)
EXTENDS Mergeback, Provision, RunStore

VARIABLE focus

MCAssets == <<"agent", "script">>
MCWithHeader == {"agent"}

Init ==
  /\ focus \in {"branches", "assets", "records"}
  /\ MergebackInit /\ ProvisionInit /\ StoreInit
  /\ focus # "branches" => DOMAIN refs = {"target"} /\ held = {}
  /\ focus # "assets"   => content = [a \in Paths |-> Absent]
  /\ focus # "records"  => /\ db = NoRow /\ wbs /\ adapter = "dispatcher"
                           /\ lanes = [s \in RunSpecs |-> "unseen"]

Next ==
  /\ UNCHANGED focus
  /\ \/ focus = "branches" /\ MergebackNext /\ UNCHANGED <<provisionVars, storeVars>>
     \/ focus = "assets" /\ ProvisionNext /\ UNCHANGED <<mergeVars, storeVars>>
     \/ focus = "records" /\ StoreNext /\ UNCHANGED <<mergeVars, provisionVars>>

Spec == Init /\ [][Next]_<<focus, mergeVars, provisionVars, storeVars>>
=============================================================================
