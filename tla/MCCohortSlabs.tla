--------------------------- MODULE MCCohortSlabs ----------------------------
(* Three cohorts, two of one tenant, on two slabs.                         *)
EXTENDS CohortSlabs, TLC

MCTenantOf == (1 :> "a") @@ (2 :> "a") @@ (3 :> "b")
MCQuota == ("a" :> 1) @@ ("b" :> 2)
=============================================================================
