---------------------------- MODULE MCTerraform -----------------------------
(* A resource that changes its attribute and its provider, and another one. *)
EXTENDS Terraform, TLC

CONSTANTS a, b

Wanted(own, version) == [own |-> own, version |-> version]

MCSpecs ==
  {(a :> ra) @@ (b :> rb) : ra \in {Absent, Wanted(1, 1), Wanted(2, 1), Wanted(1, 2)},
                            rb \in {Absent, Wanted(1, 1)}}
=============================================================================
