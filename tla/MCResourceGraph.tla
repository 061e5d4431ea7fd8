-------------------------- MODULE MCResourceGraph ---------------------------
(* Every spec over the keys, the illegal ones included, and every recorded *)
(* state without a cycle, those that miss a dependency included.           *)
EXTENDS ResourceGraph, TLC

MCSpecs == UNION {[K -> SUBSET Keys] : K \in SUBSET Keys}

MCPriors ==
  {R \in UNION {[K -> SUBSET Keys] : K \in SUBSET Keys} :
     Acyclic(Keys, UNION {R[k] \X {k} : k \in DOMAIN R})}

(* Nothing tells one key from another.                                     *)
MCSymmetry == Permutations(Keys)
=============================================================================
