----------------------------- MODULE MCSession ------------------------------
(* Three resources, of which b links to a, and c is on its own; a chain    *)
(* through c, too.                                                         *)
EXTENDS Session, TLC

CONSTANTS a, b, c

Spec3(ra, rb, rc) == (a :> ra) @@ (b :> rb) @@ (c :> rc)
Plain(own) == Resource(own, None, {}, 0)
To(j, attr) == Resource(0, Ref(j, attr), {}, 0)

MCSpecs ==
  {Spec3(Plain(0), To(a, "own"), Resource(0, Secret, {}, 0)),
   Spec3(Plain(1), To(a, "id"), Absent),
   Spec3(Plain(0), To(a, "own"), Resource(0, None, {b}, 0))}
=============================================================================
