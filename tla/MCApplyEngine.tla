--------------------------- MODULE MCApplyEngine ----------------------------
EXTENDS ApplyEngine

CONSTANTS a, b, c

(* Every spec over the keys.                                               *)
MCSpecs == [Keys -> {Absent} \cup Resource]

(* Three resources that all have the same fields: a chain and a join, and  *)
(* what is left when the last resource or the last two go.                 *)
Shape(fs, ds) ==
  [k \in Keys |->
     IF k \in DOMAIN ds THEN [fields |-> fs, deps |-> ds[k]] ELSE Absent]

MCShapes ==
  {Shape(fs, ds) :
     fs \in SUBSET Fields,
     ds \in {[k \in {a, b, c} |-> IF k = a THEN {} ELSE IF k = b THEN {a} ELSE {b}],
            [k \in {a, b, c} |-> IF k = c THEN {a, b} ELSE {}],
            [k \in {a, b} |-> IF k = b THEN {a} ELSE {}],
            [k \in {a} |-> {}]}}
=============================================================================
