--------------------------- MODULE MCStateStorage ---------------------------
(* Two operators and two clusters: model values of the configurations.     *)
EXTENDS StateStorage
=============================================================================
