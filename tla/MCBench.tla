------------------------------- MODULE MCBench -------------------------------
(* Values of Bench's constants that a .cfg cannot write. *)
EXTENDS Bench

LOCAL INSTANCE Integers

(* Node 1 is a rectangle with its texture page, the others are quads. *)
MCNodeWords == [n \in {1, 2, 3, 4} |-> IF n = 1 THEN 5 ELSE 9]

MCBand == <<2, 3>>
=============================================================================
