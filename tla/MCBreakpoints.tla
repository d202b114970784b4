---------------------------- MODULE MCBreakpoints ----------------------------
(***************************************************************************)
(* Instances of Breakpoints.  Site s3 lies on a data page: the leaf finder  *)
(* takes indirect call operands for functions, and install() refuses them.  *)
(***************************************************************************)
EXTENDS Breakpoints, TLC

CONSTANTS t1, t2, s1, s2, s3, text, data

\* Both functions on one page, and one "function" on the data page.
SamePage == [s \in Sites |-> IF s = s3 THEN data ELSE text]

Prots == (text :> "RX") @@ (data :> "R")

ThreadSymmetry == Permutations(Threads)
=============================================================================
