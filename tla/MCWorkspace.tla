----------------------------- MODULE MCWorkspace -----------------------------
(* Workspace for TLC. *)
EXTENDS Workspace

\* Both tokens are one user's, who signs in again.
MCUserOf == [t \in {"t1", "t2"} |-> "u"]

\* Another user signs in where the first one left the page.
TwoUsers == [t \in {"t1", "t2"} |-> IF t = "t1" THEN "u" ELSE "v"]
=============================================================================
