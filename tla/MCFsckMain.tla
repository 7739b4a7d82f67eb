----------------------------- MODULE MCFsckMain -----------------------------
(***************************************************************************)
(* FsckMain with four faults in three passes, called in every way.         *)
(***************************************************************************)
EXTENDS FsckMain

CONSTANTS f1, f2a, f2b, f3

MCPassOf == [f \in Faults |-> IF f = f1 THEN 1 ELSE IF f = f3 THEN 3 ELSE 2]

Call(m, p, f) == [mode |-> m, preen |-> p, force |-> f]
MCCalls == { Call("no", FALSE, FALSE), Call("yes", FALSE, FALSE), Call("ask", FALSE, FALSE),
             Call("yes", TRUE, FALSE), Call("yes", TRUE, TRUE) }
=============================================================================
