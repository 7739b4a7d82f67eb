------------------------------ MODULE NameMap -------------------------------
(***************************************************************************)
(* What a directory promises: pairs of a name and the inode it leads to,   *)
(* one of each name, and of at most one addition that is under way.  The   *)
(* addition takes effect at once, when it ends.                            *)
(***************************************************************************)
CONSTANT Dinode
VARIABLES held, adding

None == <<"", 0>>
Dots == { <<".", Dinode>>, <<"..", Dinode>> }
Init == held = Dots /\ adding = None

Begin == adding = None /\ adding' # None /\ held' = held
Finish ==
    /\ adding # None /\ adding' = None
    /\ \A p \in held : p[1] # adding[1]
    /\ held' = held \union {adding}
Unlink ==
    /\ adding = None /\ adding' = None
    /\ \E gone \in held \ Dots : held' = held \ {gone}

Next == Begin \/ Finish \/ Unlink
Spec == Init /\ [][Next]_<<held, adding>>
=============================================================================
