-------------------------- MODULE MCJournalReplay --------------------------
(***************************************************************************)
(* JournalReplay on two nodes with journals of six blocks, in five         *)
(* situations, each small in what the others are large in.                 *)
(***************************************************************************)
EXTENDS JournalReplay

CONSTANTS jd, md

Bounds(bs, start0, ms, versions, nmounts, nruns, ndamage, ntorn) ==
    [blocks |-> bs, start |-> start0, modes |-> ms, ver |-> versions,
     mounts |-> nmounts, runs |-> nruns, damage |-> ndamage,
     torn |-> ntorn]

Cases ==
    { Bounds({jd}, {3}, {"y"}, 3, 0, 1, 0, 5),          \* a block passes to and fro
      Bounds({jd}, {3}, {"y"}, 2, 0, 2, 0, 5),          \* fsck killed, run again
      Bounds({jd, md}, {3}, {"y"}, 2, 0, 1, 0, 0),      \* data and metadata
      Bounds({md}, {5}, {"n", "ask"}, 2, 0, 1, 1, 5),   \* damage, questions declined
      Bounds({md}, {5}, {"ask"}, 2, 1, 1, 0, 1) }       \* the nodes mount again
=============================================================================
