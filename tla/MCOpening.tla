----------------------------- MODULE MCOpening -----------------------------
(* Devices of six to nine groups: two journals and groups with a bitmap    *)
(* block of their own, which show the block size; one journal and a header *)
(* left from an older file system; three journals; a stripe alignment; and *)
(* devices too small for the second journal or for the system files.       *)
(* Answers yes, no, or either one each time; signals and -v with the first.*)
EXTENDS Opening

Al(align, off) == [align |-> align, off |-> off]
Opt(length, al, journals, jblocks, stale) ==
    [length |-> length, al |-> al, journals |-> journals, jblocks |-> jblocks, stale |-> stale]
MCOptions == { Opt(100, Al(0, 0), 2, 7, {}), Opt(72, Al(0, 0), 1, 4, {20}), Opt(92, Al(0, 0), 3, 4, {}),
               Opt(90, Al(4, 2), 1, 4, {}), Opt(16, Al(0, 0), 2, 4, {}), Opt(20, Al(0, 0), 1, 4, {}) }
Mode(answers, verbose, interrupted) == [answers |-> answers, verbose |-> verbose, interrupted |-> interrupted]
MCModes == { Mode("yes", FALSE, FALSE), Mode("yes", TRUE, TRUE), Mode("no", FALSE, FALSE), Mode("ask", FALSE, FALSE) }
=============================================================================
