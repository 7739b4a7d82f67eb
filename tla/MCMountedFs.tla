---------------------------- MODULE MCMountedFs ----------------------------
(* A file system of two groups on a device that has grown by a few groups, *)
(* by too little for one, or by nothing; with and without alignment.       *)
EXTENDS MountedFs

MCGroup(a, len) == LET b == rgblocks2bitblocks(len) IN [addr |-> a, length |-> b.length, data |-> b.data]
Device(length, align, off, rindex) ==
    [length |-> length, al |-> [align |-> align, off |-> off], rindex |-> rindex]

MCOld == <<MCGroup(2, 9), MCGroup(11, 9)>>
MCOldAligned == <<MCGroup(2, 14), MCGroup(16, 14)>>
MCDevices == { Device(46, 0, 0, MCOld), Device(23, 0, 0, MCOld),
               Device(58, 4, 2, MCOldAligned), Device(31, 4, 2, MCOldAligned) }
MCCost == [inum_range |-> 1, statfs_change |-> 1, quota_change |-> 2, journal |-> 3]
MCAvails == {9}
=============================================================================
