-------------------------------- MODULE Grow --------------------------------
(***************************************************************************)
(* gfs2_grow (mkfs/main_grow.c) on one mounted file system: the end of the *)
(* last resource group is read from the rindex, the rest of the device is  *)
(* divided into groups, the groups are written straight to the device, and *)
(* then their entries are appended to the rindex through the metafs, the   *)
(* first by itself.                                                        *)
(*                                                                         *)
(* A group on the device is its header and bitmaps; what is written over   *)
(* them, or discarded, destroys it.  A write to the device stays in its    *)
(* cache until an fsync.                                                   *)
(***************************************************************************)
EXTENDS MetaFs, Rgrps

CONSTANTS
    GrowTarget,     \* the group size gfs2_grow plans for, in blocks
    TestModes       \* whether a run has the option -T

VARIABLES
    dev,        \* the device: length, and alignment
    groups,     \* the groups on it
    cached,     \* those of them an fsync has not reached
    grow        \* what each gfs2_grow has worked out

gvars == <<dev, groups, cached, grow>>

NoGrow == [test |-> FALSE, old |-> 0, fssize |-> 0, plan |-> NoPlan, rgaddr |-> 0, rgs |-> << >>, kept |-> 0]

Headers(rg) == rg.addr .. data0(rg) - 1
Blocks(rg) == rg.addr .. RgEnd(rg) - 1
Entries(rindex) == { rindex[i] : i \in DOMAIN rindex }

(* What is left of the groups when the blocks are written or discarded.    *)
Without(gs, blocks) == { rg \in gs : Headers(rg) \intersect blocks = {} }

-----------------------------------------------------------------------------
(* filesystem_size is the end of the last group.                           *)
filesystem_size(rindex) == RgEnd(rindex[Len(rindex)])

(* lgfs2_rindex_read_fd: the entries in the rindex, 0 when the last is cut *)
(* short or an address is not above the one before.                        *)
lgfs2_rindex_read_fd(fs) ==
    IF fs.ragged \/ \E i \in 2 .. Len(fs.rindex) : fs.rindex[i].addr =< fs.rindex[i-1].addr
    THEN 0 ELSE Len(fs.rindex)

Locked(p) ==
    /\ lock_for_admin(p, "read") /\ UNCHANGED gvars

(* main() with the lock: the rindex is opened and read, the sizes worked   *)
(* out.  The master directory is read in between; when that fails the run  *)
(* ends without giving the metafs back.                                    *)
ReadRindex(p) ==
    LET old == lgfs2_rindex_read_fd(metafs)
        fssize == lgfs2_rgrp_align_addr(dev.al, filesystem_size(metafs.rindex) + 1)
        interrupted == p \in metafs_interrupted
        giveup(status) ==
            /\ Goto(p, "cleanup") /\ ret' = [ret EXCEPT ![p] = status]
            /\ UNCHANGED <<admin, handled, metafs_interrupted, grow>>
    IN  /\ pc[p] = "read"
        /\ \/ Fault /\ giveup("failure")
           \/ Fault /\ End(p, "failure") /\ admin' = None /\ UNCHANGED grow
           \/ old = 0 /\ giveup("failure") /\ UNCHANGED faults
           \/ old > 0 /\ interrupted /\ giveup("success") /\ UNCHANGED faults
           \/ /\ old > 0 /\ ~interrupted /\ UNCHANGED faults
              /\ \E plan \in {lgfs2_rgrps_plan(dev.al, U64(dev.length - fssize), GrowTarget)} :
                    \/ Planned(plan) = 0 /\ giveup("failure")
                    \/ /\ Planned(plan) # 0
                       /\ grow' = [grow EXCEPT ![p] = [@ EXCEPT !.old = old, !.fssize = fssize,
                                                               !.plan = plan, !.rgaddr = fssize]]
                       /\ Goto(p, "discard")
                       /\ UNCHANGED <<ret, admin, handled, metafs_interrupted>>
        /\ UNCHANGED <<metafs, stable, mounts, runs, dev, groups, cached>>

(* initialize_new_portion: the rest of the device is discarded, if the     *)
(* device can, with -T as well ...                                         *)
Discard(p) ==
    /\ pc[p] = "discard"
    /\ \/ /\ groups' = Without(groups, grow[p].fssize .. dev.length - 1)
          /\ cached' = cached \intersect groups'
       \/ UNCHANGED <<groups, cached>>
    /\ Goto(p, "rgrp")
    /\ UNCHANGED <<metafs, stable, admin, mounts, handled, metafs_interrupted, ret, runs, faults, dev, grow>>

(* ... and the groups are written one after the other, with -T not: a      *)
(* signal or an error ends the run there, with no error status.            *)
Write(rg) ==
    /\ groups' = Without(groups, Headers(rg)) \union {rg}
    /\ cached' = (cached \intersect groups') \union {rg}
NewRgrp(p) ==
    LET g == grow[p]
        e == lgfs2_rindex_entry_new(g.plan, g.rgaddr, 0, dev.length)
        rg == Group(g.rgaddr, e.len)
    IN  /\ pc[p] = "rgrp" /\ e.next # 0
        /\ \/ p \in metafs_interrupted /\ Goto(p, "cleanup") /\ UNCHANGED <<gvars, faults>>
           \/ Fault /\ Goto(p, "cleanup") /\ UNCHANGED gvars
           \/ /\ p \notin metafs_interrupted
              /\ IF g.test THEN UNCHANGED <<groups, cached>> ELSE Write(rg)
              /\ grow' = [grow EXCEPT ![p] = [g EXCEPT !.plan = e.plan, !.rgaddr = e.next,
                                                      !.rgs = Append(@, rg)]]
              /\ UNCHANGED <<pc, dev, faults>>
        /\ UNCHANGED <<metafs, stable, admin, mounts, handled, metafs_interrupted, ret, runs>>

(* After the last the last is written once more, with rg_skip 0 and with   *)
(* -T too.  There is none when no group fits the device: the pointer is    *)
(* null.                                                                   *)
WriteFinal(p) ==
    LET g == grow[p]
    IN  /\ pc[p] = "rgrp" /\ lgfs2_rindex_entry_new(g.plan, g.rgaddr, 0, dev.length).next = 0
        /\ \/ /\ g.rgs # << >> /\ Fault /\ Goto(p, "cleanup")
              /\ UNCHANGED <<gvars, admin, handled, metafs_interrupted, ret>>
           \/ /\ g.rgs # << >> /\ Write(g.rgs[Len(g.rgs)])
              /\ Goto(p, "fsync") /\ UNCHANGED <<dev, grow, admin, handled, metafs_interrupted, ret, faults>>
           \/ /\ g.rgs = << >>
              /\ End(p, "killed") /\ admin' = Unlocked(p) /\ UNCHANGED <<gvars, faults>>
        /\ UNCHANGED <<metafs, stable, mounts, runs>>

SyncDeviceLater(p) ==
    /\ pc[p] = "fsync" /\ Goto(p, IF p \in metafs_interrupted THEN "cleanup" ELSE "first")
    /\ UNCHANGED <<metafs, stable, admin, mounts, handled, metafs_interrupted, ret, runs, faults, gvars>>

(* The device is synced (twice) before the rindex is touched.              *)
SyncDevice(p) ==
    /\ pc[p] = "fsync" /\ cached' = {}
    /\ Goto(p, IF p \in metafs_interrupted THEN "cleanup" ELSE "first")
    /\ UNCHANGED <<metafs, stable, admin, mounts, handled, metafs_interrupted, ret, runs, faults, dev, groups, grow>>

-----------------------------------------------------------------------------
(* fix_rindex, which does nothing with -T.  The rindex must be as it was   *)
(* read.                                                                   *)
RindexAsRead(p) == Len(metafs.rindex) = grow[p].old /\ ~metafs.ragged
Extend(rindex, ragged) == metafs' = [metafs EXCEPT !.rindex = @ \o rindex, !.ragged = ragged]
Truncate(p, n) == metafs' = [metafs EXCEPT !.rindex = SubSeq(@, 1, grow[p].old + n), !.ragged = FALSE]

RindexStep(p, to, kept) ==
    /\ Goto(p, to) /\ grow' = [grow EXCEPT ![p] = [@ EXCEPT !.kept = kept]]
    /\ UNCHANGED <<stable, admin, mounts, handled, metafs_interrupted, ret, runs, dev, groups, cached>>

(* The first entry: a write that fails leaves the rindex alone, one cut    *)
(* short leaves a part of an entry, which is truncated.                    *)
FirstEntry(p) ==
    /\ pc[p] = "first"
    /\ IF RindexAsRead(p) /\ ~grow[p].test
       THEN \/ Extend(<<grow[p].rgs[1]>>, FALSE) /\ UNCHANGED faults /\ RindexStep(p, "rest", 0)
            \/ Fault /\ UNCHANGED metafs /\ RindexStep(p, "cleanup", 0)
            \/ Fault /\ Extend(<< >>, TRUE) /\ RindexStep(p, "trunc", 0)
       ELSE UNCHANGED <<metafs, faults>> /\ RindexStep(p, "cleanup", 0)

(* The others, in one write, which may write n of them and a part of the   *)
(* next.  The truncation that follows counts from the old end, as if the   *)
(* first entry were one of the n.                                          *)
Rest(p) == Tail(grow[p].rgs)
OtherEntries(p) ==
    /\ pc[p] = "rest"
    /\ \/ Extend(Rest(p), FALSE) /\ UNCHANGED faults /\ RindexStep(p, "rsync", 0)
       \/ Rest(p) # << >> /\ Fault /\ UNCHANGED metafs /\ RindexStep(p, "cleanup", 0)
       \/ \E n \in 0 .. Len(Rest(p)) - 1, part \in BOOLEAN :
             /\ n > 0 \/ part
             /\ Fault /\ Extend(SubSeq(Rest(p), 1, n), part)
             /\ RindexStep(p, "trunc", n)

(* ftruncate may fail as well.                                             *)
TruncateRindex(p) ==
    /\ pc[p] = "trunc"
    /\ \/ Truncate(p, grow[p].kept) /\ UNCHANGED faults
       \/ Fault /\ UNCHANGED metafs
    /\ RindexStep(p, "cleanup", 0)

SyncRindex(p) ==
    /\ pc[p] = "rsync" /\ stable' = metafs
    /\ Goto(p, "cleanup")
    /\ UNCHANGED <<metafs, admin, mounts, handled, metafs_interrupted, ret, runs, faults, gvars>>

(* out: what the run ends with is what it had before the writing began.    *)
GrowCleanup(p) ==
    /\ pc[p] = "cleanup" /\ cleanup_metafs(p)
    /\ cached' = {}
    /\ Goto(p, "ended") /\ grow' = [grow EXCEPT ![p] = NoGrow]
    /\ UNCHANGED <<ret, dev, groups>>

GrowStep(p) ==
    \/ mount_gfs2_meta(p) /\ UNCHANGED gvars
    \/ Locked(p)
    \/ ReadRindex(p) \/ Discard(p) \/ NewRgrp(p) \/ WriteFinal(p) \/ SyncDevice(p)
    \/ FirstEntry(p) \/ OtherEntries(p) \/ TruncateRindex(p) \/ SyncRindex(p)
    \/ GrowCleanup(p)
=============================================================================
