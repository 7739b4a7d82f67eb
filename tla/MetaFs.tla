------------------------------- MODULE MetaFs -------------------------------
(***************************************************************************)
(* The metafs of a mounted file system, as gfs2_grow and gfs2_jadd use it  *)
(* (mkfs/metafs.c): each run mounts it, catches signals, takes the admin   *)
(* lock (a flock on its root directory) and gives everything back at the   *)
(* end.  The mounted file system itself is external: its log makes what    *)
(* was done before an fsync durable, in order; the data of a file only an  *)
(* fsync of the file does.                                                 *)
(*                                                                         *)
(* A run may fail at a system call, be sent a signal or be killed, and the *)
(* node may crash, MaxFaults times in all; MaxRuns is the number of runs.  *)
(***************************************************************************)
EXTENDS Integers, Sequences, FiniteSets

CONSTANTS
    Growers, Adders,        \* processes that run gfs2_grow, and gfs2_jadd
    MaxRuns, MaxFaults

Procs == Growers \union Adders
None == "none"

ASSUME MetaFsAssumption ==
    /\ Growers \intersect Adders = {} /\ None \notin Procs
    /\ MaxRuns \in Nat /\ MaxFaults \in Nat

VARIABLES
    metafs,     \* the files of the metafs that the commands change
    stable,     \* the same, as far as the log has it
    admin,      \* the holder of the admin lock
    mounts,     \* the processes whose metafs mount is there
    pc,
    handled,    \* the processes for which sighandler is installed
    metafs_interrupted,
    ret,        \* the status a run ends with, "killed" when it was
    runs, faults

mvars == <<metafs, stable, admin, mounts, pc, handled, metafs_interrupted, ret, runs, faults>>

Running == { p \in Procs : pc[p] \notin {"idle", "ended"} }
Fault == faults < MaxFaults /\ faults' = faults + 1
Goto(p, to) == pc' = [pc EXCEPT ![p] = to]

(* A process is no more: the kernel closes what it had open, which gives   *)
(* the lock up.  The mount stays.                                          *)
Unlocked(p) == IF admin = p THEN None ELSE admin
End(p, status) ==
    /\ Goto(p, "ended") /\ ret' = [ret EXCEPT ![p] = status]
    /\ handled' = handled \ {p}
    /\ metafs_interrupted' = metafs_interrupted \ {p}

-----------------------------------------------------------------------------
(* main() up to mount_gfs2_meta.  The device is looked up in the mounts.   *)
Begin(p) ==
    /\ pc[p] = "idle" /\ runs < MaxRuns /\ runs' = runs + 1
    /\ Goto(p, "mount") /\ ret' = [ret EXCEPT ![p] = "success"]
    /\ UNCHANGED <<metafs, stable, admin, mounts, handled, metafs_interrupted, faults>>
Again(p) ==
    /\ pc[p] = "ended" /\ runs < MaxRuns
    /\ Goto(p, "idle")
    /\ UNCHANGED <<metafs, stable, admin, mounts, handled, metafs_interrupted, ret, runs, faults>>

(* mount_gfs2_meta: setsigs comes before the mount.                        *)
mount_gfs2_meta(p) ==
    /\ pc[p] = "mount"
    /\ \/ /\ mounts' = mounts \union {p} /\ handled' = handled \union {p}
          /\ Goto(p, "lock") /\ UNCHANGED <<ret, metafs_interrupted, faults>>
       \/ Fault /\ End(p, "failure") /\ UNCHANGED mounts
    /\ UNCHANGED <<metafs, stable, admin, runs>>

(* lock_for_admin waits for the flock; when that fails the metafs is       *)
(* unmounted and both commands end.                                        *)
LockFails(p) ==
    /\ mounts' = mounts \ {p} /\ End(p, "failure")
    /\ UNCHANGED <<metafs, stable, admin, runs>>
lock_for_admin(p, then) ==
    /\ pc[p] = "lock"
    /\ \/ /\ admin = None /\ admin' = p /\ Goto(p, then)
          /\ UNCHANGED <<metafs, stable, mounts, handled, metafs_interrupted, ret, runs, faults>>
       \/ Fault /\ LockFails(p)

(* cleanup_metafs: an fsync, the lock is given up, the metafs unmounted,   *)
(* the signals set to their default - and metafs_interrupted cleared.      *)
cleanup_metafs(p) ==
    /\ stable' = metafs /\ admin' = Unlocked(p)
    /\ \/ mounts' = mounts \ {p} /\ UNCHANGED faults
       \/ mounts' = mounts /\ Fault
    /\ handled' = handled \ {p}
    /\ metafs_interrupted' = metafs_interrupted \ {p}
    /\ UNCHANGED <<metafs, runs>>

-----------------------------------------------------------------------------
(* A signal of setsigs(): sighandler notes it, and a flock that waits is   *)
(* interrupted, for setsigs() does not ask for a restart; without handler  *)
(* it ends the process.                                                    *)
Signal(p) ==
    /\ p \in Running /\ Fault
    /\ IF p \in handled
       THEN IF pc[p] = "lock" THEN LockFails(p)
            ELSE /\ metafs_interrupted' = metafs_interrupted \union {p}
                 /\ UNCHANGED <<metafs, stable, admin, mounts, pc, handled, ret, runs>>
       ELSE End(p, "killed") /\ admin' = Unlocked(p) /\ UNCHANGED <<metafs, stable, mounts, runs>>
Kill(p) ==
    /\ p \in Running /\ Fault
    /\ End(p, "killed") /\ admin' = Unlocked(p)
    /\ UNCHANGED <<metafs, stable, mounts, runs>>

(* The node crashes: no process is left, and the metafs is as the log has  *)
(* it, or a later state: one of survivors, of which the file data is left. *)
Crash(survivors) ==
    /\ Fault /\ Running # {}
    /\ metafs' \in survivors /\ stable' = metafs'
    /\ admin' = None /\ mounts' = {} /\ handled' = {} /\ metafs_interrupted' = {}
    /\ pc' = [p \in Procs |-> IF p \in Running THEN "ended" ELSE pc[p]]
    /\ ret' = [p \in Procs |-> IF p \in Running THEN "killed" ELSE ret[p]]
    /\ UNCHANGED runs
=============================================================================
