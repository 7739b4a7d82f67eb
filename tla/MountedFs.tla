----------------------------- MODULE MountedFs -----------------------------
(***************************************************************************)
(* gfs2_grow and gfs2_jadd on one mounted file system, run together, again *)
(* and after each other, by way of the metafs and its admin lock.  The     *)
(* file system is in use meanwhile, and may have no free space left.       *)
(***************************************************************************)
EXTENDS Grow, JAdd

CONSTANTS
    Devices,        \* devices: length, alignment, and the groups of the file system
    Journals,       \* the journals it has
    Avails          \* its free blocks

ASSUME MountedFsAssumption ==
    /\ \A d \in Devices : d.al \in Alignments /\ d.rindex # << >>
    /\ Journals \in Nat \ {0} /\ Avails \subseteq Nat

vars == <<mvars, gvars, avail, jadd>>

OldFs(d) ==
    [rindex |-> d.rindex, ragged |-> FALSE, new_inode |-> NoInode,
     per_node |-> [n \in (Kinds \ {"journal"}) \X (0 .. Journals - 1) |-> GoodInode(n[1])],
     jindex |-> [j \in 0 .. Journals - 1 |-> GoodInode("journal")]]

Init ==
    /\ \E d \in Devices :
          /\ dev = [length |-> d.length, al |-> d.al]
          /\ metafs = OldFs(d) /\ stable = metafs
          /\ groups = Entries(d.rindex)
    /\ cached = {} /\ avail \in Avails
    /\ admin = None /\ mounts = {} /\ handled = {} /\ metafs_interrupted = {}
    /\ pc = [p \in Procs |-> "idle"] /\ ret = [p \in Procs |-> "success"]
    /\ grow = [p \in Growers |-> NoGrow] /\ jadd = [p \in Adders |-> NoJAdd]
    /\ runs = 0 /\ faults = 0

BeginGrow(p) ==
    /\ Begin(p)
    /\ \E t \in TestModes : grow' = [grow EXCEPT ![p].test = t]
    /\ UNCHANGED <<dev, groups, cached>>

Command(p) ==
    \/ p \in Growers /\ GrowStep(p) /\ UNCHANGED <<avail, jadd>>
    \/ p \in Adders /\ JAddStep(p) /\ UNCHANGED gvars

(* The device loses any of what its cache holds when the node crashes.     *)
NodeCrash ==
    /\ Crash({DataLost(stable), DataLost(metafs)})
    /\ \E lost \in SUBSET cached : groups' = groups \ lost
    /\ cached' = {}
    /\ grow' = [p \in Growers |-> NoGrow] /\ jadd' = [p \in Adders |-> NoJAdd]
    /\ UNCHANGED <<dev, avail>>

(* The users of the file system write files.                               *)
Use == avail > 0 /\ Fault /\ avail' = 0
       /\ UNCHANGED <<metafs, stable, admin, mounts, pc, handled, metafs_interrupted, ret, runs, gvars, jadd>>

Forget(p) ==
    /\ IF p \in Growers THEN grow' = [grow EXCEPT ![p] = NoGrow] /\ UNCHANGED jadd
                        ELSE jadd' = [jadd EXCEPT ![p] = NoJAdd] /\ UNCHANGED grow
    /\ UNCHANGED <<dev, groups, cached, avail>>

Next ==
    \/ \E p \in Procs : Command(p)
    \/ \E p \in Growers : BeginGrow(p) /\ UNCHANGED <<avail, jadd>>
    \/ \E p \in Adders : gather_info(p) /\ UNCHANGED gvars
    \/ \E p \in Procs : Again(p) /\ Forget(p)
    \/ \E p \in Procs : Signal(p) /\ UNCHANGED <<gvars, avail, jadd>>
    \/ \E p \in Procs : Kill(p) /\ UNCHANGED <<gvars, avail, jadd>>
    \/ NodeCrash \/ Use

Spec == Init /\ [][Next]_vars /\ \A p \in Procs : WF_vars(Command(p))

-----------------------------------------------------------------------------
PcOf == {"idle", "mount", "lock", "read", "cleanup", "ended"}
GrowPcs == {"discard", "rgrp", "fsync", "first", "rest", "trunc", "rsync"}
JAddPcs == {"next", "create", "fill", "sync", "rename"}
GroupType == [addr : Nat, length : Nat, data : Nat]
InodeType == [kind : Kinds \union {None}, full : BOOLEAN, synced : BOOLEAN, took : Nat, by : Procs \union {None}]

(* The state is as the data types say, and who is at work holds the lock.  *)
TypeOK ==
    /\ groups \subseteq GroupType /\ cached \subseteq groups
    /\ \A fs \in {metafs, stable} :
          /\ Entries(fs.rindex) \subseteq GroupType /\ fs.ragged \in BOOLEAN
          /\ fs.new_inode \in InodeType
          /\ \A n \in DOMAIN fs.per_node : fs.per_node[n] \in InodeType
          /\ \A n \in DOMAIN fs.jindex : fs.jindex[n] \in InodeType
    /\ \A p \in Procs : pc[p] \in PcOf \union (IF p \in Growers THEN GrowPcs ELSE JAddPcs)
    /\ mounts \subseteq Procs /\ handled \subseteq Procs /\ metafs_interrupted \subseteq handled
    /\ avail \in Nat /\ runs \in 0 .. MaxRuns /\ faults \in 0 .. MaxFaults
    /\ \A p \in Procs : ret[p] \in {"success", "failure", "killed"}
    /\ \A p \in Running : pc[p] \notin {"mount", "lock"} => admin = p

(* Whatever stops a gfs2_grow and wherever, and whatever the one before it *)
(* left, every entry of the rindex is of a group that is whole on the      *)
(* device, ends before the next one begins and within the device; this     *)
(* after a crash of the node as well (main_grow.c writes and syncs the     *)
(* groups before it writes an entry, and checks the size of the rindex).   *)
RindexSound(fs) ==
    /\ Entries(fs.rindex) \subseteq groups
    /\ \A i \in DOMAIN fs.rindex : RgEnd(fs.rindex[i]) =< dev.length
    /\ \A i, j \in DOMAIN fs.rindex : i < j => RgEnd(fs.rindex[i]) =< fs.rindex[j].addr
RindexNamesGroups ==
    /\ RindexSound(metafs) /\ RindexSound(stable)
    /\ Entries(stable.rindex) \subseteq groups \ cached

(* A journal in jindex has its three files in per_node, each of its own    *)
(* kind and written in full, and the journals are numbered from 0 without  *)
(* a gap: a node that mounts with any of them finds what it needs.  This   *)
(* holds at every moment, when a run is cut short and after a crash        *)
(* (main_jadd.c:701-712 makes the journal last, and syncs each file before *)
(* it gets its name).                                                      *)
Whole(fs, f, kind) == f.kind = kind /\ f.full
JournalsComplete ==
    \A fs \in {metafs, DataLost(metafs), DataLost(stable)} :
        LET n == Cardinality(DOMAIN fs.jindex) IN
        /\ DOMAIN fs.jindex = 0 .. n - 1
        /\ \A j \in DOMAIN fs.jindex :
              /\ Whole(fs, fs.jindex[j], "journal")
              /\ \A k \in Kinds \ {"journal"} :
                    <<k, j>> \in DOMAIN fs.per_node /\ Whole(fs, fs.per_node[<<k, j>>], k)

(* A run of either command comes to an end: nobody waits for the lock for  *)
(* ever, and a new_inode that was left behind stops no one.                *)
RunsEnd == \A p \in Procs : pc[p] = "mount" ~> pc[p] = "ended"

=============================================================================
