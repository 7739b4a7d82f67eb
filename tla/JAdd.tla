-------------------------------- MODULE JAdd --------------------------------
(***************************************************************************)
(* gfs2_jadd (mkfs/main_jadd.c): each new journal is four files, made one  *)
(* after the other under the name new_inode, filled, synced and renamed    *)
(* into place: inum_range, statfs_change and quota_change in per_node, and *)
(* last the journal in jindex.  A run that ends early leaves what it made. *)
(***************************************************************************)
EXTENDS MetaFs

CONSTANTS
    Request,        \* how many journals a run is asked to add
    Cost            \* the blocks of each part of a journal

Parts == <<"inum_range", "statfs_change", "quota_change", "journal">>
Kinds == { Parts[i] : i \in DOMAIN Parts }
PerJournal == Cost["inum_range"] + Cost["statfs_change"] + Cost["quota_change"] + Cost["journal"]

VARIABLES
    avail,      \* the free blocks of the file system
    jadd        \* what each gfs2_jadd knows: the free blocks it saw at first,
                \* the journals it found, the one it makes (opts->journals)
                \* and the part of it, and where to stop

NoJAdd == [snapshot |-> 0, orig |-> 0, journals |-> 0, part |-> 1, total |-> 0]

(* A file of the metafs: what it is for, if it is written, and if its data *)
(* is on disk; took is its blocks.  by is the process that has it open.    *)
NewInode(kind, p) == [kind |-> kind, full |-> FALSE, synced |-> FALSE, took |-> 0, by |-> p]
NoInode == [kind |-> None, full |-> FALSE, synced |-> FALSE, took |-> 0, by |-> None]
GoodInode(kind) == [kind |-> kind, full |-> TRUE, synced |-> TRUE, took |-> Cost[kind], by |-> None]

(* Data no fsync has reached may be lost with the node.                    *)
Settled(f) == IF f.synced THEN f ELSE [f EXCEPT !.full = FALSE]
DataLost(fs) ==
    [fs EXCEPT !.new_inode = Settled(@),
               !.per_node = [n \in DOMAIN @ |-> Settled(@[n])],
               !.jindex = [n \in DOMAIN @ |-> Settled(@[n])]]

Kind(p) == Parts[jadd[p].part]
Mine(p) == metafs.new_inode.by = p
Upd(p, r) == jadd' = [jadd EXCEPT ![p] = r]

AddStep(p, to) ==
    /\ Goto(p, to)
    /\ UNCHANGED <<admin, mounts, handled, metafs_interrupted, runs>>
FailTo(p, to) == AddStep(p, to) /\ ret' = [ret EXCEPT ![p] = "failure"]

-----------------------------------------------------------------------------
(* gather_info asks for the free space before the lock is taken.           *)
gather_info(p) ==
    /\ pc[p] = "idle" /\ Begin(p)
    /\ Upd(p, [NoJAdd EXCEPT !.snapshot = avail]) /\ UNCHANGED avail

(* find_current_journals counts the names in jindex that begin with        *)
(* "journal"; check_fit compares with the space there was.                 *)
Survey(p) ==
    LET orig == Cardinality(DOMAIN metafs.jindex)
    IN  /\ pc[p] = "read"
        /\ \/ Fault /\ FailTo(p, "cleanup") /\ UNCHANGED jadd
           \/ /\ orig = 0 \/ Request * PerJournal > jadd[p].snapshot
              /\ FailTo(p, "cleanup") /\ UNCHANGED <<jadd, faults>>
           \/ /\ orig > 0 /\ Request * PerJournal =< jadd[p].snapshot
              /\ Upd(p, [jadd[p] EXCEPT !.orig = orig, !.journals = orig, !.total = orig + Request])
              /\ AddStep(p, "next") /\ UNCHANGED <<ret, faults>>
        /\ UNCHANGED <<metafs, stable, avail>>

(* The loop of main(): a signal ends it, with status 0.                    *)
NextJournal(p) ==
    /\ pc[p] = "next"
    /\ IF jadd[p].journals = jadd[p].total \/ p \in metafs_interrupted
       THEN AddStep(p, "cleanup") ELSE AddStep(p, "create")
    /\ UNCHANGED <<metafs, stable, ret, faults, avail, jadd>>

CreateNewInodeAgain(p) ==
    /\ pc[p] = "create"
    /\ IF metafs.new_inode = NoInode
       THEN metafs' = [metafs EXCEPT !.new_inode = NewInode(Kind(p), p)] /\ AddStep(p, "fill")
       ELSE metafs' = metafs /\ AddStep(p, "create")
    /\ UNCHANGED <<stable, ret, faults, avail, jadd>>

(* create_new_inode: a new_inode that is there is unlinked and the open    *)
(* tried again.  Its blocks are free again.                                *)
create_new_inode(p) ==
    /\ pc[p] = "create"
    /\ \/ /\ metafs.new_inode = NoInode
          /\ metafs' = [metafs EXCEPT !.new_inode = NewInode(Kind(p), p)]
          /\ AddStep(p, "fill") /\ UNCHANGED <<ret, faults, avail>>
       \/ /\ metafs.new_inode # NoInode
          /\ metafs' = [metafs EXCEPT !.new_inode = NoInode]
          /\ avail' = avail + metafs.new_inode.took
          /\ AddStep(p, "create") /\ UNCHANGED <<ret, faults>>
       \/ Fault /\ FailTo(p, "cleanup") /\ UNCHANGED <<metafs, avail>>
    /\ UNCHANGED <<stable, jadd>>

(* The flags are set and the file written: for the journal the space is    *)
(* allocated first and each log header asked its block.  With no space     *)
(* left the file has got what there was.  What p wrote is of no account if *)
(* the name is another's.                                                  *)
Fill(p) ==
    LET took(n) == IF Mine(p) THEN [metafs.new_inode EXCEPT !.took = n] ELSE metafs.new_inode
        filled == IF Mine(p) THEN [took(Cost[Kind(p)]) EXCEPT !.full = TRUE] ELSE metafs.new_inode
    IN  /\ pc[p] = "fill"
        /\ \/ /\ avail >= Cost[Kind(p)] /\ avail' = avail - Cost[Kind(p)]
              /\ metafs' = [metafs EXCEPT !.new_inode = filled]
              /\ AddStep(p, "sync") /\ UNCHANGED <<ret, faults>>
           \/ /\ avail < Cost[Kind(p)] /\ avail' = 0
              /\ metafs' = [metafs EXCEPT !.new_inode = took(avail)]
              /\ FailTo(p, "cleanup") /\ UNCHANGED faults
           \/ Fault /\ FailTo(p, "cleanup") /\ UNCHANGED <<metafs, avail>>
        /\ UNCHANGED <<stable, jadd>>

SyncInodeLater(p) ==
    /\ pc[p] = "sync" /\ AddStep(p, "rename")
    /\ UNCHANGED <<metafs, stable, ret, faults, avail, jadd>>
SyncInode(p) ==
    /\ pc[p] = "sync"
    /\ \/ /\ metafs' = [metafs EXCEPT !.new_inode.synced = @ \/ Mine(p)]
          /\ stable' = metafs'
          /\ AddStep(p, "rename") /\ UNCHANGED <<ret, faults>>
       \/ Fault /\ FailTo(p, "cleanup") /\ UNCHANGED <<metafs, stable>>
    /\ UNCHANGED <<avail, jadd>>

(* rename2system replaces a file of that name.  After the journal comes    *)
(* the next one.                                                           *)
Placed(dir, n, f) == [k \in DOMAIN dir \union {n} |-> IF k = n THEN f ELSE dir[k]]
Took(dir, n) == IF n \in DOMAIN dir THEN dir[n].took ELSE 0
rename2system(p) ==
    LET f == [metafs.new_inode EXCEPT !.by = None]
        j == jadd[p].journals
    IN  /\ pc[p] = "rename"
        /\ \/ /\ metafs.new_inode # NoInode
              /\ IF Kind(p) = "journal"
                 THEN /\ metafs' = [metafs EXCEPT !.new_inode = NoInode, !.jindex = Placed(@, j, f)]
                      /\ avail' = avail + Took(metafs.jindex, j)
                      /\ Upd(p, [jadd[p] EXCEPT !.part = 1, !.journals = @ + 1])
                      /\ AddStep(p, "next")
                 ELSE LET n == <<Kind(p), j>>
                      IN  /\ metafs' = [metafs EXCEPT !.new_inode = NoInode, !.per_node = Placed(@, n, f)]
                          /\ avail' = avail + Took(metafs.per_node, n)
                          /\ Upd(p, [jadd[p] EXCEPT !.part = @ + 1])
                          /\ AddStep(p, "create")
              /\ UNCHANGED <<ret, faults>>
           \/ /\ Fault \/ (metafs.new_inode = NoInode /\ UNCHANGED faults)
              /\ FailTo(p, "cleanup") /\ UNCHANGED <<metafs, avail, jadd>>
        /\ UNCHANGED stable

(* sync() and cleanup_metafs; then print_results, if the status is 0.      *)
JAddCleanup(p) ==
    /\ pc[p] = "cleanup" /\ cleanup_metafs(p)
    /\ Goto(p, "ended") /\ Upd(p, NoJAdd)
    /\ UNCHANGED <<ret, avail>>

JAddStep(p) ==
    \/ mount_gfs2_meta(p) /\ UNCHANGED <<avail, jadd>>
    \/ lock_for_admin(p, "read") /\ UNCHANGED <<avail, jadd>>
    \/ Survey(p) \/ NextJournal(p) \/ create_new_inode(p) \/ Fill(p)
    \/ SyncInode(p) \/ rename2system(p) \/ JAddCleanup(p)
=============================================================================
