---------------------------- MODULE LogRecovery ----------------------------
(***************************************************************************)
(* What the journals of a cluster promise and what fsck.gfs2's replay of   *)
(* them must deliver, without the layout of a journal: the protocol of     *)
(* doc/journaling.txt ("Revocation of a lock's buffers") seen from the     *)
(* blocks.  The version of a block counts the transactions that changed it.*)
(* A journal is reduced to what its replay would write: for each block the *)
(* version in its last unrevoked entry of the active region, or Nothing.   *)
(*                                                                         *)
(* JournalReplay, the journals block by block, implements this.            *)
(***************************************************************************)
EXTENDS Naturals

CONSTANTS
    Journals,   \* the journals, one per node
    FsBlocks,   \* the blocks of the file system that are journaled
    MaxVer      \* bound on the version of a block

ASSUME MaxVerAssumption == MaxVer \in Nat \ {0}

VARIABLES
    ver,        \* version each block was last committed in
    disk,       \* version each block has in place
    pend,       \* pend[j][b]: version the replay of j leaves in b, or Nothing
    owner,      \* owner[b]: the journal of the node that holds b's lock
    mounted,    \* the nodes run; FALSE from a crash until fsck is through
    lost        \* blocks whose last update went with a cleared journal

vars == <<ver, disk, pend, owner, mounted, lost>>

Nothing == 0
Version == 1 .. MaxVer
Clean(j) == \A b \in FsBlocks : pend[j][b] = Nothing

TypeOK ==
    /\ ver \in [FsBlocks -> Version]
    /\ disk \in [FsBlocks -> 0 .. MaxVer]
    /\ pend \in [Journals -> [FsBlocks -> 0 .. MaxVer]]
    /\ owner \in [FsBlocks -> Journals]
    /\ mounted \in BOOLEAN
    /\ lost \in SUBSET FsBlocks

Init ==
    /\ ver = [b \in FsBlocks |-> 1]
    /\ disk = ver
    /\ pend = [j \in Journals |-> [b \in FsBlocks |-> Nothing]]
    /\ owner \in [FsBlocks -> Journals]
    /\ mounted = TRUE
    /\ lost = {}

(* A revoke goes into the journal only once the block is in place. *)
RevocableAlways(j, b) == pend[j][b] # Nothing
Revocable(j, b) == pend[j][b] # Nothing /\ disk[b] = ver[b]

(* The node of j commits a transaction that changes the blocks S, all under  *)
(* its locks.  Older transactions may leave the active region with it, and   *)
(* it may carry revokes: the blocks R are no longer to be replayed from j.   *)
Commit(j, S, R) ==
    /\ mounted
    /\ \A b \in S : owner[b] = j /\ ver[b] < MaxVer
    /\ \A b \in R : b \notin S /\ Revocable(j, b)
    /\ ver' = [b \in FsBlocks |-> IF b \in S THEN ver[b] + 1 ELSE ver[b]]
    /\ pend' = [pend EXCEPT ![j] = [b \in FsBlocks |->
                  IF b \in S THEN ver[b] + 1 ELSE IF b \in R THEN Nothing ELSE @[b]]]
    /\ UNCHANGED <<disk, owner, mounted, lost>>

(* The holder of b's lock writes it in place. *)
WriteBack(b) ==
    /\ mounted
    /\ disk' = [disk EXCEPT ![b] = ver[b]]
    /\ UNCHANGED <<ver, pend, owner, mounted, lost>>

(* The lock passes to another node: b is in place and not in the old         *)
(* holder's journal.                                                         *)
MayPassUnrevoked(b) == disk[b] = ver[b]
MayPass(b) == disk[b] = ver[b] /\ pend[owner[b]][b] = Nothing
Acquire(j, b) ==
    /\ mounted /\ MayPass(b)
    /\ owner' = [owner EXCEPT ![b] = j]
    /\ UNCHANGED <<ver, disk, pend, mounted, lost>>

Crash ==
    /\ mounted
    /\ mounted' = FALSE
    /\ UNCHANGED <<ver, disk, pend, owner, lost>>

(* Replay writes a block it has an entry for.  On the way to the last entry  *)
(* older ones pass by.                                                       *)
HasEntry(j, b) == pend[j][b] # Nothing
ReplayWrite(j, b) ==
    /\ ~mounted /\ HasEntry(j, b)
    /\ \E v \in 0 .. MaxVer : disk' = [disk EXCEPT ![b] = v]
    /\ UNCHANGED <<ver, pend, owner, mounted, lost>>

(* A journal is marked clean only when every entry is in place. *)
Replayed(j) == \A b \in FsBlocks : pend[j][b] # Nothing => disk[b] = pend[j][b]
MarkClean(j) ==
    /\ ~mounted /\ Replayed(j)
    /\ pend' = [pend EXCEPT ![j] = [b \in FsBlocks |-> Nothing]]
    /\ UNCHANGED <<ver, disk, owner, mounted, lost>>

(* The user has a journal cleared: what only it held is lost. *)
Clear(j) ==
    /\ ~mounted
    /\ pend' = [pend EXCEPT ![j] = [b \in FsBlocks |-> Nothing]]
    /\ lost' = lost \union { b \in FsBlocks : pend[j][b] # Nothing }
    /\ UNCHANGED <<ver, disk, owner, mounted>>

(* The file system is mounted again as it is on disk. *)
Mountable == /\ \A j \in Journals : Clean(j)
             /\ \A b \in FsBlocks : disk[b] # Nothing
Mount ==
    /\ ~mounted /\ Mountable
    /\ mounted' = TRUE /\ ver' = disk /\ lost' = {}
    /\ owner' \in [FsBlocks -> Journals]
    /\ UNCHANGED <<disk, pend>>

Next ==
    \/ \E j \in Journals, S, R \in SUBSET FsBlocks : Commit(j, S, R)
    \/ \E b \in FsBlocks : WriteBack(b)
    \/ \E j \in Journals, b \in FsBlocks : Acquire(j, b) \/ ReplayWrite(j, b)
    \/ \E j \in Journals : MarkClean(j) \/ Clear(j)
    \/ Crash \/ Mount

Spec == Init /\ [][Next]_vars

-----------------------------------------------------------------------------
(* "This method prevents a block from appearing in more than one journal"   *)
(* (doc/journaling.txt:88): only the holder's journal has something to      *)
(* replay for a block, and it is the block's last committed version.        *)
OnlyHolderReplays ==
    \A j \in Journals, b \in FsBlocks :
      pend[j][b] # Nothing => owner[b] = j /\ pend[j][b] = ver[b]

(* No committed update is ever out of reach: it is in place, or its replay   *)
(* is still to come.                                                         *)
Recoverable ==
    \A b \in FsBlocks : b \notin lost =>
      disk[b] = ver[b] \/ \E j \in Journals : pend[j][b] = ver[b]

(* When every journal is clean, every block holds its last committed version *)
(* unless its journal was cleared.                                           *)
RecoveredIsCommitted ==
    (\A j \in Journals : Clean(j)) => \A b \in FsBlocks : b \notin lost => disk[b] = ver[b]

(* Replay of one journal disturbs no block another journal or none has.      *)
ReplayDisturbsNone ==
    [][\A b \in FsBlocks : ~mounted /\ disk'[b] # disk[b] => pend[owner[b]][b] # Nothing]_vars
=============================================================================
