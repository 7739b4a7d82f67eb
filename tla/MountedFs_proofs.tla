-------------------------- MODULE MountedFs_proofs --------------------------
(***************************************************************************)
(* The journals of a mounted file system, for any number of gfs2_grow and  *)
(* gfs2_jadd, any device and any number of failures, signals, kills and    *)
(* crashes: every journal in jindex has its files.                         *)
(***************************************************************************)
EXTENDS MountedFs, FiniteSetTheorems, TLAPS

FsFields == {"rindex", "ragged", "new_inode", "per_node", "jindex"}
FileFields == {"kind", "full", "synced", "took", "by"}
JAddFields == {"snapshot", "orig", "journals", "part", "total"}

Pcs == PcOf \union GrowPcs \union JAddPcs

(* What the proofs need of the types.                                      *)
ShapeOK ==
    /\ DOMAIN metafs = FsFields /\ DOMAIN stable = FsFields
    /\ pc \in [Procs -> Pcs]
    /\ DOMAIN jadd = Adders
    /\ \A p \in Adders : DOMAIN jadd[p] = JAddFields

(* Whoever has come past the lock holds it.                                *)
Outside == {"idle", "mount", "lock", "ended"}
Exclusive == \A p \in Procs : pc[p] \notin Outside => admin = p

(* A file that has its data on disk; the journals 0 .. n - 1, with theirs. *)
Good(f, kind) == f.kind = kind /\ f.full = TRUE /\ f.synced = TRUE
HasFiles(fs, n) ==
    \A k \in Kinds \ {"journal"} : <<k, n>> \in DOMAIN fs.per_node /\ Good(fs.per_node[<<k, n>>], k)
CompleteTo(fs, n) ==
    /\ DOMAIN fs.jindex = 0 .. n - 1
    /\ \A j \in 0 .. n - 1 : Good(fs.jindex[j], "journal") /\ HasFiles(fs, j)
Complete(fs) == \E n \in Nat : CompleteTo(fs, n)

(* A gfs2_jadd at work: the journal it makes is the next, the parts before *)
(* the one at hand are in place, and new_inode is that part as far as it   *)
(* has come.                                                               *)
Working == {"next", "create", "fill", "sync", "rename"}
PartsDone(p) ==
    \A i \in 1 .. jadd[p].part - 1 :
        LET n == <<Parts[i], jadd[p].journals>>
        IN  n \in DOMAIN metafs.per_node /\ Good(metafs.per_node[n], Parts[i])
InHand(p) ==
    /\ pc[p] \in {"fill", "sync", "rename"} =>
          DOMAIN metafs.new_inode = FileFields /\ metafs.new_inode.kind = Kind(p) /\ Mine(p)
    /\ pc[p] \in {"sync", "rename"} => metafs.new_inode.full = TRUE
    /\ pc[p] = "rename" => metafs.new_inode.synced = TRUE
AtWork(p) ==
    /\ pc[p] \in {"mount", "lock", "read", "next"} => jadd[p].part = 1
    /\ pc[p] \in Working =>
         /\ jadd[p].part \in 1 .. 4 /\ jadd[p].journals \in Nat
         /\ DOMAIN metafs.jindex = 0 .. jadd[p].journals - 1
         /\ PartsDone(p) /\ InHand(p)

IInv == ShapeOK /\ Exclusive /\ Complete(metafs) /\ Complete(stable) /\ \A p \in Adders : AtWork(p)

-----------------------------------------------------------------------------
(* The number of journals is what find_current_journals counts.            *)
LEMMA Interval == \A n \in Nat : Cardinality(0 .. n - 1) = n
  BY FS_Interval

(* A file that is whole on disk loses nothing in a crash.                  *)
LEMMA GoodIsSettled == ASSUME NEW f, NEW kind, Good(f, kind) PROVE Settled(f) = f
  BY DEF Good, Settled

(* So a crash, which brings back what was stable, keeps it complete.       *)
LEMMA CompleteSurvives ==
  ASSUME NEW fs, DOMAIN fs = FsFields, Complete(fs)
  PROVE  DOMAIN DataLost(fs) = FsFields /\ Complete(DataLost(fs))
<1> DEFINE gs == DataLost(fs)
<1>1. DOMAIN gs = FsFields
  BY DEF DataLost
<1>2. /\ gs.jindex = [n \in DOMAIN fs.jindex |-> Settled(fs.jindex[n])]
      /\ gs.per_node = [n \in DOMAIN fs.per_node |-> Settled(fs.per_node[n])]
  BY DEF DataLost, FsFields
<1>3. PICK n \in Nat : CompleteTo(fs, n)
  BY DEF Complete
<1>4. DOMAIN gs.jindex = 0 .. n - 1
  BY <1>2, <1>3 DEF CompleteTo
<1>5. ASSUME NEW j \in 0 .. n - 1 PROVE Good(gs.jindex[j], "journal")
  BY <1>2, <1>3, <1>5, GoodIsSettled DEF CompleteTo
<1>6. ASSUME NEW j \in 0 .. n - 1 PROVE HasFiles(gs, j)
  <2>1. HasFiles(fs, j)
    BY <1>3, <1>6 DEF CompleteTo
  <2>2. QED
    BY <1>2, <2>1, GoodIsSettled DEF HasFiles
<1>7. CompleteTo(gs, n)
  BY <1>4, <1>5, <1>6 DEF CompleteTo
<1>8. QED
  BY <1>1, <1>7 DEF Complete

(* Nothing else in the metafs is of account.                               *)
SameFiles(fs, gs) ==
    DOMAIN gs = FsFields /\ gs.jindex = fs.jindex /\ gs.per_node = fs.per_node /\ gs.new_inode = fs.new_inode
LEMMA CompleteSame ==
  ASSUME NEW fs, NEW gs, Complete(fs), gs.jindex = fs.jindex, gs.per_node = fs.per_node
  PROVE  Complete(gs)
  BY DEF Complete, CompleteTo, HasFiles

-----------------------------------------------------------------------------
(* A step of p moves p alone and keeps to the lock.                        *)
MovesAlone(p) == pc' \in [Procs -> Pcs] /\ \A q \in Procs \ {p} : pc'[q] = pc[q]
KeepsToLock(p) ==
    \/ pc'[p] \in Outside /\ admin' \in {admin, Unlocked(p)}
    \/ pc'[p] \notin Outside /\ admin' = p /\ admin \in {None, p}

(* Such a step leaves the lock with at most one process.                   *)
LEMMA StaysExclusive ==
  ASSUME Exclusive, NEW p \in Procs, MovesAlone(p), KeepsToLock(p)
  PROVE  Exclusive'
<1> SUFFICES ASSUME NEW q \in Procs, pc'[q] \notin Outside PROVE admin' = q
  BY DEF Exclusive
<1>1. CASE q = p
  BY <1>1 DEF KeepsToLock
<1>2. CASE q # p
  <2>1. admin = q
    BY <1>2 DEF Exclusive, MovesAlone
  <2>2. None # q
    BY MetaFsAssumption
  <2>3. QED
    BY <1>2, <2>1, <2>2 DEF KeepsToLock, Unlocked
<1>3. QED
  BY <1>1, <1>2

(* Who is at work is not disturbed: whoever changes the metafs has the     *)
(* lock, and that is not he.                                               *)
LEMMA OthersAtWork ==
  ASSUME Exclusive, NEW p \in Procs, MovesAlone(p), NEW q \in Adders \ {p}, AtWork(q),
         jadd'[q] = jadd[q], metafs' = metafs \/ pc[p] \notin Outside
  PROVE  AtWork(q)'
<1>0. q \in Procs /\ pc'[q] = pc[q]
  BY DEF Procs, MovesAlone
<1>1. CASE metafs' = metafs
  BY <1>0, <1>1 DEF AtWork, PartsDone, InHand, Mine, Kind
<1>2. CASE pc[p] \notin Outside
  <2>1. pc[q] \notin Working
    BY <1>0, <1>2 DEF Exclusive, Working, Outside
  <2>2. QED
    BY <1>0, <2>1 DEF AtWork
<1>3. QED
  BY <1>1, <1>2

-----------------------------------------------------------------------------
(* gfs2_grow: it touches no journal.                                       *)
Durable(p) == stable' \in {stable, metafs, metafs'}
Disciplined(p) == MovesAlone(p) /\ KeepsToLock(p) /\ (metafs' = metafs \/ pc[p] \notin Outside) /\ Durable(p)

(* A step that moves nobody keeps to the lock.                             *)
LEMMA StandsStill ==
  ASSUME ShapeOK, Exclusive, NEW p \in Procs, pc' = pc, admin' = admin
  PROVE  MovesAlone(p) /\ KeepsToLock(p)
  BY DEF ShapeOK, Exclusive, MovesAlone, KeepsToLock

(* Mounting the metafs, taking the lock, leaving the metafs.               *)
LEMMA MountStep ==
  ASSUME ShapeOK, NEW p \in Procs, mount_gfs2_meta(p)
  PROVE  Disciplined(p) /\ pc[p] = "mount" /\ pc'[p] \in {"lock", "ended"} /\ UNCHANGED <<metafs, stable>>
<1>1. MovesAlone(p) /\ pc[p] = "mount" /\ pc'[p] \in {"lock", "ended"}
  BY DEF ShapeOK, mount_gfs2_meta, End, Goto, MovesAlone, Pcs, PcOf
<1>2. QED
  BY <1>1 DEF mount_gfs2_meta, Disciplined, KeepsToLock, Durable, Outside

LEMMA LockStep ==
  ASSUME ShapeOK, NEW p \in Procs, lock_for_admin(p, "read")
  PROVE  Disciplined(p) /\ pc[p] = "lock" /\ pc'[p] \in {"read", "ended"} /\ UNCHANGED <<metafs, stable>>
<1>1. CASE LockFails(p)
  <2>1. MovesAlone(p) /\ pc'[p] = "ended"
    BY <1>1 DEF ShapeOK, LockFails, End, Goto, MovesAlone, Pcs, PcOf
  <2>2. QED
    BY <1>1, <2>1 DEF lock_for_admin, LockFails, Disciplined, KeepsToLock, Durable, Outside
<1>2. CASE ~LockFails(p)
  <2>1. MovesAlone(p) /\ pc'[p] = "read"
    BY <1>2 DEF ShapeOK, lock_for_admin, Goto, MovesAlone, Pcs, PcOf
  <2>2. QED
    BY <1>2, <2>1 DEF lock_for_admin, Disciplined, KeepsToLock, Durable, Outside
<1>3. QED
  BY <1>1, <1>2

LEMMA CleanupStep ==
  ASSUME ShapeOK, NEW p \in Procs, pc[p] = "cleanup", cleanup_metafs(p), Goto(p, "ended")
  PROVE  Disciplined(p) /\ UNCHANGED metafs /\ pc'[p] = "ended"
<1>1. MovesAlone(p) /\ pc'[p] = "ended"
  BY DEF ShapeOK, Goto, MovesAlone, Pcs, PcOf
<1>2. QED
  BY <1>1 DEF cleanup_metafs, Disciplined, KeepsToLock, Durable, Outside

(* Every step of gfs2_grow is disciplined and touches no journal.          *)
LEMMA GrowDiscipline ==
  ASSUME ShapeOK, Exclusive, NEW p \in Growers, GrowStep(p)
  PROVE  Disciplined(p) /\ SameFiles(metafs, metafs')
<1> p \in Procs
  BY DEF Procs
<1> DEFINE Inside == /\ pc[p] \notin Outside /\ UNCHANGED admin
                     /\ \E to \in Pcs : Goto(p, to)
<1>1. ASSUME Inside PROVE MovesAlone(p) /\ KeepsToLock(p)
  <2>1. PICK to \in Pcs : pc' = [pc EXCEPT ![p] = to]
    BY <1>1 DEF Goto
  <2>2. MovesAlone(p)
    BY <2>1 DEF ShapeOK, MovesAlone
  <2>3. admin = p
    BY <1>1 DEF Exclusive
  <2>4. QED
    BY <1>1, <2>2, <2>3 DEF KeepsToLock
<1>2. CASE mount_gfs2_meta(p)
  BY <1>2, MountStep DEF SameFiles, ShapeOK
<1>3. CASE Locked(p)
  BY <1>3, LockStep DEF Locked, SameFiles, ShapeOK
<1>4. CASE ReadRindex(p)
  <2>1. CASE End(p, "failure") /\ admin' = None
    <3>1. MovesAlone(p) /\ pc'[p] = "ended" /\ admin = p
      BY <1>4, <2>1 DEF ReadRindex, ShapeOK, Exclusive, Outside, End, Goto, MovesAlone, Pcs, PcOf
    <3>2. QED
      BY <1>4, <2>1, <3>1 DEF ReadRindex, Disciplined, KeepsToLock, Unlocked, Durable, Outside, SameFiles, ShapeOK
  <2>2. CASE ~(End(p, "failure") /\ admin' = None)
    <3>1. Inside
      BY <1>4, <2>2 DEF ReadRindex, Outside, Pcs, PcOf, GrowPcs
    <3>2. QED
      BY <1>1, <1>4, <3>1 DEF ReadRindex, Disciplined, Durable, SameFiles, ShapeOK
  <2>3. QED
    BY <2>1, <2>2
<1>5. CASE Discard(p) \/ SyncDevice(p)
  <2>1. Inside
    BY <1>5 DEF Discard, SyncDevice, Outside, Pcs, PcOf, GrowPcs
  <2>2. QED
    BY <1>1, <1>5, <2>1 DEF Discard, SyncDevice, Disciplined, Durable, SameFiles, ShapeOK
<1>6. CASE NewRgrp(p)
  <2>1. MovesAlone(p) /\ KeepsToLock(p)
    <3>1. CASE UNCHANGED pc
      BY <1>6, <3>1, StandsStill DEF NewRgrp
    <3>2. CASE Goto(p, "cleanup")
      BY <1>1, <1>6, <3>2 DEF NewRgrp, Outside, Pcs, PcOf
    <3>3. QED
      BY <1>6, <3>1, <3>2 DEF NewRgrp
  <2>2. QED
    BY <1>6, <2>1 DEF NewRgrp, Disciplined, Durable, SameFiles, ShapeOK
<1>7. CASE WriteFinal(p)
  <2>1. CASE End(p, "killed") /\ admin' = Unlocked(p)
    <3>1. MovesAlone(p) /\ pc'[p] = "ended"
      BY <2>1 DEF ShapeOK, End, Goto, MovesAlone, Pcs, PcOf
    <3>2. QED
      BY <1>7, <2>1, <3>1 DEF WriteFinal, Disciplined, KeepsToLock, Durable, Outside, SameFiles, ShapeOK
  <2>2. CASE ~(End(p, "killed") /\ admin' = Unlocked(p))
    <3>1. Inside
      BY <1>7, <2>2 DEF WriteFinal, Outside, Pcs, PcOf, GrowPcs
    <3>2. QED
      BY <1>1, <1>7, <3>1 DEF WriteFinal, Disciplined, Durable, SameFiles, ShapeOK
  <2>3. QED
    BY <2>1, <2>2
<1>8. CASE FirstEntry(p) \/ OtherEntries(p) \/ TruncateRindex(p)
  <2>1. Inside /\ UNCHANGED stable
    BY <1>8 DEF FirstEntry, OtherEntries, TruncateRindex, RindexStep, Outside, Pcs, PcOf, GrowPcs
  <2>2. SameFiles(metafs, metafs')
    BY <1>8 DEF FirstEntry, OtherEntries, TruncateRindex, Extend, Truncate, SameFiles, ShapeOK, FsFields
  <2>3. QED
    BY <1>1, <2>1, <2>2 DEF Disciplined, Durable
<1>9. CASE SyncRindex(p)
  <2>1. Inside
    BY <1>9 DEF SyncRindex, Outside, Pcs, PcOf, GrowPcs
  <2>2. QED
    BY <1>1, <1>9, <2>1 DEF SyncRindex, Disciplined, Durable, SameFiles, ShapeOK
<1>10. CASE GrowCleanup(p)
  BY <1>10, CleanupStep DEF GrowCleanup, SameFiles, ShapeOK
<1>11. QED
  BY <1>2, <1>3, <1>4, <1>5, <1>6, <1>7, <1>8, <1>9, <1>10 DEF GrowStep

-----------------------------------------------------------------------------
(* What is left to show of a step of p.                                    *)
KnowsAlone(p) ==
    /\ DOMAIN jadd' = Adders /\ \A q \in Adders : DOMAIN jadd'[q] = JAddFields
    /\ \A q \in Adders \ {p} : jadd'[q] = jadd[q]

(* A disciplined step that leaves the journals complete and p's own work    *)
(* in order preserves the whole invariant.                                 *)
LEMMA Closing ==
  ASSUME IInv, NEW p \in Procs, Disciplined(p), KnowsAlone(p),
         DOMAIN metafs' = FsFields, Complete(metafs'), p \in Adders => AtWork(p)'
  PROVE  IInv'
<1>1. ShapeOK'
  BY DEF IInv, ShapeOK, Disciplined, MovesAlone, KnowsAlone, Durable
<1>2. Exclusive'
  BY StaysExclusive DEF IInv, Disciplined
<1>3. Complete(metafs)' /\ Complete(stable)'
  <2>1. Complete(stable')
    BY DEF IInv, Disciplined, Durable
  <2>2. QED
    BY <2>1 DEF Complete, CompleteTo, HasFiles, Good
<1>4. ASSUME NEW q \in Adders PROVE AtWork(q)'
  <2>1. CASE q = p
    BY <2>1
  <2>2. CASE q # p
    BY <2>2, OthersAtWork DEF IInv, Disciplined, KnowsAlone
  <2>3. QED
    BY <2>1, <2>2
<1>5. QED
  BY <1>1, <1>2, <1>3, <1>4 DEF IInv

(* A step of gfs2_jadd with the lock held.                                 *)
LEMMA AddDiscipline ==
  ASSUME ShapeOK, Exclusive, NEW p \in Adders, pc[p] \notin Outside, NEW to \in Pcs \ Outside,
         AddStep(p, to), Durable(p)
  PROVE  Disciplined(p) /\ pc'[p] = to
<1>1. p \in Procs
  BY DEF Procs
<1>2. MovesAlone(p) /\ pc'[p] = to
  BY <1>1 DEF ShapeOK, AddStep, Goto, MovesAlone
<1>3. admin = p /\ admin' = p
  BY <1>1 DEF Exclusive, AddStep
<1>4. QED
  BY <1>2, <1>3 DEF Disciplined, KeepsToLock

(* Writing the contents of the part in hand.                               *)
LEMMA FillStep ==
  ASSUME IInv, NEW p \in Adders, Fill(p)
  PROVE  IInv'
<1> p \in Procs /\ pc[p] = "fill" /\ UNCHANGED <<stable, jadd>>
  BY DEF Procs, Fill
<1>1. KnowsAlone(p)
  BY DEF IInv, ShapeOK, KnowsAlone
<1>2. /\ DOMAIN metafs' = FsFields /\ metafs'.jindex = metafs.jindex /\ metafs'.per_node = metafs.per_node
  BY DEF Fill, IInv, ShapeOK, FsFields
<1>3. Complete(metafs')
  BY <1>2, CompleteSame DEF IInv
<1>4. AtWork(p) /\ Mine(p) /\ DOMAIN metafs.new_inode = FileFields /\ metafs.new_inode.kind = Kind(p)
  BY DEF IInv, AtWork, InHand, Working
<1> DEFINE whole == [[metafs.new_inode EXCEPT !.took = Cost[Kind(p)]] EXCEPT !.full = TRUE]
<1>5. CASE AddStep(p, "sync") /\ metafs' = [metafs EXCEPT !.new_inode = whole]
  <2>1. Disciplined(p) /\ pc'[p] = "sync"
    BY <1>5, AddDiscipline DEF IInv, Outside, Durable, Pcs, JAddPcs
  <2>2. metafs'.new_inode = whole
    BY <1>5 DEF IInv, ShapeOK, FsFields
  <2>3. AtWork(p)'
    BY <1>2, <1>4, <2>1, <2>2 DEF AtWork, Working, PartsDone, InHand, Mine, Kind, FileFields
  <2>4. QED
    BY <1>1, <1>2, <1>3, <2>1, <2>3, Closing
<1>6. CASE AddStep(p, "cleanup")
  <2>1. Disciplined(p) /\ pc'[p] = "cleanup"
    BY <1>6, AddDiscipline DEF IInv, Outside, Durable, Pcs, PcOf
  <2>2. AtWork(p)'
    BY <2>1 DEF AtWork, Working
  <2>3. QED
    BY <1>1, <1>2, <1>3, <2>1, <2>2, Closing
<1>7. QED
  BY <1>4, <1>5, <1>6 DEF Fill, FailTo

(* Counting the journals, and leaving when there are too many.             *)
LEMMA SurveyStep ==
  ASSUME IInv, NEW p \in Adders, Survey(p)
  PROVE  IInv'
<1> p \in Procs /\ pc[p] = "read" /\ UNCHANGED <<metafs, stable>>
  BY DEF Procs, Survey
<1>1. DOMAIN metafs' = FsFields /\ Complete(metafs')
  BY DEF IInv, ShapeOK
<1>2. jadd[p].part = 1 /\ DOMAIN jadd = Adders /\ \A q \in Adders : DOMAIN jadd[q] = JAddFields
  BY DEF IInv, AtWork, ShapeOK
<1>3. CASE AddStep(p, "cleanup") /\ UNCHANGED jadd
  <2>1. Disciplined(p) /\ pc'[p] = "cleanup"
    BY <1>3, AddDiscipline DEF IInv, Outside, Durable, Pcs, PcOf
  <2>2. AtWork(p)'
    BY <2>1 DEF AtWork, Working
  <2>3. KnowsAlone(p)
    BY <1>2, <1>3 DEF KnowsAlone
  <2>4. QED
    BY <1>1, <2>1, <2>2, <2>3, Closing
<1> DEFINE orig == Cardinality(DOMAIN metafs.jindex)
           known == [jadd[p] EXCEPT !.orig = orig, !.journals = orig, !.total = orig + Request]
<1>4. CASE AddStep(p, "next") /\ Upd(p, known)
  <2>1. Disciplined(p) /\ pc'[p] = "next"
    BY <1>4, AddDiscipline DEF IInv, Outside, Durable, Pcs, JAddPcs
  <2>2. orig \in Nat /\ DOMAIN metafs.jindex = 0 .. orig - 1
    <3>1. PICK n \in Nat : CompleteTo(metafs, n)
      BY DEF IInv, Complete
    <3>2. QED
      BY <3>1, Interval DEF CompleteTo
  <2>3. KnowsAlone(p) /\ jadd'[p] = known
    BY <1>2, <1>4 DEF KnowsAlone, Upd, JAddFields
  <2>4. known.part = 1 /\ known.journals = orig
    BY <1>2 DEF JAddFields
  <2>5. AtWork(p)'
    BY <2>1, <2>2, <2>3, <2>4 DEF AtWork, Working, PartsDone, InHand
  <2>6. QED
    BY <1>1, <2>1, <2>3, <2>5, Closing
<1>5. QED
  BY <1>3, <1>4 DEF Survey, FailTo

(* On to the next journal asked for, or to the end.                        *)
LEMMA NextJournalStep ==
  ASSUME IInv, NEW p \in Adders, NextJournal(p)
  PROVE  IInv'
<1> p \in Procs /\ pc[p] = "next" /\ UNCHANGED <<metafs, stable, jadd>>
  BY DEF Procs, NextJournal
<1>1. DOMAIN metafs' = FsFields /\ Complete(metafs') /\ KnowsAlone(p)
  BY DEF IInv, ShapeOK, KnowsAlone
<1>2. PICK to \in {"cleanup", "create"} : AddStep(p, to)
  BY DEF NextJournal
<1>3. Disciplined(p) /\ pc'[p] = to
  BY <1>2, AddDiscipline DEF IInv, Outside, Durable, Pcs, PcOf, JAddPcs
<1>4. AtWork(p)'
  BY <1>3 DEF IInv, AtWork, Working, PartsDone, InHand
<1>5. QED
  BY <1>1, <1>3, <1>4, Closing

(* Making new_inode, which must not be there.                              *)
LEMMA CreateStep ==
  ASSUME IInv, NEW p \in Adders, create_new_inode(p)
  PROVE  IInv'
<1> p \in Procs /\ pc[p] = "create" /\ UNCHANGED <<stable, jadd>>
  BY DEF Procs, create_new_inode
<1>1. KnowsAlone(p) /\ AtWork(p)
  BY DEF IInv, ShapeOK, KnowsAlone
<1>2. /\ DOMAIN metafs' = FsFields /\ metafs'.jindex = metafs.jindex /\ metafs'.per_node = metafs.per_node
  BY DEF create_new_inode, IInv, ShapeOK, FsFields
<1>3. Complete(metafs')
  BY <1>2, CompleteSame DEF IInv
<1>4. CASE AddStep(p, "fill") /\ metafs' = [metafs EXCEPT !.new_inode = NewInode(Kind(p), p)]
  <2>1. Disciplined(p) /\ pc'[p] = "fill"
    BY <1>4, AddDiscipline DEF IInv, Outside, Durable, Pcs, JAddPcs
  <2>2. metafs'.new_inode = NewInode(Kind(p), p)
    BY <1>4 DEF IInv, ShapeOK, FsFields
  <2>3. AtWork(p)'
    BY <1>1, <1>2, <2>1, <2>2 DEF AtWork, Working, PartsDone, InHand, Mine, Kind, NewInode, FileFields
  <2>4. QED
    BY <1>1, <1>2, <1>3, <2>1, <2>3, Closing
<1>5. ASSUME NEW to \in {"create", "cleanup"}, AddStep(p, to) PROVE IInv'
  <2>1. Disciplined(p) /\ pc'[p] = to
    BY <1>5, AddDiscipline DEF IInv, Outside, Durable, Pcs, PcOf, JAddPcs
  <2>2. AtWork(p)'
    BY <1>1, <1>2, <2>1 DEF AtWork, Working, PartsDone, InHand
  <2>3. QED
    BY <1>1, <1>2, <1>3, <2>1, <2>2, Closing
<1>6. QED
  BY <1>4, <1>5 DEF create_new_inode, FailTo

(* The fsync of the part in hand.                                          *)
LEMMA SyncStep ==
  ASSUME IInv, NEW p \in Adders, SyncInode(p)
  PROVE  IInv'
<1> p \in Procs /\ pc[p] = "sync" /\ UNCHANGED jadd
  BY DEF Procs, SyncInode
<1>1. KnowsAlone(p) /\ AtWork(p) /\ Mine(p) /\ DOMAIN metafs.new_inode = FileFields
  BY DEF IInv, ShapeOK, KnowsAlone, AtWork, InHand, Working
<1>2. /\ DOMAIN metafs' = FsFields /\ metafs'.jindex = metafs.jindex /\ metafs'.per_node = metafs.per_node
  BY DEF SyncInode, IInv, ShapeOK, FsFields
<1>3. Complete(metafs')
  BY <1>2, CompleteSame DEF IInv
<1>4. Durable(p)
  BY DEF SyncInode, Durable
<1>5. CASE AddStep(p, "rename") /\ metafs' = [metafs EXCEPT !.new_inode.synced = @ \/ Mine(p)]
  <2>1. Disciplined(p) /\ pc'[p] = "rename"
    BY <1>4, <1>5, AddDiscipline DEF IInv, Outside, Pcs, JAddPcs
  <2>2. metafs'.new_inode = [metafs.new_inode EXCEPT !.synced = TRUE]
    BY <1>1, <1>5 DEF IInv, ShapeOK, FsFields
  <2>3. AtWork(p)'
    BY <1>1, <1>2, <2>1, <2>2 DEF AtWork, Working, PartsDone, InHand, Mine, Kind, FileFields
  <2>4. QED
    BY <1>1, <1>2, <1>3, <2>1, <2>3, Closing
<1>6. CASE AddStep(p, "cleanup")
  <2>1. Disciplined(p) /\ pc'[p] = "cleanup"
    BY <1>4, <1>6, AddDiscipline DEF IInv, Outside, Pcs, PcOf
  <2>2. AtWork(p)'
    BY <2>1 DEF AtWork, Working
  <2>3. QED
    BY <1>1, <1>2, <1>3, <2>1, <2>2, Closing
<1>7. QED
  BY <1>5, <1>6 DEF SyncInode, FailTo

(* A part comes into per_node under the number of a journal that is not in *)
(* jindex; the last part, the journal, makes it one more.                  *)
LEMMA RenameStep ==
  ASSUME IInv, NEW p \in Adders, rename2system(p)
  PROVE  IInv'
<1> DEFINE f == [metafs.new_inode EXCEPT !.by = None]
           j == jadd[p].journals
           n == <<Kind(p), j>>
<1> p \in Procs /\ pc[p] = "rename" /\ UNCHANGED stable
  BY DEF Procs, rename2system
<1>1. /\ AtWork(p) /\ Durable(p) /\ DOMAIN metafs = FsFields
      /\ DOMAIN jadd = Adders /\ \A q \in Adders : DOMAIN jadd[q] = JAddFields
  BY DEF IInv, ShapeOK, Durable
<1>2. /\ jadd[p].part \in 1 .. 4 /\ j \in Nat /\ DOMAIN metafs.jindex = 0 .. j - 1
      /\ PartsDone(p) /\ InHand(p)
  BY <1>1 DEF AtWork, Working
<1>3. CompleteTo(metafs, j)
  <2>1. PICK m \in Nat : CompleteTo(metafs, m)
    BY DEF IInv, Complete
  <2>2. m = j
    BY <1>2, <2>1, Interval DEF CompleteTo
  <2>3. QED
    BY <2>1, <2>2
<1>4. Good(f, Kind(p))
  BY <1>2 DEF InHand, FileFields, Good
<1>5. CASE /\ Kind(p) = "journal" /\ AddStep(p, "next")
           /\ metafs' = [metafs EXCEPT !.new_inode = NoInode, !.jindex = Placed(@, j, f)]
           /\ Upd(p, [jadd[p] EXCEPT !.part = 1, !.journals = @ + 1])
  <2>1. Disciplined(p) /\ pc'[p] = "next"
    BY <1>1, <1>5, AddDiscipline DEF IInv, Outside, Pcs, JAddPcs
  <2>2. /\ DOMAIN metafs' = FsFields /\ metafs'.per_node = metafs.per_node
        /\ metafs'.jindex = Placed(metafs.jindex, j, f)
    BY <1>1, <1>5 DEF FsFields
  <2>3. /\ DOMAIN metafs'.jindex = 0 .. j /\ metafs'.jindex[j] = f
        /\ \A i \in 0 .. j - 1 : metafs'.jindex[i] = metafs.jindex[i]
    BY <1>2, <2>2 DEF Placed
  <2>4. jadd[p].part = 4
    BY <1>2, <1>5 DEF Kind, Parts
  <2>5. HasFiles(metafs, j)
    <3> SUFFICES ASSUME NEW k \in Kinds \ {"journal"}
                 PROVE  <<k, j>> \in DOMAIN metafs.per_node /\ Good(metafs.per_node[<<k, j>>], k)
      BY DEF HasFiles
    <3>1. PICK i \in 1 .. 3 : k = Parts[i]
      BY DEF Kinds, Parts
    <3>2. QED
      BY <1>2, <2>4, <3>1 DEF PartsDone
  <2>6. CompleteTo(metafs', j + 1)
    <3>1. ASSUME NEW i \in 0 .. j PROVE Good(metafs'.jindex[i], "journal") /\ HasFiles(metafs', i)
      <4>1. CASE i = j
        BY <1>4, <1>5, <2>2, <2>3, <2>5, <4>1 DEF HasFiles
      <4>2. CASE i # j
        <5>1. i \in 0 .. j - 1
          BY <1>2, <4>2
        <5>2. QED
          BY <1>3, <2>2, <2>3, <5>1 DEF CompleteTo, HasFiles
      <4>3. QED
        BY <4>1, <4>2
    <3>2. (j + 1) - 1 = j
      BY <1>2
    <3>3. QED
      BY <2>3, <3>1, <3>2 DEF CompleteTo
  <2>7. Complete(metafs')
    BY <1>2, <2>6 DEF Complete
  <2>8. /\ KnowsAlone(p) /\ jadd'[p].part = 1 /\ jadd'[p].journals = j + 1
    BY <1>1, <1>5 DEF KnowsAlone, Upd, JAddFields
  <2>9. AtWork(p)'
    BY <1>2, <2>1, <2>3, <2>8 DEF AtWork, Working, PartsDone, InHand
  <2>10. QED
    BY <2>1, <2>2, <2>7, <2>8, <2>9, Closing
<1>6. CASE /\ Kind(p) # "journal" /\ AddStep(p, "create")
           /\ metafs' = [metafs EXCEPT !.new_inode = NoInode, !.per_node = Placed(@, n, f)]
           /\ Upd(p, [jadd[p] EXCEPT !.part = @ + 1])
  <2>1. Disciplined(p) /\ pc'[p] = "create"
    BY <1>1, <1>6, AddDiscipline DEF IInv, Outside, Pcs, JAddPcs
  <2>2. /\ DOMAIN metafs' = FsFields /\ metafs'.jindex = metafs.jindex
        /\ metafs'.per_node = Placed(metafs.per_node, n, f)
    BY <1>1, <1>6 DEF FsFields
  <2>3. /\ DOMAIN metafs'.per_node = DOMAIN metafs.per_node \union {n} /\ metafs'.per_node[n] = f
        /\ \A x \in DOMAIN metafs.per_node \ {n} : metafs'.per_node[x] = metafs.per_node[x]
    BY <2>2 DEF Placed
  <2>4. CompleteTo(metafs', j)
    <3>1. ASSUME NEW i \in 0 .. j - 1 PROVE HasFiles(metafs', i)
      <4>1. ASSUME NEW k \in Kinds \ {"journal"} PROVE <<k, i>> # n
        BY <1>2
      <4>2. HasFiles(metafs, i)
        BY <1>3 DEF CompleteTo
      <4>3. QED
        BY <2>3, <4>1, <4>2 DEF HasFiles
    <3>2. QED
      BY <1>3, <2>2, <3>1 DEF CompleteTo
  <2>5. Complete(metafs')
    BY <1>2, <2>4 DEF Complete
  <2>6. KnowsAlone(p) /\ jadd'[p].part = jadd[p].part + 1 /\ jadd'[p].journals = j
    BY <1>1, <1>6 DEF KnowsAlone, Upd, JAddFields
  <2>7. jadd[p].part \in 1 .. 3
    BY <1>2, <1>6 DEF Kind, Parts
  <2>8. PartsDone(p)'
    <3> SUFFICES ASSUME NEW i \in 1 .. jadd[p].part
                 PROVE  /\ <<Parts[i], j>> \in DOMAIN metafs'.per_node
                        /\ Good(metafs'.per_node[<<Parts[i], j>>], Parts[i])
      BY <2>6, <2>7 DEF PartsDone
    <3>1. CASE i = jadd[p].part
      BY <1>4, <2>3, <3>1 DEF Kind
    <3>2. CASE i # jadd[p].part
      <4>1. i \in 1 .. jadd[p].part - 1
        BY <2>7, <3>2
      <4>2. Parts[i] # Kind(p)
        BY <2>7, <3>2 DEF Kind, Parts
      <4>3. <<Parts[i], j>> # n
        BY <4>2
      <4>4. QED
        BY <1>2, <2>3, <4>1, <4>3 DEF PartsDone
    <3>3. QED
      BY <3>1, <3>2
  <2>9. AtWork(p)'
    BY <1>2, <2>1, <2>2, <2>6, <2>7, <2>8 DEF AtWork, Working, InHand
  <2>10. QED
    BY <2>1, <2>2, <2>5, <2>6, <2>9, Closing
<1>7. CASE AddStep(p, "cleanup") /\ UNCHANGED <<metafs, jadd>>
  <2>1. Disciplined(p) /\ pc'[p] = "cleanup"
    BY <1>1, <1>7, AddDiscipline DEF IInv, Outside, Pcs, PcOf
  <2>2. AtWork(p)'
    BY <2>1 DEF AtWork, Working
  <2>3. DOMAIN metafs' = FsFields /\ Complete(metafs') /\ KnowsAlone(p)
    BY <1>1, <1>7 DEF IInv, KnowsAlone
  <2>4. QED
    BY <2>1, <2>2, <2>3, Closing
<1>8. QED
  BY <1>5, <1>6, <1>7 DEF rename2system, FailTo

(* Every step of a gfs2_jadd preserves the invariant.                      *)
LEMMA JAddSteps ==
  ASSUME IInv, NEW p \in Adders, JAddStep(p)
  PROVE  IInv'
<1> p \in Procs
  BY DEF Procs
<1>1. CASE (mount_gfs2_meta(p) \/ lock_for_admin(p, "read")) /\ UNCHANGED jadd
  <2>1. Disciplined(p) /\ pc[p] \in {"mount", "lock"} /\ pc'[p] \in {"lock", "read", "ended"} /\ UNCHANGED metafs
    BY <1>1, MountStep, LockStep DEF IInv
  <2>2. DOMAIN metafs' = FsFields /\ Complete(metafs') /\ KnowsAlone(p)
    BY <1>1, <2>1 DEF IInv, ShapeOK, KnowsAlone
  <2>3. AtWork(p)'
    BY <1>1, <2>1 DEF IInv, AtWork, Working
  <2>4. QED
    BY <2>1, <2>2, <2>3, Closing
<1>2. CASE JAddCleanup(p)
  <2>1. Disciplined(p) /\ UNCHANGED metafs /\ pc'[p] = "ended"
    BY <1>2, CleanupStep DEF JAddCleanup, IInv
  <2>2. DOMAIN metafs' = FsFields /\ Complete(metafs') /\ KnowsAlone(p)
    BY <1>2, <2>1 DEF JAddCleanup, IInv, ShapeOK, KnowsAlone, Upd, NoJAdd, JAddFields
  <2>3. AtWork(p)'
    BY <2>1 DEF AtWork, Working
  <2>4. QED
    BY <2>1, <2>2, <2>3, Closing
<1>3. QED
  BY <1>1, <1>2, SurveyStep, NextJournalStep, CreateStep, FillStep, SyncStep, RenameStep DEF JAddStep

-----------------------------------------------------------------------------
(* Everything that is no step of a command: begins, ends, signals, kills.  *)
LEMMA GrowSteps ==
  ASSUME IInv, NEW p \in Growers, GrowStep(p), UNCHANGED jadd
  PROVE  IInv'
<1>1. p \in Procs /\ p \notin Adders
  BY MetaFsAssumption DEF Procs
<1>2. Disciplined(p) /\ SameFiles(metafs, metafs')
  BY GrowDiscipline DEF IInv
<1>3. DOMAIN metafs' = FsFields /\ Complete(metafs') /\ KnowsAlone(p)
  BY <1>2, CompleteSame DEF IInv, ShapeOK, SameFiles, KnowsAlone
<1>4. QED
  BY <1>1, <1>2, <1>3, Closing

(* A step outside that leaves the files alone and keeps a new part 1.      *)
LEMMA OutsideSteps ==
  ASSUME IInv, NEW p \in Procs, MovesAlone(p), KeepsToLock(p), UNCHANGED <<metafs, stable>>, KnowsAlone(p),
         p \in Adders => \/ jadd'[p].part = 1 /\ pc'[p] \notin Working
                         \/ jadd'[p] = jadd[p] /\ pc'[p] \in {"idle", "ended", pc[p]}
  PROVE  IInv'
<1>1. Disciplined(p) /\ DOMAIN metafs' = FsFields /\ Complete(metafs')
  BY DEF Disciplined, Durable, IInv, ShapeOK
<1>2. ASSUME p \in Adders PROVE AtWork(p)'
  BY <1>2 DEF IInv, AtWork, Working, PartsDone, InHand, Mine, Kind
<1>3. QED
  BY <1>1, <1>2, Closing

LEMMA BeginSteps ==
  ASSUME IInv, NEW p \in Procs, Begin(p),
         \/ p \in Growers /\ UNCHANGED jadd
         \/ p \in Adders /\ Upd(p, [NoJAdd EXCEPT !.snapshot = avail])
  PROVE  IInv'
<1>1. MovesAlone(p) /\ pc'[p] = "mount"
  BY DEF IInv, ShapeOK, Begin, Goto, MovesAlone, Pcs, PcOf
<1>2. KeepsToLock(p) /\ UNCHANGED <<metafs, stable>>
  BY <1>1 DEF Begin, KeepsToLock, Outside
<1>3. CASE p \in Growers /\ UNCHANGED jadd
  <2>1. KnowsAlone(p) /\ p \notin Adders
    BY <1>3, MetaFsAssumption DEF IInv, ShapeOK, KnowsAlone
  <2>2. QED
    BY <1>1, <1>2, <2>1, OutsideSteps
<1>4. CASE p \in Adders /\ Upd(p, [NoJAdd EXCEPT !.snapshot = avail])
  <2>1. KnowsAlone(p) /\ jadd'[p].part = 1
    BY <1>4 DEF IInv, ShapeOK, KnowsAlone, Upd, NoJAdd, JAddFields
  <2>2. QED
    BY <1>1, <1>2, <2>1, OutsideSteps DEF Working
<1>5. QED
  BY <1>3, <1>4

LEMMA AgainSteps ==
  ASSUME IInv, NEW p \in Procs, Again(p), Forget(p)
  PROVE  IInv'
<1>1. MovesAlone(p) /\ pc'[p] = "idle"
  BY DEF IInv, ShapeOK, Again, Goto, MovesAlone, Pcs, PcOf
<1>2. KeepsToLock(p) /\ UNCHANGED <<metafs, stable>>
  BY <1>1 DEF Again, KeepsToLock, Outside
<1>3. KnowsAlone(p) /\ (p \in Adders => jadd'[p].part = 1)
  BY MetaFsAssumption DEF IInv, ShapeOK, KnowsAlone, Forget, NoJAdd, JAddFields, Procs
<1>4. QED
  BY <1>1, <1>2, <1>3, OutsideSteps DEF Working

LEMMA SignalSteps ==
  ASSUME IInv, NEW p \in Procs, Signal(p) \/ Kill(p), UNCHANGED jadd
  PROVE  IInv'
<1>1. KnowsAlone(p) /\ UNCHANGED <<metafs, stable>>
  BY DEF IInv, ShapeOK, KnowsAlone, Signal, Kill, LockFails
<1>2. CASE UNCHANGED <<pc, admin>>
  BY <1>1, <1>2, StandsStill, OutsideSteps DEF IInv
<1>3. CASE Goto(p, "ended") /\ admin' \in {admin, Unlocked(p)}
  <2>1. MovesAlone(p) /\ pc'[p] = "ended"
    BY <1>3 DEF IInv, ShapeOK, Goto, MovesAlone, Pcs, PcOf
  <2>2. KeepsToLock(p)
    BY <1>3, <2>1 DEF KeepsToLock, Outside
  <2>3. QED
    BY <1>1, <2>1, <2>2, OutsideSteps
<1>4. QED
  BY <1>2, <1>3 DEF Signal, Kill, LockFails, End

(* Nobody is left, and what the log had was complete.                      *)
LEMMA CrashSteps ==
  ASSUME IInv, NodeCrash
  PROVE  IInv'
<1>1. DOMAIN metafs' = FsFields /\ Complete(metafs')
  BY CompleteSurvives DEF IInv, ShapeOK, NodeCrash, Crash
<1>2. stable' = metafs'
  BY DEF NodeCrash, Crash
<1>3. /\ pc' \in [Procs -> Pcs] /\ \A p \in Procs : pc'[p] \in {"idle", "ended"}
      /\ jadd' = [p \in Adders |-> NoJAdd]
  BY DEF IInv, ShapeOK, NodeCrash, Crash, Running, Pcs, PcOf
<1>4. ShapeOK'
  BY <1>1, <1>2, <1>3 DEF ShapeOK, NoJAdd, JAddFields
<1>5. Exclusive'
  BY <1>3 DEF Exclusive, Outside
<1>6. ASSUME NEW p \in Adders PROVE AtWork(p)'
  BY <1>3 DEF AtWork, Working, Procs
<1>7. Complete(metafs)' /\ Complete(stable)'
  BY <1>1, <1>2 DEF Complete, CompleteTo, HasFiles, Good
<1>8. QED
  BY <1>4, <1>5, <1>6, <1>7 DEF IInv

LEMMA Quiet ==
  ASSUME IInv, UNCHANGED <<metafs, stable, pc, admin, jadd>>
  PROVE  IInv'
  BY DEF IInv, ShapeOK, Exclusive, Complete, CompleteTo, HasFiles, Good, AtWork, PartsDone, InHand, Mine, Kind

LEMMA NextIInv == IInv /\ [Next]_vars => IInv'
<1> SUFFICES ASSUME IInv, [Next]_vars PROVE IInv'
  OBVIOUS
<1>1. ASSUME NEW p \in Procs, Command(p) PROVE IInv'
  BY <1>1, GrowSteps, JAddSteps DEF Command
<1>2. ASSUME NEW p \in Growers, BeginGrow(p), UNCHANGED jadd PROVE IInv'
  BY <1>2, BeginSteps DEF BeginGrow, Procs
<1>3. ASSUME NEW p \in Adders, gather_info(p) PROVE IInv'
  BY <1>3, BeginSteps DEF gather_info, Procs
<1>4. ASSUME NEW p \in Procs, Again(p), Forget(p) PROVE IInv'
  BY <1>4, AgainSteps
<1>5. ASSUME NEW p \in Procs, Signal(p) \/ Kill(p), UNCHANGED jadd PROVE IInv'
  BY <1>5, SignalSteps
<1>6. CASE NodeCrash
  BY <1>6, CrashSteps
<1>7. CASE Use \/ UNCHANGED vars
  BY <1>7, Quiet DEF Use, vars, mvars
<1>8. QED
  BY <1>1, <1>2, <1>3, <1>4, <1>5, <1>6, <1>7 DEF Next

LEMMA InitIInv == Init => IInv
<1> SUFFICES ASSUME Init PROVE IInv
  OBVIOUS
<1>1. PICK d \in Devices : metafs = OldFs(d) /\ stable = metafs
  BY DEF Init
<1>2. ShapeOK
  BY <1>1 DEF Init, ShapeOK, OldFs, FsFields, Pcs, PcOf, NoJAdd, JAddFields
<1>3. Exclusive /\ \A p \in Adders : AtWork(p)
  BY DEF Init, Exclusive, Outside, AtWork, Working, Procs
<1>4. CompleteTo(OldFs(d), Journals)
  <2>1. ASSUME NEW k \in Kinds PROVE Good(GoodInode(k), k)
    BY DEF Good, GoodInode
  <2>2. "journal" \in Kinds
    BY DEF Kinds, Parts
  <2>3. QED
    BY <2>1, <2>2 DEF OldFs, CompleteTo, HasFiles
<1>5. Complete(metafs) /\ Complete(stable)
  BY <1>1, <1>4, MountedFsAssumption DEF Complete
<1>6. QED
  BY <1>2, <1>3, <1>5 DEF IInv

LEMMA Inductive == Spec => []IInv
  BY InitIInv, NextIInv, PTL DEF Spec

-----------------------------------------------------------------------------
(* Two runs never change the metafs at once: who is at work has the lock.  *)
THEOREM LockExcludes == Spec => []Exclusive
  BY Inductive, PTL DEF IInv

(* Every journal in jindex has its files, at every moment and after every  *)
(* crash.                                                                  *)
THEOREM JournalsAlwaysComplete == Spec => []JournalsComplete
<1>1. ASSUME NEW fs, Complete(fs)
      PROVE  LET n == Cardinality(DOMAIN fs.jindex) IN
             /\ DOMAIN fs.jindex = 0 .. n - 1
             /\ \A j \in DOMAIN fs.jindex :
                   /\ Whole(fs, fs.jindex[j], "journal")
                   /\ \A k \in Kinds \ {"journal"} :
                         <<k, j>> \in DOMAIN fs.per_node /\ Whole(fs, fs.per_node[<<k, j>>], k)
  <2>1. PICK n \in Nat : CompleteTo(fs, n)
    BY <1>1 DEF Complete
  <2>2. Cardinality(DOMAIN fs.jindex) = n
    BY <2>1, Interval DEF CompleteTo
  <2>3. QED
    BY <2>1, <2>2 DEF CompleteTo, HasFiles, Good, Whole
<1>2. IInv => JournalsComplete
  <2> SUFFICES ASSUME IInv PROVE JournalsComplete
    OBVIOUS
  <2>1. Complete(metafs) /\ Complete(DataLost(metafs)) /\ Complete(DataLost(stable))
    BY CompleteSurvives DEF IInv, ShapeOK
  <2>2. QED
    BY <1>1, <2>1 DEF JournalsComplete
<1>3. QED
  BY <1>2, Inductive, PTL
=============================================================================
