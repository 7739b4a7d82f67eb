------------------------- MODULE LogRecovery_proofs -------------------------
(***************************************************************************)
(* The safety of LogRecovery for any journals, blocks and versions.        *)
(***************************************************************************)
EXTENDS LogRecovery, TLAPS

(* Together inductive: a block a journal holds is replayed to its last      *)
(* version because only its holder changes it, and the holder cannot let go *)
(* of it before it is revoked.                                              *)
IInv == TypeOK /\ OnlyHolderReplays /\ Recoverable

LEMMA InitIInv == Init => IInv
<1> SUFFICES ASSUME Init PROVE IInv
  OBVIOUS
<1>1. TypeOK
  BY MaxVerAssumption DEF Init, TypeOK, Version, Nothing
<1>2. QED
  BY <1>1 DEF Init, IInv, OnlyHolderReplays, Recoverable, Nothing

LEMMA NextIInv == IInv /\ [Next]_vars => IInv'
<1> SUFFICES ASSUME IInv, [Next]_vars PROVE IInv'
  OBVIOUS
<1> USE DEF IInv, TypeOK, OnlyHolderReplays, Recoverable, Nothing, Version
<1>1. ASSUME NEW j \in Journals, NEW S \in SUBSET FsBlocks, NEW R \in SUBSET FsBlocks,
             Commit(j, S, R)
      PROVE  IInv'
  <2>1. TypeOK'
    <3>1. ver' \in [FsBlocks -> Version]
      BY <1>1, MaxVerAssumption DEF Commit
    <3>2. pend' \in [Journals -> [FsBlocks -> 0 .. MaxVer]]
      BY <1>1, MaxVerAssumption DEF Commit, Revocable
    <3>3. QED
      BY <1>1, <3>1, <3>2 DEF Commit
  <2>2. \A k \in Journals, b \in FsBlocks :
          pend'[k][b] = IF k = j /\ b \in S THEN ver[b] + 1
                        ELSE IF k = j /\ b \in R THEN 0 ELSE pend[k][b]
    BY <1>1 DEF Commit
  <2>3. \A b \in FsBlocks : ver'[b] = IF b \in S THEN ver[b] + 1 ELSE ver[b]
    BY <1>1 DEF Commit
  <2>4. OnlyHolderReplays'
    BY <1>1, <2>2, <2>3 DEF Commit
  <2>5. Recoverable'
    <3> SUFFICES ASSUME NEW b \in FsBlocks, b \notin lost
                 PROVE  disk'[b] = ver'[b] \/ \E k \in Journals : pend'[k][b] = ver'[b]
      BY <1>1 DEF Commit
    <3>1. CASE b \in S
      BY <1>1, <2>2, <2>3, <3>1
    <3>2. CASE b \notin S
      <4>1. disk'[b] = disk[b] /\ ver'[b] = ver[b]
        BY <1>1, <2>3, <3>2 DEF Commit
      <4>2. CASE b \in R
        BY <1>1, <4>1, <4>2 DEF Commit, Revocable
      <4>3. CASE b \notin R
        BY <2>2, <3>2, <4>1, <4>3
      <4>4. QED
        BY <4>2, <4>3
    <3>3. QED
      BY <3>1, <3>2
  <2>6. QED
    BY <2>1, <2>4, <2>5
<1>2. ASSUME NEW b \in FsBlocks, WriteBack(b)
      PROVE  IInv'
  BY <1>2, MaxVerAssumption DEF WriteBack
<1>3. ASSUME NEW j \in Journals, NEW b \in FsBlocks, Acquire(j, b)
      PROVE  IInv'
  BY <1>3 DEF Acquire, MayPass
<1>4. ASSUME NEW j \in Journals, NEW b \in FsBlocks, ReplayWrite(j, b)
      PROVE  IInv'
  BY <1>4 DEF ReplayWrite, HasEntry
<1>5. ASSUME NEW j \in Journals, MarkClean(j)
      PROVE  IInv'
  <2>1. pend' \in [Journals -> [FsBlocks -> 0 .. MaxVer]]
    BY <1>5, MaxVerAssumption DEF MarkClean
  <2>2. \A k \in Journals, b \in FsBlocks : pend'[k][b] = IF k = j THEN 0 ELSE pend[k][b]
    BY <1>5 DEF MarkClean
  <2>3. QED
    BY <1>5, <2>1, <2>2 DEF MarkClean, Replayed
<1>6. ASSUME NEW j \in Journals, Clear(j)
      PROVE  IInv'
  <2>1. pend' \in [Journals -> [FsBlocks -> 0 .. MaxVer]]
    BY <1>6, MaxVerAssumption DEF Clear
  <2>2. \A k \in Journals, b \in FsBlocks : pend'[k][b] = IF k = j THEN 0 ELSE pend[k][b]
    BY <1>6 DEF Clear
  <2>3. QED
    BY <1>6, <2>1, <2>2 DEF Clear
<1>7. CASE Crash
  BY <1>7 DEF Crash
<1>8. CASE Mount
  BY <1>8, MaxVerAssumption DEF Mount, Mountable, Clean
<1>9. CASE UNCHANGED vars
  BY <1>9 DEF vars
<1>10. QED
  BY <1>1, <1>2, <1>3, <1>4, <1>5, <1>6, <1>7, <1>8, <1>9 DEF Next

LEMMA Inductive == Spec => []IInv
  BY InitIInv, NextIInv, PTL DEF Spec

(* The types of the state. *)
THEOREM TypeCorrect == Spec => []TypeOK
  BY Inductive, PTL DEF IInv

(* A block is in the journal of its holder only, in its last version. *)
THEOREM OneJournalPerBlock == Spec => []OnlyHolderReplays
  BY Inductive, PTL DEF IInv

(* Nothing committed is ever out of reach of replay. *)
THEOREM NothingUnrecoverable == Spec => []Recoverable
  BY Inductive, PTL DEF IInv

(* Clean journals mean a file system as it was last committed. *)
THEOREM RecoveryCorrect == Spec => []RecoveredIsCommitted
<1>1. IInv => RecoveredIsCommitted
  BY DEF IInv, TypeOK, Recoverable, RecoveredIsCommitted, Clean, Nothing, Version
<1>2. QED
  BY <1>1, Inductive, PTL

(* Replay writes only blocks the journal of their last holder still has. *)
THEOREM ReplayConfined == Spec => ReplayDisturbsNone
<1> DEFINE Confined == \A b \in FsBlocks :
                         ~mounted /\ disk'[b] # disk[b] => pend[owner[b]][b] # Nothing
<1>1. IInv /\ [Next]_vars => [Confined]_vars
  <2> SUFFICES ASSUME IInv, Next, NEW b \in FsBlocks, ~mounted, disk'[b] # disk[b]
               PROVE  pend[owner[b]][b] # Nothing
    OBVIOUS
  <2>1. PICK j \in Journals, c \in FsBlocks : ReplayWrite(j, c)
    BY DEF Next, Commit, WriteBack, Acquire, MarkClean, Clear, Crash, Mount
  <2>2. c = b
    BY <2>1 DEF IInv, TypeOK, ReplayWrite
  <2>3. QED
    BY <2>1, <2>2 DEF IInv, OnlyHolderReplays, ReplayWrite, HasEntry
<1>2. QED
  BY <1>1, Inductive, PTL DEF Spec, ReplayDisturbsNone
=============================================================================
