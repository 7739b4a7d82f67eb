------------------------- MODULE JournalHead_proofs -------------------------
(***************************************************************************)
(* Proofs about JournalHead, for journals of any size: type correctness,   *)
(* and that on a journal a node left behind fsck.gfs2 finds the head with  *)
(* the highest sequence number and never takes the journal for corrupt.    *)
(***************************************************************************)
EXTENDS JournalHead, TLAPS

-----------------------------------------------------------------------------
(* gfs2_replay_incr_blk stays within the journal. *)
LEMMA IncrBlkType == \A b \in Blocks : IncrBlk(b) \in Blocks
  BY JdBlocksAssumption DEF Blocks, IncrBlk

(* blk_m of the binary search stays within the journal. *)
LEMMA MidType == \A x, y \in Blocks : (x + y) \div 2 \in Blocks
  BY JdBlocksAssumption, Z3 DEF Blocks

(* Renumbering a header gives a journal again. *)
LEMMA RenumberedType ==
  ASSUME jnl \in [Blocks -> JBlock], NEW b \in Blocks, NEW s \in Nat
  PROVE  Renumbered(b, s) \in [Blocks -> JBlock]
  BY DEF Renumbered, JBlock

(* The head the definition speaks of is there. *)
LEMMA HeadBlockIsHead ==
  ASSUME NEW j, Legit(j)
  PROVE  IsHead(j, HeadBlock(j))
  BY DEF Legit, HeadBlock

-----------------------------------------------------------------------------
(* The variables of the search and of the sequence check keep their types   *)
(* (recovery.c, check_journal_seq_no).                                      *)
THEOREM TypeCorrect == Spec => []TypeOK
<1>1. Init => TypeOK
  <2>1. 0 \in Blocks /\ JdBlocks - 1 \in Blocks /\ 0 \in 0 .. JdBlocks
    BY JdBlocksAssumption DEF Blocks
  <2>2. Init => /\ wrapped \in BOOLEAN /\ fixing \in BOOLEAN /\ stray \in BOOLEAN
                /\ jnl \in [Blocks -> JBlock]
    BY InitJournalsAssumption, Zenon DEF Init
  <2>3. Init => /\ head \in [blkno : Blocks, seq : Nat]
                /\ pc = "mid" /\ outcome = "none"
    BY <2>1 DEF Init
  <2>4. QED
    BY <2>1, <2>2, <2>3 DEF Init, LastBlock, TypeOK
<1>2. TypeOK /\ [Next]_vars => TypeOK'
  <2> SUFFICES ASSUME TypeOK, [Next]_vars PROVE TypeOK'
    OBVIOUS
  <2> USE DEF TypeOK
  <2>1. CASE TakeMid
    BY <2>1, MidType DEF TakeMid, seqVars
  <2>2. CASE FindGoodLo
    BY <2>2, IncrBlkType DEF FindGoodLo, FindFails, seqVars
  <2>3. CASE FindGoodMid
    BY <2>3, IncrBlkType DEF FindGoodMid, FindFails, seqVars
  <2>4. CASE Narrow
    <3>1. jnl[lo].seq \in Nat /\ Blocks \subseteq 0 .. JdBlocks
      BY JdBlocksAssumption DEF JBlock, Blocks
    <3>3. Narrowed(lo, mid, hi)[1] \in Blocks /\ Narrowed(lo, mid, hi)[2] \in Blocks
      <4>1. CASE jnl[lo].seq <= jnl[mid].seq
        BY <4>1 DEF Narrowed
      <4>2. CASE ~(jnl[lo].seq <= jnl[mid].seq)
        BY <4>2 DEF Narrowed
      <4>3. QED
        BY <4>1, <4>2
    <3>2. QED
      BY <2>4, <3>1, <3>3 DEF Narrow, seqVars
  <2>5. CASE JheadScan
    <3>1. blk \in Blocks /\ Blocks \subseteq 0 .. JdBlocks /\ 0 \in 0 .. JdBlocks
      BY <2>5, JdBlocksAssumption DEF JheadScan, Blocks
    <3>2. IncrBlk(blk) \in Blocks /\ jnl[IncrBlk(blk)].seq \in Nat
      BY <3>1, IncrBlkType DEF JBlock
    <3>3. /\ pc' \in {"scan", "seq", "repair", "done"}
          /\ outcome' \in {"none", "head", "corrupt"}
          /\ blk' \in 0 .. JdBlocks
          /\ pc' = "scan" => blk' \in Blocks
      BY <2>5, <3>1, <3>2 DEF JheadScan, FindFails, HeadFound
    <3>4. head' \in [blkno : Blocks, seq : Nat]
      BY <2>5, <3>2 DEF JheadScan, HeadFound
    <3>5. UNCHANGED <<jnl, lo, hi, mid, orig, lh, lowest, highest, prev, wrapped,
                      seqErrors, fixing, stray>>
      BY <2>5 DEF JheadScan, HeadFound, findVars, seqVars
    <3>6. QED
      BY <3>3, <3>4, <3>5
  <2>6. CASE CheckSeqSkip
    BY <2>6, JdBlocksAssumption DEF CheckSeqSkip, findVars, seqVars
  <2>7. CASE CheckSeqHeader
    <3> DEFINE cur == IF IsHeader(jnl, blk) THEN jnl[blk].seq ELSE lh
               high == IF highest = 0 \/ cur > highest THEN cur ELSE highest
    <3>1. blk \in Blocks /\ blk + 1 \in 0 .. JdBlocks
      BY <2>7, JdBlocksAssumption DEF CheckSeqHeader, Blocks
    <3>2. cur \in Nat /\ high \in Nat
      BY <3>1 DEF JBlock
    <3>3. Renumbered(blk, high + 1) \in [Blocks -> JBlock]
      BY <3>1, <3>2, RenumberedType
    <3>4. jnl' \in [Blocks -> JBlock]
      BY <2>7, <3>3 DEF CheckSeqHeader
    <3>5. /\ lh' \in Nat /\ lowest' \in Nat /\ highest' \in Nat /\ prev' \in Nat
          /\ seqErrors' \in Nat
      BY <2>7, <3>2 DEF CheckSeqHeader
    <3>8. wrapped' \in BOOLEAN /\ stray' \in BOOLEAN
      BY <2>7, Zenon DEF CheckSeqHeader
    <3>6. UNCHANGED <<pc, findVars, head, fixing, outcome>> /\ blk' = blk + 1 /\ pc = "seq"
      BY <2>7 DEF CheckSeqHeader
    <3>9. fixing' \in BOOLEAN /\ outcome' \in {"none", "head", "corrupt"} /\ pc' = "seq"
      BY <3>6, Zenon
    <3>7. QED
      BY <3>9, <3>1, <3>4, <3>5, <3>6, <3>8 DEF findVars
  <2>8. CASE CheckSeqDone
    BY <2>8, JdBlocksAssumption DEF CheckSeqDone, FindAgain, LastBlock, findVars, seqVars, Blocks
  <2>9. CASE RefuseRepair
    BY <2>9 DEF RefuseRepair, findVars, seqVars
  <2>10. CASE AcceptRepair
    <3>1. fixing' \in BOOLEAN /\ wrapped' \in BOOLEAN /\ stray' \in BOOLEAN
      BY <2>10, Zenon DEF AcceptRepair
    <3>2. QED
      BY <2>10, <3>1, JdBlocksAssumption DEF AcceptRepair, findVars
  <2>11. CASE UNCHANGED vars
    BY <2>11 DEF vars, findVars, seqVars
  <2>12. QED
    BY <2>1, <2>2, <2>3, <2>4, <2>5, <2>6, <2>7, <2>8, <2>9, <2>10, <2>11
    DEF Next, Step, Done
<1>3. QED
  BY <1>1, <1>2, PTL DEF Spec

-----------------------------------------------------------------------------
(***************************************************************************)
(* The head of a journal a node left behind.  h is its true head.  The      *)
(* search never takes blk_1 past h: every header after h has a lower number *)
(* than every header up to h, so blk_m only becomes blk_1 when it too is    *)
(* not past h.  The scan then walks up to h and stops at the first header   *)
(* after it, which exists because there are two headers.                    *)
(***************************************************************************)

NoHeader(S) == \A b \in Blocks : b \in S => ~IsHeader(jnl, b)

SearchInv(h) ==
    /\ pc \in {"mid", "goodlo", "goodmid", "narrow"} => lo <= h
    /\ pc = "goodlo" => orig <= lo
    /\ pc \in {"goodmid", "narrow"} => IsHeader(jnl, lo)
    /\ pc = "goodmid" => IF orig <= mid THEN NoHeader(orig .. mid - 1)
                         ELSE NoHeader(orig .. JdBlocks - 1) /\ NoHeader(0 .. mid - 1)
    /\ pc = "narrow" => IsHeader(jnl, mid)

ScanInv(h) ==
    pc = "scan" =>
      /\ IsHeader(jnl, head.blkno) /\ head.seq = jnl[head.blkno].seq
      /\ head.blkno <= h
      /\ head.blkno < h => head.blkno <= blk /\ blk < h
      /\ head.blkno = h =>
           IF blk >= h THEN NoHeader(h + 1 .. blk)
           ELSE NoHeader(h + 1 .. JdBlocks - 1) /\ NoHeader(0 .. blk)

(* The sequence check: the headers seen so far.  Before the first header   *)
(* past h all were rising; from then on prev is the last one past h.       *)
Seen(v) == v < blk /\ IsHeader(jnl, v)
SeqInv(h) ==
    pc = "seq" =>
      IF \A v \in Blocks : Seen(v) => v <= h
      THEN /\ \A v \in Blocks : Seen(v) => jnl[v].seq <= prev
           /\ prev = 0 \/ \E v \in Blocks : Seen(v) /\ jnl[v].seq = prev
           /\ lowest = 0 \/ \E v \in Blocks : Seen(v) /\ jnl[v].seq = lowest
           /\ wrapped => \E v \in Blocks : Seen(v) /\ jnl[v].seq = 0
      ELSE \E w \in Blocks : Seen(w) /\ h < w /\ jnl[w].seq = prev
                             /\ \A v \in Blocks : Seen(v) /\ h < v => jnl[v].seq <= prev

HeadInv(h) ==
    /\ Legit(jnl) /\ h = HeadBlock(jnl)
    /\ ~fixing /\ pc # "repair" /\ outcome # "corrupt" /\ seqErrors = 0
    /\ SearchInv(h) /\ ScanInv(h) /\ SeqInv(h)
    /\ pc \in {"seq", "done"} => head = [blkno |-> h, seq |-> jnl[h].seq]
    /\ pc \in {"mid", "goodlo", "goodmid", "narrow", "scan"} =>
         prev = 0 /\ lowest = 0 /\ ~wrapped
    /\ outcome = "head" => pc = "done"

(* On a journal without holes a block is a header or something else. *)
LEMMA HeaderOrOther ==
  ASSUME Legit(jnl), NEW b \in Blocks
  PROVE  ~IsHole(jnl, b) /\ (IsOther(jnl, b) <=> ~IsHeader(jnl, b))
  BY Zenon DEF Legit, IsHole, IsOther, IsHeader

(* What the order of a node's headers says about h and any other two. *)
LEMMA HeadFacts ==
  ASSUME Legit(jnl), NEW h, h = HeadBlock(jnl)
  PROVE  /\ h \in Blocks /\ IsHeader(jnl, h)
         /\ \E w \in Blocks : w # h /\ IsHeader(jnl, w)
         /\ \A x, y \in Blocks : IsHeader(jnl, x) /\ IsHeader(jnl, y) =>
              /\ x < y /\ y <= h => jnl[x].seq < jnl[y].seq
              /\ h < x /\ x < y => jnl[x].seq < jnl[y].seq
              /\ x <= h /\ h < y => jnl[y].seq < jnl[x].seq
  BY HeadBlockIsHead DEF IsHead, Legit

(* Every step of the search, of the scan and of the sequence check keeps    *)
(* the invariant: recovery.c:116-222 and fs_recovery.c:397-450.             *)
LEMMA HeadStep ==
  ASSUME TypeOK, NEW h, HeadInv(h), [Next]_vars
  PROVE  HeadInv(h)'
<1> USE DEF HeadInv
<1>1. /\ h \in Blocks /\ IsHeader(jnl, h)
      /\ \E w \in Blocks : w # h /\ IsHeader(jnl, w)
      /\ \A x, y \in Blocks : IsHeader(jnl, x) /\ IsHeader(jnl, y) =>
           /\ x < y /\ y <= h => jnl[x].seq < jnl[y].seq
           /\ h < x /\ x < y => jnl[x].seq < jnl[y].seq
           /\ x <= h /\ h < y => jnl[y].seq < jnl[x].seq
  BY HeadFacts
<1>2. \A b \in Blocks : ~IsHole(jnl, b) /\ (IsOther(jnl, b) <=> ~IsHeader(jnl, b))
  BY HeaderOrOther
<1>3. \A b \in Blocks : jnl[b].seq \in Nat
  BY DEF TypeOK, JBlock
<1>4. lo \in Blocks /\ mid \in Blocks /\ hi \in Blocks /\ orig \in Blocks /\ blk \in 0 .. JdBlocks
  BY DEF TypeOK
<1>5. CASE TakeMid
  <2>1. SearchInv(h)'
    BY <1>4, <1>5 DEF TakeMid, SearchInv, Blocks
  <2>2. QED
    BY <1>5, <2>1 DEF TakeMid, ScanInv, SeqInv, seqVars
<1>6. CASE FindGoodLo
  <2>1. CASE IsHeader(jnl, lo)
    <3>1. /\ pc = "goodlo" /\ pc' = "goodmid" /\ orig' = mid
          /\ UNCHANGED <<jnl, lo, mid, outcome, fixing, seqVars>>
      BY <1>2, <1>4, <1>6, <2>1 DEF FindGoodLo, seqVars
    <3>2. SearchInv(h)'
      BY <1>4, <1>6, <2>1, <3>1 DEF FindGoodLo, SearchInv, NoHeader, Blocks
    <3>3. QED
      BY <3>1, <3>2 DEF ScanInv, SeqInv, seqVars
  <2>2. CASE ~IsHeader(jnl, lo)
    <3>1. lo < h /\ orig <= lo
      BY <1>1, <1>4, <1>6, <2>2 DEF FindGoodLo, SearchInv, Blocks
    <3>2. lo' = lo + 1 /\ UNCHANGED <<jnl, pc, orig, outcome, fixing, seqVars>>
      BY <1>1, <1>2, <1>4, <1>6, <2>2, <3>1 DEF FindGoodLo, IncrBlk, Blocks, seqVars
    <3>3. SearchInv(h)'
      BY <1>1, <1>4, <1>6, <3>1, <3>2 DEF FindGoodLo, SearchInv, Blocks
    <3>4. QED
      BY <1>6, <3>2, <3>3 DEF FindGoodLo, ScanInv, SeqInv, seqVars
  <2>3. QED
    BY <2>1, <2>2
<1>7. CASE FindGoodMid
  <2>1. CASE IsHeader(jnl, mid)
    <3>1. /\ pc' = "narrow" /\ UNCHANGED <<jnl, lo, mid, outcome, fixing, seqVars>>
          /\ pc = "goodmid"
      BY <1>2, <1>4, <1>7, <2>1 DEF FindGoodMid, seqVars
    <3>2. SearchInv(h)'
      BY <2>1, <3>1 DEF SearchInv
    <3>3. QED
      BY <3>1, <3>2 DEF ScanInv, SeqInv, seqVars
  <2>2. CASE ~IsHeader(jnl, mid)
    <3>1. /\ pc = "goodmid" /\ mid' = IncrBlk(mid)
          /\ UNCHANGED <<jnl, lo, orig, fixing, seqVars>>
      BY <1>2, <1>4, <1>7, <2>2 DEF FindGoodMid, seqVars
    <3>2. /\ IF orig <= mid THEN NoHeader(orig .. mid)
             ELSE NoHeader(orig .. JdBlocks - 1) /\ NoHeader(0 .. mid)
      BY <1>4, <2>2, <3>1 DEF SearchInv, NoHeader, Blocks
    <3>3. mid' # orig
      BY <1>1, <1>4, <3>1, <3>2, JdBlocksAssumption DEF IncrBlk, NoHeader, Blocks
    <3>4. UNCHANGED <<pc, outcome>>
      BY <1>2, <1>4, <1>7, <2>2, <3>3 DEF FindGoodMid
    <3>5. IF orig <= mid' THEN NoHeader(orig .. mid' - 1)
             ELSE NoHeader(orig .. JdBlocks - 1) /\ NoHeader(0 .. mid' - 1)
      BY <1>4, <3>1, <3>2, <3>3, JdBlocksAssumption DEF IncrBlk, NoHeader, Blocks
    <3>6. SearchInv(h)'
      BY <3>1, <3>4, <3>5 DEF SearchInv, NoHeader
    <3>7. QED
      BY <3>1, <3>4, <3>6 DEF ScanInv, SeqInv, seqVars
  <2>3. QED
    BY <2>1, <2>2
<1>8. CASE Narrow
  <2>1. lo <= h /\ IsHeader(jnl, lo) /\ IsHeader(jnl, mid)
    BY <1>8 DEF Narrow, SearchInv
  <2>2. pc = "narrow" /\ UNCHANGED <<jnl, outcome, fixing, seqVars, mid>>
    BY <1>8 DEF Narrow, seqVars
  <2>3. CASE lo = mid \/ mid = hi
    <3>1. pc' = "scan" /\ head' = [blkno |-> lo, seq |-> jnl[lo].seq] /\ blk' = lo
      BY <1>8, <2>3 DEF Narrow
    <3>2. ScanInv(h)'
      BY <1>1, <1>4, <2>1, <2>2, <3>1 DEF ScanInv, NoHeader, Blocks
    <3>3. QED
      BY <2>2, <3>1, <3>2 DEF SearchInv, SeqInv, seqVars
  <2>4. CASE ~(lo = mid \/ mid = hi)
    <3>1. pc' = "mid" /\ lo' = Narrowed(lo, mid, hi)[1]
      BY <1>8, <2>4 DEF Narrow
    <3>2. lo' <= h
      <4>1. CASE jnl[lo].seq <= jnl[mid].seq
        <5>1. lo' = mid
          BY <3>1, <4>1 DEF Narrowed
        <5>2. ~(h < mid)
          BY <1>1, <1>3, <1>4, <2>1, <4>1
        <5>3. QED
          BY <1>1, <1>4, <5>1, <5>2 DEF Blocks
      <4>2. CASE ~(jnl[lo].seq <= jnl[mid].seq)
        BY <2>1, <3>1, <4>2 DEF Narrowed
      <4>3. QED
        BY <4>1, <4>2
    <3>3. QED
      BY <2>2, <3>1, <3>2 DEF SearchInv, ScanInv, SeqInv, seqVars
  <2>5. QED
    BY <2>3, <2>4
<1>9. CASE JheadScan
  <2> DEFINE b == IncrBlk(blk)
  <2>1. pc = "scan" /\ blk \in Blocks /\ b \in Blocks /\ head \in [blkno : Blocks, seq : Nat]
    BY <1>9, IncrBlkType DEF JheadScan, TypeOK
  <2>2. UNCHANGED <<jnl, fixing, seqVars>>
    BY <1>9, <2>1 DEF JheadScan, HeadFound, seqVars
  <2>3. /\ IsHeader(jnl, head.blkno) /\ head.seq = jnl[head.blkno].seq
        /\ head.blkno \in Blocks /\ head.blkno <= h
        /\ head.blkno < h => head.blkno <= blk /\ blk < h
    BY <2>1 DEF ScanInv
  <2>4. CASE head.blkno < h
    <3>1. b = blk + 1 /\ b <= h /\ head.blkno < b
      BY <1>1, <2>1, <2>3, <2>4, JdBlocksAssumption DEF IncrBlk, Blocks
    <3>2. CASE IsHeader(jnl, b)
      <4>1. head.seq < jnl[b].seq
        BY <1>1, <2>1, <2>3, <3>1, <3>2
      <4>2. head' = [blkno |-> b, seq |-> jnl[b].seq] /\ blk' = b /\ UNCHANGED <<pc, outcome>>
        BY <1>2, <1>3, <1>9, <2>1, <3>2, <4>1 DEF JheadScan, LogEnds
      <4>3. ScanInv(h)'
        BY <1>1, <2>1, <2>2, <3>1, <3>2, <4>2 DEF ScanInv, NoHeader, Blocks
      <4>4. QED
        BY <2>1, <2>2, <4>2, <4>3 DEF SearchInv, SeqInv, seqVars
    <3>3. CASE ~IsHeader(jnl, b)
      <4>1. blk' = b /\ UNCHANGED <<pc, head, outcome>>
        BY <1>2, <1>9, <2>1, <3>3 DEF JheadScan
      <4>2. b < h
        BY <1>1, <2>1, <3>1, <3>3 DEF Blocks
      <4>3. ScanInv(h)'
        BY <1>1, <2>1, <2>2, <2>3, <2>4, <3>1, <4>1, <4>2 DEF ScanInv, NoHeader, Blocks
      <4>4. QED
        BY <2>1, <2>2, <4>1, <4>3 DEF SearchInv, SeqInv, seqVars
    <3>4. QED
      BY <3>2, <3>3
  <2>5. CASE head.blkno = h
    <3>1. IF blk >= h THEN NoHeader(h + 1 .. blk)
          ELSE NoHeader(h + 1 .. JdBlocks - 1) /\ NoHeader(0 .. blk)
      BY <2>1, <2>5 DEF ScanInv
    <3>2. b # h
      BY <1>1, <2>1, <3>1, JdBlocksAssumption DEF IncrBlk, NoHeader, Blocks
    <3>3. CASE IsHeader(jnl, b)
      <4>1. jnl[b].seq < head.seq
        BY <1>1, <2>1, <2>3, <2>5, <3>2, <3>3 DEF Blocks
      <4>2. HeadFound
        BY <1>2, <1>3, <1>9, <2>1, <3>3, <4>1 DEF JheadScan, LogEnds
      <4>3. /\ pc' = "seq" /\ blk' = 0 /\ UNCHANGED <<head, outcome, seqVars>>
        BY <4>2 DEF HeadFound
      <4>4. head' = [blkno |-> h, seq |-> jnl[h].seq]
        BY <2>1, <2>3, <2>5, <4>3
      <4>5. \A v \in Blocks : ~Seen(v)'
        BY <4>3 DEF Seen, Blocks
      <4>6. SeqInv(h)'
        BY <2>1, <4>3, <4>5 DEF SeqInv, seqVars
      <4>7. QED
        BY <2>1, <2>2, <4>3, <4>4, <4>6 DEF SearchInv, ScanInv, seqVars
    <3>4. CASE ~IsHeader(jnl, b)
      <4>1. blk' = b /\ UNCHANGED <<pc, head, outcome>>
        BY <1>2, <1>9, <2>1, <3>4 DEF JheadScan
      <4>2. IF b >= h THEN NoHeader(h + 1 .. b)
            ELSE NoHeader(h + 1 .. JdBlocks - 1) /\ NoHeader(0 .. b)
        BY <1>1, <2>1, <3>1, <3>2, <3>4, JdBlocksAssumption DEF IncrBlk, NoHeader, Blocks
      <4>3. ScanInv(h)'
        BY <1>1, <2>1, <2>2, <2>3, <2>5, <4>1, <4>2 DEF ScanInv, NoHeader, Blocks
      <4>4. QED
        BY <2>1, <2>2, <4>1, <4>3 DEF SearchInv, SeqInv, seqVars
    <3>5. QED
      BY <3>3, <3>4
  <2>6. QED
    BY <1>1, <2>3, <2>4, <2>5 DEF Blocks
<1>10. CASE CheckSeqSkip
  <2>1. /\ pc = "seq" /\ blk \in Blocks /\ ~IsHeader(jnl, blk) /\ blk' = blk + 1
        /\ UNCHANGED <<jnl, pc, head, seqVars, fixing, outcome>>
    BY <1>2, <1>4, <1>10, JdBlocksAssumption DEF CheckSeqSkip, Blocks
  <2>2. \A v \in Blocks : Seen(v)' <=> Seen(v)
    BY <2>1 DEF Seen, Blocks
  <2>3. SeqInv(h)'
    BY <2>1, <2>2 DEF SeqInv, seqVars
  <2>4. QED
    BY <2>1, <2>3 DEF SearchInv, ScanInv, seqVars
<1>11. CASE CheckSeqHeader
  <2> DEFINE cur == jnl[blk].seq
             low == IF lowest = 0 \/ cur < lowest THEN cur ELSE lowest
  <2>1. /\ pc = "seq" /\ blk \in Blocks /\ IsHeader(jnl, blk) /\ blk' = blk + 1 /\ cur \in Nat
        /\ UNCHANGED <<pc, head, fixing, outcome>>
    <3>1. blk \in Blocks /\ ~IsOther(jnl, blk) /\ pc = "seq" /\ blk' = blk + 1
      BY <1>4, <1>11, JdBlocksAssumption DEF CheckSeqHeader, Blocks
    <3>2. UNCHANGED <<pc, head, fixing, outcome>>
      BY <1>11 DEF CheckSeqHeader
    <3>3. QED
      BY <1>2, <1>3, <3>1, <3>2
  <2>2. lowest \in Nat /\ prev \in Nat /\ wrapped \in BOOLEAN
    BY DEF TypeOK
  <2>3. lowest' = low
    BY <1>11, <2>1 DEF CheckSeqHeader
  <2>4. cur > prev \/ WrapsHere(cur, low) =>
          /\ UNCHANGED <<jnl, seqErrors>> /\ prev' = cur
          /\ wrapped' = (wrapped \/ ~(cur > prev))
    BY <1>11, <2>1 DEF CheckSeqHeader
  <2>5. \A v \in Blocks : v < blk + 1 /\ IsHeader(jnl, v) <=> Seen(v) \/ v = blk
    BY <2>1 DEF Seen, Blocks
  <2>6. CASE \A v \in Blocks : Seen(v) => v <= h
    <3>1. /\ \A v \in Blocks : Seen(v) => jnl[v].seq <= prev
          /\ prev = 0 \/ \E v \in Blocks : Seen(v) /\ jnl[v].seq = prev
          /\ lowest = 0 \/ \E v \in Blocks : Seen(v) /\ jnl[v].seq = lowest
          /\ wrapped => \E v \in Blocks : Seen(v) /\ jnl[v].seq = 0
      BY <2>1, <2>6 DEF SeqInv
    <3>2. CASE blk <= h
      <4>1. \A v \in Blocks : Seen(v) => jnl[v].seq < cur
        BY <1>1, <2>1, <3>2 DEF Seen
      <4>2. cur > prev \/ (cur = 0 /\ prev = 0)
        BY <1>3, <2>1, <2>2, <3>1, <4>1
      <4>3. cur = 0 => ~wrapped /\ lowest = 0
        BY <1>3, <2>1, <3>1, <4>1
      <4>4. cur > prev \/ WrapsHere(cur, low)
        BY <4>2, <4>3 DEF WrapsHere
      <4>5. /\ UNCHANGED <<jnl, seqErrors>> /\ prev' = cur
            /\ wrapped' => wrapped \/ cur = 0
        BY <2>4, <4>2, <4>4
      <4>6. \A v \in Blocks : Seen(v)' <=> Seen(v) \/ v = blk
        BY <2>1, <2>5, <4>5 DEF Seen
      <4>7. /\ \A v \in Blocks : Seen(v)' => v <= h
            /\ \A v \in Blocks : Seen(v)' => jnl[v].seq <= cur
        BY <1>3, <2>1, <2>6, <3>2, <4>1, <4>6
      <4>8. low = 0 \/ \E v \in Blocks : Seen(v)' /\ jnl[v].seq = low
        BY <2>1, <3>1, <4>6
      <4>9. wrapped' => \E v \in Blocks : Seen(v)' /\ jnl[v].seq = 0
        BY <2>1, <3>1, <4>5, <4>6
      <4>10. \E v \in Blocks : Seen(v)' /\ jnl[v].seq = cur
        BY <2>1, <4>6
      <4>11. SeqInv(h)'
        BY <2>1, <2>3, <4>5, <4>7, <4>8, <4>9, <4>10 DEF SeqInv
      <4>12. QED
        BY <2>1, <4>5, <4>11 DEF SearchInv, ScanInv
    <3>3. CASE ~(blk <= h)
      <4>1. h < blk /\ Seen(h)
        BY <1>1, <2>1, <3>3 DEF Seen, Blocks
      <4>2. \A v \in Blocks : Seen(v) => cur < jnl[v].seq
        BY <1>1, <2>1, <2>6, <4>1 DEF Seen
      <4>3. ~(cur > prev)
        BY <1>1, <1>3, <2>1, <2>2, <3>1, <4>1, <4>2
      <4>4. ~wrapped /\ low = cur
        BY <1>3, <2>1, <2>2, <3>1, <4>2
      <4>5. UNCHANGED <<jnl, seqErrors>> /\ prev' = cur
        BY <2>4, <4>4 DEF WrapsHere
      <4>6. \A v \in Blocks : Seen(v)' <=> Seen(v) \/ v = blk
        BY <2>1, <2>5, <4>5 DEF Seen
      <4>7. PICK k \in Blocks : k = blk
        BY <2>1
      <4>8. Seen(k)' /\ h < k /\ \A v \in Blocks : Seen(v)' /\ h < v => v = k
        <5>1. \A v \in Blocks : v <= h => ~(h < v)
          BY <1>1 DEF Blocks
        <5>2. ASSUME NEW v \in Blocks, Seen(v)', h < v PROVE v = k
          BY <2>6, <4>6, <4>7, <5>1, <5>2
        <5>3. QED
          BY <4>1, <4>6, <4>7, <5>2
      <4>10. SeqInv(h)'
        <5>1. ~(k <= h) /\ cur <= cur
          BY <1>1, <2>1, <4>8 DEF Blocks
        <5>2. pc' = "seq" /\ jnl'[k].seq = prev'
          BY <2>1, <4>5, <4>7
        <5>3. \A v \in Blocks : Seen(v)' /\ h < v => jnl'[v].seq <= prev'
          BY <4>5, <4>7, <4>8, <5>1
        <5>4. QED
          BY <4>8, <5>1, <5>2, <5>3 DEF SeqInv
      <4>9. QED
        BY <2>1, <4>5, <4>10 DEF SearchInv, ScanInv
    <3>4. QED
      BY <3>2, <3>3
  <2>7. CASE ~(\A v \in Blocks : Seen(v) => v <= h)
    <3>1. PICK w \in Blocks : /\ Seen(w) /\ h < w /\ jnl[w].seq = prev
                             /\ \A v \in Blocks : Seen(v) /\ h < v => jnl[v].seq <= prev
      BY <2>1, <2>7 DEF SeqInv
    <3>2. h < blk /\ cur > prev
      BY <1>1, <1>3, <2>1, <3>1 DEF Seen, Blocks
    <3>3. UNCHANGED <<jnl, seqErrors>> /\ prev' = cur
      BY <2>4, <3>2
    <3>4. \A v \in Blocks : Seen(v)' <=> Seen(v) \/ v = blk
      BY <2>1, <2>5, <3>3 DEF Seen
    <3>5. \A v \in Blocks : Seen(v)' /\ h < v => jnl[v].seq <= cur
      BY <1>3, <2>1, <2>2, <3>1, <3>2, <3>4
    <3>6. SeqInv(h)'
      BY <1>1, <2>1, <3>2, <3>3, <3>4, <3>5 DEF SeqInv, Blocks
    <3>7. QED
      BY <2>1, <3>3, <3>6 DEF SearchInv, ScanInv
  <2>8. QED
    BY <2>6, <2>7
<1>12. CASE CheckSeqDone
  <2>1. /\ pc' = "done" /\ outcome' = "head"
        /\ UNCHANGED <<jnl, head, blk, seqVars, fixing>> /\ pc = "seq"
    BY <1>12, ToleranceAssumption DEF CheckSeqDone
  <2>2. QED
    BY <2>1 DEF SearchInv, ScanInv, SeqInv, seqVars
<1>13. CASE RefuseRepair \/ AcceptRepair
  BY <1>13 DEF RefuseRepair, AcceptRepair
<1>14. CASE UNCHANGED vars
  BY <1>14 DEF vars, findVars, seqVars, SearchInv, ScanInv, SeqInv, Seen, NoHeader
<1>15. QED
  BY <1>5, <1>6, <1>7, <1>8, <1>9, <1>10, <1>11, <1>12, <1>13, <1>14 DEF Next, Step, Done

(* Only a repair changes a journal. *)
LEMMA UntouchedBefore ==
  ASSUME TypeOK, [Next]_vars, Untouched'
  PROVE  Untouched /\ jnl' = jnl
<1> USE DEF Untouched
<1>1. CASE CheckSeqHeader
  <2>1. ~fixing /\ Legit(jnl')
    BY <1>1 DEF CheckSeqHeader
  <2>2. jnl' = jnl
    BY <1>1, <2>1 DEF CheckSeqHeader
  <2>3. QED
    BY <2>1, <2>2
<1>2. CASE AcceptRepair
  BY <1>2 DEF AcceptRepair
<1>3. CASE UNCHANGED vars
  BY <1>3 DEF vars
<1>4. CASE TakeMid \/ FindGoodLo \/ FindGoodMid \/ Narrow \/ JheadScan
  BY <1>4 DEF TakeMid, FindGoodLo, FindGoodMid, Narrow, JheadScan
<1>5. CASE CheckSeqSkip \/ CheckSeqDone \/ RefuseRepair
  BY <1>5 DEF CheckSeqSkip, CheckSeqDone, RefuseRepair
<1>6. QED
  BY <1>1, <1>2, <1>3, <1>4, <1>5 DEF Next, Step, Done

(* On a journal a node left behind the invariant holds throughout. *)
LEMMA HeadInvariant == Spec => [](Untouched => \E h \in Blocks : HeadInv(h))
<1>1. Init => (Untouched => \E h \in Blocks : HeadInv(h))
  <2> SUFFICES ASSUME Init, Untouched PROVE HeadInv(HeadBlock(jnl)) /\ HeadBlock(jnl) \in Blocks
    OBVIOUS
  <2>1. Legit(jnl)
    BY DEF Untouched
  <2>2. HeadBlock(jnl) \in Blocks
    BY <2>1, HeadFacts
  <2>3. QED
    BY <2>1, <2>2 DEF Init, LastBlock, HeadInv, SearchInv, ScanInv, SeqInv, Blocks
<1>2. ASSUME TypeOK, Untouched => \E h \in Blocks : HeadInv(h), [Next]_vars, Untouched'
      PROVE  (\E h \in Blocks : HeadInv(h))'
  <2>1. PICK h \in Blocks : HeadInv(h)
    BY <1>2, UntouchedBefore
  <2>2. HeadInv(h)'
    BY <1>2, <2>1, HeadStep
  <2>3. QED
    BY <2>2 DEF Blocks
<1>3. QED
  BY <1>1, <1>2, TypeCorrect, PTL DEF Spec

(* lgfs2_find_jhead on a journal a node left behind, of any size: the head  *)
(* fsck.gfs2 goes on with is the header with the highest sequence number.   *)
THEOREM HeadCorrect == Spec => []HeadIsHighest
<1>1. (Untouched => \E h \in Blocks : HeadInv(h)) => HeadIsHighest
  BY DEF HeadInv, HeadIsHighest
<1>2. QED
  BY <1>1, HeadInvariant, PTL

(* Neither the search nor check_journal_seq_no reports an error on such a   *)
(* journal, so its repair is never offered.                                 *)
THEOREM NotCorrupt == Spec => []NeverCalledCorrupt
<1>1. (Untouched => \E h \in Blocks : HeadInv(h)) => NeverCalledCorrupt
  BY DEF HeadInv, NeverCalledCorrupt
<1>2. QED
  BY <1>1, HeadInvariant, PTL
=============================================================================
