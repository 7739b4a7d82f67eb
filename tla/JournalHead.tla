---------------------------- MODULE JournalHead ----------------------------
(***************************************************************************)
(* How fsck.gfs2 finds the head of one journal: the binary search and scan *)
(* of libgfs2 (find_good_lh, jhead_scan, lgfs2_find_jhead), the sequence   *)
(* check and its repair (check_journal_seq_no), and the decisions          *)
(* gfs2_recover_journal takes between them.                                *)
(***************************************************************************)
EXTENDS JournalBlocks

CONSTANTS
    InitJournals,   \* the journals a behaviour may start from
    Tolerance       \* JOURNAL_SEQ_TOLERANCE

ASSUME InitJournalsAssumption == InitJournals \subseteq [Blocks -> JBlock]
ASSUME ToleranceAssumption == Tolerance \in Nat

VARIABLES
    jnl,        \* the blocks of the journal on disk
    pc,         \* the loop fsck is in
    lo, hi, mid,\* blk_1, blk_2 and blk_m of lgfs2_find_jhead
    orig,       \* orig_blk of find_good_lh
    head,       \* the header jhead_scan advances, then the caller's head
    blk,        \* blk of jhead_scan and of check_journal_seq_no
    lh,         \* lh.lh_sequence of check_journal_seq_no
    lowest, highest, prev, wrapped, seqErrors,  \* its other locals
    fixing,     \* the repair was accepted: check_journal_seq_no(ip, 1) onwards
    stray,      \* a block outside the journal was written
    outcome     \* what gfs2_recover_journal goes on with

findVars == <<lo, hi, mid, orig>>
seqVars == <<lh, lowest, highest, prev, wrapped, seqErrors>>
vars == <<jnl, pc, findVars, head, blk, seqVars, fixing, stray, outcome>>

-----------------------------------------------------------------------------
(* lh_sequence is rewritten in place, lh_hash is left as it was *)
Renumbered(b, s) == [jnl EXCEPT ![b].seq = s]

-----------------------------------------------------------------------------
(* lgfs2_find_jhead *)

(* blk_2 at the start *)
LastBlock == JdBlocks - 1

Init ==
    /\ jnl \in InitJournals
    /\ pc = "mid"
    /\ lo = 0 /\ hi = LastBlock /\ mid = 0 /\ orig = 0
    /\ head = [blkno |-> 0, seq |-> 0] /\ blk = 0
    /\ lh = 0 /\ lowest = 0 /\ highest = 0 /\ prev = 0
    /\ wrapped = FALSE /\ seqErrors = 0
    /\ fixing = FALSE /\ stray = FALSE
    /\ outcome = "none"

(* an error of lgfs2_find_jhead: the repair is offered once *)
FindFails == IF fixing THEN pc' = "done" /\ outcome' = "corrupt"
                       ELSE pc' = "repair" /\ UNCHANGED outcome

(* the two blocks of a narrowed interval, [1] blk_1 and [2] blk_2 *)
NarrowedStuck(l, m, h) == IF jnl[l].seq <= jnl[m].seq THEN <<l, h>> ELSE <<l, m>>
Narrowed(l, m, h) == IF jnl[l].seq <= jnl[m].seq THEN <<m, h>> ELSE <<l, m>>

TakeMid ==
    /\ pc = "mid"
    /\ mid' = (lo + hi) \div 2
    /\ orig' = lo
    /\ pc' = "goodlo"
    /\ UNCHANGED <<jnl, lo, hi, head, blk, seqVars, fixing, stray, outcome>>

FindGoodLo ==
    /\ pc = "goodlo"
    /\ \/ IsHole(jnl, lo) /\ FindFails /\ UNCHANGED <<lo, orig>>
       \/ IsHeader(jnl, lo) /\ pc' = "goodmid" /\ orig' = mid /\ UNCHANGED <<lo, outcome>>
       \/ IsOther(jnl, lo) /\ lo' = IncrBlk(lo) /\ UNCHANGED orig
          /\ IF lo' = orig THEN FindFails ELSE UNCHANGED <<pc, outcome>>
    /\ UNCHANGED <<jnl, hi, mid, head, blk, seqVars, fixing, stray>>

FindGoodMid ==
    /\ pc = "goodmid"
    /\ \/ IsHole(jnl, mid) /\ FindFails /\ UNCHANGED mid
       \/ IsHeader(jnl, mid) /\ pc' = "narrow" /\ UNCHANGED <<mid, outcome>>
       \/ IsOther(jnl, mid) /\ mid' = IncrBlk(mid)
          /\ IF mid' = orig THEN FindFails ELSE UNCHANGED <<pc, outcome>>
    /\ UNCHANGED <<jnl, lo, hi, orig, head, blk, seqVars, fixing, stray>>

Narrow ==
    /\ pc = "narrow"
    /\ IF lo = mid \/ mid = hi
         THEN /\ pc' = "scan"
              /\ head' = [blkno |-> lo, seq |-> jnl[lo].seq]
              /\ blk' = lo
              /\ UNCHANGED <<lo, hi>>
         ELSE /\ pc' = "mid"
              /\ lo' = Narrowed(lo, mid, hi)[1] /\ hi' = Narrowed(lo, mid, hi)[2]
              /\ UNCHANGED <<head, blk>>
    /\ UNCHANGED <<jnl, mid, orig, seqVars, fixing, stray, outcome>>

(* jhead_scan goes back from a header to a lower one: the end of the log *)
LogEndsLax(s) == s <= head.seq + 1
LogEnds(s) == s < head.seq

(* jhead_scan has returned 0: the first time the sequence check follows, *)
(* after a repair the head is used as it is                              *)
HeadFound ==
    /\ UNCHANGED head
    /\ IF fixing
         THEN pc' = "done" /\ outcome' = "head" /\ UNCHANGED <<blk, seqVars>>
         ELSE pc' = "seq" /\ blk' = 0 /\ UNCHANGED <<outcome, seqVars>>

JheadScan ==
    /\ pc = "scan"
    /\ LET b == IncrBlk(blk)
           s == jnl[b].seq
       IN  \/ IsHole(jnl, b) /\ FindFails /\ UNCHANGED <<blk, head, seqVars>>
           \/ IsOther(jnl, b) /\ blk' = b /\ UNCHANGED <<pc, head, seqVars, outcome>>
           \/ IsHeader(jnl, b) /\ s = head.seq /\ FindFails
              /\ UNCHANGED <<blk, head, seqVars>>
           \/ IsHeader(jnl, b) /\ LogEnds(s) /\ HeadFound
           \/ /\ IsHeader(jnl, b) /\ s > head.seq
              /\ head' = [blkno |-> b, seq |-> s] /\ blk' = b
              /\ UNCHANGED <<pc, seqVars, outcome>>
    /\ UNCHANGED <<jnl, findVars, fixing, stray>>

-----------------------------------------------------------------------------
(* check_journal_seq_no: one step per block.  A block that cannot be read  *)
(* (an error below zero) is not skipped: lh still holds the header read    *)
(* before it, and a renumbering then writes to block 0 of the device,      *)
(* which is what block_map leaves in dblock.                               *)

CheckSeqSkip ==
    /\ pc = "seq" /\ blk < JdBlocks
    /\ IsOther(jnl, blk)
    /\ blk' = blk + 1
    /\ UNCHANGED <<jnl, pc, findVars, head, seqVars, fixing, stray, outcome>>

WrapsHereNever(cur, low) == FALSE
WrapsHere(cur, low) == ~wrapped /\ cur = low

CheckSeqHeader ==
    /\ pc = "seq" /\ blk < JdBlocks
    /\ ~IsOther(jnl, blk)
    /\ LET cur == IF IsHeader(jnl, blk) THEN jnl[blk].seq ELSE lh
           low == IF lowest = 0 \/ cur < lowest THEN cur ELSE lowest
           high == IF highest = 0 \/ cur > highest THEN cur ELSE highest
       IN  /\ lh' = cur
           /\ lowest' = low
           /\ IF cur > prev \/ WrapsHere(cur, low)
                THEN /\ prev' = cur
                     /\ wrapped' = (wrapped \/ ~(cur > prev))
                     /\ highest' = high
                     /\ UNCHANGED <<seqErrors, jnl, stray>>
                ELSE /\ seqErrors' = seqErrors + 1
                     /\ UNCHANGED wrapped
                     /\ IF ~fixing
                          THEN highest' = high /\ UNCHANGED <<prev, jnl, stray>>
                          ELSE /\ highest' = high + 1
                               /\ prev' = high + 1
                               /\ jnl' = IF IsHole(jnl, blk) THEN jnl
                                         ELSE Renumbered(blk, high + 1)
                               /\ stray' = (stray \/ IsHole(jnl, blk))
    /\ blk' = blk + 1
    /\ UNCHANGED <<pc, findVars, head, fixing, outcome>>

(* lgfs2_find_jhead is called again on the repaired journal *)
FindAgain ==
    /\ pc' = "mid"
    /\ lo' = 0 /\ hi' = LastBlock /\ mid' = 0 /\ orig' = 0
    /\ UNCHANGED outcome

(* more errors than tolerated and the journal is given up at once; a few   *)
(* and a repair is offered; with fix set the count is reset to zero        *)
CheckSeqDone ==
    /\ pc = "seq" /\ blk = JdBlocks
    /\ \/ fixing /\ FindAgain
       \/ /\ ~fixing /\ seqErrors = 0
          /\ pc' = "done" /\ outcome' = "head" /\ UNCHANGED findVars
       \/ /\ ~fixing /\ seqErrors > Tolerance
          /\ pc' = "done" /\ outcome' = "corrupt" /\ UNCHANGED findVars
       \/ /\ ~fixing /\ seqErrors \in 1 .. Tolerance
          /\ pc' = "repair" /\ UNCHANGED <<findVars, outcome>>
    /\ UNCHANGED <<jnl, head, blk, seqVars, fixing, stray>>

(* -n, an unsafe preen or the answer no *)
RefuseRepair ==
    /\ pc = "repair"
    /\ pc' = "done" /\ outcome' = "corrupt"
    /\ UNCHANGED <<jnl, findVars, head, blk, seqVars, fixing, stray>>

(* the answer yes: check_journal_seq_no(ip, 1) *)
AcceptRepair ==
    /\ pc = "repair"
    /\ pc' = "seq" /\ fixing' = TRUE
    /\ blk' = 0 /\ lh' = 0 /\ lowest' = 0 /\ highest' = 0 /\ prev' = 0
    /\ wrapped' = FALSE /\ seqErrors' = 0
    /\ UNCHANGED <<jnl, findVars, head, stray, outcome>>

(* gfs2_recover_journal has its head, or has given the journal up *)
Done == pc = "done" /\ UNCHANGED vars

Step ==
    \/ TakeMid \/ FindGoodLo \/ FindGoodMid \/ Narrow \/ JheadScan
    \/ CheckSeqSkip \/ CheckSeqHeader \/ CheckSeqDone
    \/ RefuseRepair \/ AcceptRepair

Next == Step \/ Done

Spec == Init /\ [][Next]_vars

(* fsck runs: it is never scheduled out for ever *)
FairSpec == Spec /\ WF_vars(Step)

-----------------------------------------------------------------------------
(* The types of the variables. *)
TypeOK ==
    /\ jnl \in [Blocks -> JBlock]
    /\ pc \in {"mid", "goodlo", "goodmid", "narrow", "scan", "seq", "repair", "done"}
    /\ lo \in Blocks /\ hi \in Blocks /\ mid \in Blocks /\ orig \in Blocks
    /\ head \in [blkno : Blocks, seq : Nat]
    /\ blk \in 0 .. JdBlocks
    /\ pc = "scan" => blk \in Blocks
    /\ lh \in Nat /\ lowest \in Nat /\ highest \in Nat /\ prev \in Nat
    /\ wrapped \in BOOLEAN /\ seqErrors \in Nat
    /\ fixing \in BOOLEAN /\ stray \in BOOLEAN
    /\ outcome \in {"none", "head", "corrupt"}

(* A journal a node left behind, and that nobody repaired. *)
Untouched == Legit(jnl) /\ ~fixing

(* On a journal a node left behind fsck accepts exactly the header with    *)
(* the highest sequence number: the binary search, which starts from a     *)
(* block that need not be a header and wraps, never lands past the head,   *)
(* and the scan stops at it (lgfs2_find_jhead).                            *)
HeadIsHighest ==
    Untouched /\ outcome = "head" =>
      head = [blkno |-> HeadBlock(jnl), seq |-> jnl[HeadBlock(jnl)].seq]

(* On such a journal neither the search nor the sequence check reports an  *)
(* error, so nobody is ever asked to repair it (gfs2_recover_journal).     *)
NeverCalledCorrupt == Untouched => pc # "repair" /\ outcome # "corrupt"

(* find_jhead comes to an end whenever the valid headers carry different   *)
(* numbers, whatever else the journal holds and whatever was repaired.     *)
DistinctSeqs(j) == \A x, y \in Blocks :
    IsHeader(j, x) /\ IsHeader(j, y) /\ x # y => j[x].seq # j[y].seq
TerminatesIfDistinct == DistinctSeqs(jnl) ~> pc = "done"
=============================================================================
