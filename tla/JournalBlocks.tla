--------------------------- MODULE JournalBlocks ---------------------------
(***************************************************************************)
(* A journal as lgfs2_get_log_header sees it, and what it means for a      *)
(* journal to be one a node left behind.                                   *)
(*                                                                         *)
(* A journal block is what that function can tell about it: whether the    *)
(* journal file maps it, the sequence number it carries, and the sequence  *)
(* number its lh_hash was computed over.  A block that is no log header (a *)
(* descriptor, a logged block, damage to lh_blkno or to the checksums) is  *)
(* one whose two numbers differ.                                           *)
(***************************************************************************)
EXTENDS Integers, FiniteSets

CONSTANT JdBlocks       \* blocks of the journal: i_size / sd_bsize

Blocks == 0 .. JdBlocks - 1
JBlock == [mapped : BOOLEAN, seq : Nat, hash : Nat]

ASSUME JdBlocksAssumption == JdBlocks \in Nat \ {0}

(* gfs2_replay_incr_blk *)
IncrBlkOffByOne(b) == IF b + 1 >= JdBlocks - 1 THEN 0 ELSE b + 1
IncrBlk(b) == IF b + 1 = JdBlocks THEN 0 ELSE b + 1

(* the three results of lgfs2_get_log_header: an error, 0 and 1 *)
IsHole(j, b) == ~j[b].mapped
IsHeader(j, b) == j[b].mapped /\ j[b].seq = j[b].hash
IsOther(j, b) == j[b].mapped /\ j[b].seq # j[b].hash

-----------------------------------------------------------------------------
(* The journals a node leaves behind.  A node writes headers of rising     *)
(* sequence numbers round the journal, overwriting the oldest first, and   *)
(* keeps room enough that the last two headers are never both overwritten. *)

IsHead(j, h) ==
    /\ h \in Blocks /\ IsHeader(j, h)
    /\ \A x, y \in Blocks : IsHeader(j, x) /\ IsHeader(j, y) =>
         /\ x < y /\ y <= h => j[x].seq < j[y].seq
         /\ h < x /\ x < y => j[x].seq < j[y].seq
         /\ x <= h /\ h < y => j[y].seq < j[x].seq

Legit(j) ==
    /\ \A b \in Blocks : j[b].mapped
    /\ \E h \in Blocks : IsHead(j, h)
    /\ \E x, y \in Blocks : x # y /\ IsHeader(j, x) /\ IsHeader(j, y)

HeadBlock(j) == CHOOSE h \in Blocks : IsHead(j, h)
=============================================================================
