------------------------------- MODULE Rgrps -------------------------------
(***************************************************************************)
(* The geometry of resource groups (libgfs2/rgrp.c): how many bitmap       *)
(* blocks a group needs, how a stretch of the device is divided into       *)
(* groups, and the entry of the resource group index for each.  Sizes are  *)
(* in blocks.  uint32_t and uint64_t have their widths, scaled down.       *)
(*                                                                         *)
(* A group is a header block that maps RgrpMaps blocks, further bitmap     *)
(* blocks that map MetaMaps blocks each, then the data blocks; a byte of a *)
(* bitmap maps four.                                                       *)
(***************************************************************************)
EXTENDS Integers, Sequences, FiniteSets, FiniteSetsExt

CONSTANTS
    RgrpMaps, MetaMaps,
    MaxRgLen, MinRgLen,     \* GFS2_MAX_RGSIZE and GFS2_MIN_RGSIZE, in blocks
    W32, W64                \* the number of values of uint32_t and uint64_t

NBBY == 4       \* GFS2_NBBY

ASSUME RgrpsAssumption ==
    /\ RgrpMaps \in Nat \ {0} /\ MetaMaps \in Nat \ {0}
    /\ RgrpMaps % NBBY = 0 /\ MetaMaps % NBBY = 0
    /\ MinRgLen \in Nat \ {0} /\ MaxRgLen \in Nat /\ MinRgLen =< MaxRgLen
    /\ W32 \in Nat \ {0} /\ W64 \in Nat /\ MaxRgLen < W32 /\ W32 =< W64
    /\ W32 % NBBY = 0

U32(n) == n % W32
U64(n) == n % W64
Down4(n) == n - (n % NBBY)

(* An alignment: lengths are a multiple of align plus off, addresses       *)
(* multiples of off; align is a multiple of off, and 0 is no alignment.    *)
Alignments == { al \in [align : Nat, off : Nat] : al.off = 0 \/ al.align % al.off = 0 }

-----------------------------------------------------------------------------
(* rgblocks2bitblocks: the bitmap blocks of a group of rgblocks blocks,    *)
(* and its data blocks.  The first loop stops at the first number of       *)
(* further bitmap blocks that is enough; if one less maps all the data     *)
(* there is, that many are enough with the header block.                   *)
EnoughBitmaps(rgblocks) ==
    CHOOSE b \in 0 .. rgblocks :
        /\ RgrpMaps + MetaMaps * b >= Down4(rgblocks - b)
        /\ \A c \in 0 .. b - 1 : RgrpMaps + MetaMaps * c < Down4(rgblocks - c)
rgblocks2bitblocks(rgblocks) ==
    LET b == EnoughBitmaps(rgblocks)
        mappable == IF b > 0 THEN RgrpMaps + MetaMaps * (b - 1) ELSE 0
        data == Down4(U32(rgblocks - (b + 1)))
    IN  [length |-> IF mappable < data THEN b + 1 ELSE b, data |-> data]

(* lgfs2_rgsize_for_data: the blocks of a group with blksreq data blocks.  *)
lgfs2_rgsize_for_data(blksreq) ==
    LET req == Down4(blksreq + NBBY - 1)
        more == IF req > RgrpMaps THEN (req - RgrpMaps + MetaMaps - 1) \div MetaMaps ELSE 0
    IN  1 + more + req

align_block(base, align) ==
    IF align > 0 /\ base % align > 0 THEN base - (base % align) + align ELSE base
lgfs2_rgrp_align_addr(al, addr) == align_block(addr, al.off)
lgfs2_rgrp_align_len(al, len) == align_block(len, al.align) + al.off

-----------------------------------------------------------------------------
(* lgfs2_rgrps_plan: one or two lengths for the groups of a stretch of     *)
(* space blocks, and how many of each.  The products of two uint32_t are   *)
(* uint32_t, but for the one the code casts.                               *)
NoPlan == [len0 |-> 0, num0 |-> 0, len1 |-> 0, num1 |-> 0]

(* The first length no longer than the maximum, from the target down.      *)
PlanLen(al, tgtsize) ==
    LET len(k) == lgfs2_rgrp_align_len(al, tgtsize - k * (al.align + 1))
    IN  len(CHOOSE k \in 0 .. tgtsize : len(k) =< MaxRgLen /\ \A i \in 0 .. k - 1 : len(i) > MaxRgLen)

(* The lengths of num groups are reduced by adj as long as that many still *)
(* reach the end of the space ...                                          *)
Shrunk(len, adj, num, space) ==
    Max({ l \in 1 .. len : (len - l) % adj = 0 /\ (l =< adj \/ (l - adj) * num < space) })
(* ... and then those of some groups by one adj more, until all fit.       *)
Shifted(len, adj, num, space) ==
    LET fit(k) == U32(U32(len * (num - k)) + U32(U32(len - adj) * k)) < space
    IN  CHOOSE k \in 0 .. num : (k = num \/ fit(k)) /\ \A i \in 0 .. k - 1 : ~fit(i)

SpreadPlan(adj, len, num, space) ==
    LET of[l, k \in Nat] == [len0 |-> l, num0 |-> num - k, len1 |-> U32(l - adj), num1 |-> k]
        with[l \in Nat] == of[l, Shifted(l, adj, num, space)]
    IN  with[Shrunk(len, adj, num, space)]
lgfs2_rgrps_plan(al, space, tgtsize) ==
    LET adj == IF al.align > 0 THEN al.align ELSE 1
        plan[len, num, room \in Nat] ==
            IF U64(room - U32(num * len)) > al.align
            THEN SpreadPlan(adj, len, U32(num + 1), room)
            ELSE [len0 |-> len, num0 |-> num, len1 |-> 0, num1 |-> 0]
        sized[len, room \in Nat] == plan[len, U32(room \div len), room]
    IN  sized[PlanLen(al, tgtsize), space]
(* What it returns: the number of groups, or 0 if they are too small.      *)
Planned(plan) == IF plan.len0 < MinRgLen THEN 0 ELSE U32(plan.num0 + plan.num1)

-----------------------------------------------------------------------------
(* lgfs2_rindex_entry_new: the next length of the plan when none is asked  *)
(* for (and when it is the one asked for), or the length asked for; no     *)
(* entry when the plan is used up or the group would not fit the device.   *)
Group(addr, len) ==
    LET b == rgblocks2bitblocks(len)
    IN  [addr |-> addr, length |-> b.length, data |-> b.data]
data0(rg) == rg.addr + rg.length
RgEnd(rg) == data0(rg) + rg.data

PlanUsed(plan, len) ==
    CASE plan.num0 > 0 /\ len \in {0, plan.len0} ->
            [found |-> TRUE, len |-> plan.len0, plan |-> [plan EXCEPT !.num0 = @ - 1]]
      [] plan.num0 = 0 /\ plan.num1 > 0 /\ len \in {0, plan.len1} ->
            [found |-> TRUE, len |-> plan.len1, plan |-> [plan EXCEPT !.num1 = @ - 1]]
      [] OTHER -> [found |-> len # 0, len |-> len, plan |-> plan]
lgfs2_rindex_entry_new(plan, addr, len, devlen) ==
    LET u == PlanUsed(plan, len)
        ok == u.found /\ addr + u.len =< devlen
    IN  [next |-> IF ok THEN addr + u.len ELSE 0, plan |-> u.plan, len |-> u.len]

(* lgfs2_rgrps_append: an entry goes after the last, or nowhere.           *)
Appendable(rgs, rg) == rgs = << >> \/ rg.addr > rgs[Len(rgs)].addr
=============================================================================
