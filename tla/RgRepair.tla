------------------------------ MODULE RgRepair ------------------------------
(***************************************************************************)
(* fsck.gfs2 reads the resource groups (fsck/initialize.c: fetch_rgrps)    *)
(* and repairs their index and their headers (fsck/rgrepair.c), level by   *)
(* level: at face value, with the index trusted, against the layout of     *)
(* even groups, and against what a walk over the device finds, for even    *)
(* and for uneven distances.                                               *)
(*                                                                         *)
(* fs is the process: tree and calc are sdp->rgtree and rgcalc, sorted     *)
(* sequences of groups; n and e the positions of a loop in them, and rg    *)
(* its count.  Reads beyond the end of the device give no buffer: the code *)
(* uses it all the same and crashes.                                       *)
(***************************************************************************)
EXTENDS Mkfs

CONSTANTS
    DefaultRg, LeastRg,     \* the sizes level 3 tries: halves from .. down to ..
    MaxBitBlocks,           \* bitmap blocks a group may have (2149)
    BadPercent,             \* BAD_RG_PERCENT_TOLERANCE (11)
    Samples,                \* distances that settle the one of a segment (6)
    SkipAhead, StepBack,    \* blocks passed over after a group (250), and gone back (16)
    MaxSegments,            \* MAX_RGSEGMENTS (20)
    Far,                    \* blocks without a group that end the search (4 GB)
    Away,                   \* AWAY_FROM_BITMAPS (0x1000)
    Mega, TwoGigs,          \* a megabyte and two gigabytes, in blocks
    TooMany,                \* damaged groups that end the walk (5)
    MostSteps,              \* bound: groups and segments a walk over the device meets
    Modes                   \* how the questions are answered, and -v

ASSUME RgRepairAssumption ==
    /\ {DefaultRg, LeastRg, MaxBitBlocks, Samples, MaxSegments, Mega, TooMany, MostSteps} \subseteq Nat \ {0}
    /\ LeastRg =< DefaultRg /\ {BadPercent, SkipAhead, StepBack, Far, Away, TwoGigs} \subseteq Nat
    /\ \A m \in Modes : m.answers \in {"yes", "no", "ask"} /\ {m.verbose, m.interrupted} \subseteq BOOLEAN

VARIABLE fs
rrvars == <<opt, mk, dvars, fs>>

NoBlock == -1       \* what gfs2_rgrp_read returns for a group it cannot read
Answers == CASE fs.mode.answers = "yes" -> {TRUE} [] fs.mode.answers = "no" -> {FALSE} [] OTHER -> BOOLEAN

InRange(b) == b > SbAddr /\ b =< fs.fssize                 \* gfs2_check_range
IsRgrp(b) == b \in Block /\ hdr[b].kind = "RG"
IsBitmap(b) == b \in Block /\ hdr[b].kind = "RB"
DeviceEnd == opt.length

-----------------------------------------------------------------------------
(* Trees of groups.                                                        *)
Blank(addr) == [addr |-> addr, length |-> 0, data0 |-> 0, data |-> 0, bitbytes |-> 0, bits |-> FALSE]
BitStructs(r) == r.length \in 1 .. MaxBitBlocks /\ r.bitbytes * NBBY = r.data
InMemory(addr, e) ==
    LET r == [addr |-> addr, length |-> e.length, data0 |-> e.data0, data |-> e.data, bitbytes |-> e.bitbytes]
    IN  r @@ [bits |-> BitStructs(r)]
FieldsOf(r) == <<r.addr, r.length, r.data0, r.data, r.bitbytes>>

Below(tree, addr) == Cardinality({ i \in DOMAIN tree : tree[i].addr < addr })
rgrp_insert(tree, r) ==
    LET i == Below(tree, r.addr) + 1
    IN  IF i \in DOMAIN tree /\ tree[i].addr = r.addr THEN [tree EXCEPT ![i] = r] ELSE InsertAt(tree, i, r)
At(tree, addr) == tree[Below(tree, addr) + 1]

-----------------------------------------------------------------------------
(* rindex_read.  An address that is out of range stands for the end of the *)
(* group before; the first one is left out.                                *)
rgd_seems_ok_by_length(r) == r.length \in 1 .. MaxBitBlocks
rgd_seems_ok(r) ==
    r.length \in 1 .. MaxBitBlocks /\ r.data0 = r.addr + r.length /\ r.bitbytes = r.data \div NBBY
rindex_read ==
    LET start == [tree |-> << >>, prev |-> << >>, dist |-> 0, ok |-> ~fs.ragged, count |-> 0]
        step(s, i) ==
            LET e == rindex[i]
                here == InRange(e.addr)
                addr == IF here THEN e.addr ELSE s.prev[1].data0 + s.prev[1].data
                r == InMemory(addr, e)
                sane == \/ s.prev = << >>
                        \/ /\ s.prev[1].addr < addr /\ rgd_seems_ok(r)
                           /\ i > 3 /\ s.dist # 0 /\ s.dist # addr - s.prev[1].addr => IsRgrp(addr)
            IN  IF ~here /\ s.prev = << >> THEN [s EXCEPT !.ok = FALSE]
                ELSE [tree |-> rgrp_insert(s.tree, r), prev |-> <<r>>, count |-> s.count + 1,
                      dist |-> IF s.prev = << >> THEN s.dist ELSE addr - s.prev[1].addr,
                      ok |-> s.ok /\ here /\ sane /\ r.bits]
        done == FoldLeft(step, start, [i \in DOMAIN rindex |-> i])
    IN  [tree |-> done.tree, count |-> done.count, ok |-> done.ok, error |-> fs.ragged \/ done.count = 0]

(* gfs2_rgrp_read: the first of its blocks that is not what it should be.  *)
BadBlocks(r) == { b \in r.addr .. r.addr + r.length - 1 : IF b = r.addr THEN ~IsRgrp(b) ELSE ~IsBitmap(b) }
Unreadable(r) == r.length = 0 \/ ~InRange(r.addr) \/ r.addr + r.length > DeviceEnd
gfs2_rgrp_read(r) ==
    IF Unreadable(r) THEN NoBlock ELSE IF BadBlocks(r) = {} THEN 0 ELSE Min(BadBlocks(r))

-----------------------------------------------------------------------------
(* Level 3: the layout of even groups.  how_many_rgrps takes the smallest  *)
(* size that gives as many groups as the index has entries, or one less    *)
(* than the least; the first group takes what is left over.                *)
Sizes[size \in Nat] == IF size < LeastRg THEN << >> ELSE <<size>> \o Sizes[size \div 2]
Matching(length, num) == SelectSeq(Sizes[DefaultRg], LAMBDA size : CeilDiv(length, size) = num)
RgSize(length, num) ==
    IF Matching(length, num) # << >> THEN Matching(length, num)[1]
    ELSE Max({1, Sizes[DefaultRg][Len(Sizes[DefaultRg])] \div 2})
GroupOf(addr, b) ==
    InMemory(addr, [length |-> b.length, data0 |-> addr + b.length, data |-> b.data, bitbytes |-> b.data \div NBBY])
EvenGroup(addr, skip) == GroupOf(addr, rgblocks2bitblocks(skip))
EvenGroups(nrgrp, rglength, first) ==
    [i \in 1 .. nrgrp |-> LET skip == IF i = 1 THEN first ELSE rglength
                          IN  EvenGroup(SbAddr + 1 + (IF i = 1 THEN 0 ELSE first + (i - 2) * rglength), skip)]
LeftOver(length, nrgrp) == EvenGroups(nrgrp, length \div nrgrp, length - (nrgrp - 1) * (length \div nrgrp))
compute_rgrp_layout(length, num) == LeftOver(length, CeilDiv(length, RgSize(length, num)))

-----------------------------------------------------------------------------
(* find_journaled_rgs: what looks like a group in a journal is none.       *)
LookUp(dir, name) ==
    IF dir \in DOMAIN inode /\ name \in DOMAIN inode[dir].entries THEN inode[dir].entries[name] ELSE 0
Journals == LET ji == LookUp(fs.meta, <<"jindex">>)
            IN  IF ji \in DOMAIN inode THEN { inode[ji].entries[n] : n \in DOMAIN inode[ji].entries } ELSE {}
FalseRgrps == { b \in UNION { inode[j].blocks : j \in Journals \intersect DOMAIN inode } : IsRgrp(b) }
Found(b) == IsRgrp(b) /\ b \notin FalseRgrps

(* find_shortest_rgdist.  dist and cnt are rg_dist and rg_dcnt; segment 0  *)
(* is the first group alone.                                               *)
FirstRg == SbAddr + 1
NoSegment == [i \in 0 .. MaxSegments |-> 0]
StartSearch == [blk |-> FirstRg, last |-> FirstRg, dist |-> [NoSegment EXCEPT ![0] = FirstRg], cnt |-> NoSegment,
                sampled |-> 0, shortest |-> fs.devlen, seg |-> 0, pc |-> "search"]

SearchEnds(s) == s.pc # "search" \/ s.blk >= fs.devlen
First(s) == [s EXCEPT !.cnt[s.seg] = @ + 1, !.seg = @ + 1, !.last = s.blk, !.blk = @ + SkipAhead + 1,
                      !.pc = IF s.seg + 1 >= MaxSegments THEN "done" ELSE @]
AtPredicted(s) == [s EXCEPT !.cnt[s.seg] = @ + 1, !.last = s.blk, !.blk = @ + s.dist[s.seg]]
Sampled(s) ==
    LET d == s.blk - s.last
        isFirst == s.dist[0] = FirstRg
        dist0 == IF isFirst THEN [s.dist EXCEPT ![0] = d] ELSE s.dist
        cnt0 == [[s.cnt EXCEPT ![s.seg] = @ + 1] EXCEPT ![0] = IF isFirst THEN 1 ELSE @]
        n == (IF isFirst THEN 0 ELSE s.sampled) + 1
        shortest == Min({d, s.shortest})
    IN  [s EXCEPT !.dist = IF n = Samples THEN [dist0 EXCEPT ![s.seg] = shortest] ELSE dist0,
                  !.cnt = cnt0, !.sampled = n, !.shortest = shortest, !.last = s.blk,
                  !.blk = @ + (IF n < Samples THEN SkipAhead + 1 ELSE shortest)]
(* No group where one was predicted: if the next one is there, only this   *)
(* one is damaged; else a new segment begins a few blocks before.          *)
NextIsThere(s) == Found(s.blk + s.dist[s.seg])
NewSegment(s) ==
    [s EXCEPT !.blk = @ - StepBack, !.sampled = 0, !.shortest = fs.devlen, !.cnt[s.seg] = @ - 1, !.seg = @ + 1,
              !.pc = IF s.seg + 1 >= MaxSegments THEN "done" ELSE @]
Onward(s) ==
    LET next == Min({fs.devlen} \union { b \in s.blk + 1 .. fs.devlen : Found(b) })
        ends == s.pc = "done" \/ s.blk < s.last \/ next - 1 - s.last > Far
    IN  [s EXCEPT !.blk = next, !.pc = IF ends THEN "done" ELSE @]
SearchStep(s) ==
    CASE s.blk = FirstRg -> First(s)
      [] s.blk # FirstRg /\ Found(s.blk) /\ s.sampled >= Samples -> AtPredicted(s)
      [] s.blk # FirstRg /\ Found(s.blk) /\ s.sampled < Samples -> Sampled(s)
      [] OTHER -> IF s.sampled < Samples THEN Onward(s)
                  ELSE IF s.blk + s.dist[s.seg] >= DeviceEnd THEN [s EXCEPT !.pc = "crashed"]
                  ELSE IF NextIsThere(s) THEN [s EXCEPT !.blk = @ + s.dist[s.seg], !.cnt[s.seg] = @ + 1]
                  ELSE Onward(NewSegment(s))
Iterate(step(_), ended(_), start, most) ==
    FoldLeft(LAMBDA s, i : IF ended(s) THEN s ELSE step(s), start, [i \in 1 .. most |-> i])
Search == Iterate(SearchStep, SearchEnds, StartSearch, MostSteps)

(* Is the first distance too long, the second group was damaged: then it   *)
(* is taken from the index, or from the number of groups.                  *)
FirstDistance(s) ==
    CASE s.dist[0] < s.shortest + (s.shortest \div 4) -> s.dist[0]
      [] s.dist[0] >= s.shortest + (s.shortest \div 4) /\ rindex[2].addr > FirstRg -> rindex[2].addr - FirstRg
      [] OTHER -> fs.devlen - (fs.count - 1) * (fs.devlen \div fs.count)
Settled(s) == [s EXCEPT !.dist[0] = IF s.pc = "crashed" THEN @ ELSE FirstDistance(s),
                        !.pc = IF SearchEnds(s) THEN @ ELSE "endless"]
find_shortest_rgdist == Settled(Search)

-----------------------------------------------------------------------------
(* count_usedspace: the used blocks of the bitmap in a block.  Zeros, and  *)
(* what is not the bitmap of a group, count as free.                       *)
MappedBy(b) ==
    LET of == { rg \in { mk.rgs[i] : i \in DOMAIN mk.rgs } : b \in rg.addr .. data0(rg) - 1 }
        part(rg) == IF b = rg.addr THEN data0(rg) .. data0(rg) + RgrpMaps - 1
                    ELSE data0(rg) + RgrpMaps + (b - rg.addr - 1) * MetaMaps
                         .. data0(rg) + RgrpMaps + (b - rg.addr) * MetaMaps - 1
    IN  UNION { part(rg) \intersect DataOf(rg) : rg \in of }
count_usedspace(b) == Cardinality({ d \in MappedBy(b) : bits[d] \in {"used", "dinode"} })

(* find_next_rgrp_dist: what is used and what is free makes the length of  *)
(* a group, if as many of the blocks that follow its header are bitmaps as *)
(* lead to a group; a bitmap there follows a damaged header.               *)
NextRgrp(addr, dist, length) ==
    LET near == { b \in 0 .. length + NBBY : addr + dist + b < fs.devlen /\ (IsRgrp(addr + dist + b) \/ IsBitmap(addr + dist + b)) }
        room == { b \in 0 .. length + NBBY : addr + dist + b < fs.devlen }
        at == IF near = {} THEN 0 ELSE Min(near)
    IN  IF near = {} THEN [found |-> FALSE, dist |-> dist + Cardinality(room)]
        ELSE [found |-> TRUE, dist |-> dist + at - (IF IsRgrp(addr + dist + at) THEN 0 ELSE 1)]
find_next_rgrp_dist(addr) ==
    LET start == [length |-> 0, used |-> 0, dist |-> 0, pc |-> "search"]
        ended(s) ==
            LET b == addr + s.length
            IN  \/ s.pc = "found" \/ b >= fs.devlen \/ s.length >= TwoGigs
                \/ ~(IF s.length = 0 THEN IsRgrp(b) ELSE IsBitmap(b))
        step(s) ==
            LET used == s.used + count_usedspace(addr + s.length)
                next == NextRgrp(addr, used + hdr[addr].free + s.length + 1, s.length + 1)
            IN  [length |-> s.length + 1, used |-> used, dist |-> next.dist,
                 pc |-> IF next.found THEN "found" ELSE "search"]
    IN  Iterate(step, ended, start, MaxBitBlocks + 1).dist

(* hunt_and_peck: the distance counts from Away, but the search begins at  *)
(* twice as far.  Beyond the last block the distance is back to it.        *)
PeckNear(blk) == blk + Away + TwoGigs =< fs.fssize
PeckEnd(blk) == IF PeckNear(blk) THEN TwoGigs ELSE fs.fssize - (blk + Away) - Mega
PeckMet(blk) == { b \in Away .. PeckEnd(blk) - 1 : IsRgrp(blk + Away + b) \/ IsBitmap(blk + Away + b) }
PeckCrashes(blk, bump) ==
    /\ InRange(blk + bump)
    /\ \/ blk + bump >= DeviceEnd
       \/ ~IsRgrp(blk + bump) /\ (PeckEnd(blk) < 0 \/ (PeckMet(blk) = {} /\ blk + Away + PeckEnd(blk) > DeviceEnd))
hunt_and_peck(blk, bump) ==
    LET met == PeckMet(blk)
        at == IF met = {} THEN Max({Away, PeckEnd(blk)}) ELSE Min(met)
    IN  CASE ~InRange(blk + bump) -> fs.fssize - blk
          [] InRange(blk + bump) /\ IsRgrp(blk + bump) -> bump
          [] OTHER -> at - (IF met # {} /\ IsBitmap(blk + Away + at) THEN 1 ELSE 0) + (IF PeckNear(blk) THEN 0 ELSE Mega)

-----------------------------------------------------------------------------
(* rindex_rebuild: from group to group by the distances of the segments    *)
(* or, for uneven ones, by those found group by group.  The counter of the *)
(* segments moves on in the argument of a debug message, which is only     *)
(* evaluated with -v.                                                      *)
StartWalk(search) == [blk |-> FirstRg, bump |-> search.dist[0], seg |-> 0, segrgs |-> 0, corrupt |-> 0,
                      calc |-> << >>, prev |-> 0, number |-> 0, pc |-> "walk"]
Bitmaps(blk) == Cardinality({ b \in blk + 1 .. fs.devlen - 1 : \A c \in blk + 1 .. b : IsBitmap(c) })
Seen(calc, blk) ==
    LET i == Below(calc, blk) + 1
        r == IF i \in DOMAIN calc /\ calc[i].addr = blk THEN calc[i] ELSE Blank(blk)
    IN  rgrp_insert(calc, [r EXCEPT !.length = 1 + Bitmaps(blk), !.data0 = blk + 1 + Bitmaps(blk)])
Measured(calc, addr, bump) == IF addr = 0 THEN calc ELSE rgrp_insert(calc, EvenGroup(addr, U32(bump)))
WalkEnds(s) == s.pc # "walk" \/ s.blk > fs.devlen
Counted(s) == [s EXCEPT !.calc = Measured(Seen(@, s.blk), s.prev, s.bump), !.prev = s.blk, !.number = @ + 1,
                        !.segrgs = @ + 1, !.corrupt = @ + (IF IsRgrp(s.blk) THEN 0 ELSE 1)]
Evenly(uneven, s) == s.blk = FirstRg \/ ~uneven
Bump(search, uneven, s) ==
    IF Evenly(uneven, s) THEN search.dist[s.seg]
    ELSE IF IsRgrp(s.blk) THEN find_next_rgrp_dist(s.blk) ELSE hunt_and_peck(s.blk, s.bump)
Moved(search, even, s, bump) ==
    LET full == even /\ s.segrgs >= search.cnt[s.seg]
        seg == IF full /\ fs.mode.verbose THEN s.seg + 1 ELSE s.seg
        last == (full /\ seg >= search.seg) \/ (even /\ s.blk + 2 * bump > fs.devlen)
    IN  [s EXCEPT !.bump = bump, !.seg = seg, !.segrgs = IF full THEN 0 ELSE @,
                  !.blk = IF last THEN @ ELSE @ + bump, !.pc = IF last THEN "done" ELSE "walk"]
WalkOn(search, uneven, s) ==
    IF s.corrupt >= TooMany THEN [s EXCEPT !.pc = "failed"]
    ELSE IF ~Evenly(uneven, s) /\ ~IsRgrp(s.blk) /\ PeckCrashes(s.blk, s.bump) THEN [s EXCEPT !.pc = "crashed"]
    ELSE Moved(search, Evenly(uneven, s), s, Bump(search, uneven, s))
WalkStep(search, uneven, s) == WalkOn(search, uneven, Counted(s))
LastMeasured(s) == IF At(s.calc, s.prev).data = 0 THEN Measured(s.calc, s.prev, s.bump) ELSE s.calc
Walked(search, s) ==
    IF search.pc \in {"crashed", "endless"} THEN [pc |-> search.pc, calc |-> << >>, number |-> 0]
    ELSE [pc |-> IF WalkEnds(s) THEN s.pc ELSE "endless", calc |-> LastMeasured(s), number |-> s.number]
Rebuild(uneven, search) ==
    Walked(search, Iterate(LAMBDA s : WalkStep(search, uneven, s), WalkEnds, StartWalk(search), MostSteps))
rindex_rebuild(uneven) == Rebuild(uneven, find_shortest_rgdist)

-----------------------------------------------------------------------------
(* fetch_rgrps: one level after the other.  Ctrl-C and then abort sets     *)
(* fsck_abort: the level that runs counts as passed even if it failed.     *)
To(next) == fs' = next /\ UNCHANGED <<opt, mk, dvars>>
StartFetch(f) == [f EXCEPT !.pc = "level", !.lvl = 0, !.tree = << >>, !.calc = << >>, !.ok = TRUE, !.ragged = ragged]
LevelFailsAgain(f) ==
    IF f.abort THEN [f EXCEPT !.pc = "integrity", !.n = 1, !.fixit = FALSE]
    ELSE [f EXCEPT !.pc = "level", !.lvl = Min({@ + 1, 4})]
LevelFails(f) ==
    IF f.abort THEN [f EXCEPT !.pc = "integrity", !.n = 1, !.fixit = FALSE]
    ELSE IF f.lvl = 4 THEN [f EXCEPT !.pc = "error"]
    ELSE [f EXCEPT !.pc = "level", !.lvl = @ + 1]
DropTrees(f) == [f EXCEPT !.tree = << >>, !.calc = << >>]

(* rindex_repair makes the layout it expects.  The journals are read for   *)
(* the last two levels.                                                    *)
AfterRebuild(f, b) ==
    CASE b.pc \in {"crashed", "endless"} -> [f EXCEPT !.pc = b.pc]
      [] b.pc = "failed" -> LevelFails(DropTrees(f))
      [] OTHER -> [f EXCEPT !.calc = b.calc, !.want = b.number, !.pc = "reread"]
Rebuilt(f) == IF LookUp(f.meta, <<"jindex">>) = 0 THEN LevelFails(DropTrees(f))
              ELSE AfterRebuild(f, rindex_rebuild(f.lvl = 4))
Expecting(f, devlen, calc) ==
    [f EXCEPT !.devlen = devlen, !.calc = calc, !.want = Len(rindex), !.pc = "reread",
              !.fssize = calc[Len(calc)].data0 + calc[Len(calc)].data]
EvenLayout(f) == LET devlen == DeviceEnd - (SbAddr + 1)
                 IN  Expecting(f, devlen, compute_rgrp_layout(devlen, Len(rindex)))
expect_rindex_sanity(f) ==
    [f EXCEPT !.calc = [i \in DOMAIN f.tree |-> InMemory(f.tree[i].addr, f.tree[i])],
              !.want = Len(rindex), !.pc = "reread"]
Level ==
    /\ fs.pc = "level"
    /\ \E next \in { CASE fs.lvl = 0 -> [fs EXCEPT !.pc = "check"]
                       [] fs.lvl = 1 -> IF fs.ok THEN expect_rindex_sanity(fs) ELSE LevelFails(fs)
                       [] fs.lvl = 2 -> EvenLayout(fs)
                       [] OTHER -> Rebuilt(fs) } : To(next)

(* The index is read again; a part of an entry at its end is cut off, and  *)
(* the last two levels make do with the entries there is room for.         *)
Reread ==
    /\ fs.pc = "reread"
    /\ \E r \in {rindex_read} : \E cut, fewer \in Answers :
        LET f == [fs EXCEPT !.tree = r.tree, !.count = r.count, !.ok = r.ok, !.ragged = FALSE]
            fits == fs.want = r.count
        IN  To(IF fs.ragged /\ ~cut THEN LevelFails(DropTrees([f EXCEPT !.ragged = TRUE]))
               ELSE IF ~fits /\ (fs.lvl < 3 \/ ~fewer) THEN LevelFails(DropTrees(f))
               ELSE [f EXCEPT !.pc = "compare", !.want = IF fits THEN @ ELSE Min({@, Len(rindex)})])

(* More than a few of the entries other than expected: the level failed.   *)
Discrepancies ==
    LET start == [n |-> 1, e |-> 1, bad |-> 0, rg |-> 0]
        ended(s) == fs.abort \/ s.n > Len(fs.tree) \/ s.e > Len(fs.calc)
        step(s) ==
            LET actual == fs.tree[s.n]
                expected == fs.calc[s.e]
            IN  [rg |-> s.rg + 1, bad |-> s.bad + (IF FieldsOf(actual) = FieldsOf(expected) THEN 0 ELSE 1),
                 n |-> IF actual.addr > expected.addr THEN s.n ELSE s.n + 1,
                 e |-> IF actual.addr < expected.addr THEN s.e ELSE s.e + 1]
    IN  Iterate(step, ended, start, fs.want)
Compare ==
    /\ fs.pc = "compare"
    /\ \E d \in {Discrepancies} :
        To(IF d.rg > 0 /\ (d.bad * 100) \div d.rg > BadPercent THEN LevelFails(DropTrees(fs))
           ELSE [fs EXCEPT !.pc = "index", !.n = 1, !.e = 1, !.rg = 0])

(* The index is made what was expected, an entry a step.  ri_compare has   *)
(* changed the group in memory before the question is asked.               *)
Missing == fs.n > Len(fs.tree) \/ fs.calc[fs.e].addr < fs.tree[fs.n].addr
FixIndex ==
    /\ fs.pc = "index" /\ fs.e =< Len(fs.calc) /\ ~fs.abort /\ fs.rg < fs.want
    /\ LET expected == fs.calc[fs.e]
           same == ~Missing /\ FieldsOf(fs.tree[fs.n]) = FieldsOf(expected)
           was == IF Missing THEN Blank(expected.addr) ELSE fs.tree[fs.n]
           placed(r) == IF Missing THEN InsertAt(fs.tree, fs.n, r) ELSE [fs.tree EXCEPT ![fs.n] = r]
           declined == IF Missing THEN was ELSE [InMemory(expected.addr, expected) EXCEPT !.bits = was.bits \/ @]
       IN  \E fix \in IF same THEN {FALSE} ELSE Answers :
            /\ fs' = [fs EXCEPT !.n = @ + 1, !.e = @ + 1, !.rg = @ + 1,
                                !.tree = IF same THEN @ ELSE placed(IF fix THEN InMemory(expected.addr, expected) ELSE declined)]
            /\ rindex' = IF fix THEN [rindex EXCEPT ![fs.rg + 1] =
                                        [k \in DOMAIN rindex[1] |-> expected[k]]] ELSE rindex
    /\ UNCHANGED <<opt, mk, hdr, bits, inode, ragged, sb>>
IndexDone ==
    /\ fs.pc = "index"
    /\ fs.e > Len(fs.calc) \/ fs.abort \/ fs.rg >= fs.want
    /\ To([fs EXCEPT !.pc = "rgs", !.n = 1, !.rg = 0, !.tries = 0, !.prev = 0])

(* Each group is read, the first bad block of it rewritten, and read again *)
(* until it is right, stays the same, or was tried as often as it is long. *)
(* rewrite_rg_block keeps the bitmap that follows the header; whatever     *)
(* else the block held is lost.                                            *)
NextGroup == [fs EXCEPT !.n = @ + 1, !.rg = @ + 1, !.tries = 0, !.prev = 0]
Rewritten(r, err) == IF err = r.addr THEN Header(r.data, 0) ELSE Bitmap
RgsLeft == fs.n =< Len(fs.tree) /\ ~fs.abort /\ fs.rg < fs.want
FixGroup ==
    /\ fs.pc = "rgs" /\ RgsLeft
    /\ LET r == fs.tree[fs.n] IN
       \E err \in {gfs2_rgrp_read(r)} :
       \E fix \in IF err = 0 \/ err = fs.prev THEN {FALSE} ELSE Answers :
        /\ fs' = IF ~r.bits /\ ~Unreadable(r) THEN [fs EXCEPT !.pc = "crashed"]
                 ELSE IF err = 0 \/ err = fs.prev \/ fs.tries + 1 >= r.length THEN NextGroup
                 ELSE [fs EXCEPT !.tries = @ + 1, !.prev = err]
        /\ LET writes == fix /\ err # NoBlock /\ r.bits
           IN  /\ hdr' = IF writes THEN [hdr EXCEPT ![err] = Rewritten(r, err)] ELSE hdr
               /\ inode' = IF writes THEN [a \in DOMAIN inode \ {err} |-> inode[a]] ELSE inode
    /\ UNCHANGED <<opt, mk, bits, rindex, ragged, sb>>
GroupsDone ==
    /\ fs.pc = "rgs" /\ ~RgsLeft
    /\ fs' = [DropTrees(fs) EXCEPT !.pc = "check"] /\ ragged' = fs.ragged
    /\ UNCHANGED <<opt, mk, hdr, bits, inode, rindex, sb>>

(* rindex_read and read_rgrps: is it all there now?                        *)
LastData(tree) == Max({0} \union { tree[i].data0 + tree[i].data - 1 : i \in DOMAIN tree })
Check ==
    /\ fs.pc = "check"
    /\ \E r \in {rindex_read} :
        LET f == [fs EXCEPT !.tree = r.tree, !.count = r.count, !.ok = r.ok]
            unread == \E i \in DOMAIN r.tree : gfs2_rgrp_read(r.tree[i]) # 0
            g == [f EXCEPT !.fssize = LastData(r.tree)]
        IN  To(IF r.error \/ ~r.ok \/ unread THEN LevelFails(f)
               ELSE IF Len(r.tree) # r.count THEN LevelFails(DropTrees(g))
               ELSE [g EXCEPT !.pc = "integrity", !.n = 1, !.fixit = FALSE])

-----------------------------------------------------------------------------
(* check_rgrps_integrity.  Slots are the blocks the bitmap of a group      *)
(* stands for; the rest of it is zeros, which are free blocks.  Permission *)
(* to reclaim is asked in every group, and kept once given.  The header    *)
(* and the bitmap are written when the groups are let go, in every exit.   *)
Slots(r) ==
    LET of == { rg \in { mk.rgs[i] : i \in DOMAIN mk.rgs } : rg.addr = r.addr }
    IN  UNION { DataOf(rg) \intersect (data0(rg) .. data0(rg) + r.bitbytes * NBBY - 1) : rg \in of }
In(r, state) == { b \in Slots(r) : bits[b] = state }
FreeInSlots(r) == r.bitbytes * NBBY - Cardinality(Slots(r)) + Cardinality(In(r, "free")) + Cardinality(In(r, "unlinked"))
FreeIn(r) == r.bitbytes * NBBY - Cardinality(Slots(r)) + Cardinality(In(r, "free"))
ReclaimedUnasked(unlinked, fixit) == unlinked
Reclaimed(unlinked, fixit) == IF fixit THEN unlinked ELSE {}
CheckIntegrity ==
    /\ fs.pc = "integrity" /\ fs.n =< Len(fs.tree) /\ ~fs.abort
    /\ LET r == fs.tree[fs.n]
           unlinked == In(r, "unlinked")
       IN  \E yes \in IF unlinked = {} THEN {FALSE} ELSE Answers :
           LET fixit == fs.fixit \/ yes
               reclaimed == Reclaimed(unlinked, fixit)
               free == hdr[r.addr].free + Cardinality(reclaimed)
               counted == FreeIn(r) + Cardinality(reclaimed)
           IN  \E fix \in IF free = counted THEN {FALSE} ELSE Answers :
                /\ bits' = IF reclaimed = {} THEN bits
                           ELSE [b \in Block |-> IF b \in reclaimed THEN "free" ELSE bits[b]]
                /\ hdr' = IF reclaimed = {} /\ ~fix THEN hdr
                          ELSE [hdr EXCEPT ![r.addr].free = IF fix THEN counted ELSE free]
                /\ fs' = [fs EXCEPT !.n = @ + 1, !.fixit = fixit]
    /\ UNCHANGED <<opt, mk, inode, rindex, ragged, sb>>
IntegrityDone == /\ fs.pc = "integrity" /\ (fs.n > Len(fs.tree) \/ fs.abort)
                 /\ To([fs EXCEPT !.pc = "fetched"])

Interrupt ==
    /\ fs.pc \in {"level", "reread", "compare", "index", "rgs", "check", "integrity"}
    /\ fs.mode.interrupted /\ ~fs.abort
    /\ fs' = [fs EXCEPT !.abort = TRUE] /\ UNCHANGED <<opt, mk, dvars>>

NextFetch == \/ Level \/ Reread \/ Compare \/ FixIndex \/ IndexDone \/ FixGroup \/ GroupsDone \/ Check
             \/ CheckIntegrity \/ IntegrityDone \/ Interrupt
=============================================================================
