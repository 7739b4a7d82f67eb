-------------------------------- MODULE Mkfs --------------------------------
(***************************************************************************)
(* mkfs.gfs2 (mkfs/main_mkfs.c, libgfs2/structures.c): the journals, each  *)
(* in a resource group of its own, the other groups, the system files one  *)
(* after the other, and the superblock last.  The run may be killed        *)
(* between two steps.                                                      *)
(*                                                                         *)
(* A block is what its header says: a resource group with its counts, a    *)
(* further bitmap, or neither; bits is the state of each block in the      *)
(* bitmap of its group.  A dinode is its number, its size in bytes, the    *)
(* blocks of the file and, of a directory, the entries and the parent.     *)
(* Directories stay in their dinode (default block size, few journals).    *)
(***************************************************************************)
EXTENDS Rgrps, SequencesExt

CONSTANTS
    Options,            \* length, alignment, journals, blocks of one, stale headers
    SbAddr,             \* the block of the superblock
    DiPtrs, InPtrs,     \* the pointers of a dinode and of an indirect block
    InDinode, PerBlock, \* the rindex entries that fit a dinode, and a block
    QcBlocks,           \* the blocks of a quota_change file
    RgTarget,           \* the size of the other groups
    Bsize               \* bytes of a block

ASSUME MkfsAssumption ==
    /\ SbAddr \in Nat /\ {DiPtrs, InPtrs, InDinode, PerBlock, RgTarget, Bsize} \subseteq Nat \ {0}
    /\ DiPtrs =< InPtrs /\ QcBlocks \in Nat
    /\ \A o \in Options : /\ o.al \in Alignments /\ o.journals \in Nat \ {0}
                          /\ o.jblocks \in Nat \ {0} /\ o.length \in Nat /\ o.stale \subseteq Nat
                          /\ o.journals * o.jblocks =< o.length \div 2

VARIABLES
    opt,
    hdr,        \* what the header of each block says
    bits,       \* the state of each block in the bitmaps
    inode,      \* the dinodes on the device, by address
    rindex,     \* the entries of the rindex file ...
    ragged,     \* ... and whether it ends with a part of one
    sb,         \* the superblock
    mk          \* the run of mkfs.gfs2

dvars == <<hdr, bits, inode, rindex, ragged, sb>>

None == [master |-> 0, root |-> 0]
Block == 0 .. opt.length - 1
Nothing == [kind |-> "none", free |-> 0, dinodes |-> 0]
Header(free, dinodes) == [kind |-> "RG", free |-> free, dinodes |-> dinodes]
Bitmap == [Nothing EXCEPT !.kind = "RB"]
DataOf(rg) == data0(rg) .. RgEnd(rg) - 1
Entry(rg) == [addr |-> rg.addr, length |-> rg.length, data0 |-> data0(rg),
              data |-> rg.data, bitbytes |-> rg.data \div NBBY]

CeilDiv(a, b) == (a + b - 1) \div b

-----------------------------------------------------------------------------
(* lgfs2_space_for_data: the blocks of a file of n blocks of data.         *)
Pointers[ptrs \in Nat] ==
    IF ptrs > DiPtrs THEN CeilDiv(ptrs, InPtrs) + Pointers[CeilDiv(ptrs, InPtrs)] ELSE 0
lgfs2_space_for_data(n) == n + Pointers[n] + 1

(* calc_tree_height, of a file that is not stuffed.                        *)
Capacity(height) == DiPtrs * (InPtrs ^ (height - 1))
calc_tree_height(n) ==
    CHOOSE h \in 1 .. n + 1 : n =< Capacity(h) /\ \A g \in 1 .. h - 1 : n > Capacity(g)

(* The indirect blocks below a dinode of that height for n data blocks.    *)
Indirects(n, height) ==
    LET at[level \in 1 .. height] == IF level = height THEN 0
                                     ELSE CeilDiv(n, InPtrs ^ level) + at[level + 1]
    IN  at[1]

(* lgfs2_write_filemeta: the pointers of each level of a file in one       *)
(* extent, which begin after those of the level above.  find_metapath of   *)
(* the last block gives the index of the last pointer of each level.       *)
FilemetaLevels(n, height) ==
    LET path(level) == ((n - 1) \div (InPtrs ^ (height - 1 - level))) % InPtrs
        ptrs[level \in 0 .. height - 1] ==
            IF level = 0 THEN path(0) + 1 ELSE (ptrs[level - 1] - 1) * InPtrs + path(level) + 1
    IN  ptrs
FilemetaData(addr, n) ==
    LET height == calc_tree_height(n)
        ptrs == FilemetaLevels(n, height)
        before[level \in 0 .. height - 1] == IF level = 0 THEN 1 ELSE before[level - 1] + ptrs[level - 1]
        first == addr + before[height - 1]
    IN  first .. first + ptrs[height - 1] - 1

(* lgfs2_write_journal_data: the log headers go to the last blocks.        *)
JournalData(addr, n) ==
    LET end == addr + lgfs2_space_for_data(n) IN end - n .. end - 1

-----------------------------------------------------------------------------
(* The files mkfs makes, in order.  A name is a tuple, numbered where the  *)
(* file belongs to a journal.                                              *)
PerNodeKinds == <<"inum_range", "statfs_change", "quota_change">>
PerNodeFiles(j) == [i \in 1 .. 3 |-> <<PerNodeKinds[i], j>>]
SystemFiles(journals) ==
    << <<"master">>, <<"jindex">>, <<"per_node">> >>
    \o FlattenSeq([j \in 1 .. journals |-> PerNodeFiles(j - 1)])
    \o << <<"inum">>, <<"statfs">>, <<"rindex">>, <<"quota">>, <<"root">> >>
Directories == {<<"master">>, <<"jindex">>, <<"per_node">>, <<"root">>}
InMaster == {<<"jindex">>, <<"per_node">>, <<"inum">>, <<"statfs">>, <<"rindex">>, <<"quota">>}

(* The size in bytes when the file is finished: struct gfs2_inum_range,    *)
(* gfs2_statfs_change, uint64_t, gfs2_rindex, two of gfs2_quota.           *)
SizeOf(name, entries) ==
    CASE name[1] = "inum_range" -> 16
      [] name[1] \in {"statfs_change", "statfs"} -> 24
      [] name[1] = "quota_change" -> QcBlocks * Bsize
      [] name[1] = "inum" -> 8
      [] name[1] = "rindex" -> 96 * entries
      [] name[1] = "quota" -> 176
      [] OTHER -> Bsize - 232

(* The blocks besides the dinode: build_quota_change makes the tree high   *)
(* enough for one block more, build_rindex writes an entry beyond the end. *)
RindexBlocks(entries) == IF entries + 1 =< InDinode THEN 0 ELSE CeilDiv(entries + 1, PerBlock)
MoreBlocks(name, entries) ==
    CASE name[1] = "quota_change" -> QcBlocks + Indirects(QcBlocks, calc_tree_height(QcBlocks + 1))
      [] name[1] = "rindex" -> RindexBlocks(entries)
      [] OTHER -> 0

-----------------------------------------------------------------------------
(* block_alloc, find_free_block and blk_alloc_in_rg n times: each takes    *)
(* the first free block of the first group that has one, and counts it.    *)
(* The first of a new file is its dinode.                                  *)
FreeBlocks(rgs) == { b \in UNION { DataOf(rgs[i]) : i \in DOMAIN rgs } : bits[b] = "free" }
Lowest(n, S) == { b \in S : Cardinality({ c \in S : c < b }) < n }
TakenForData(rg, dinode, others) ==
    LET h == hdr[rg.addr]
    IN  [h EXCEPT !.free = @ - Cardinality(DataOf(rg) \intersect others),
                  !.dinodes = @ + Cardinality(DataOf(rg) \intersect {dinode})]
Taken(rg, dinode, others) ==
    LET h == hdr[rg.addr]
    IN  [h EXCEPT !.free = @ - Cardinality(DataOf(rg) \intersect ({dinode} \union others)),
                  !.dinodes = @ + Cardinality(DataOf(rg) \intersect {dinode})]
Allocate(rgs, dinode, others) ==
    /\ bits' = [b \in Block |-> IF b = dinode THEN "dinode" ELSE IF b \in others THEN "used" ELSE bits[b]]
    /\ hdr' = [b \in Block |-> IF \E i \in DOMAIN rgs : rgs[i].addr = b
                               THEN Taken(CHOOSE rg \in { rgs[i] : i \in DOMAIN rgs } : rg.addr = b, dinode, others)
                               ELSE hdr[b]]

Dinode(addr, formal, name, size, blocks, parent) ==
    [addr |-> addr, formal |-> formal, dir |-> name \in Directories, sys |-> name # <<"root">>,
     size |-> size, blocks |-> blocks, parent |-> parent, entries |-> << >>, content |-> << >>]
With(f, x, v) == [y \in DOMAIN f \union {x} |-> IF y = x THEN v ELSE f[y]]

-----------------------------------------------------------------------------
InitMkfs ==
    /\ opt \in Options
    /\ hdr = [b \in Block |-> IF b \in opt.stale THEN Header(1, 0) ELSE Nothing]
    /\ bits = [b \in Block |-> "free"] /\ inode = << >> /\ rindex = << >> /\ ragged = FALSE /\ sb = None
    /\ mk = [pc |-> "journals", rgs |-> << >>, rgaddr |-> lgfs2_rgrp_align_addr(opt.al, SbAddr + 1),
             plan |-> NoPlan, journals |-> << >>, jnl |-> 0, next_inum |-> 1,
             todo |-> << >>, held |-> << >>, alloced |-> 0, dinodes |-> 0]

MkStep(pc) == mk.pc = pc /\ UNCHANGED <<opt, ragged>>
Fail == mk' = [mk EXCEPT !.pc = "failed"] /\ UNCHANGED <<hdr, bits, inode, rindex, sb>>

(* place_rgrp: zero_gap from the end of the group before, then the header  *)
(* and the bitmaps, which are written with zeros up to the alignment.      *)
PrevEnd(rgs) == IF rgs = << >> THEN SbAddr + 1 ELSE RgEnd(rgs[Len(rgs)])
Place(rgs, rg, free, dinodes) ==
    hdr' = [b \in Block |->
        CASE b = rg.addr -> Header(free, dinodes)
          [] b \in rg.addr + 1 .. data0(rg) - 1 -> Bitmap
          [] b \in PrevEnd(rgs) .. rg.addr - 1 -> Nothing
          [] b \in data0(rg) .. rg.addr + align_block(rg.length, opt.al.align) - 1 -> Nothing
          [] OTHER -> hdr[b]]

(* place_journals, for one: the group is just large enough; add_rgrp is an *)
(* error when it does not fit.  The group is written before the file.      *)
JournalRgLen == lgfs2_rgrp_align_len(opt.al, lgfs2_rgsize_for_data(lgfs2_space_for_data(opt.jblocks)))
lgfs2_file_alloc(addr, n) ==
    bits' = [b \in Block |-> IF b = addr THEN "dinode" ELSE IF b \in addr + 1 .. addr + n - 1 THEN "used" ELSE bits[b]]
PlaceJournalRgrp ==
    LET e == lgfs2_rindex_entry_new(NoPlan, mk.rgaddr, JournalRgLen, opt.length)
        rg == Group(mk.rgaddr, JournalRgLen)
        n == lgfs2_space_for_data(opt.jblocks)
    IN  /\ MkStep("journals") /\ Len(mk.journals) < opt.journals
        /\ IF e.next = 0 \/ rg.data < n THEN Fail
           ELSE /\ Place(mk.rgs, rg, rg.data - n, 1)
                /\ lgfs2_file_alloc(data0(rg), n)
                /\ mk' = [mk EXCEPT !.pc = "journal", !.rgs = Append(@, rg), !.rgaddr = e.next, !.jnl = data0(rg),
                                     !.alloced = @ + n, !.dinodes = @ + 1]
                /\ UNCHANGED <<inode, rindex, sb>>

(* ... lgfs2_write_filemeta and lgfs2_write_journal_data.                  *)
WriteJournal ==
    LET n == lgfs2_space_for_data(opt.jblocks)
        file == Dinode(mk.jnl, mk.next_inum, <<"journal", Len(mk.journals)>>, opt.jblocks * Bsize,
                       mk.jnl .. mk.jnl + n - 1, 0)
    IN  /\ MkStep("journal")
        /\ inode' = With(inode, mk.jnl, file)
        /\ hdr' = [b \in Block |-> IF b \in file.blocks THEN Nothing ELSE hdr[b]]
        /\ mk' = [mk EXCEPT !.pc = "journals", !.journals = Append(@, mk.jnl), !.next_inum = @ + 1]
        /\ UNCHANGED <<bits, rindex, sb>>

(* place_rgrps: the plan is for all that is left of the device; that it    *)
(* may be empty is not looked at.                                          *)
PlanRgrps ==
    /\ MkStep("journals") /\ Len(mk.journals) = opt.journals
    /\ mk' = [mk EXCEPT !.pc = "rgrps", !.plan = lgfs2_rgrps_plan(opt.al, U64(opt.length - mk.rgaddr), RgTarget)]
    /\ UNCHANGED dvars
PlaceRgrp ==
    LET e == lgfs2_rindex_entry_new(mk.plan, mk.rgaddr, 0, opt.length)
        rg == Group(mk.rgaddr, e.len)
    IN  /\ MkStep("rgrps") /\ e.next # 0 /\ Appendable(mk.rgs, rg)
        /\ Place(mk.rgs, rg, rg.data, 0)
        /\ mk' = [mk EXCEPT !.rgs = Append(@, rg), !.rgaddr = e.next, !.plan = e.plan]
        /\ UNCHANGED <<bits, inode, rindex, sb>>

(* The last group is written once more, with empty bitmaps: if it is that  *)
(* of a journal, its blocks are free in them.  lgfs2_attach_rgrps.         *)
WriteFinalRgrp ==
    LET last == mk.rgs[Len(mk.rgs)]
    IN  /\ MkStep("rgrps") /\ lgfs2_rindex_entry_new(mk.plan, mk.rgaddr, 0, opt.length).next = 0
        /\ bits' = [b \in Block |-> IF b \in DataOf(last) THEN "free" ELSE bits[b]]
        /\ hdr' = [b \in Block |-> IF b \in data0(last) .. last.addr + align_block(last.length, opt.al.align) - 1
                                   THEN Nothing ELSE hdr[b]]
        /\ mk' = [mk EXCEPT !.pc = "files", !.todo = SystemFiles(opt.journals)]
        /\ UNCHANGED <<inode, rindex, sb>>

-----------------------------------------------------------------------------
(* build_master, lgfs2_build_jindex, build_per_node, ...: a dinode, an     *)
(* entry in its directory and the blocks of the file.  The bitmaps are     *)
(* written at once; a dinode is written when it is put.  Those of master,  *)
(* per_node, inum, statfs and root are held for later.                     *)
KeptInMemory == {<<"master">>, <<"per_node">>, <<"inum">>, <<"statfs">>, <<"root">>}
InPerNode(name) == name[1] \in {PerNodeKinds[i] : i \in 1 .. 3}
ParentOf(name, di) ==
    CASE name \in {<<"master">>, <<"root">>} -> di
      [] InPerNode(name) -> mk.held[<<"per_node">>].addr
      [] OTHER -> mk.held[<<"master">>].addr
JournalEntries(journals) ==
    LET J == DOMAIN journals IN [name \in {<<"journal", j - 1>> : j \in J} |-> journals[name[2] + 1]]
NewFile(name, blocks) ==
    LET di == Min(blocks)
        file == Dinode(di, mk.next_inum, name, SizeOf(name, Len(mk.rgs)), blocks, ParentOf(name, di))
    IN  IF name = <<"jindex">> THEN [file EXCEPT !.entries = JournalEntries(mk.journals)] ELSE file
EntryAdded(held, dir, name, addr) ==
    IF dir \in DOMAIN held THEN [held EXCEPT ![dir].entries = With(@, name, addr)] ELSE held
Build ==
    \E name \in {Head(mk.todo)} :
    \E blocks \in {Lowest(1 + MoreBlocks(name, Len(mk.rgs)), FreeBlocks(mk.rgs))} :
        /\ name = <<"inum">> => <<"per_node">> \notin DOMAIN mk.held
        /\ IF Cardinality(blocks) < 1 + MoreBlocks(name, Len(mk.rgs)) THEN Fail
           ELSE \E file \in {NewFile(name, blocks)} :
                /\ Allocate(mk.rgs, file.addr, blocks \ {file.addr})
                /\ rindex' = IF name = <<"rindex">> THEN [i \in DOMAIN mk.rgs |-> Entry(mk.rgs[i])] ELSE rindex
                /\ inode' = IF name \in KeptInMemory THEN inode ELSE With(inode, file.addr, file)
                /\ mk' = [mk EXCEPT !.todo = Tail(@), !.next_inum = @ + 1,
                                     !.alloced = @ + Cardinality(blocks), !.dinodes = @ + 1,
                                     !.held = LET dir == IF InPerNode(name) THEN <<"per_node">> ELSE <<"master">>
                                                  held == IF name = <<"root">> THEN @ ELSE EntryAdded(@, dir, name, file.addr)
                                              IN  IF name \in KeptInMemory THEN With(held, name, file) ELSE held]
                /\ UNCHANGED sb
BuildFile == MkStep("files") /\ mk.todo # << >> /\ Build

(* inode_put of a dinode that was held: now it is written.                 *)
Put(name) ==
    /\ inode' = With(inode, mk.held[name].addr, mk.held[name])
    /\ UNCHANGED <<hdr, bits, rindex, sb>>
PutPerNode ==
    /\ MkStep("files") /\ mk.todo # << >> /\ Head(mk.todo) = <<"inum">> /\ <<"per_node">> \in DOMAIN mk.held
    /\ Put(<<"per_node">>)
    /\ mk' = [mk EXCEPT !.held = [n \in DOMAIN @ \ {<<"per_node">>} |-> @[n]]]

(* do_init_inum, do_init_statfs: in the dinodes, which are still held.     *)
BlocksTotal(rgs) == FoldLeft(LAMBDA sum, rg : sum + rg.data, 0, rgs)
InitFilesUnheld ==
    /\ MkStep("files") /\ mk.todo = << >>
    /\ mk' = [mk EXCEPT !.pc = "puts", !.todo = << <<"root">>, <<"inum">>, <<"statfs">> >>,
                         !.held[<<"inum">>].content = <<mk.next_inum>>,
                         !.held[<<"statfs">>].content =
                            <<BlocksTotal(mk.rgs), BlocksTotal(mk.rgs) - mk.alloced, mk.dinodes>>]
    /\ UNCHANGED dvars
InitFiles ==
    /\ MkStep("files") /\ mk.todo = << >>
    /\ mk' = [mk EXCEPT !.pc = "puts", !.todo = << <<"root">>, <<"master">>, <<"inum">>, <<"statfs">> >>,
                         !.held[<<"inum">>].content = <<mk.next_inum>>,
                         !.held[<<"statfs">>].content =
                            <<BlocksTotal(mk.rgs), BlocksTotal(mk.rgs) - mk.alloced, mk.dinodes>>]
    /\ UNCHANGED dvars
PutHeld ==
    /\ MkStep("puts") /\ mk.todo # << >>
    /\ Put(Head(mk.todo))
    /\ mk' = [mk EXCEPT !.todo = Tail(@)]

(* lgfs2_sb_write, the last write of all.                                  *)
WriteSuperblock ==
    /\ MkStep("puts") /\ mk.todo = << >>
    /\ sb' = [master |-> mk.held[<<"master">>].addr, root |-> mk.held[<<"root">>].addr]
    /\ mk' = [mk EXCEPT !.pc = "done"]
    /\ UNCHANGED <<hdr, bits, inode, rindex>>

(* Ctrl-C, or a power failure that loses no write.                         *)
KillMkfs ==
    /\ mk.pc \notin {"done", "exited", "failed", "killed"}
    /\ mk' = [mk EXCEPT !.pc = "killed"] /\ UNCHANGED <<opt, dvars>>

NextMkfs == \/ PlaceJournalRgrp \/ WriteJournal \/ PlanRgrps \/ PlaceRgrp \/ WriteFinalRgrp
            \/ BuildFile \/ PutPerNode \/ InitFiles \/ PutHeld \/ WriteSuperblock \/ KillMkfs

-----------------------------------------------------------------------------
(* A superblock stands for a whole file system: master and root are on the *)
(* device, master names every system file and each of them is there, the   *)
(* jindex names as many journals as were asked for, and every entry of the *)
(* rindex leads to the header and the bitmaps of a group (main_mkfs.c      *)
(* writes it last for that).                                               *)
HasHeaders(e) ==
    hdr[e.addr].kind = "RG" /\ \A b \in e.addr + 1 .. e.data0 - 1 : hdr[b].kind = "RB"
FilesWhole(m) ==
    /\ m \in DOMAIN inode /\ DOMAIN inode[m].entries = InMaster
    /\ LET at == inode[m].entries IN
        /\ \A name \in InMaster : at[name] \in DOMAIN inode
        /\ Cardinality(DOMAIN inode[at[<<"jindex">>]].entries) = opt.journals
        /\ Cardinality(DOMAIN inode[at[<<"per_node">>]].entries) = 3 * opt.journals
        /\ \A d \in {at[<<"jindex">>], at[<<"per_node">>]} :
              \A name \in DOMAIN inode[d].entries : inode[d].entries[name] \in DOMAIN inode
SuperblockMeansWhole ==
    mk.pc = "done" =>
        /\ FilesWhole(sb.master) /\ sb.root \in DOMAIN inode
        /\ rindex # << >> /\ \A i \in DOMAIN rindex : HasHeaders(rindex[i])
        /\ \A i \in DOMAIN rindex \ {1} : rindex[i - 1].data0 + rindex[i - 1].data =< rindex[i].addr

(* When mkfs is done the bitmaps say what the files take, the headers      *)
(* count what the bitmaps say, and statfs adds up the headers: four        *)
(* accounts of the same blocks, kept by different functions.               *)
Count(e, S) == Cardinality({ b \in e.data0 .. e.data0 + e.data - 1 : bits[b] \in S })
HeaderCounts(e) == /\ hdr[e.addr].free = Count(e, {"free"})
                   /\ hdr[e.addr].dinodes = Count(e, {"dinode"})
StatfsOf(entries) ==
    LET sum(f(_)) == FoldLeft(LAMBDA n, e : n + f(e), 0, entries)
    IN  <<sum(LAMBDA e : e.data), sum(LAMBDA e : hdr[e.addr].free), sum(LAMBDA e : hdr[e.addr].dinodes)>>
AccountsAgree ==
    mk.pc = "done" =>
        /\ { b \in Block : bits[b] # "free" } = UNION { inode[a].blocks : a \in DOMAIN inode }
        /\ { b \in Block : bits[b] = "dinode" } = DOMAIN inode
        /\ \A a, c \in DOMAIN inode : a # c => inode[a].blocks \intersect inode[c].blocks = {}
        /\ \A i \in DOMAIN rindex : HeaderCounts(rindex[i])
        /\ inode[inode[sb.master].entries[<<"statfs">>]].content = StatfsOf(rindex)
=============================================================================
