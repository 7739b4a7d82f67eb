------------------------------ MODULE Opening ------------------------------
(***************************************************************************)
(* fsck.gfs2 opens a file system (fsck/initialize.c: initialize): the      *)
(* superblock, searched for and rewritten when it is gone (sb_repair), the *)
(* master directory, the rindex, the resource groups (RgRepair), the       *)
(* jindex and the other system files, which are built anew when they are   *)
(* missing.  The device is one that mkfs.gfs2 has written (Mkfs) and that  *)
(* has been damaged since.  Locking and the replay of the journals are in  *)
(* FsckMain and JournalReplay; mkfs leaves the journals clean.             *)
(***************************************************************************)
EXTENDS RgRepair

Kinds == {"sb", "dinode", "entry", "header", "count", "unlinked", "index", "ragged", "copy"}

CONSTANTS
    PeruseBlocks,   \* the blocks of two gigabytes
    Pairs           \* kinds of damage that may come with one more

ASSUME OpeningAssumption == PeruseBlocks \in Nat \ {0} /\ Pairs \subseteq Kinds

VARIABLE damage          \* what happened to the device since mkfs

vars == <<rrvars, damage>>

NoFsck == [pc |-> "off"]
Exited == fs.pc \in {"opened", "error", "crashed"}

-----------------------------------------------------------------------------
(* Damage, and what another node or an older kernel left: an unlinked      *)
(* inode, a copy of a resource group or of a dinode in a journal, that of  *)
(* the root as it was earlier.  The dinode of the rindex stays.            *)
Names == { name \in InMaster : name # <<"rindex">> }
Directory(name) == CASE name = <<"master">> -> mk.held[name].addr
                     [] name = <<"root">> -> mk.held[name].addr
                     [] OTHER -> mk.held[<<"master">>].entries[name]
Hit(kind, at) ==
    /\ mk.pc \in {"done", "exited"} /\ fs.pc = "off"
    /\ \/ damage = << >>
       \/ Len(damage) = 1 /\ damage[1].kind \in Pairs
       \/ Len(damage) = 2 /\ damage[2].kind = "copy" /\ kind = "dinode"
    /\ damage' = Append(damage, [kind |-> kind, at |-> at])
    /\ mk' = [mk EXCEPT !.pc = "exited"] /\ UNCHANGED <<opt, fs>>
LoseSuperblock == Hit("sb", 0) /\ sb # None /\ sb' = None /\ UNCHANGED <<hdr, bits, inode, rindex, ragged>>
LoseDinode ==
    \E name \in {<<"master">>, <<"root">>, <<"per_node">>} :
        /\ Hit("dinode", name)
        /\ inode' = [a \in DOMAIN inode \ {Directory(name)} |-> inode[a]]
        /\ UNCHANGED <<hdr, bits, rindex, ragged, sb>>
LoseEntry ==
    LET m == Directory(<<"master">>) IN
    \E name \in Names :
        /\ Hit("entry", name) /\ m \in DOMAIN inode
        /\ inode' = [inode EXCEPT ![m].entries = [x \in DOMAIN @ \ {name} |-> @[x]]]
        /\ UNCHANGED <<hdr, bits, rindex, ragged, sb>>
LoseHeader ==
    \E i \in DOMAIN mk.rgs : \E b \in mk.rgs[i].addr .. data0(mk.rgs[i]) - 1 :
        /\ Hit("header", i) /\ hdr' = [hdr EXCEPT ![b] = Nothing]
        /\ bits' = [d \in Block |-> IF d \in MappedBy(b) THEN "free" ELSE bits[d]]
        /\ UNCHANGED <<inode, rindex, ragged, sb>>
Miscount ==
    \E i \in DOMAIN mk.rgs :
        /\ Hit("count", i) /\ hdr' = [hdr EXCEPT ![mk.rgs[i].addr].free = @ + 1]
        /\ UNCHANGED <<bits, inode, rindex, ragged, sb>>
LeaveUnlinked ==
    \E i \in DOMAIN mk.rgs :
        /\ { b \in DataOf(mk.rgs[i]) : bits[b] = "free" } # {}
        /\ Hit("unlinked", i)
        /\ bits' = [bits EXCEPT ![Max({ b \in DataOf(mk.rgs[i]) : bits[b] = "free" })] = "unlinked"]
        /\ hdr' = [hdr EXCEPT ![mk.rgs[i].addr].free = @ - 1]
        /\ UNCHANGED <<inode, rindex, ragged, sb>>
Zeroed == [addr |-> 0, length |-> 0, data0 |-> 0, data |-> 0, bitbytes |-> 0]
SpoilIndex ==
    \E i \in DOMAIN rindex : \E field \in {"entry", "addr", "length", "data0"} :
        /\ Hit("index", <<field, i>>)
        /\ rindex' = [rindex EXCEPT ![i] = CASE field = "entry" -> Zeroed
                                              [] field = "addr" -> [@ EXCEPT !.addr = @ + 1]
                                              [] field = "length" -> [@ EXCEPT !.length = 0]
                                              [] OTHER -> [@ EXCEPT !.data0 = @ + 1]]
        /\ UNCHANGED <<hdr, bits, inode, ragged, sb>>
CutIndex == Hit("ragged", 0) /\ ragged' = TRUE /\ UNCHANGED <<hdr, bits, inode, rindex, sb>>
Earlier(ip) == [ip EXCEPT !.content = <<"earlier">>]
LogCopy ==
    \E j \in DOMAIN mk.journals : \E b \in {mk.journals[j] + lgfs2_space_for_data(opt.jblocks) - 1} :
        /\ Hit("copy", j)
        /\ \/ hdr' = [hdr EXCEPT ![b] = hdr[mk.rgs[1].addr]] /\ UNCHANGED inode
           \/ \E name \in {<<"master">>, <<"root">>, <<"per_node">>} :
                /\ Directory(name) \in DOMAIN inode
                /\ inode' = With(inode, b, IF name = <<"root">> THEN Earlier(inode[Directory(name)])
                                           ELSE inode[Directory(name)])
                /\ UNCHANGED hdr
        /\ UNCHANGED <<bits, rindex, ragged, sb>>

(* Or the file system is of an older mkfs.gfs2, which made the root first, *)
(* then master and jindex: these have the numbers initialize.c looks for.  *)
(* The one of this repository gives 1 to the first journal.                *)
OlderNumber(a) ==
    CASE a = Directory(<<"root">>) -> 1 [] a = Directory(<<"master">>) -> 2
      [] a = Directory(<<"jindex">>) -> 3 [] OTHER -> inode[a].formal + 3
Renumbered(a) ==
    [inode[a] EXCEPT !.formal = OlderNumber(a),
                     !.content = IF a = Directory(<<"inum">>) THEN <<@[1] + 3>> ELSE @]
OlderMkfs ==
    /\ mk.pc = "done" /\ fs.pc = "off"
    /\ inode' = [a \in DOMAIN inode |-> Renumbered(a)]
    /\ mk' = [mk EXCEPT !.pc = "exited"] /\ UNCHANGED <<opt, hdr, bits, rindex, ragged, sb, fs, damage>>
Damage == \/ LoseSuperblock \/ LoseDinode \/ LoseEntry \/ LoseHeader \/ Miscount
          \/ LeaveUnlinked \/ SpoilIndex \/ CutIndex \/ LogCopy \/ OlderMkfs

-----------------------------------------------------------------------------
StartFsck ==
    /\ fs.pc = "off" /\ mk.pc \in {"done", "exited"}
    /\ \E m \in Modes :
        fs' = [pc |-> IF sb = None THEN "bsize" ELSE "master", mode |-> m, lvl |-> 0, tree |-> << >>, calc |-> << >>,
               want |-> 0, n |-> 0, e |-> 0, rg |-> 0, tries |-> 0, prev |-> 0, count |-> 0, fssize |-> opt.length,
               devlen |-> 0, ok |-> TRUE, ragged |-> FALSE, fixit |-> FALSE, abort |-> FALSE, meta |-> sb.master,
               root |-> sb.root, blk |-> SbAddr, ji |-> 0, per_node |-> 0, journals |-> 0, next_inum |-> 0,
               todo |-> << >>, fixed_sb |-> FALSE]
    /\ mk' = [mk EXCEPT !.pc = "exited"] /\ UNCHANGED <<opt, dvars, damage>>
Now(next) == To(next) /\ UNCHANGED damage

(* find_rgs_for_bsize: the block size shows where a bitmap follows a       *)
(* header; it is looked for from the beginning and from half way on.       *)
SizeShows(b) == IsRgrp(b) /\ IsBitmap(b + 1)
find_rgs_for_bsize(start) ==
    IF \E b \in start .. start + PeruseBlocks - 1 : SizeShows(b) THEN "found"
    ELSE IF start + PeruseBlocks > DeviceEnd THEN "crashed" ELSE "none"
DetermineBsize ==
    /\ fs.pc = "bsize"
    /\ \E first \in {find_rgs_for_bsize(SbAddr)} : \E second \in {find_rgs_for_bsize(DeviceEnd \div 2)} :
        LET found == IF first = "none" THEN second ELSE first
        IN  Now([fs EXCEPT !.pc = CASE found = "found" -> "peruse"
                                             [] found = "none" -> "error"
                                             [] OTHER -> "crashed"])

(* peruse_metadata, a dinode a step.  A copy in a journal has the number   *)
(* of another block.                                                       *)
Perused == SbAddr .. SbAddr + PeruseBlocks - 1
Dinodes == { b \in DOMAIN inode : b >= fs.blk /\ b \in Perused }
is_journal_copy(b) == inode[b].addr # b
peruse_system_dinode(b) ==
    LET ip == inode[b]
        has(name) == ip.dir /\ name \in DOMAIN ip.entries
    IN  CASE ip.formal = 2 -> [fs EXCEPT !.meta = IF @ = 0 THEN ip.addr ELSE @]
          [] ip.formal = 3 -> [fs EXCEPT !.ji = IF @ = 0 /\ ~is_journal_copy(b) THEN ip.addr ELSE @]
          [] ip.formal \notin {2, 3} /\ has(<<"jindex">>) ->
                IF fs.ji # 0 \/ is_journal_copy(b) THEN fs
                ELSE [fs EXCEPT !.ji = ip.entries[<<"jindex">>], !.meta = ip.addr]
          [] ip.formal \notin {2, 3} /\ ~has(<<"jindex">>) /\ has(<<"statfs_change", 0>>) ->
                IF fs.per_node # 0 \/ is_journal_copy(b) THEN fs
                ELSE [fs EXCEPT !.per_node = ip.addr, !.meta = ip.parent]
          [] OTHER -> fs

(* peruse_user_dinode: the root has number 1, or is the directory that the *)
(* climb over the parents ends at.  A climb ends without one at a block    *)
(* that is no directory; dir_search finds no parent there either, so that  *)
(* possible_root is never set (a block that cannot be read is left out).   *)
ToRoot(b) ==
    LET isDir(a) == a \in DOMAIN inode /\ inode[a].dir
        up[n \in 0 .. Cardinality(DOMAIN inode)] ==
            IF n = 0 THEN b ELSE IF isDir(up[n - 1]) THEN inode[up[n - 1]].parent ELSE 0
        isRoot(a) == isDir(a) /\ inode[a].parent \in DOMAIN inode /\ inode[inode[a].parent].addr = inode[a].addr
        tops == { n \in DOMAIN up : isRoot(up[n]) }
    IN  IF tops = {} THEN 0 ELSE inode[up[Min(tops)]].addr
peruse_user_dinode(b) ==
    LET ip == inode[b]
        found == IF ip.formal # 1 THEN ToRoot(b) ELSE IF is_journal_copy(b) THEN 0 ELSE ip.addr
    IN  IF fs.root = 0 /\ ip.dir THEN [fs EXCEPT !.root = found] ELSE fs

(* A copy of the root in a journal: the root dinode is said to be          *)
(* destroyed, without a look, and is replaced if the user agrees.  The     *)
(* root counts as found only if its block is still to be perused.          *)
RootCopy(b) ==
    /\ ~inode[b].sys /\ fs.root = 0
    /\ inode[b].dir /\ inode[b].formal = 1 /\ is_journal_copy(b)
Peruse ==
    /\ fs.pc = "peruse" /\ Dinodes # {}
    /\ \E b \in {Min(Dinodes)} :
        LET seen == IF inode[b].sys THEN peruse_system_dinode(b) ELSE peruse_user_dinode(b)
        IN  /\ fs' = [seen EXCEPT !.blk = b + 1]
            /\ \E yes \in IF RootCopy(b) THEN Answers ELSE {FALSE} :
                inode' = IF yes THEN With(inode, inode[b].addr, inode[b]) ELSE inode
    /\ UNCHANGED <<opt, mk, hdr, bits, rindex, ragged, sb, damage>>

(* No root: the block before the master directory is taken for it, if it   *)
(* is metadata of any kind; else a root directory is written there.  The   *)
(* superblock is written with what was found.                              *)
HasMagic(b) == \/ b \in Block /\ hdr[b].kind # "none"
               \/ \E a \in DOMAIN inode : b \in inode[a].blocks \union {a}
PeruseDone ==
    /\ fs.pc = "peruse" /\ Dinodes = {}
    /\ Now(IF SbAddr + PeruseBlocks > DeviceEnd THEN [fs EXCEPT !.pc = "crashed"]
           ELSE IF fs.meta = 0 THEN [fs EXCEPT !.pc = "error"]
           ELSE [fs EXCEPT !.pc = IF fs.root = 0 THEN "guess" ELSE "sb"])
GuessRoot ==
    LET guess == fs.meta - 1 IN
    /\ fs.pc = "guess"
    /\ \E yes \in IF HasMagic(guess) THEN {FALSE} ELSE Answers :
        /\ fs' = [fs EXCEPT !.root = guess, !.pc = IF HasMagic(guess) \/ yes THEN "sb" ELSE "error"]
        /\ inode' = IF yes THEN With(inode, guess, Dinode(guess, 1, <<"root">>, SizeOf(<<"root">>, 0), {guess}, guess))
                    ELSE inode
    /\ UNCHANGED <<opt, mk, hdr, bits, rindex, ragged, sb, damage>>
FixSuperblock ==
    /\ fs.pc = "sb"
    /\ \E yes \in Answers :
        /\ sb' = IF yes THEN [master |-> fs.meta, root |-> fs.root] ELSE sb
        /\ fs' = [fs EXCEPT !.pc = IF yes THEN "master" ELSE "error", !.fixed_sb = yes]
    /\ UNCHANGED <<opt, mk, hdr, bits, inode, rindex, ragged, damage>>

(* rebuild_master makes the directory in memory and adds what sb_repair    *)
(* found.  The first file it has to build needs a resource group, and none *)
(* is read yet: that is an error; at the end it puts an inode it never     *)
(* read.  Nothing is written either way.  A refusal is not looked at.      *)
OpenMaster ==
    /\ fs.pc = "master"
    /\ \E yes \in IF fs.meta \in DOMAIN inode THEN {FALSE} ELSE Answers : \E ends \in {"error", "crashed"} :
        Now([fs EXCEPT !.pc = IF yes THEN ends ELSE "rindex"])

(* lookup_per_node(0) and init_rindex, which cannot build one either.      *)
OpenRindex ==
    /\ fs.pc = "rindex"
    /\ \E yes \in IF LookUp(fs.meta, <<"rindex">>) # 0 THEN {FALSE} ELSE Answers : \E ends \in {"error", "crashed"} :
        LET f == [fs EXCEPT !.per_node = LookUp(fs.meta, <<"per_node">>)]
        IN  Now(IF LookUp(fs.meta, <<"rindex">>) # 0 THEN StartFetch(f)
                ELSE [f EXCEPT !.pc = IF yes THEN ends ELSE "error"])

-----------------------------------------------------------------------------
(* createi: a block of the first group with free ones.  The number of the  *)
(* inode is counted in memory only.                                        *)
FreeOf(r) == Lowest(hdr[r.addr].free, In(r, "free"))
Unused == UNION { FreeOf(fs.tree[i]) : i \in DOMAIN fs.tree }
TreeGroups == SelectSeq(mk.rgs, LAMBDA rg : \E i \in DOMAIN fs.tree : fs.tree[i].addr = rg.addr)
FileSize(name) == CASE name[1] = "inum" -> 0 [] OTHER -> SizeOf(name, Len(rindex))
createi(name, dir, next) ==
    LET n == 1 + MoreBlocks(name, Len(rindex))
        blocks == Lowest(n, Unused)
        di == Min(blocks)
        file == Dinode(di, fs.next_inum, name, FileSize(name), blocks, dir)
    IN  /\ Cardinality(blocks) = n
        /\ Allocate(TreeGroups, di, blocks \ {di})
        /\ inode' = With([inode EXCEPT ![dir].entries = With(@, name, di)], di, file)
        /\ fs' = [next EXCEPT !.next_inum = @ + 1]
        /\ UNCHANGED <<opt, mk, rindex, ragged, sb, damage>>
NoRoom(name) == Cardinality(Unused) < 1 + MoreBlocks(name, Len(rindex))

(* init_jindex and ji_update.  A jindex built here holds . and .. only.    *)
(* Whether per_node is there shows in the lookup; what a zeroed one counts *)
(* is 0, and the two are taken off it all the same.                        *)
Entries(dir) == IF dir \in DOMAIN inode THEN Cardinality(DOMAIN inode[dir].entries) + 2 ELSE 0
ji_update(entries) == IF fs.per_node # 0 THEN U32(Entries(fs.per_node) - 2) \div 3 ELSE U32(entries - 2)
SystemInodes == << <<"inum">>, <<"statfs">>, <<"quota">>, <<"per_node">> >>
Inodes(f) == [f EXCEPT !.pc = "inodes", !.todo = SystemInodes]
OpenJindex ==
    LET ji == LookUp(fs.meta, <<"jindex">>) IN
    /\ fs.pc = "fetched" /\ ji # 0
    /\ Now(Inodes([fs EXCEPT !.journals = ji_update(Entries(ji))]))
BuildJindex ==
    LET ji == LookUp(fs.meta, <<"jindex">>) IN
    /\ fs.pc = "fetched" /\ ji = 0
    /\ \E yes \in Answers :
        CASE ~yes -> Now(Inodes(fs))
          [] yes /\ (NoRoom(<<"jindex">>) \/ fs.meta \notin DOMAIN inode) ->
                \E f \in {Inodes(fs), [fs EXCEPT !.pc = "crashed"]} : Now(f)
          [] OTHER -> createi(<<"jindex">>, fs.meta, Inodes([fs EXCEPT !.journals = ji_update(2)]))

(* init_system_inodes, one after the other; per_node with its files.       *)
Next1 == [fs EXCEPT !.todo = Tail(@)]
Present(name) == IF name = <<"per_node">> THEN fs.per_node # 0 ELSE LookUp(fs.meta, name) # 0
NextInum == LET at == LookUp(fs.meta, <<"inum">>) IN IF inode[at].content = << >> THEN 0 ELSE inode[at].content[1]
OpenInode ==
    /\ fs.pc = "inodes" /\ fs.todo # << >> /\ ~InPerNode(Head(fs.todo)) /\ Present(Head(fs.todo))
    /\ Now(IF Head(fs.todo) = <<"inum">> THEN [Next1 EXCEPT !.next_inum = NextInum] ELSE Next1)
PerNode == FlattenSeq([j \in 1 .. fs.journals |-> PerNodeFiles(j - 1)])
AfterBuild(name) ==
    CASE name = <<"inum">> -> fs
      [] name = <<"per_node">> -> [Next1 EXCEPT !.todo = PerNode \o @]
      [] OTHER -> Next1
BuildInode ==
    /\ fs.pc = "inodes" /\ fs.todo # << >>
    /\ LET name == Head(fs.todo)
           dir == IF InPerNode(name) THEN LookUp(fs.meta, <<"per_node">>) ELSE fs.meta
       IN  /\ InPerNode(name) \/ ~Present(name)
           /\ \E yes \in IF InPerNode(name) THEN {TRUE} ELSE Answers :
               IF ~yes \/ NoRoom(name) \/ dir \notin DOMAIN inode THEN Now([fs EXCEPT !.pc = "error"])
               ELSE createi(name, dir, AfterBuild(name))

(* set_block_ranges reads the last block of the last group.                *)
SetRanges ==
    /\ fs.pc = "inodes" /\ fs.todo = << >>
    /\ Now([fs EXCEPT !.pc = IF LastData(fs.tree) < DeviceEnd THEN "opened" ELSE "error"])

RunFsck ==  \/ DetermineBsize \/ Peruse \/ PeruseDone \/ GuessRoot \/ FixSuperblock
            \/ OpenMaster \/ OpenRindex \/ (NextFetch /\ UNCHANGED damage)
            \/ OpenJindex \/ BuildJindex \/ OpenInode \/ BuildInode \/ SetRanges
Init == InitMkfs /\ fs = NoFsck /\ damage = << >>
Over == Exited \/ mk.pc \in {"failed", "killed"}
Next == \/ (NextMkfs /\ UNCHANGED <<fs, damage>>) \/ Damage \/ StartFsck \/ RunFsck
        \/ (Over /\ UNCHANGED vars)

(* The process goes on as long as it runs: weak fairness of RunFsck, which *)
(* is enabled whenever fs.pc is none of these (no state is a deadlock).    *)
FsckGoesOn == []<>(fs.pc = "off" \/ Exited) \/ []<><<fs' # fs>>_fs
Spec == Init /\ [][Next]_vars /\ FsckGoesOn

-----------------------------------------------------------------------------
TypeOK ==
    /\ fs.pc \in {"off", "bsize", "peruse", "guess", "sb", "master", "rindex", "level", "reread", "compare", "index",
                  "rgs", "check", "integrity", "fetched", "inodes", "opened", "error", "crashed"}
    /\ hdr \in [Block -> [kind : {"none", "RG", "RB"}, free : Int, dinodes : Int]]
    /\ bits \in [Block -> {"free", "used", "dinode", "unlinked"}]
    /\ DOMAIN inode \subseteq Block

Lost(name) == \E i \in DOMAIN damage : damage[i].kind = "dinode" /\ damage[i].at = name
FirstEntry == \E i \in DOMAIN damage : damage[i].kind = "index" /\ damage[i].at \in {<<"addr", 1>>, <<"data0", 1>>}
Agreed == fs.pc = "opened" /\ fs.mode.answers = "yes" /\ ~fs.abort

(* Every answer is no: fsck leaves the device alone, whatever is wrong     *)
(* with it and whatever the signals.  Each repair asks on its own, six     *)
(* functions deep; some write what an earlier one has asked for.           *)
OnlyAsked == [][fs.pc # "off" /\ fs.mode.answers = "no" => dvars' = dvars]_vars

(* However the answers, the levels and the signals fall, opening ends: the *)
(* file system is open, refused, or the process has crashed.               *)
RepairEnds == fs.pc # "off" ~> Exited

(* After a repair that was agreed to, the index is the one mkfs wrote and  *)
(* every group has its header, its bitmaps and a right count of free       *)
(* blocks.  The first entry is not compared with anything.                 *)
Restored ==
    Agreed /\ ~FirstEntry =>
        /\ rindex = [i \in DOMAIN mk.rgs |-> Entry(mk.rgs[i])] /\ ~ragged
        /\ \A i \in DOMAIN rindex : HasHeaders(rindex[i]) /\ hdr[rindex[i].addr].free = Count(rindex[i], {"free"})

(* What is sound is kept: whatever the answers, no repair is written over  *)
(* a dinode, and of a dinode that is there only the entries grow.  But for *)
(* the root, which a copy from a journal replaces (peruse_user_dinode).    *)
(* Nothing at all is written to a device without damage: the layout mkfs   *)
(* has written passes every check.                                         *)
Grown(ip, to) ==
    /\ [to EXCEPT !.entries = ip.entries] = ip
    /\ \A name \in DOMAIN ip.entries : name \in DOMAIN to.entries /\ to.entries[name] = ip.entries[name]
FilesKept ==
    [][fs.pc # "off" =>
        /\ ~FirstEntry => \A a \in DOMAIN inode : /\ a \in DOMAIN inode'
                                                  /\ Grown(inode[a], inode'[a]) \/ (fs.pc = "peruse" /\ inode[a].formal = 1)
        /\ damage = << >> => dvars' = dvars]_vars

=============================================================================
