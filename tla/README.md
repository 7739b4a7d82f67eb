# gfs2-utils in TLA+

Specifications, model-checking configurations and machine-checked proofs for
gfs2-utils: the programs that make, grow, check and repair GFS2, a file system
several nodes of a cluster mount at once. Paths below are relative to the root
of the repository (`src/` here).

## The system

| part | source | state it keeps | operations |
|---|---|---|---|
| library | `gfs2/libgfs2` | superblock, resource groups (`rgtree`), inodes and buffers in core | block maps and bitmaps, metadata trees, directories, journals, log headers |
| fsck.gfs2, run | `gfs2/fsck/main.c`, `initialize.c`, `util.c` | `opts`, `preen`, `force_check`, `skip_this_pass`, `fsck_abort`, `errors_found`, `errors_corrected`; `sb_lockproto` on disk | `initialize`, `fsck_pass` over `passes[]`, `interrupt`, `fsck_query`, `destroy` |
| fsck.gfs2, journals | `gfs2/fsck/fs_recovery.c`, `gfs2/libgfs2/recovery.c` | the journals on disk, `sd_revoke_list` | `replay_journals`, `gfs2_recover_journal`, `lgfs2_find_jhead`, `check_journal_seq_no`, `lgfs2_clean_journal`, `ji_update`, `init_jindex` |
| fsck.gfs2, pass1 | `pass1.c`, `metawalk.c`, `block_list.c` | the block map `bl`, `dup_blocks`, `inodetree`, `dirtree`, `nlink1map` | `pass1_process_rgrp`, `handle_ip`, `check_metatree` with `pass1_fxns`, undo on error |
| pass5 (called by pass1) | `pass5.c` | the bitmaps and counts of the resource groups | `check_block_status`, `update_rgrp` |
| pass1b | `pass1b.c` | `dup_blocks` with their references | `handle_dup_blk`, `resolve_dup_references` |
| pass2 | `pass2.c`, `metawalk.c` | directory entries, leaf chains, hash tables, counted links | `check_dentry`, hash table repair |
| pass3 | `pass3.c`, `lost_n_found.c` | `dirtree` (`checked`, `dotdot_parent`, `treewalk_parent`) | attach unconnected directories to lost+found |
| pass4 | `pass4.c`, `link.c`, `inode_hash.c` | link counts found and counted | fix `di_nlink`, attach unlinked inodes |
| check_statfs | `main.c` | the statfs file | compare with the sum over the resource groups |
| rgrepair | `rgrepair.c` | rindex, expected and discovered resource groups | rebuild the rindex at rising levels of distrust |
| gfs2_grow | `mkfs/main_grow.c`, `metafs.c` | rindex of a mounted file system, resource groups past its end | `initialize_new_portion`, `fix_rindex` |
| gfs2_jadd | `mkfs/main_jadd.c`, `metafs.c` | jindex, per_node | `add_j`, with the metafs mounted and locked |
| mkfs.gfs2 | `mkfs/main_mkfs.c` | a new file system | place resource groups and journals, write system files |
| gfs2_convert | `convert/gfs2_convert.c` | a GFS1 file system turned into GFS2 in place | convert resource groups, inodes, journals, superblock last |
| gfs2_edit, tunegfs2, glocktop, scripts | `edit`, `tune`, `glocktop`, `scripts` | - | viewing, savemeta/restoremeta, superblock fields, display |

How they interact. The kernel (not in this repository) writes the journals and
everything else while the file system is mounted; `fsck.gfs2` runs when no node
has it mounted, which it makes sure of only by writing `fsck_` over `lock_` in
the superblock. It first replays the journals, and then runs the passes, which
hand each other in-core trees: pass1 builds the block map and reconciles the
bitmaps with it (pass5), pass1b resolves the blocks pass1 found referenced
twice, pass2 to pass4 work on directories and links. ^C may come at any moment
and sets one of two flags that loops everywhere poll; every repair is a
question, and asking resets one of the flags. `gfs2_grow` and `gfs2_jadd`
work on a mounted file system through its metafs.

What is hard: the order of events between nodes, journals and replay; crashes
of nodes and of fsck in the middle; circular logs; wrapped and damaged
sequence numbers; interrupts between two steps; errors of one step overwritten
by the next; and work that later steps take to be complete when it was not.
`PROJECT.json` lists these hazards at the line where each bites.

What makes each part correct:

- head search: the head accepted is the last header written; the search ends.
- replay: afterwards every block is as it was last committed, in whichever
  order journals are replayed, whatever fsck was killed in.
- run: the exit code tells the truth; nothing is changed while others may
  mount; a choice the user made is respected.
- pass1/pass5: a block a file refers to is never made free in the bitmap.
- pass1b: afterwards every block has one owner, and nobody lost his only copy.
- pass2 to pass4: what is counted is what is there; every directory has one
  place and a `..` that names it; what no entry holds is put in lost+found.
- opening: what is put together from a damaged device is what was there, no
  repair is written over a file, and nothing is written unasked.
- directories: a set of names, each found by a search, whatever leaves and
  table went through; after pass2's repair of a table again.
- mkfs: whoever finds a superblock finds a whole file system.
- grow/jadd: the rindex and jindex describe what is on the device at every
  moment somebody may read them.

## Modules

| module | models | checked in | proofs |
|---|---|---|---|
| `JournalBlocks` | a journal as `lgfs2_get_log_header` sees it; the journals a node leaves behind (`Legit`) | with the two below | - |
| `JournalHead` | `lgfs2_find_jhead`, `find_good_lh`, `jhead_scan`, `check_journal_seq_no` and what `gfs2_recover_journal` decides between them | `head` | `JournalHead_proofs` |
| `LogRecovery` | the promise: the revocation protocol of `doc/journaling.txt` and a replay, without the layout of a journal | `log_recovery` | `LogRecovery_proofs` |
| `JournalReplay` | nodes writing circular journals; `replay_journals`, `foreach_descriptor`, the three `lo_scan_elements`, the revoke list, `lgfs2_clean_journal`, `write_journal` | `replay` | `JournalReplay_proofs` |
| `FsckMain` | `main`, `fsck_pass`, `initialize`, `destroy`, `block_mounters`, `fsck_query`, `interrupt` | `main_runs` | `FsckMain_proofs` |
| `BlockMap` | `pass1` with `handle_ip`, `check_metatree` and its undo, `add_duplicate_ref`, `delete_all_dups`; `pass5` | `blockmap` | `BlockMap_proofs` |
| `DupRefs` | `pass1b`: first references, the four steps of a record, clones, deletion of an inode | `dup_refs`, `both_deleted` | - |
| `DirLinks` | `check_dentry` and what `pass2` keeps of it, `link.c`, `pass3`, `pass4`, `lost_n_found.c` | `dirlinks` | `LinkCounts_proofs` |
| `Rgrps` | the geometry of resource groups: `libgfs2/rgrp.c` | with the four below | - |
| `MetaFs` | `metafs.c`: mounts, signals, the admin lock; the mounted file system and its crash (external) | `mounted` | - |
| `Grow`, `JAdd` | `gfs2_grow`; `gfs2_jadd` | `mounted` | - |
| `MountedFs` | both on one file system in use | `mounted` | `MountedFs_proofs` |
| `Mkfs` | `mkfs.gfs2` from the first group to the superblock | `opening` | - |
| `RgRepair` | `fetch_rgrps` and `rgrepair.c` | `opening` | `Opening_proofs` |
| `Opening` | damage to what `Mkfs` made; fsck's `initialize`: superblock, master, groups, jindex, system files | `opening` | `Opening_proofs` |
| `FileBlocks` | `fs_ops.c`: allocation, `unstuff_dinode`, the metadata tree, reads and writes through it | `directory`, `hash_table` | - |
| `Dirents` | `fs_ops.c`: records, leaves, splits, doublings, chains | `directory`, `hash_table` | - |
| `NameMap` | the promise: a directory is a set of names | `directory` | (refinement by TLC) |
| `Directory` | files created in a directory and removed from it | `directory` | - |
| `HashTable` | `check_hash_tbl`, `check_leaf_blks`, `wrong_leaf`, `lost_leaf` on a damaged directory | `hash_table` | - |

`MC*` modules give the constants their values and hold the images and
situations the runs begin with.

### JournalHead

State: the journal on disk and the locals of the four functions. A block is
what `lgfs2_get_log_header` can tell of it: unmapped (an error), a header
(`seq = hash`), or something else; that a renumbered header keeps its old
`lh_hash` then follows. One action per iteration of each loop; `find_good_lh`
and `jhead_scan` slide over what is no header and round the end.
`CheckSeqHeader` treats an unreadable block as the code does: not skipped, with
the header read before it still in `lh`.

`Legit` says what a node leaves behind: every block mapped, at least two
headers, numbers rising round the journal from one place. `JournalReplay`
shows (`JournalsLegit`) that its journals always are of this kind; there the
head is taken to be the highest header, which is what `HeadIsHighest` proves
the search to find.

### LogRecovery and JournalReplay

`LogRecovery` knows, per block, the last committed version, the version in
place, and what each journal would write. `JournalReplay` has the journals
block by block: descriptors of metadata and of journaled data (with the escape
of blocks that begin with the magic number), of revokes, headers with tail and
unmount flag, random start numbers. The nodes' actions (`Commit`, `WriteBack`,
`Acquire`, `Unmount`, `Crash`, `Mount`) are the kernel's, modelled as
external from what replay relies on: a block's lock passes on only when the
block is in place and revoked in, or gone from, the old holder's journal; a
log write never runs into the active region, and leaves one older header.
fsck's actions are one per block read or written: a kill (`FsckCrash`) may
come between any two, after which fsck may be run again. Damage is a block
that has lost its magic number, or a journal file `check_metatree` rejects.
`Situations` bounds each behaviour: `bound` is chosen at the start, so that one
run covers what needs many transactions, many mounts or damage, each with the
rest small.

`ImplementsLogRecovery` is refinement: with `disk` mapped to the version a
block holds (none if it is not a whole version, as an unescaped block is not),
every step of `JournalReplay` is a step of `LogRecovery` or changes nothing
there. The run checks it and `JournalReplay_proofs` proves it.

### FsckMain

A pass is what `main` can tell of it: it looks at its faults, polls the flags
between items, asks, fixes, and returns or exits. ^C (`Interrupt`) comes
between any two steps of a pass and sets either flag; `fsck_query` clears
`fsck_abort` on entry; `error` is overwritten by each pass; pass1 refuses to
skip; `check_statfs` never polls. `cut` and `declined` are history variables.
A killed run leaves the superblock as it is, and the next `Start` begins from
there.

### BlockMap

What `FsckMain` takes for one pass, in full, for regular files whose tree is at
most two levels high. State: the pointers and the bitmap on disk; the block map
`bl`, the duplicate records (`refs`, the inodes listed, `DUPFLAG_REF1_FOUND`),
the two flags of ^C; and the locals of the walk (`metalist`, the pointer at
hand, `error`, `error_blk`, `hit_error_blk`, `found_error_blk`, the block
count). One action per pointer looked at, per question that stands alone, and
per way a loop ends:

- `NextRgrp` to `HandleInode`: the loops of `pass1` and
  `pass1_process_bitmap` over the blocks the bitmap calls dinodes. The list of
  a resource group is taken once, before its blocks are looked at.
- `Rangecheck`, `BadlyCorrupt`: the walk with `rangecheck_fxns` is one step, as
  it only reads.
- `Meta*`: `build_and_check_metalist` with `pass1_check_metalist`; `Data*`:
  `metawalk_check_data` with `pass1_check_data` and `blockmap_set_as_data`.
- `ErrorUndo*`, `AskRemove`, `Undo*`, `Invalidate`: the error path of
  `check_metatree` down to `undo_reference` and `delete_all_dups`.
- `Pass5Block`: `check_block_status`; `bl` wins over the bitmap.

`SetBitmap` is `check_n_fix_bitmap`, question included; `SetBlockmap` sets `bl`
also when the fix was declined, and not for blocks no bitmap represents. A
question may be answered yes, no, or with ^C and abort (`Query`). Content is
what `gfs2_check_meta` can tell: dinode, indirect block, resource group
header, other. Two bitmap states that matter only to GFS1 are left out.

History variables: `walked`, of the files walked to the end and kept, the file
and each indirect block that was walked for it; `cut`, what was cut short, by ^C
or by an undo that ended too soon; `declined`, the blocks whose bitmap was left
wrong on request. The properties are about `walked` files: what they refer
to stays in use however many later files are found corrupt and undone
(`KeptStayInUse`, `KeptAreAllocated`), and what two of them share is on record
for pass1b (`SharedIsRecorded`). They exclude one case, `UndoneAsWalked`: an
undo that goes on into blocks that were not walked. ^C in the walk or in the
undo leads there, and so does a file that refers twice to the indirect block
its error lies below: that block then counts as still referenced, the undo
passes over it without looking for the error, and goes into the next one. There
the code does free blocks of other files.

The last disjunct of `Next` lets a run that is over stay as it is, so that a
deadlock of the model is a walk that cannot go on.

### DupRefs

It begins where `BlockMap` ends: `Init` builds from an image the records,
block map and bitmap pass 1 leaves, with the order pass 1 meets inodes in
(system inodes first), which is not the order of addresses pass1b scans in.
One action per block scanned (`pass1b`'s loop over the bitmap), per reference
looked at in a search or in a deletion, and per inode of a record;
`handle_dup_blk` is `HandleDupBlk`, `Resolve`, `ResolveLastReference` and
the steps between them. `refs` counts references, the list inodes, and a removal
takes one off whichever it is, as in `util.c`. A pointer to a freed record
(`id` after `dup_delete`) is any value.

`Unshared`, `KeptKeepTheirBlocks`, `NoneLeaked` and `PassEnds` speak of runs in
which nobody interferes (`meddled`: ^C, or an answer other than yes),
`SystemKept` of all. `fs.lost` are the blocks below an indirect block of two
files, which pass 1 leaves free and a clone may take.

The code does not resolve every block, and what it gets wrong is left out of
the properties by two pieces of history that `Init` reads off the image.
`fs.unsettled` are blocks, with what they lead to if they are indirect:

- `OrderTurned`: a system inode has the block, and so has a user's inode below
  it. Pass 1 walks system inodes first and records the others, the scan goes by
  address and stops at the first: the system inode is not in the list. Journals
  that `gfs2_jadd` makes lie above the files of their day.
- `TwiceInOne`: an inode has the block more than once, and another has it too,
  or not all of the references are data. An entry goes as a whole, with all its
  references, when one of them was cloned.
- `AlsoBelow`: the block is below a shared one and somewhere else. What is below
  a block met twice is walked for one inode only.

`fs.tangled` leaves out the image: a dinode is such a block, or an inode has
shared attributes and they are shared by three, or begin with a shared indirect
block, or contain such a block, or the inode shares another block as well.
Attributes are cleared without `delete_all_dups`, and the inode's entries in
the other records then speak of what it no longer has. Each part of both is
needed: without it a property fails on some image of `dup_refs`. Of its 17733
images 6424 are tangled, nearly all of them among those with attributes; in 7493
of the others a recorded block is settled, in 2222 one of a journal.

`Others` has an image for the plainest cases left out (see the disagreements
below): `JournalAbove`, `SharedAttributes`, `AttributesElsewhere`. `OneIsKept` is
what the source says and the code does not do even where nothing is left out.

### DirLinks

Three passes and one state they hand on. State: the disk as far as links go
(`fs`: what a dinode is, the entries of directories, `i_nlink`, which dinodes
have size zero); the link records of `link.c` (`links`: directories in the
`dirtree`, files with other than one link in the `inodetree`, files with one
link as bits of `nlink1map` and `clink1map`, each with what the dinode says and
what was counted); `treewalk_parent`, `dotdot_parent` and `checked` of the
`dirtree`; `lf_dip`; and where the pass is. One action per kind of directory
entry (`Dentry*`, in the order of `check_dentry`), per directory pass3 comes to
(`ParentsAgree3`, `AttachDotDot`, `RemoveUnlinked`, `AttachUnlinked`) and per
outcome of a scan of pass4. The run begins where pass1 ends: `NewLinks` is
`set_di_nlink` for every dinode.

Abstractions. A name is a number, and entries are met in that order;
an entry says whether its formal inode number is the dinode's, not which it
is. `Root` is the lowest address: pass2 checks it before the other
directories, which come in the order of the tree, and pass3 and pass4 take it
in that order too. Three things are taken of an image before the run
(`AsFound`, evaluated on all images of the run): the name an inode gets in
lost+found, `lost_file_` or `lost_dir_` and its address, leads to that inode;
an entry `lost+found` of the root leads to a directory, which
`make_sure_lf_exists` does not look at; a directory of zero size has no entry
but `.`. The allocator takes the lowest free block, as
`find_free_block` does in one resource group. A question is answered yes or no;
no answers and ^C share the bound `MaxUser`.

The second link to a file with one makes pass2 look for the first
(`check_suspicious_dirref`), to remove it if its formal number is wrong; but
`dirref_find` compares the number of the entry it has found with that of the
same entry, so it removes nothing and there is no such step: the entry stays,
and stays counted. `Lf`, `FsWithLf` and `LinksWithLf` are `make_sure_lf_exists`; `FsAdded` and
`LinksAdded` all of `add_inode_to_lf`. `ExitWithoutLf` ends the run where
no block is free for lost+found; that its own entries may need a block is left to
`Directory`. `outdated` are records whose formal
number is no longer the dinode's: a new lost+found on the block of a directory
pass3 has just removed takes over that directory's record
(`dirtree_insert` returns what is there), and `incr_link_count` refuses every
link to it. Those records are left out of `CountsAreLinks` and
`LinkCountsRight`, and so are dinodes a question about which was answered no.

`CountsAreLinks` is what ties the passes together: what is counted is what
there is, at every step after pass2. `LinkCountsRight` is the result of the
run, `HeldByItsParent` that of pass3; `WalkAdvances` says that the climb of
pass3 from directory to parent marks a new directory at every step, so a cycle
cannot hold it.

### Rgrps, MetaFs, Grow, JAdd, MountedFs

A group is its entry in the rindex (`addr`, `length`, `data0`, `data`); the
widths of `uint32_t` and `uint64_t` are scaled down but wrap. `metafs` is what
the commands see of the mounted file system (rindex, jindex, per_node, the
temporary `new_inode`), `stable` what its log has made durable; `cached` the
groups written to the device and not synced. `Crash` leaves the files the log
has, any of the data not synced lost. Each command is a program of steps, one
per system call that changes or reads shared state; each may fail, write
short, be sent a signal or be killed (`MaxFaults` in all), and gives up lock
and mount as `cleanup_metafs` does. The lock is a `flock`, so a killed run
frees it.

`RindexNamesGroups`: at every moment, in the log as well, the rindex names
groups whose headers are on the device, inside it, and without overlap.
`JournalsComplete`: every journal in jindex has its whole files, numbered
without a gap, also with whatever a crash takes.

### Mkfs, RgRepair, Opening

`Mkfs` writes groups, journals and system files in the order of the source,
each in the blocks the allocator gives; a device may be too small, an older
file system may have left headers, and the run may be killed. `Opening`
damages what is there when mkfs is done (`Damage`, one thing, or the
superblock and one more) and then runs fsck's `initialize`: one action
per dinode perused, per guess of a size, per group read or rewritten at each
level of `rgrepair.c`, per entry of the index compared, per system file. What
a question is answered is a mode of the run. Where the code uses a buffer it
could not read or a pointer nobody set, `fs.pc` becomes `"crashed"`; a walk
over the device that meets more than `MostSteps` groups becomes `"endless"`,
which `RepairEnds` excludes.

While it looks for the root, `peruse_user_dinode` may meet a copy of it in a
journal and then asks to write the copy over the root dinode (`RootCopy`); the
root counts as found only if its own block is perused later. It knows the root
by formal number 1. The mkfs of this repository makes the journals first, so
that 1 is a journal's; an older one made the root first, and `OlderMkfs` gives
the dinodes of a file system the numbers that left (root 1, master 2, jindex
3). `LogCopy` leaves the root in a journal as it was earlier (`Earlier`). A
directory with another number leads to the root over its parents (`ToRoot`);
`possible_root` is never set in the model, because the `dir_search` that would
do so follows a climb that failed for want of a `..` (what could set it, a
parent block that cannot be read, is left out). The root lies above the
journals in every option, so a copy is always met before it; a root below its
copy, which would be known already, is in the definitions and not in the run.

fsck must leave the device alone when every answer is no (`OnlyAsked`) and when
nothing is wrong (`FilesKept`). `FilesKept` also says that a dinode that is
there keeps what it has and only gains entries; the root is the exception, as
the copy replaces it without a look at what is there.
`Restored` and `FilesKept` leave out damage to the first entry of the index
(`FirstEntry`), which the code compares with nothing.

### FileBlocks, Dirents, Directory, NameMap, HashTable

`FileBlocks` has the words of the hash table: in the dinode, or in blocks
below a tree of pointers that grows in height. `Dirents` has the records of a
block with their lengths (an entry takes the slack of the record before it),
leaves with depth and next, and the table. A hash is a number of `HashBits`
bits. `dir_add` is one round of `dir_e_add`: into the leaf, or on in the
chain, or a split, a doubling, a new leaf of the chain, and again.

`Directory` creates and deletes names, one action per round, and observes
after every step what a search finds; `ImplementsNameMap` is refinement: a
name appears at once, when the addition ends, and nothing else ever changes.
`DirectoryIsSound` are the accounts (entries, blocks, leaf entries, record
lengths) and the table: every stretch of pointers as long as its leaf says and
beginning at a multiple of it, and every name in the leaf its hash leads to.

`HashTable` fills a directory, spoils one thing (a stretch of pointers, the
depth of a leaf, an entry in the wrong leaf), counts as pass 1 does, and runs
`check_hash_tbl` with one action per stretch and `check_leaf_blks` with one
per leaf of a chain. Questions are answered yes, the one for the depth of a
leaf either way (`fixDepth`): with "no" the entries of a good leaf are taken
for strays and the only copy goes. `Repaired` also asks for a "." in the
directory: putting one back may split a leaf and leave its chain behind. `held`
are the names the damage left in reach that lie in leaves without a chain and
with no long names, which `lost_leaf` drops.

## Runs

Every run is listed with what it shows in `PROJECT.json`. Bounds:

| run | bounds | why they are enough |
|---|---|---|
| `head` | 6 blocks, numbers 1..3 when damaged, tolerance 1 | two narrowings of the interval, both probes sliding, wrap at either end; repairs with 1 error and refusals with more. `HeadIsHighest` is proved for every size |
| `log_recovery` | 2 nodes, 2 blocks, 3 versions | a block changes hands twice and is logged in both journals |
| `replay` | 2 nodes, journals of 6 blocks, five situations | 3 versions of one block: logged, revoked and logged again round the end of the journal, odd versions escaped; fsck killed and run again; a data and a metadata block in one transaction; one damage with -n and questions; the nodes mount again on what fsck left |
| `main_runs` | 3 passes (one that cannot skip, one ordinary, one that does not poll), 4 faults, 5 command lines, 2 runs, 1 ^C a run | two faults in one pass give a yes and a no; ^C before, between and after; a killed run before a whole one |
| `blockmap` | 8 blocks, 3 files, 2 indirect blocks, 2 resource groups, 1236 images; 2 times ^C or an answer other than yes; tolerance 2 | every pair of files may share data, indirect blocks or a resource group header, or refer to each other's dinode; bad pointers before and after shared ones; two files with indirect blocks in common, or one that refers to one twice, with a fatal error below the first and blocks of others below the second; one ^C cuts a walk and a second the undo. The tolerance is 10 in the code; small files pass or exceed 2 as large ones do 10 |
| `dup_refs` | 9 blocks; 17733 images: three files with up to two each of three blocks in common, or one of them twice, as data or as indirect blocks, none or any one of the three a journal; a third file that has dinodes or blocks below others as data; attributes that are a leaf with values, an indirect block with leaves or a block of another file; 21 others, one with a full device. 1371 of them, most with a journal, with 1 ^C or answer other than yes (`Meddled`), the rest with none | three owners of one block, and each pair of them with another; a block of two types; a journal scanned before, between and after the users; any one question of a run answered otherwise, a flag between any two steps |
| `both_deleted` | the one image of two files with a shared indirect block | - |
| `dirlinks` | 5 blocks: the root, two directories, a file and a free block or another file; 3457 images; 2 times ^C or no | the directories hold each other, themselves, the file or nothing, with right, wrong and missing `..`; one is lost+found or has size zero; a file is held up to three times, by right and wrong entries, with right and wrong counts; lost+found is made in pass3 or in pass4, or finds no block; one ^C skips a pass and a second the next |
| `mounted` | 1 gfs2_grow and 2 gfs2_jadd, 2 runs, 2 faults; devices that grow by some groups, by less than one, or not at all; with alignment | a run meets what one cut short left, two runs race for the lock, a crash follows a failure; the growth wraps |
| `opening` | devices of 16 to 100 blocks with up to 9 groups, 1 to 3 journals, alignment, stale headers; one damage, or the superblock and one, and a dinode lost after a journal got a copy of one; 4 ways to answer | every group, entry, file and header may be the damaged one; a group of its own bitmap block shows the block size; segments long and short of `Samples` |
| `directory` | names of 4-bit hashes, leaves of 3 units, a table of 2 that may double to 8, 4, 7 or 15 free blocks, 6 operations | equal hashes force a chain at the greatest depth, the table leaves the dinode and its tree reaches height 2, blocks run out at every point of it |
| `hash_table` | four directories of up to 7 names, tables of up to 8, any stretch pointed anywhere, any depth, any entry strayed; 2 or 9 free blocks | stretches too short, too long and out of place, leaves met twice, lost leaves, splits under the walk, with and without room to pad |

Fairness. `JournalHead` and `JournalReplay` assume weak fairness of fsck's own
steps: a single-threaded program that nobody stops keeps running, and users
answer its questions. The nodes and damage have no fairness. The same holds of
`Pass1b` in `DupRefs`, of `FsckGoesOn` in `Opening` and `AddGoesOn` in
`Directory`, where weak fairness is written out (the step is enabled in every
state the formula speaks of, which makes checking far cheaper than `ENABLED`),
and of each command in `MountedFs`: a process goes on, and a `flock` that is
free is given to one that waits. None of ^C, signals, kills or crashes is fair.
`TerminatesIfDistinct` holds for journals whose headers carry different
numbers; with repeated numbers `lgfs2_find_jhead` may search for ever, which is
why the property has that condition. `PassEnds` is about runs nobody
interrupts: after ^C the loop of pass1b does spin.

The run with `"expect": "violation"`, `both_deleted`, refutes a sentence of the
source that `"findings"` quotes: of two files that share an indirect block
pass1b deletes both, as it takes the first off the count twice, once for the
record and once in the walk of its tree.

Other disagreements were met and have no run.

- Journals: `replay_journals` returns the result of the last journal alone; a
  renumbered log header keeps its old hash and is no header any more; a preen
  that declines to replay a journal because it may be in use goes on to clear
  it (`fs_recovery.c:569`); a per_node of wrong size gives an absurd number of
  journals (`fs_recovery.c:763`).
- Run: a question asked after ^C and abort forgets the abort, so later passes
  run; a pass that gives up leaves the lock protocol at `fsck_`.
- Block map: ^C in the walk of a damaged file, and its undo goes beyond the walk
  and frees blocks of others (`metawalk.c:1585`). Without ^C too, if the file
  has an indirect block twice: take one with pointers 4, 4 and 5, where the data
  of 4 is a dinode pass1 has still to come to (a fatal error) and 5 points to a
  block of a file that was kept. The second pointer has put the file on record
  for 4, so `undo_reference` finds 4 still referenced, `undo_check_data` and with
  it `hit_error_blk` are skipped, and the undo frees what 5 points to - the
  comment of `pass1.c:543` says this cannot happen. The blocks below an indirect
  block met twice are freed when the file that had it first is removed, while a
  kept file has them; two references in one file set `DUPFLAG_REF1_FOUND`,
  after which the references of others go unrecorded.
- pass1b: `util.c:399` puts system inodes first in a list so that journals are
  not deleted "in favor of dinodes that reference a block inside a journal"; but
  a journal above two files that have an indirect block of it (`JournalAbove`)
  is not in the list, and its blocks are freed with the files', and if its own
  dinode is data of a file below it, that becomes an ordinary used block
  (`pass1b.c:582`). Of two inodes of the system with metadata in common one is
  deleted (`found_good_ref`; the images have one at most). Where two files have
  the same indirect block of attributes (`SharedAttributes`), the pointer of one
  is zeroed since it "rightly belongs to a different dinode" (`pass1b.c:322`),
  then that of the other as not an EA (`pass1b.c:616`), and the leaves stay in
  use. A file that loses its attributes (`pass1b.c:332`) stays in the records of
  the blocks below them; such a record (`AttributesElsewhere`) is never
  removed, and the loop that says "Resolve all duplicates by clearing out the
  dup tree" never ends, with nobody interfering. Further,
  a dinode that two files refer to as metadata is freed with both; an
  attribute leaf that is met a second time is recorded as data
  (`pass1.c:789`), and the inode deleted for it; with the question answered no
  the record loses its inode all the same and the block is freed in the next
  round; the last block of the device is not scanned; after skip or an error
  the loop never ends; `ref_invinode_list` is always empty, so the first step
  never does anything.
- Links: directories that hold each other in a cycle are all marked checked,
  and none is reached from the root or lost+found (`pass3.c:215`); the first
  entry to a file is never found wrong, as its formal number is compared with
  itself (`pass2.c:638`); a directory that is its own `..` loses the decrement
  of its count when it is attached (`add_dotdot` writes one copy of the dinode,
  its caller another); a lost+found made on the block of a directory just
  removed takes over its record and its links are not counted; a lost+found
  whose own `..` is wrong or missing is marked checked when it is found and
  stays as it is; after pass2 was skipped with ^C pass3 attaches to lost+found
  directories that have a parent.
- Directories: a lost leaf loses its chain and every name from the first long
  one on (`pass2.c:1068`); a leaf whose two copies are both bad is forgotten
  where the comment says otherwise (`pass2.c:1543`); `p1check_leaf` returns
  `EEXIST` and its caller tests `-EEXIST`; padding does not notice that no block
  is left and uses a number nobody set; `dir_search` and `gfs2_dirent_del` do
  not return what their comments say; a write that cannot allocate goes to
  block 0.
- Opening: `rebuild_master` always crashes or exits and leaves nothing written;
  a root that is sound is said to be destroyed and replaced by an older copy,
  if one lies in a journal below it and the user agrees (`initialize.c:1095`);
  the comment "mkfs.gfs2 creates master immediately after root" is wrong, so the
  guess of the root is; journal1's formal number makes it a master for a while;
  missing rindexes cannot be rebuilt; reads past the end of the device give no
  buffer and crash (sb_repair on less than 2 GB); one yes to a group's repair
  stands for all (`rgrepair.c:293` says otherwise); with fewer than nine groups
  any difference is above 11 percent, and every level fails; the first entry of
  the index is trusted, and a header written over a dinode if it is wrong; "no" to
  "Fix the index?" leaves bitmaps without buffers; a declined
  `rebuild_master` is ignored.
- mkfs, grow, jadd: an old superblock survives a killed mkfs on a regular file;
  `gfs2_grow -T` discards and writes all the same (`main_grow.c:211`, `238`,
  `362`, `375`); errors and interrupts of gfs2_grow and gfs2_jadd do not reach
  the exit status; a failed gfs2_jadd leaves `new_inode` or files in per_node,
  where `gfs2_jadd.8` promises the original state; an exit when the master
  directory cannot be read leaves the metafs mounted.

## Proofs

All theorems are checked by TLAPS for every value of the constants, from the
assumptions named in the modules (the journal has at least one block, two
where headers must fit; the initial journals are journals, numbers are natural,
the file system has finitely many blocks, a behaviour's versions have a bound,
no process is called "none").

- `JournalHead_proofs`. `TypeCorrect`; `HeadCorrect` and `NotCorrupt` for
  journals of any length. The invariant `HeadInv(h)`, for the true head `h`:
  `blk_1` never passes `h` - every header after `h` has a lower number than
  every header up to `h`, so comparing numbers never moves `blk_1` past it,
  however the probes slide; in the scan all blocks between `head` and `blk`
  are no headers, so the scan meets the second header the journal has and
  stops; in the sequence check the headers seen so far rise, or have wrapped
  once at the lowest. `UntouchedBefore` carries it to journals in general: as
  long as nobody accepts a repair the journal is the one the search began with.
- `LogRecovery_proofs`. The inductive invariant joins `OnlyHolderReplays`
  with: a block that is not in place has its version in its holder's journal,
  and a block no journal has an entry for is in place. `Recoverable` follows,
  and two facts no run repeats: `RecoveredIsCommitted` (once all journals are
  clean every block is as last committed) and `ReplayDisturbsNone`, an action
  property (a replay changes no block whose holder is another node).
- `JournalReplay_proofs`, for any
  number of nodes and blocks, journals of any size from two blocks, and any
  situations. `ReplayIsRecovery` is the refinement: every step of the nodes and
  of fsck is a step of `LogRecovery` or none. What is proved of `LogRecovery`
  then holds of the journals block by block, and gives `ReplayRestores` and
  `AllCleanCorrect`; `EveryJournalLegit` closes the circle with `JournalHead`.
  The properties say nothing of what lies between tail and head, nor of how far
  a replay has come; the inductive invariant `IInv` says both:
  - `LogsInv`: a ring. Going back from the head, headers get lower, and there is
    another one. A log write, a clean header and the junk of a torn
    transaction come after the head and leave an older header
    (`LeavesAHeader`), so the head is the highest header again.
  - `RegionsInv`: from tail to head the journal is made of descriptors each
    with the blocks that are its own, revokes and headers, and a replay of it
    leaves in block b what `pend[j][b]` says: the last entry not revoked
    later. While the nodes run it also has the transactions of `txns` at
    their places, which is what moving the tail drops from the front.
    `CommitStep` is the long part: dropping some, and appending a text of three
    parts that may wrap round the end, keeps all of it.
  - `LocksInv`, `DiskInv`: only the holder's journal has an entry for a
    block, a block not in place is needed by a transaction of its holder, and
    blocks on disk are whole versions.
  - `FsckInv`: the revoke list holds the last place of every revoke passed,
    so that `gfs2_revoke_check`, comparing places in a ring that may have
    wrapped, is right about "later in the region"; and every last entry the
    second pass has come past is in place.
    Damage met on the way leads to the question and never to a clean header.
  - `CleanInv`: `nclean` counts the journals so far only if all are closed.
- `FsckMain_proofs`. `errors_found = errors_corrected` is useful only with
  `CountsInv` (the difference is at least the declined faults) and
  `LookedAtInv` (a pass that is through and was not cut has left no fault of
  its own that was not declined); `CodeInv` ties the code to both.
  `VerdictUnblocksThem` is inductive by itself: only `Finish`, and the preen
  that found the journals clean, give a verdict, and both let mounters in again.
- `MountedFs_proofs`. `LockExcludes` and `JournalsAlwaysComplete`, for any
  number of `gfs2_grow` and `gfs2_jadd`, journals asked for, failures, signals,
  kills and crashes. The invariant `IInv`: whoever is past the lock holds it;
  the journals are 0 .. n-1 and each has its files, good on disk, both in the
  metafs and in what a crash would bring back; a `gfs2_jadd` at work makes
  number n, its parts before the current one are in place, and `new_inode` is
  its own and as far as its step says. Each rename brings a file already
  synced, so what the log may lose in a crash was never needed by a name in
  jindex. `RindexNamesGroups` rests on the arithmetic of the geometry and stays
  with TLC.
- `Opening_proofs`. `NoMeansUntouched` proves `OnlyAsked` for every device mkfs
  can make, any damage, any sizes the levels of `rgrepair.c` work with, and
  signals at any time. Most writes follow their question in the same step; what
  needs the invariant (`NothingAskedFor`) are those that rest on an earlier one:
  the end of the index is cut when the groups are let go, by what `fs.ragged`
  says; permission to reclaim is kept from group to group (`fs.fixit`); and the
  files of a per_node directory are built without a question, which is right
  because they are only looked for (`fs.todo`) after that directory was built.
- `LinkCounts_proofs`. `ClimbAdvances` proves `WalkAdvances` for every number of
  blocks and every image: a step of pass3 that climbs leaves a directory that
  was not checked and is now. The steps of the climb show this at once; what
  needs the invariant (entries, parents, trees and `lf_dip` name dinodes that
  can be) is that a step that does not climb has gone on to another directory
  of the tree, a new lost+found included.
  `CountsStayLinks` proves `CountsAreLinks`, for any number
  of dinodes, any entries and any answers. The invariant `LinksInv` begins to
  speak in pass2, of the entries it has come to (`Visible`), and says, next to
  the counts themselves (`Counts`):
  - `Records`: which record a dinode has. A directory is in the `dirtree`, and
    what is in it and has not been checked by pass3 is a directory still.
  - `DotDots`: what was noted of a `..` is where it goes. That is what makes it
    right to take back one link of `dotdot_parent` for a new `..`; it ends when
    `add_dotdot`, which does not note the new one, has been called, and must
    therefore not be needed again: the directory is in lost+found by then.
  - `Reached`: a directory with a `treewalk_parent` is held by it, and one
    without, that pass3 has still to come to, by none but `.` and `..`. So what
    pass3 removes or attaches has no name yet, in lost+found either.
  - `NothingLost`: what is of zero size and not attached holds no entry but
    `.`, so clearing it takes no link from another dinode.
  - `FreeUnlinked`, `LostAndFound`: a free block nothing links to, unless a
    question about it was declined or it has a record; that is where lost+found
    is made, and its two links are counted or its record is out of date.
  Each step is put together from a few changes with a lemma each (`WholeEntered`,
  `WholeDotDot`, `WholeFreed`, `WholeMade`, `WholeCounted`, `WholeNuked`); a
  move to lost+found is up to five of them.
  `HeldByParent` proves `HeldByItsParent` from a second invariant, `HeldInv`,
  that needs the first: of a directory pass3 has still to come to, every name
  is where it was reached from (`HeldOpen`: pass2 asks before it counts a
  second); one it has marked is held by its `..` alone (`HeldClosed`), and by
  `WalkDone` pass3 leaves none behind it unmarked. No later step may give a
  marked directory another holder: a `..` is not a holder, a name in lost+found
  is the dinode's own (`GoodNames`), what is cleared is bare, and pass4 puts in
  lost+found only what nothing links to, which a directory that is held is not.
  `NumbersEndRight` proves `LinkCountsRight` from a third, `NumbersInv`, that
  speaks of the counts in the dinodes while nothing has been cut short. Every
  dinode ends in one of pass4's lists (`OwnList`). Until the list has come past
  it, `di_nlink` in its record is what the dinode says or nothing yet (`Noted`),
  which makes it right for pass4 to compare the record and not the dinode; from
  then on dinode and count agree (`Even`), and whatever lost+found does to
  either it does to both (`Follows`). The exception is lost+found between
  an addition to it and the end of the list, where `adjust_lf_links` sets it
  right. `Singles` is what `nlink1map` takes for granted, that the dinode says
  one link, and by `Dotted` a directory pass2 was let correct has its `.`, so
  that pass4 never finds it unlinked and its count never ends as 0.
- `BlockMap_proofs`. `KeptFilesStayInUse`, `KeptFilesAreAllocated` and
  `SharedBlocksAreRecorded`, for any number of blocks, any resource groups, and
  files that refer to any blocks any number of times. Two invariants, joined in
  `IInv`. `Base` holds always: the kinds of values, the records (a record counts
  at least the inodes it names and one more, so taking an inode off never
  makes it 0), and what the locals of the walk can be. `Confined` holds as
  long as `UndoneAsWalked` does, and speaks of places and not of blocks, as a
  file may refer to a block twice. `Pending` are the places the walk has come to
  and the undo may still come to; it grows by the place at hand while the file
  is walked (`Onto`) and only shrinks from the error on (`Fewer`):
  - `RecordLasts`: the record of a kept block is there as long as a pending place
    leads to it, so `undo_reference` finds the block still referenced and frees
    nothing. The last such place may take the record away; if there are two, the
    file had the block twice, `DUPFLAG_REF1_FOUND` is set, and the record stays.
  - `Marked`: in the walk every block come to is marked and, if a kept file has
    it, on record for this file. At the end of the walk that is what makes the
    file one of those kept (`FinishStep`).
  - `UndoAt`: the undo has not passed the place of the error. This is where
    `hit_error_blk` and `found_error_blk` are needed, and where `UndoneAsWalked`
    comes in: the proof of it does not go through for an indirect block that
    the file has twice, which is how that disagreement was found (above).
  - `KeptAside`: neither the file at hand nor its indirect blocks are of a kept
    file, so `UndoMeta`, which may free them, takes none.
  - `Shared`, `Reconciled`: what the other two theorems say, at every moment.

Only model-checked: liveness (TLAPS has no rule for it in reach; of the journals,
`ReplayEnds` and the end of the head search), the refinement of `NameMap` by
`Directory`, and the properties of the modules without proofs. `Mkfs`, `RgRepair`, `FileBlocks`,
`Dirents` and `HashTable` compute with folds over sequences: what those return
for every input is an induction, which stays with TLC.

## Not modelled

- `gfs2_convert`: it rewrites GFS1 as GFS2 in place; starting again after an
  interrupt needs both formats in one model. GFS1 everywhere else (its bitmap
  states, `reconstruct_journals`, special files, rgrp segments), as the code for
  it is separate.
- pass1: directories, extended attributes and system inodes as inodes to walk;
  pass2: attributes, types that do not match, system directories but the root.
  They go through the same walk and the same records, with more kinds of block.
- Counts of resource group headers in pass5 and the statfs file in
  `check_statfs`: compared and set in one step; `FsckMain` has the question.
- The search of a bitmap byte by byte (`fs_bits.c`), red-black trees and lists:
  data structures used as sets and functions.
- The buffer cache (`buf.c`): two buffers of one block that overwrite each other
  are modelled where the source writes a dinode through two copies (`DirLinks`),
  not in general.
- A journal half rewritten when fsck is killed (`write_journal`), a volatile
  write cache under fsck, two fscks at once on two nodes: the hazards list says
  why no property is stated.
- `rebuild_master`, as it always ends in a crash or an exit, is that.
- The displays (`glocktop`, `gfs2_edit`), `savemeta`, the field language of
  `gfs2l`, checksums and byte order, `tunegfs2`, shell scripts: formatting and
  input/output without control a property could be about.

What could be added, in this order: a proof of `SystemKept` for system inodes
below the users'; attributes in
`BlockMap`, which would hand `DupRefs` all its records; `gfs2_convert`.
