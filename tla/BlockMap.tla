------------------------------ MODULE BlockMap ------------------------------
(***************************************************************************)
(* pass1 of fsck.gfs2 (pass1.c, the metadata walk of metawalk.c, the       *)
(* duplicate records of util.c) and the reconciliation of the bitmaps it   *)
(* ends with (pass5.c), for regular files.                                 *)
(*                                                                         *)
(* pass1 goes through the blocks the bitmaps call dinodes and walks the    *)
(* pointers of each twice: once to count the bad ones, once to mark what   *)
(* they point to in the block map bl and in the bitmap.  A block met again *)
(* gets a duplicate record, for pass1b to resolve; a file found to be      *)
(* corrupt has the marks of its walk undone and is freed.  At the end what *)
(* bl does not know is freed.                                              *)
(*                                                                         *)
(* ^C comes between any two steps; every repair is a question.             *)
(***************************************************************************)
EXTENDS Integers, Sequences, FiniteSets, SequencesExt, FiniteSetsExt, Functions

CONSTANTS
    NBlocks,            \* blocks are 1 .. NBlocks, in the order of their addresses
    Rgrps,              \* resource groups: each its header blocks and the blocks it maps
    Images,             \* file systems to check
    Answers,            \* what may be answered to a question
    IntChoices,         \* what may be chosen after ^C: "skip", "abort"
    MaxUser,            \* bound: ^C and answers other than yes in a run
    BAD_POINTER_TOLERANCE

Blocks == 1 .. NBlocks
Null == 0               \* no pointer
Bad == NBlocks + 1      \* a pointer valid_block_ip rejects
Pointers == Blocks \union {Null, Bad}

(* The states of a block, in the bitmap and in bl; "none" are the blocks   *)
(* no bitmap represents.                                                   *)
MapStates == {"free", "used", "unlinked", "dinode"}
BitStates == MapStates \union {"none"}

(* What a block looks like: a dinode that names its own address, an        *)
(* indirect block, a resource group header, or anything else.              *)
Contents == {"DI", "IN", "RG", "other"}

ImageType == [content : [Blocks -> Contents], height : [Blocks -> 0 .. 2],
              badmode : SUBSET Blocks, ptrs : [Blocks -> Seq(Pointers)],
              bitmap : [Blocks -> BitStates], i_blocks : [Blocks -> Nat]]

Headers == UNION { Rgrps[r].header : r \in DOMAIN Rgrps }

ASSUME BlockMapAssumption ==
    /\ NBlocks \in Nat
    /\ Rgrps \in Seq([header : SUBSET Blocks, data : SUBSET Blocks])
    /\ Images \subseteq ImageType
    /\ \A i \in Images : \A b \in Blocks :
          (i.bitmap[b] = "none" <=> b \in Headers) /\ (b \in Headers => i.content[b] = "RG")
    /\ Answers \subseteq {"yes", "no", "abort"}
    /\ IntChoices \subseteq {"skip", "abort"}
    /\ MaxUser \in Nat /\ BAD_POINTER_TOLERANCE \in Nat

VARIABLES
    fs,         \* content, height and mode of the blocks: never changed here
    ptrs,       \* the pointers in each block
    bitmap, i_blocks,
    bl,         \* the block map
    dup_blocks, \* the duplicate records: total of references, and those by inode
    fsck_abort, skip_this_pass,
    pc,
    rgd,        \* the resource group at hand
    ibuf,       \* its blocks the bitmap called dinodes and that are still to do: the
                \*   lowest is next
    ip,         \* the file at hand, and in its walk:
    metalist,   \*   the metadata blocks below the dinode
    at,         \*   the place of the pointer at hand: block of the list, offset
    error,      \*   the worst error so far
    error_blk,  \*   the place it was found
    hit_error_blk, found_error_blk,
    counted,    \*   blocks counted (struct block_count)
    walked,     \* history: of files walked to the end, the file with itself and with
                \*   each indirect block walked for it
    cut,        \* history: what was cut short, by ^C or an error
    declined,   \* history: blocks whose bitmap was left wrong on request
    ints

disk == <<fs, ptrs, bitmap, i_blocks>>
flags == <<fsck_abort, skip_this_pass>>
place == <<rgd, ibuf>>
errors == <<error, error_blk, hit_error_blk, found_error_blk>>
walk == <<ip, metalist, at, errors, counted>>
history == <<walked, cut, declined>>
vars == <<disk, bl, dup_blocks, flags, pc, place, walk, history, ints>>

-----------------------------------------------------------------------------
(* Files.                                                                  *)

(* The metadata blocks whose pointers are pointers to data.                *)
DataLists == IF fs.height[ip] = 1 THEN <<ip>> ELSE metalist
Pointer == ptrs[DataLists[at[1]]][at[2]]
AtEnd(list) == at[1] > Len(list)
EndOfBlock(list) == at[2] > Len(ptrs[list[at[1]]])
NextPointer == <<at[1], at[2] + 1>>
NextBlock == <<at[1] + 1, 1>>

(* What a file refers to, by the place of the reference.                   *)
Metadata(f) ==
    IF fs.height[f] < 2 THEN {}
    ELSE { k \in DOMAIN ptrs[f] : ptrs[f][k] \in Blocks }
Indirect(f) == { ptrs[f][k] : k \in Metadata(f) }
DataHolders(f) ==
    IF fs.height[f] = 1 THEN {f} ELSE { m \in Indirect(f) : fs.content[m] = "IN" }
DataPlaces(f) ==
    IF fs.height[f] = 0 THEN {}
    ELSE UNION { {m} \X { k \in DOMAIN ptrs[m] : ptrs[m][k] \in Blocks } : m \in DataHolders(f) }
Data(f) == { ptrs[p[1]][p[2]] : p \in DataPlaces(f) }

(* The files that were walked to their end and kept, and what was seen of  *)
(* them: the pointers of an indirect block met before are not walked again.*)
(* Resource group headers bl marks for itself.                             *)
Whole == { f \in Blocks : <<f, f>> \in walked }
SeenRefs(f) ==
    (Indirect(f) \union { ptrs[p[1]][p[2]] : p \in { q \in DataPlaces(f) : <<f, q[1]>> \in walked } })
        \ Headers
Own(f) == SeenRefs(f) \union {f}

-----------------------------------------------------------------------------
(* A question clears fsck_abort; ^C at the question sets it.               *)
Query(ans) ==
    /\ ans \in Answers
    /\ fsck_abort' = (ans = "abort")
    /\ IF ans = "yes" THEN UNCHANGED ints ELSE ints < MaxUser /\ ints' = ints + 1

(* check_n_fix_bitmap, for a block in a bitmap.                            *)
SetBitmap(b, new) ==
    IF bitmap[b] = new THEN UNCHANGED <<bitmap, fsck_abort, declined, ints>>
    ELSE \E ans \in Answers :
        /\ Query(ans)
        /\ IF ans = "yes" THEN bitmap' = [bitmap EXCEPT ![b] = new] /\ UNCHANGED declined
                          ELSE declined' = declined \union {b} /\ UNCHANGED bitmap

(* _fsck_blockmap_set: bl follows the bitmap, also when the question has   *)
(* been answered no, and not when no bitmap represents the block.          *)
SetBlockmap(b, new) ==
    IF b \in Headers THEN UNCHANGED <<bitmap, fsck_abort, declined, ints, bl>>
    ELSE SetBitmap(b, new) /\ bl' = [bl EXCEPT ![b] = new]

(* add_duplicate_ref: the first record of a block already counts two, the  *)
(* reference at hand and the one pass1b is to find; once an inode has two, *)
(* the first is taken to be found.                                         *)
AddDuplicateRef(b, i) ==
    LET dt == IF b \in DOMAIN dup_blocks THEN dup_blocks[b]
              ELSE [refs |-> 1, by |-> {}, ref1_found |-> FALSE]
    IN  dup_blocks' =
            IF dt.ref1_found THEN dup_blocks
            ELSE [x \in DOMAIN dup_blocks \union {b} |->
                    IF x # b THEN dup_blocks[x]
                    ELSE [refs |-> dt.refs + 1, by |-> dt.by \union {i},
                          ref1_found |-> i \in dt.by]]

(* dup_listent_delete of what i has in a record: one less, however many    *)
(* references i had.                                                       *)
WithoutInode(dt, i) ==
    IF i \in dt.by THEN [dt EXCEPT !.refs = @ - 1, !.by = @ \ {i}] ELSE dt

-----------------------------------------------------------------------------
Init ==
    /\ \E i \in Images :
        /\ fs = [content |-> i.content, height |-> i.height, badmode |-> i.badmode]
        /\ ptrs = i.ptrs /\ bitmap = i.bitmap /\ i_blocks = i.i_blocks
    /\ bl = [b \in Blocks |-> "free"]
    /\ dup_blocks = << >>
    /\ fsck_abort = FALSE /\ skip_this_pass = FALSE
    /\ pc = "rgrps" /\ rgd = 0 /\ ibuf = {}
    /\ ip = 0 /\ metalist = << >> /\ at = <<1, 1>> /\ counted = 0
    /\ error = 0 /\ error_blk = <<0, 0>> /\ hit_error_blk = FALSE /\ found_error_blk = FALSE
    /\ walked = {} /\ cut = {} /\ declined = {} /\ ints = 0

Running == pc \notin {"done", "canceled"}

(* interrupt of main.c, between any two steps.                             *)
Interrupt ==
    /\ Running /\ ints < MaxUser /\ ints' = ints + 1
    /\ \/ "skip" \in IntChoices /\ skip_this_pass' = TRUE /\ UNCHANGED fsck_abort
       \/ "abort" \in IntChoices /\ fsck_abort' = TRUE /\ UNCHANGED skip_this_pass
    /\ UNCHANGED <<disk, bl, dup_blocks, pc, place, walk, history>>

(* pass1: the next resource group.  Its headers are marked, and its blocks *)
(* the bitmap calls dinodes are listed, once.                              *)
NextRgrp ==
    /\ pc = "rgrps"
    /\ \/ rgd = Len(Rgrps) /\ pc' = "pass5" /\ at' = <<1, 1>> /\ UNCHANGED <<bl, place, cut>>
       \/ /\ rgd < Len(Rgrps) /\ fsck_abort
          /\ pc' = "canceled" /\ cut' = cut \union {"list"} /\ UNCHANGED <<bl, place, at>>
       \/ /\ rgd < Len(Rgrps) /\ ~fsck_abort
          /\ rgd' = rgd + 1
          /\ bl' = [b \in Blocks |-> IF b \in Rgrps[rgd'].header THEN "used" ELSE bl[b]]
          /\ ibuf' = { b \in Rgrps[rgd'].data : bitmap[b] = "dinode" }
          /\ pc' = "inodes" /\ UNCHANGED <<at, cut>>
    /\ UNCHANGED <<disk, dup_blocks, flags, ip, metalist, errors, counted, walked, declined, ints>>

(* pass1_process_bitmap: the next block of the list.  A skip is refused    *)
(* here, with "Skipping pass 1 is not a good idea".                        *)
Polled(next) ==
    /\ pc = "inodes" /\ ibuf # {} /\ ~fsck_abort
    /\ skip_this_pass' = FALSE
    /\ ibuf' = ibuf \ {Min(ibuf)} /\ UNCHANGED rgd
    /\ pc' = next

EndOfList ==
    /\ pc = "inodes" /\ (ibuf = {} \/ fsck_abort)
    /\ pc' = "rgrps" /\ ibuf' = {}
    /\ cut' = IF ibuf = {} THEN cut ELSE cut \union {"list"}
    /\ UNCHANGED <<disk, bl, dup_blocks, flags, rgd, walk, walked, declined, ints>>

(* A block that a file met before refers to: a duplicate, if it is a       *)
(* dinode; else the bitmap is taken to be wrong.                           *)
MarkedInode ==
    LET b == Min(ibuf)
    IN  /\ Polled("inodes") /\ bl[b] # "free"
        /\ IF fs.content[b] = "DI" THEN AddDuplicateRef(b, b) ELSE UNCHANGED dup_blocks
        /\ UNCHANGED <<disk, bl, fsck_abort, walk, history, ints>>

InvalidInode ==
    LET b == Min(ibuf)
    IN  /\ Polled("inodes") /\ bl[b] = "free" /\ fs.content[b] # "DI"
        /\ SetBitmap(b, "free")
        /\ UNCHANGED <<fs, ptrs, i_blocks, bl, dup_blocks, walk, walked, cut>>

HandleInode ==
    LET b == Min(ibuf)
    IN  /\ Polled("rangecheck") /\ bl[b] = "free" /\ fs.content[b] = "DI"
        /\ ip' = b /\ metalist' = << >> /\ at' = <<1, 1>> /\ counted' = 0
        /\ error' = 0 /\ error_blk' = <<0, 0>>
        /\ hit_error_blk' = FALSE /\ found_error_blk' = FALSE
        /\ UNCHANGED <<disk, bl, dup_blocks, fsck_abort, history, ints>>

-----------------------------------------------------------------------------
(* handle_ip: the walk that counts bad pointers.  It reads only, so ^C in  *)
(* it is as good as ^C before it.  BadPointers counts references by place, *)
(* and those of an indirect block once for each pointer to it.             *)
IsBad(p) == p = Bad \/ (p \in Blocks /\ bl[p] # "free")
BadIn(b) == { k \in DOMAIN ptrs[b] : IsBad(ptrs[b][k]) }
BadPointers(f) ==
    CASE fs.height[f] = 0 -> 0
      [] fs.height[f] = 1 -> Cardinality(BadIn(f))
      [] fs.height[f] = 2 ->
            Cardinality(BadIn(f)) +
            Cardinality(UNION { {k} \X BadIn(ptrs[f][k]) :
                                  k \in { m \in Metadata(f) : fs.content[ptrs[f][m]] = "IN" } })

TooManyBad ==
    ~skip_this_pass /\ ~fsck_abort /\ BadPointers(ip) > BAD_POINTER_TOLERANCE

Rangecheck ==
    /\ pc = "rangecheck" /\ ~TooManyBad
    /\ pc' = "set_ip"
    /\ UNCHANGED <<disk, bl, dup_blocks, flags, place, walk, history, ints>>

(* Too many: check_metatree asks whether to remove the inode and for its   *)
(* bitmap, and whatever was answered handle_ip asks for the bitmap again.  *)
(* Its delete_all_dups finds no record of a file that was not walked yet.  *)
BadlyCorrupt ==
    /\ pc = "rangecheck" /\ TooManyBad
    /\ \E remove, mark \in Answers :
        IF remove = "yes" /\ mark = "yes"
        THEN /\ bitmap' = [bitmap EXCEPT ![ip] = "free"]
             /\ fsck_abort' = FALSE /\ UNCHANGED <<declined, ints>>
        ELSE SetBitmap(ip, "free")
    /\ bl' = [bl EXCEPT ![ip] = "free"]
    /\ pc' = "inodes"
    /\ UNCHANGED <<fs, ptrs, i_blocks, dup_blocks, skip_this_pass, place, walk, walked, cut>>

(* set_ip_blockmap; an inode of no known mode is freed.                    *)
SetIpBlockmap ==
    /\ pc = "set_ip"
    /\ LET bad == ip \in fs.badmode
       IN  /\ SetBlockmap(ip, IF bad THEN "free" ELSE "dinode")
           /\ pc' = CASE bad -> "inodes"
                      [] ~bad /\ fs.height[ip] = 2 -> "metalist"
                      [] ~bad /\ fs.height[ip] # 2 -> "data"
    /\ UNCHANGED <<fs, ptrs, i_blocks, dup_blocks, skip_this_pass, place, walk, walked, cut>>

-----------------------------------------------------------------------------
(* build_and_check_metalist with pass1_check_metalist.                     *)
AtMetaPointer == pc = "metalist" /\ at[2] <= Len(ptrs[ip])
MetaPointer == ptrs[ip][at[2]]

MetalistDone ==
    /\ pc = "metalist" /\ at[2] > Len(ptrs[ip])
    /\ pc' = "data" /\ at' = <<1, 1>>
    /\ UNCHANGED <<disk, bl, dup_blocks, flags, place, ip, metalist, errors, counted, history, ints>>

(* A flag ends it, and the walk over the data that follows: the file is    *)
(* left as it is.                                                          *)
MetalistCut ==
    /\ AtMetaPointer /\ (skip_this_pass \/ fsck_abort)
    /\ pc' = "count" /\ cut' = cut \union {"walk"}
    /\ UNCHANGED <<disk, bl, dup_blocks, flags, place, walk, walked, declined, ints>>

MetaNull ==
    /\ AtMetaPointer /\ ~skip_this_pass /\ ~fsck_abort /\ MetaPointer = Null
    /\ at' = NextPointer
    /\ UNCHANGED <<disk, bl, dup_blocks, flags, pc, place, ip, metalist, errors, counted,
                   history, ints>>

(* A pointer out of range: the inode is marked unlinked for now.           *)
MetaOutOfRange ==
    /\ AtMetaPointer /\ ~skip_this_pass /\ ~fsck_abort /\ MetaPointer = Bad
    /\ SetBlockmap(ip, "unlinked")
    /\ error' = 1 /\ pc' = "error_undo" /\ at' = <<at[2], 1>>
    /\ UNCHANGED <<fs, ptrs, i_blocks, dup_blocks, skip_this_pass, place, ip, metalist,
                   error_blk, hit_error_blk, found_error_blk, counted, walked, cut>>

(* What the pointer leads to is no indirect block: zero the pointer, or    *)
(* give the file up.                                                       *)
MetaInvalid ==
    /\ AtMetaPointer /\ ~skip_this_pass /\ ~fsck_abort
    /\ MetaPointer \in Blocks /\ fs.content[MetaPointer] # "IN"
    /\ \E ans \in Answers :
        /\ Query(ans)
        /\ IF ans = "yes"
           THEN /\ ptrs' = [ptrs EXCEPT ![ip][at[2]] = Null]
                /\ at' = NextPointer /\ UNCHANGED <<error, pc>>
           ELSE error' = 1 /\ pc' = "error_undo" /\ at' = <<at[2], 1>> /\ UNCHANGED ptrs
    /\ UNCHANGED <<fs, bitmap, i_blocks, bl, dup_blocks, skip_this_pass, place, ip, metalist,
                   error_blk, hit_error_blk, found_error_blk, counted, history>>

(* An indirect block met before is recorded, and its pointers are left.    *)
MetaBlockBitmapOnly ==
    /\ AtMetaPointer /\ ~skip_this_pass /\ ~fsck_abort
    /\ MetaPointer \in Blocks /\ fs.content[MetaPointer] = "IN"
    /\ counted' = counted + 1 /\ at' = NextPointer
    /\ IF bl[MetaPointer] # "free"
       THEN /\ AddDuplicateRef(MetaPointer, ip)
            /\ UNCHANGED <<bitmap, fsck_abort, declined, ints, bl, metalist>>
       ELSE /\ SetBitmap(MetaPointer, "used") /\ UNCHANGED bl
            /\ metalist' = Append(metalist, MetaPointer) /\ UNCHANGED dup_blocks
    /\ UNCHANGED <<fs, ptrs, i_blocks, skip_this_pass, pc, place, ip, errors, walked, cut>>

MetaBlock ==
    /\ AtMetaPointer /\ ~skip_this_pass /\ ~fsck_abort
    /\ MetaPointer \in Blocks /\ fs.content[MetaPointer] = "IN"
    /\ counted' = counted + 1 /\ at' = NextPointer
    /\ IF bl[MetaPointer] # "free"
       THEN /\ AddDuplicateRef(MetaPointer, ip)
            /\ UNCHANGED <<bitmap, fsck_abort, declined, ints, bl, metalist>>
       ELSE /\ SetBlockmap(MetaPointer, "used")
            /\ metalist' = Append(metalist, MetaPointer) /\ UNCHANGED dup_blocks
    /\ UNCHANGED <<fs, ptrs, i_blocks, skip_this_pass, pc, place, ip, errors, walked, cut>>

-----------------------------------------------------------------------------
(* metawalk_check_data with pass1_check_data.                              *)
WalkDone == pc' = "count" /\ UNCHANGED <<at, errors>>
GiveUp == pc' = "remove" /\ at' = <<1, 1>> /\ UNCHANGED <<errors, walked>>

(* The end of a block: the next one, unless there was an error.            *)
DataBlockDone ==
    /\ pc = "data" /\ UNCHANGED cut
    /\ \/ AtEnd(DataLists) /\ WalkDone /\ walked' = walked \union {ip} \X ({ip} \union Range(metalist))
       \/ /\ ~AtEnd(DataLists) /\ EndOfBlock(DataLists)
          /\ IF error # 0 THEN GiveUp
             ELSE at' = NextBlock /\ UNCHANGED <<pc, errors, walked>>
    /\ UNCHANGED <<disk, bl, dup_blocks, flags, place, ip, metalist, counted, declined, ints>>

AtDataPointer == pc = "data" /\ ~AtEnd(DataLists) /\ ~EndOfBlock(DataLists)

(* A flag ends the walk: without an error the file is left as it is, with  *)
(* one the question whether to remove it follows.                          *)
DataCut ==
    /\ AtDataPointer /\ (fsck_abort \/ (skip_this_pass /\ Pointer # Null))
    /\ IF error = 0 THEN cut' = cut \union {"walk"} /\ WalkDone /\ UNCHANGED walked
                    ELSE cut' = cut \union {"error"} /\ GiveUp
    /\ UNCHANGED <<disk, bl, dup_blocks, flags, place, ip, metalist, counted, declined, ints>>

AtUncut == AtDataPointer /\ ~fsck_abort /\ ~skip_this_pass

DataNull ==
    /\ AtDataPointer /\ ~fsck_abort /\ Pointer = Null
    /\ at' = NextPointer
    /\ UNCHANGED <<disk, bl, dup_blocks, flags, pc, place, ip, metalist, errors, counted,
                   history, ints>>

(* report_data_error: a fatal error trumps others, else the first counts.  *)
Fatal ==
    /\ error' = -1 /\ error_blk' = <<DataLists[at[1]], at[2]>>
    /\ pc' = "remove" /\ at' = <<1, 1>> /\ UNCHANGED counted
Nonfatal ==
    /\ at' = NextPointer /\ counted' = counted + 1 /\ UNCHANGED pc
    /\ IF error # 0 THEN UNCHANGED <<error, error_blk>>
       ELSE error' = 1 /\ error_blk' = <<DataLists[at[1]], at[2]>>
Fine == at' = NextPointer /\ counted' = counted + 1 /\ UNCHANGED <<pc, error, error_blk>>

DataOutOfRange ==
    /\ AtUncut /\ Pointer = Bad
    /\ SetBlockmap(ip, "unlinked") /\ Fatal
    /\ UNCHANGED <<fs, ptrs, i_blocks, dup_blocks, skip_this_pass, place, ip, metalist,
                   hit_error_blk, found_error_blk, walked, cut>>

(* A block met before; a nonfatal error if it cannot be data.              *)
DataDuplicate ==
    /\ AtUncut /\ Pointer \in Blocks /\ bl[Pointer] # "free"
    /\ AddDuplicateRef(Pointer, ip)
    /\ IF bl[Pointer] = "dinode" \/ (bl[Pointer] = "used" /\ fs.content[Pointer] \in {"IN", "RG"})
       THEN Nonfatal ELSE Fine
    /\ UNCHANGED <<disk, bl, flags, place, ip, metalist, hit_error_blk, found_error_blk,
                   history, ints>>

(* blockmap_set_as_data, when block and bitmap agree that the block is a   *)
(* dinode: one that pass1 has not come to yet.                             *)
DataLooksLikeDinode ==
    /\ AtUncut /\ Pointer \in Blocks /\ bl[Pointer] = "free"
    /\ bitmap[Pointer] = "dinode" /\ fs.content[Pointer] = "DI"
    /\ error' = -1 /\ error_blk' = <<DataLists[at[1]], at[2]>> /\ counted' = counted + 1
    /\ pc' = "remove" /\ at' = <<1, 1>>
    /\ UNCHANGED <<disk, bl, dup_blocks, flags, place, ip, metalist, hit_error_blk,
                   found_error_blk, history, ints>>

DataBlock ==
    /\ AtUncut /\ Pointer \in Blocks /\ bl[Pointer] = "free"
    /\ ~(bitmap[Pointer] = "dinode" /\ fs.content[Pointer] = "DI")
    /\ SetBlockmap(Pointer, "used") /\ Fine
    /\ UNCHANGED <<fs, ptrs, i_blocks, dup_blocks, skip_this_pass, place, ip, metalist,
                   hit_error_blk, found_error_blk, walked, cut>>

-----------------------------------------------------------------------------
(* undo_reference.  The references ip has on record are dropped; a block   *)
(* that then still has references is not freed, and a record of one        *)
(* reference is dropped too.  What the bitmap calls a dinode is not freed   *)
(* as data: -1, which ends the undoing of a metadata block.                *)
Recorded(b) == b \in DOMAIN dup_blocks
StillReferencedByTwo(b) == Recorded(b) /\ WithoutInode(dup_blocks[b], ip).refs > 1
StillReferenced(b) == Recorded(b) /\ WithoutInode(dup_blocks[b], ip).refs # 0
Undone(b, meta) ==
    IF b = Bad \/ StillReferenced(b) THEN 1
    ELSE IF ~meta /\ bitmap[b] = "dinode" THEN -1 ELSE 0

UndoReferenceEagerly(b, meta) ==
    /\ dup_blocks' =
         IF ~Recorded(b) THEN dup_blocks
         ELSE LET dt == WithoutInode(dup_blocks[b], ip)
              IN  IF dt.refs <= 2 THEN Restrict(dup_blocks, DOMAIN dup_blocks \ {b})
                                  ELSE [dup_blocks EXCEPT ![b] = dt]
    /\ IF b = Bad THEN SetBlockmap(ip, "free")
       ELSE IF Undone(b, meta) = 0 THEN SetBlockmap(b, "free")
       ELSE UNCHANGED <<bitmap, fsck_abort, declined, ints, bl>>

UndoReference(b, meta) ==
    /\ dup_blocks' =
         IF ~Recorded(b) THEN dup_blocks
         ELSE LET dt == WithoutInode(dup_blocks[b], ip)
              IN  IF dt.refs = 1 THEN Restrict(dup_blocks, DOMAIN dup_blocks \ {b})
                                 ELSE [dup_blocks EXCEPT ![b] = dt]
    /\ IF b = Bad THEN SetBlockmap(ip, "free")
       ELSE IF Undone(b, meta) = 0 THEN SetBlockmap(b, "free")
       ELSE UNCHANGED <<bitmap, fsck_abort, declined, ints, bl>>

(* build_and_check_metalist, error_undo: the pointers before the bad one.  *)
ErrorUndo ==
    /\ pc = "error_undo" /\ at[2] < at[1]
    /\ at' = NextPointer /\ UNCHANGED pc
    /\ LET b == ptrs[ip][at[2]]
       IN  IF b = Null
           THEN UNCHANGED <<bitmap, fsck_abort, declined, ints, bl, dup_blocks, counted>>
           ELSE UndoReference(b, TRUE) /\ counted' = counted - 1
    /\ UNCHANGED <<fs, ptrs, i_blocks, skip_this_pass, place, ip, metalist, errors, walked, cut>>

ErrorUndoDone ==
    /\ pc = "error_undo" /\ at[2] = at[1]
    /\ pc' = "remove" /\ at' = <<1, 1>>
    /\ UNCHANGED <<disk, bl, dup_blocks, flags, place, ip, metalist, errors, counted, history, ints>>

(* check_metatree: "Remove the invalid inode?".  Answered no, the inode    *)
(* becomes free in bl all the same (pass1_check_metatree).                 *)
AskRemove ==
    /\ pc = "remove"
    /\ \E ans \in Answers :
        /\ Query(ans)
        /\ IF ans = "yes" THEN pc' = (IF fs.height[ip] = 1 THEN "undo_data" ELSE "undo_meta")
                               /\ UNCHANGED bl
                          ELSE pc' = "count" /\ bl' = [bl EXCEPT ![ip] = "free"]
    /\ UNCHANGED <<disk, dup_blocks, skip_this_pass, place, walk, history>>

(* The undo of a file: each metadata block below the dinode, and under it  *)
(* the data, unless the error was in the metadata.                         *)
MetadataClean == error_blk # <<0, 0>>

(* An undo that leaves the block the error is in and does not note it goes *)
(* on into blocks that were not walked; any other leaves blocks marked.    *)
Left(hit) == IF DataLists[at[1]] = error_blk[1] /\ ~hit THEN "undo" ELSE "leak"

UndoMeta ==
    /\ pc = "undo_meta" /\ ~AtEnd(metalist)
    /\ LET b == metalist[at[1]]
           clean == Undone(b, TRUE) = 0
           wanted == MetadataClean /\ ~hit_error_blk
       IN  /\ UndoReference(b, TRUE) /\ counted' = counted - 1
           /\ IF wanted /\ clean THEN pc' = "undo_data" /\ UNCHANGED at
                                 ELSE at' = NextBlock /\ UNCHANGED pc
           /\ cut' = IF wanted /\ ~clean THEN cut \union {Left(FALSE)} ELSE cut
    /\ UNCHANGED <<fs, ptrs, i_blocks, skip_this_pass, place, ip, metalist, errors, walked>>

UndoBlockDone(hit) ==
    /\ hit_error_blk' = hit /\ found_error_blk' = FALSE
    /\ at' = NextBlock
    /\ pc' = IF fs.height[ip] = 1 THEN "invalidate" ELSE "undo_meta"

AtUndoPointer == pc = "undo_data" /\ ~EndOfBlock(DataLists)
AtErrorBlk == <<DataLists[at[1]], at[2]>> = error_blk

UndoDataDone ==
    /\ pc = "undo_data" /\ EndOfBlock(DataLists)
    /\ UndoBlockDone(found_error_blk)
    /\ UNCHANGED <<disk, bl, dup_blocks, flags, place, ip, metalist, error, error_blk, counted,
                   history, ints>>

(* A flag: an abort ends the undo of this block, a skip that of the file.  *)
UndoDataCut ==
    /\ AtUndoPointer /\ (fsck_abort \/ (skip_this_pass /\ Pointer # Null))
    /\ UndoBlockDone(found_error_blk \/ ~fsck_abort)
    /\ cut' = cut \union {Left(found_error_blk \/ ~fsck_abort)}
    /\ UNCHANGED <<disk, bl, dup_blocks, flags, place, ip, metalist, error, error_blk, counted,
                   walked, declined, ints>>

UndoDataNull ==
    /\ AtUndoPointer /\ ~fsck_abort /\ Pointer = Null
    /\ at' = NextPointer
    /\ UNCHANGED <<disk, bl, dup_blocks, flags, pc, place, ip, metalist, errors, counted,
                   history, ints>>

(* The place of a fatal error: what comes after has not been walked.       *)
UndoReachedError ==
    /\ AtUndoPointer /\ ~fsck_abort /\ ~skip_this_pass /\ Pointer # Null
    /\ AtErrorBlk /\ error < 0
    /\ UndoBlockDone(TRUE)
    /\ UNCHANGED <<disk, bl, dup_blocks, flags, place, ip, metalist, error, error_blk, counted,
                   history, ints>>

UndoData ==
    /\ AtUndoPointer /\ ~fsck_abort /\ ~skip_this_pass /\ Pointer # Null
    /\ ~(AtErrorBlk /\ error < 0)
    /\ UndoReference(Pointer, FALSE)
    /\ IF Undone(Pointer, FALSE) < 0
       THEN UndoBlockDone(hit_error_blk) /\ cut' = cut \union {Left(hit_error_blk)}
       ELSE /\ at' = NextPointer /\ UNCHANGED <<pc, hit_error_blk>>
            /\ found_error_blk' = (found_error_blk \/ AtErrorBlk) /\ UNCHANGED cut
    /\ UNCHANGED <<fs, ptrs, i_blocks, skip_this_pass, place, ip, metalist, error, error_blk,
                   counted, walked>>

(* The end of check_metatree for a file removed: delete_all_dups, and the  *)
(* dinode is freed, in bl by pass1_check_metatree.                         *)
DeleteAllDups(i) ==
    LET left == [b \in DOMAIN dup_blocks |-> WithoutInode(dup_blocks[b], i)]
    IN  dup_blocks' = Restrict(left, 
                                   { b \in DOMAIN left : i \in dup_blocks[b].by => left[b].refs # 0 })

Invalidate ==
    /\ \/ pc = "invalidate"
       \/ pc = "undo_meta" /\ AtEnd(metalist)
    /\ DeleteAllDups(ip)
    /\ SetBitmap(ip, "free") /\ bl' = [bl EXCEPT ![ip] = "free"]
    /\ pc' = "count"
    /\ UNCHANGED <<fs, ptrs, i_blocks, skip_this_pass, place, walk, walked, cut>>

-----------------------------------------------------------------------------
(* The end of handle_ip: the block count of the dinode.                    *)
CountBlocks ==
    /\ pc = "count" /\ pc' = "inodes"
    /\ IF fsck_abort \/ i_blocks[ip] = 1 + counted
       THEN UNCHANGED <<i_blocks, fsck_abort, ints>>
       ELSE \E ans \in Answers :
                /\ Query(ans)
                /\ i_blocks' = IF ans = "yes" THEN [i_blocks EXCEPT ![ip] = 1 + counted] ELSE i_blocks
    /\ UNCHANGED <<fs, ptrs, bitmap, bl, dup_blocks, skip_this_pass, place, walk, history>>

(* pass5: block by block (at[1]), the bitmaps follow bl; an unlinked       *)
(* inode may be reclaimed.                                                 *)
Pass5Block ==
    LET b == at[1]
    IN  /\ pc = "pass5" /\ b \in Blocks /\ ~skip_this_pass /\ ~fsck_abort
        /\ at' = NextBlock
        /\ \/ b \in Headers /\ UNCHANGED <<bitmap, fsck_abort, declined, ints>>
           \/ b \notin Headers /\ bl[b] # "unlinked" /\ SetBitmap(b, bl[b])
           \/ /\ b \notin Headers /\ bl[b] = "unlinked"
              /\ \E ans \in Answers :
                    /\ Query(ans)
                    /\ bitmap' = IF ans = "yes" THEN [bitmap EXCEPT ![b] = "free"] ELSE bitmap
              /\ UNCHANGED declined
        /\ UNCHANGED <<fs, ptrs, i_blocks, bl, dup_blocks, skip_this_pass, pc, place, ip, metalist,
                       errors, counted, walked, cut>>

Pass5Done ==
    /\ pc = "pass5" /\ pc' = "done"
    /\ \/ at[1] \notin Blocks /\ UNCHANGED cut
       \/ at[1] \in Blocks /\ (skip_this_pass \/ fsck_abort) /\ cut' = cut \union {"pass5"}
    /\ UNCHANGED <<disk, bl, dup_blocks, flags, place, walk, walked, declined, ints>>

Next ==
    \/ NextRgrp \/ EndOfList \/ MarkedInode \/ InvalidInode \/ HandleInode
    \/ Rangecheck \/ BadlyCorrupt \/ SetIpBlockmap
    \/ MetalistDone \/ MetalistCut \/ MetaNull \/ MetaOutOfRange \/ MetaInvalid \/ MetaBlock
    \/ DataBlockDone \/ DataCut \/ DataNull \/ DataOutOfRange \/ DataDuplicate
    \/ DataLooksLikeDinode \/ DataBlock
    \/ ErrorUndo \/ ErrorUndoDone \/ AskRemove
    \/ UndoMeta \/ UndoDataDone \/ UndoDataCut \/ UndoDataNull \/ UndoReachedError \/ UndoData
    \/ Invalidate \/ CountBlocks \/ Pass5Block \/ Pass5Done
    \/ Interrupt
    \/ ~Running /\ UNCHANGED vars

Spec == Init /\ [][Next]_vars

-----------------------------------------------------------------------------
(* Properties.                                                             *)

DupType == [refs : Nat, by : SUBSET Blocks, ref1_found : BOOLEAN]

(* Every variable has a value of its kind.                                 *)
TypeOK ==
    /\ fs.content \in [Blocks -> Contents] /\ ptrs \in [Blocks -> Seq(Pointers)]
    /\ bitmap \in [Blocks -> BitStates] /\ \A b \in Blocks : bitmap[b] = "none" <=> b \in Headers
    /\ bl \in [Blocks -> MapStates]
    /\ DOMAIN dup_blocks \subseteq Blocks /\ \A b \in DOMAIN dup_blocks : dup_blocks[b] \in DupType
    /\ fsck_abort \in BOOLEAN /\ skip_this_pass \in BOOLEAN
    /\ pc \in {"rgrps", "inodes", "rangecheck", "set_ip", "metalist", "data", "error_undo", "remove",
               "undo_meta", "undo_data", "invalidate", "count", "pass5", "done", "canceled"}
    /\ rgd \in 0 .. Len(Rgrps) /\ ibuf \subseteq Blocks
    /\ ip \in Blocks \union {0} /\ metalist \in Seq(Blocks) /\ error \in -1 .. 1
    /\ walked \subseteq Blocks \X Blocks /\ declined \subseteq Blocks
    /\ cut \subseteq {"list", "walk", "error", "undo", "leak", "pass5"}

(* Only what was walked has been undone.  It is not so when ^C cuts a walk *)
(* with an error, or when an undo leaves the block with the error too soon:*)
(* at a ^C, at a block whose bitmap still says dinode, or at once, because *)
(* the file refers to that block twice.  The undo of the next goes too far.*)
UndoneAsWalked == {"error", "undo"} \intersect cut = {}

(* No file that was walked to its end and kept ever loses a block: what it *)
(* refers to stays in use in the block map, whatever is undone for later   *)
(* files, whatever is answered, and when ^C cuts those short.  (pass1.c:   *)
(* "we can't have the undo functions freeing the block out from other the  *)
(* original referencing inode".)                                           *)
KeptStayInUse ==
    UndoneAsWalked =>
        \A f \in Whole : bl[f] = "dinode" /\ \A b \in SeenRefs(f) : bl[b] # "free"

(* And when pass5 is through nothing of it is free in the bitmap, except   *)
(* what the user has left so.                                              *)
KeptAreAllocated ==
    pc = "done" /\ UndoneAsWalked /\ "pass5" \notin cut =>
        \A f \in Whole : \A b \in Own(f) \ declined : bitmap[b] # "free"

(* What two kept files have in common is left to pass1b: there is a record *)
(* of the block, and it names all the files that have it but one, the      *)
(* first, which pass1b looks for.                                          *)
SharedIsRecorded ==
    UndoneAsWalked =>
        \A f, g \in Whole : \A b \in Own(f) \intersect Own(g) :
            f # g => /\ Recorded(b)
                     /\ dup_blocks[b].ref1_found \/ f \in dup_blocks[b].by \/ g \in dup_blocks[b].by

=============================================================================
