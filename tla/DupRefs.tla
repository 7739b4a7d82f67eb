------------------------------- MODULE DupRefs -------------------------------
(***************************************************************************)
(* pass1b of fsck.gfs2 (pass1b.c): the blocks that several inodes refer to *)
(* are given to one of them.  It starts from the duplicate records pass 1  *)
(* leaves (util.c), in which the first reference to each block is missing, *)
(* scans the dinodes for it, and then handles one record after the other:  *)
(* references of the wrong type go first, then all but the last one; data  *)
(* is cloned, extended attributes are cleared, any other inode is deleted  *)
(* with what it alone refers to (afterpass1_common.c, metawalk.c).         *)
(*                                                                         *)
(* Regular files and journals; a step is one reference of a walk or one    *)
(* inode of a record; ^C comes between any two.  ref_invinode_list stays   *)
(* empty: no caller of add_duplicate_ref passes an invalid inode.          *)
(***************************************************************************)
EXTENDS Integers, Sequences, FiniteSets, SequencesExt, FiniteSetsExt, Functions

CONSTANTS
    NBlocks,            \* blocks are 1 .. NBlocks; 1 .. NBlocks - 1 are scanned
    Images,             \* file systems to check
    Meddled,            \* those somebody meddles with: a bound
    Answers,            \* what may be answered to a question
    IntChoices,         \* what may be chosen after ^C: "skip", "abort"
    MaxUser             \* bound: ^C and answers other than yes in a run

Blocks == 1 .. NBlocks
Null == 0
BlockOrNull == Blocks \union {Null}

(* What a block looks like: a dinode, an indirect block, a leaf or a value *)
(* of extended attributes, anything else.                                  *)
Contents == {"DI", "IN", "EA", "other"}
MapStates == {"free", "used", "unlinked", "dinode"}

(* enum dup_ref_type; REF_TYPES stands for several of them and for none.   *)
RefTypes == {"data", "meta", "ea", "inode"}

ImageType == [content : [Blocks -> Contents], height : [Blocks -> 0 .. 2],
              ptrs : [Blocks -> Seq(BlockOrNull)], eattr : [Blocks -> BlockOrNull],
              system : SUBSET Blocks, unlinked : SUBSET Blocks]

ASSUME DupRefsAssumption ==
    /\ NBlocks \in Nat /\ MaxUser \in Nat
    /\ Images \subseteq ImageType /\ Meddled \subseteq Images
    /\ Answers \subseteq {"yes", "no", "abort"} /\ IntChoices \subseteq {"skip", "abort"}

VARIABLES
    fs,         \* height of the files, which are system inodes; history:
                \*   what pass 1 took for free, the inodes that shared a block,
                \*   the blocks the pass gets wrong, whether it may all of them
    content, ptrs, eattr, bitmap,
    dup_blocks, \* the duplicate records
    dups_found, dups_found_first,
    fsck_abort, skip_this_pass,
    pc,
    ip,         \* the block the scan has come to, or the inode at hand
    at,         \* the reference of it at hand
    walk,       \* its references still to delete
    skipped,    \* places of pointers whose block is not walked
    dt,         \* the block of the record at hand
    accept,     \* acceptable_ref, and that of the loop: REF_TYPES in step 3
    sought,
    ids,        \* the inodes of its list still to come, and in that loop:
    good,       \*   found_good_ref
    left,       \*   ref_inode_count
    this_ref,   \*   how ip refers to dt
    corrupt,    \*   whether ip is to be deleted
    meddled,   \* history: a ^C, or an answer other than yes
    ints

disk == <<fs, content, ptrs, eattr, bitmap>>
records == <<dup_blocks, dups_found, dups_found_first>>
flags == <<fsck_abort, skip_this_pass>>
walking == <<ip, at, walk, skipped>>
target == <<dt, accept, sought>>
loop == <<ids, good, left, this_ref, corrupt>>
user == <<meddled, ints>>
vars == <<disk, records, flags, pc, walking, target, loop, user>>

-----------------------------------------------------------------------------
(* The references of an inode, in the order check_metatree and             *)
(* check_inode_eattr walk them: "via" is the pointer that leads to the     *)
(* block the reference is in.                                              *)
Reference(place, to, type, via) == [place |-> place, to |-> to, type |-> type, via |-> via]

PointersIn(p, b, type, via) ==
    SelectSeq([k \in DOMAIN p[b] |-> Reference(<<b, k>>, p[b][k], type, via)],
              LAMBDA r : r.to # Null)

Root == <<0, 0>>

TreeOf(f, c, p, i) ==
    LET metas == PointersIn(p, i, "meta", Root)
    IN  CASE f.height[i] = 0 -> << >>
          [] f.height[i] = 1 -> PointersIn(p, i, "data", Root)
          [] f.height[i] = 2 ->
                metas \o FlattenSeq([k \in DOMAIN metas |->
                                        IF c[metas[k].to] # "IN" THEN << >>
                                        ELSE PointersIn(p, metas[k].to, "data", metas[k].place)])

(* The extended attributes: a leaf and the blocks of its values, or an     *)
(* indirect block and its leaves.                                          *)
AttributesOf(c, p, e, i) ==
    IF e[i] = Null THEN << >>
    ELSE <<Reference(<<i, 0>>, e[i], "ea", Root)>> \o
            (IF c[e[i]] \in {"EA", "IN"} THEN PointersIn(p, e[i], "ea", <<i, 0>>) ELSE << >>)

RefsIn(img, i) ==
    TreeOf(img, img.content, img.ptrs, i) \o AttributesOf(img.content, img.ptrs, img.eattr, i)

Tree(i) == TreeOf(fs, content, ptrs, i)
Attributes(i) == AttributesOf(content, ptrs, eattr, i)
All(i) == Tree(i) \o Attributes(i)
Uses(i) == { r.to : r \in Range(All(i)) } \union {i}

-----------------------------------------------------------------------------
(* Duplicate records (struct duptree, struct inode_with_dups).             *)
NoRefs == [t \in RefTypes |-> 0]
NewRecord == [refs |-> 1, found |-> FALSE, dupl |-> FALSE, list |-> << >>]

ReferenceCount(id) == FoldFunction(+, 0, id.n)

HasId(d, b, i) == b \in DOMAIN d /\ \E k \in DOMAIN d[b].list : d[b].list[k].inode = i
IdOf(d, b, i) == d[b].list[CHOOSE k \in DOMAIN d[b].list : d[b].list[k].inode = i]

GetRefType(id) ==
    LET types == { t \in RefTypes : id.n[t] # 0 }
    IN  IF Cardinality(types) = 1 THEN CHOOSE t \in types : TRUE ELSE "REF_TYPES"

(* add_duplicate_ref.  Once the first reference is found, or taken to be,  *)
(* further ones are ignored.  System inodes go to the head of the list.    *)
Inserted(list, i, system) ==
    LET new == [inode |-> i, n |-> NoRefs]
    IN  IF i \in system THEN <<new>> \o list ELSE Append(list, new)

RefsWith(dup, first, known) == dup.refs + (IF first /\ ~known THEN 0 ELSE 1)

WithinOneNever(dup, first, known) == dup.dupl
WithinOne(dup, first, known) == dup.dupl \/ (first /\ known)

Added(d, b, i, type, first, system) ==
    LET dup == IF b \in DOMAIN d THEN d[b] ELSE NewRecord
        known == HasId(d, b, i)
        grown == IF known THEN dup.list ELSE Inserted(dup.list, i, system)
        counted == [k \in DOMAIN grown |->
                        IF grown[k].inode = i THEN [grown[k] EXCEPT !.n[type] = @ + 1] ELSE grown[k]]
        again == known /\ ReferenceCount(IdOf(d, b, i)) > 0
    IN  IF dup.found \/ (first /\ b \notin DOMAIN d) THEN d
        ELSE [x \in DOMAIN d \union {b} |->
                IF x # b THEN d[x]
                ELSE [refs |-> RefsWith(dup, first, known),
                      found |-> first \/ again,
                      dupl |-> WithinOne(dup, first, known),
                      list |-> counted]]

(* dup_listent_delete: one less, however many references the inode had.    *)
Dropped(d, b, i) ==
    IF ~HasId(d, b, i) THEN d
    ELSE [d EXCEPT ![b].refs = @ - 1, ![b].list = SelectSeq(@, LAMBDA id : id.inode # i)]

DupDelete(d, b) == Restrict(d, DOMAIN d \ {b})

(* delete_all_dups *)
Forgotten(d, i) ==
    LET rest == [b \in DOMAIN d |-> Dropped(d, b, i)[b]]
    IN  Restrict(rest, { b \in DOMAIN d : HasId(d, b, i) => rest[b].refs # 0 })

(* count_dup_meta_refs *)
MetaRefs(d, b) == { k \in DOMAIN d[b].list : d[b].list[k].n["meta"] # 0 }

-----------------------------------------------------------------------------
(* What pass 1 leaves: the system inodes are walked first, the others by   *)
(* address; a block met again gets a record; what a duplicate indirect     *)
(* block or attribute leaf leads to is not walked again; a leaf met again  *)
(* is recorded as data.  What was not walked is free in the bitmap.  An    *)
(* inode whose data is metadata met before was to be removed, and the user *)
(* has kept it; none has data that is a dinode further on.                 *)
Walked(img, acc, i) ==
    LET visit(a, r) ==
            IF r.via \in a.skip THEN a
            ELSE IF r.to \notin a.seen THEN [a EXCEPT !.seen = @ \union {r.to}]
            ELSE [a EXCEPT
                    !.dups = Added(@, r.to, i,
                                   IF r.type = "ea" /\ img.content[r.to] = "EA" THEN "data" ELSE r.type,
                                   FALSE, img.system),
                    !.skip = IF r.type = "meta" \/ (r.type = "ea" /\ img.content[r.to] = "EA")
                             THEN @ \union {r.place} ELSE @]
    IN  FoldLeft(visit, [acc EXCEPT !.seen = @ \union {i}], RefsIn(img, i))

Inodes(img) == { i \in Blocks : img.content[i] = "DI" }

PassOne(img) ==
    LET order == SetToSortSeq(Inodes(img) \intersect img.system, <)
                    \o SetToSortSeq((Inodes(img) \ img.system) \ img.unlinked, <)
    IN  FoldLeft(LAMBDA acc, i : Walked(img, acc, i),
                 [seen |-> {}, dups |-> << >>, skip |-> {}], order)

-----------------------------------------------------------------------------
(* History, for the properties: the references of each inode (refs), and   *)
(* which of them the records (dups) do not say, or the loop below takes    *)
(* wrong.                                                                  *)
Pointing(refs, i, b) == SelectSeq(refs[i], LAMBDA r : r.to = b)
Owners(refs, b) == { i \in DOMAIN refs : Pointing(refs, i, b) # << >> }
Having(refs, b) == Owners(refs, b) \union ({b} \intersect DOMAIN refs)

(* A system inode lies above a user's: pass 1 met it first, and records    *)
(* the user's; the scan meets the user's first, and stops.  The system     *)
(* inode is on no list.                                                    *)
OrderTurned(refs, b, system) ==
    \E s \in Having(refs, b) \intersect system : \E u \in Having(refs, b) \ system : u < s

(* An inode has the block more than once, and another has it too, or it    *)
(* is not all data: its entry goes with one of the references.             *)
TwiceInOne(refs, b) ==
    \E i \in Having(refs, b) :
        /\ Len(Pointing(refs, i, b)) + (IF i = b THEN 1 ELSE 0) > 1
        /\ Having(refs, b) # {i} \/ \E r \in Range(Pointing(refs, i, b)) : r.type # "data"

(* The block is below a shared one, which is walked for one inode only,    *)
(* and also somewhere else.                                                *)
AlsoBelow(refs, b, dups) ==
    LET places == { r.place : r \in UNION { Range(Pointing(refs, i, b)) : i \in DOMAIN refs } }
    IN  Cardinality(places) > 1 /\ \E p \in places : p[1] \in dups

Wronged(refs, dups, system) ==
    { b \in Blocks : OrderTurned(refs, b, system) \/ TwiceInOne(refs, b) \/ AlsoBelow(refs, b, dups) }

(* With an indirect block, what it leads to.                               *)
Unsettled(img, wronged) ==
    wronged \union UNION { Range(img.ptrs[b]) : b \in { x \in wronged : img.content[x] = "IN" } }

(* Of an inode that is such a block everything may go wrong; and of one    *)
(* whose attributes are shared, if they are shared by three, begin with a  *)
(* shared indirect block, or are not the only block it shares: they are    *)
(* cleared, and its other entries stay as they are.                        *)
Tangled(img, refs, dups, wronged) ==
    \E i \in DOMAIN refs :
        LET attributes == { r.to : r \in Range(AttributesOf(img.content, img.ptrs, img.eattr, i)) }
        IN  \/ i \in wronged
            \/ /\ attributes \intersect dups # {}
               /\ \/ Cardinality({ b \in dups : i \in Having(refs, b) }) > 1
                  \/ attributes \intersect wronged # {}
                  \/ img.eattr[i] \in dups /\ img.content[img.eattr[i]] = "IN"
                  \/ \E b \in attributes : Cardinality(Having(refs, b)) > 2

-----------------------------------------------------------------------------
BitmapOf(img, seen) ==
    [b \in Blocks |-> IF b \in img.unlinked THEN "unlinked"
                      ELSE IF b \notin seen THEN "free"
                      ELSE IF img.content[b] = "DI" THEN "dinode" ELSE "used"]

StateOf(img, one, refs) ==
    LET dups == DOMAIN one.dups
        wronged == Wronged(refs, dups, img.system)
    IN  [height |-> img.height, system |-> img.system,
         lost |-> { b \in Blocks : BitmapOf(img, one.seen)[b] = "free" /\ Owners(refs, b) # {} },
         sharers |-> [b \in dups |-> Owners(refs, b)],
         unsettled |-> Unsettled(img, wronged), tangled |-> Tangled(img, refs, dups, wronged)]

Init ==
    /\ \E img \in Images :
       \E one \in {PassOne(img)}, refs \in {[i \in Inodes(img) |-> RefsIn(img, i)]} :
        /\ fs = StateOf(img, one, refs)
        /\ content = img.content /\ ptrs = img.ptrs /\ eattr = img.eattr
        /\ bitmap = BitmapOf(img, one.seen)
        /\ dup_blocks = one.dups
        /\ dups_found = Cardinality(DOMAIN one.dups)
        /\ ints = IF img \in Meddled THEN 0 ELSE MaxUser
    /\ dups_found_first = 0
    /\ fsck_abort = FALSE /\ skip_this_pass = FALSE
    /\ pc = "scan" /\ ip = 0 /\ at = 1 /\ walk = << >> /\ skipped = {}
    /\ dt = 0 /\ accept = "REF_TYPES" /\ sought = "REF_TYPES"
    /\ ids = << >> /\ good = FALSE /\ left = 0 /\ this_ref = "REF_TYPES" /\ corrupt = FALSE
    /\ meddled = FALSE

-----------------------------------------------------------------------------
Running == pc \notin {"done", "error"}

(* A question clears fsck_abort; ^C at the question sets it.               *)
Answered(ans) == ans \in Answers /\ fsck_abort' = (ans = "abort")

(* Together, the questions of one step: their answers are all yes, or one  *)
(* is not.                                                                 *)
Counted(yes) ==
    IF yes THEN UNCHANGED user
    ELSE ints < MaxUser /\ ints' = ints + 1 /\ meddled' = TRUE

Query(ans) == Answered(ans) /\ Counted(ans = "yes")

(* check_n_fix_bitmap *)
SetBitmap(b, new) ==
    IF bitmap[b] = new THEN UNCHANGED <<bitmap, fsck_abort, user>>
    ELSE \E ans \in Answers :
            /\ Query(ans)
            /\ bitmap' = IF ans = "yes" THEN [bitmap EXCEPT ![b] = new] ELSE bitmap

Interrupt ==
    /\ Running /\ ints < MaxUser /\ ints' = ints + 1 /\ meddled' = TRUE
    /\ \/ "skip" \in IntChoices /\ skip_this_pass' = TRUE /\ UNCHANGED fsck_abort
       \/ "abort" \in IntChoices /\ fsck_abort' = TRUE /\ UNCHANGED skip_this_pass
    /\ UNCHANGED <<disk, records, pc, walking, target, loop>>

-----------------------------------------------------------------------------
(* The scan for the first references (pass1b, find_block_ref).             *)
AllFound == dups_found_first = dups_found

ToScan == { b \in ip + 1 .. NBlocks - 1 : bitmap[b] \in {"dinode", "unlinked"} }

ScanDone ==
    /\ pc = "scan" /\ (skip_this_pass \/ fsck_abort \/ AllFound \/ ToScan = {})
    /\ pc' = "pick"
    /\ UNCHANGED <<disk, records, flags, walking, target, loop, user>>

(* The next dinode; a block still marked unlinked ends the pass.           *)
ScanNext ==
    /\ pc = "scan" /\ ~skip_this_pass /\ ~fsck_abort /\ ~AllFound /\ ToScan # {}
    /\ ip' = Min(ToScan) /\ at' = 0
    /\ pc' = IF bitmap[Min(ToScan)] = "unlinked" THEN "error" ELSE "refs"
    /\ UNCHANGED <<disk, records, flags, walk, skipped, target, loop, user>>

(* find_block_ref: the block itself (at 0), then its references; a flag    *)
(* ends the walk of the tree, not that of the attributes.                  *)
FirstReference(b, type) ==
    /\ dup_blocks' = Added(dup_blocks, b, ip, type, TRUE, fs.system)
    /\ dups_found_first' = dups_found_first
            + (IF b \in DOMAIN dup_blocks /\ ~dup_blocks[b].found THEN 1 ELSE 0)
    /\ UNCHANGED dups_found

FindRef ==
    /\ pc = "refs"
    /\ \/ at = 0 /\ FirstReference(ip, "inode") /\ at' = 1 /\ UNCHANGED pc
       \/ at = Len(All(ip)) + 1 /\ pc' = "scan" /\ UNCHANGED <<records, at>>
       \/ /\ at \in 1 .. Len(Tree(ip)) /\ (skip_this_pass \/ fsck_abort)
          /\ at' = Len(Tree(ip)) + 1 /\ UNCHANGED <<records, pc>>
       \/ /\ at \in DOMAIN All(ip)
          /\ at <= Len(Tree(ip)) => ~skip_this_pass /\ ~fsck_abort
          /\ FirstReference(All(ip)[at].to, All(ip)[at].type) /\ at' = at + 1 /\ UNCHANGED pc
    /\ UNCHANGED <<disk, flags, ip, walk, skipped, target, loop, user>>

-----------------------------------------------------------------------------
(* The records, one after the other.                                       *)
Acceptable(b) ==
    CASE content[b] = "DI" -> "inode" [] content[b] = "EA" -> "ea"
      [] content[b] = "IN" -> "meta"  [] content[b] = "other" -> "data"

(* revise_dup_handler *)
ListOf(d, b) == IF b \in DOMAIN d THEN d[b].list ELSE << >>
RefCount(b) == FoldLeft(LAMBDA sum, id : sum + ReferenceCount(id), 0, ListOf(dup_blocks, b))

NoRecordLeft ==
    /\ pc = "pick" /\ DOMAIN dup_blocks = {}
    /\ pc' = "done"
    /\ UNCHANGED <<disk, records, flags, walking, target, loop, user>>

HandleDupBlk ==
    /\ pc = "pick" /\ DOMAIN dup_blocks # {} /\ ~skip_this_pass
    /\ dt' = Min(DOMAIN dup_blocks) /\ accept' = Acceptable(dt') /\ UNCHANGED sought
    /\ pc' = "step2"
    /\ UNCHANGED <<disk, records, flags, walking, loop, user>>

(* With skip_this_pass no record is handled, and the loop has no end.      *)
SpinSkipped ==
    /\ pc = "pick" /\ DOMAIN dup_blocks # {} /\ skip_this_pass
    /\ UNCHANGED vars

(* Steps 2 and 3 of handle_dup_blk.                                        *)
Resolve(type, then) ==
    /\ IF RefCount(dt) > 1
       THEN /\ ids' = [k \in DOMAIN dup_blocks[dt].list |-> dup_blocks[dt].list[k].inode]
            /\ left' = Len(dup_blocks[dt].list) /\ good' = FALSE
            /\ sought' = type /\ pc' = "resolve"
       ELSE pc' = then /\ UNCHANGED <<ids, left, good, sought>>
    /\ UNCHANGED <<disk, records, flags, walking, dt, accept, this_ref, corrupt, user>>

WrongType == pc = "step2" /\ Resolve(accept, "step3")
KeepOne == pc = "step3" /\ Resolve("REF_TYPES", "last")

(* resolve_dup_references, one inode after the other.                      *)
LoopOver == ids = << >> \/ skip_this_pass \/ fsck_abort \/ left = 1

ResolveDone ==
    /\ pc = "resolve" /\ LoopOver
    /\ pc' = (IF sought # "REF_TYPES" THEN "step3" ELSE "last")
    /\ UNCHANGED <<disk, records, flags, walking, target, loop, user>>

(* The inode whose turn it is, and whether its reference can stay: it is   *)
(* of the type the block has, or it is of a system inode and none stayed   *)
(* before it.                                                              *)
Turn == pc = "resolve" /\ ~LoopOver
TheInode == Head(ids)
TheType == GetRefType(IdOf(dup_blocks, dt, TheInode))
Suits == sought # "REF_TYPES" /\ TheType = sought /\ bitmap[TheInode] = "dinode"
FavouredNot == FALSE
Favoured == ~good /\ TheInode \in fs.system
ToClone == sought = "REF_TYPES" /\ TheType = "data"

KeepReference ==
    /\ Turn /\ (Suits \/ Favoured)
    /\ good' = TRUE /\ ids' = Tail(ids)
    /\ UNCHANGED <<disk, records, flags, pc, walking, target, left, this_ref, corrupt, user>>

NewRecords(d) == dup_blocks' = d /\ UNCHANGED <<dups_found, dups_found_first>>

(* Answered no: the entry goes, and ref_inode_count stays as it is.        *)
Refused ==
    /\ Turn /\ ~Suits /\ ~Favoured /\ ~ToClone
    /\ \E ans \in Answers \ {"yes"} : Query(ans)
    /\ NewRecords(Dropped(dup_blocks, dt, TheInode)) /\ ids' = Tail(ids)
    /\ UNCHANGED <<disk, skip_this_pass, pc, walking, target, good, left, this_ref, corrupt>>

(* clone_data: a free block gets the content, and the pointer leads to it; *)
(* without a free block the pointer is zeroed.                             *)
FreeBlocks == { b \in Blocks : bitmap[b] = "free" }

CloneAtUnmarked(place) ==
    IF FreeBlocks = {}
    THEN /\ ptrs' = [ptrs EXCEPT ![place[1]][place[2]] = Null]
         /\ UNCHANGED <<content, bitmap>>
    ELSE LET new == Min(FreeBlocks)
         IN  /\ content' = [content EXCEPT ![new] = content[dt]]
             /\ ptrs' = [ptrs EXCEPT ![new] = ptrs[dt], ![place[1]][place[2]] = new]
             /\ UNCHANGED bitmap

CloneAt(place) ==
    IF FreeBlocks = {}
    THEN /\ ptrs' = [ptrs EXCEPT ![place[1]][place[2]] = Null]
         /\ UNCHANGED <<content, bitmap>>
    ELSE LET new == Min(FreeBlocks)
         IN  /\ bitmap' = [bitmap EXCEPT ![new] = "used"]
             /\ content' = [content EXCEPT ![new] = content[dt]]
             /\ ptrs' = [ptrs EXCEPT ![new] = ptrs[dt], ![place[1]][place[2]] = new]

DataPlaces(i) == SelectSeq(Tree(i), LAMBDA r : r.type = "data" /\ r.to = dt)

(* clone_data_block: the last reference of the inode; its entry goes, also *)
(* when the answer was no.                                                 *)
CloneDataBlock ==
    /\ Turn /\ ~Favoured /\ ToClone
    /\ \E ans \in Answers :
        /\ Query(ans)
        /\ IF ans = "yes" /\ DataPlaces(TheInode) # << >>
           THEN CloneAt(Last(DataPlaces(TheInode)).place)
           ELSE UNCHANGED <<content, ptrs, bitmap>>
    /\ NewRecords(Dropped(dup_blocks, dt, TheInode))
    /\ left' = Len(dup_blocks'[dt].list) /\ ids' = Tail(ids)
    /\ UNCHANGED <<fs, eattr, skip_this_pass, pc, walking, target, good, this_ref, corrupt>>

-----------------------------------------------------------------------------
(* An inode is deleted, or its attributes: the attributes go first, unless *)
(* they begin with the very block.  Whether the inode is then corrupt is   *)
(* read from its entry, which by then may have been freed: such a read     *)
(* gives any value.                                                        *)
MayBeCorrupt(type, id) ==
    IF type = "ea" THEN {FALSE} ELSE {id.n["data"] # 0 \/ id.n["meta"] # 0}
ReadAfterFree(type) == IF type = "ea" THEN {FALSE} ELSE BOOLEAN

DeleteInode ==
    /\ Turn /\ ~Suits /\ ~Favoured /\ ~ToClone
    /\ Query("yes")
    /\ ip' = TheInode /\ this_ref' = TheType /\ skipped' = {}
    /\ CASE bitmap[TheInode] = "free" ->
                /\ pc' = "forget" /\ corrupt' = FALSE
                /\ UNCHANGED <<eattr, records, walk, left>>
         [] bitmap[TheInode] # "free" /\ eattr[TheInode] = dt ->
                /\ eattr' = [eattr EXCEPT ![TheInode] = Null]
                /\ NewRecords(Dropped(dup_blocks, dt, TheInode)) /\ left' = left - 1
                /\ corrupt' \in ReadAfterFree(TheType)
                /\ pc' = (IF corrupt' THEN "free" ELSE "forget") /\ UNCHANGED walk
         [] bitmap[TheInode] # "free" /\ eattr[TheInode] # dt ->
                /\ corrupt' \in MayBeCorrupt(TheType, IdOf(dup_blocks, dt, TheInode))
                /\ walk' = Attributes(TheInode) /\ pc' = "attributes"
                /\ UNCHANGED <<eattr, records, left>>
    /\ UNCHANGED <<fs, content, ptrs, bitmap, skip_this_pass, at, target, ids, good>>

(* delete_block_if_notdup with find_remove_dup: the entry ip has for the   *)
(* block goes; the block is freed if no reference to it is on record.      *)
AfterRemoval(b) ==
    LET d == Dropped(dup_blocks, b, ip)
    IN  IF HasId(dup_blocks, b, ip) /\ d[b].refs = 0 THEN DupDelete(d, b) ELSE d
StillReferenced(b) == b \in DOMAIN AfterRemoval(b)

RemovedLastMetaNever(b) == FALSE

(* The last reference as metadata is gone: the block is walked, though it  *)
(* is not freed.                                                           *)
RemovedLastMeta(b) ==
    /\ HasId(dup_blocks, b, ip) /\ IdOf(dup_blocks, b, ip).n["meta"] # 0
    /\ MetaRefs(AfterRemoval(b), b) = {}

DeleteBlockIfNotdup(r) ==
    IF bitmap[r.to] = "free" THEN UNCHANGED <<bitmap, records, fsck_abort, user, skipped>>
    ELSE /\ NewRecords(AfterRemoval(r.to))
         /\ IF StillReferenced(r.to)
            THEN /\ skipped' = IF r.type = "meta" /\ ~RemovedLastMeta(r.to)
                               THEN skipped \union {r.place} ELSE skipped
                 /\ UNCHANGED <<bitmap, fsck_abort, user>>
            ELSE SetBitmap(r.to, "free") /\ UNCHANGED skipped

(* del_eattr_generic, delete_eattr_extentry: the blocks below a duplicate  *)
(* are walked all the same.                                                *)
DeleteAttribute ==
    /\ pc = "attributes" /\ walk # << >>
    /\ DeleteBlockIfNotdup(Head(walk)) /\ walk' = Tail(walk)
    /\ eattr' = [eattr EXCEPT ![ip] = IF @ = Head(walk).to THEN Null ELSE @]
    /\ UNCHANGED <<fs, content, ptrs, skip_this_pass, pc, ip, at, target, loop>>

AttributesDone ==
    /\ pc = "attributes" /\ walk = << >>
    /\ left' = left - 1
    /\ corrupt' \in (IF HasId(dup_blocks, dt, ip) THEN {corrupt} ELSE ReadAfterFree(this_ref))
    /\ pc' = (IF corrupt' THEN "free" ELSE "forget")
    /\ UNCHANGED <<disk, records, flags, walking, target, ids, good, this_ref, user>>

FreeInode ==
    /\ pc = "free"
    /\ SetBitmap(ip, "free") /\ left' = left - 1
    /\ walk' = Tree(ip) /\ pc' = "tree"
    /\ UNCHANGED <<fs, content, ptrs, eattr, records, skip_this_pass, ip, at, skipped, target,
                   ids, good, this_ref, corrupt>>

(* check_metatree: a flag ends it.                                         *)
DeleteReference ==
    /\ pc = "tree" /\ walk # << >> /\ ~skip_this_pass /\ ~fsck_abort
    /\ walk' = Tail(walk)
    /\ IF Head(walk).via \in skipped THEN UNCHANGED <<bitmap, records, fsck_abort, user, skipped>>
       ELSE DeleteBlockIfNotdup(Head(walk))
    /\ UNCHANGED <<fs, content, ptrs, eattr, skip_this_pass, pc, ip, at, target, loop>>

TreeDone ==
    /\ pc = "tree" /\ (walk = << >> \/ skip_this_pass \/ fsck_abort)
    /\ pc' = "forget" /\ walk' = << >>
    /\ UNCHANGED <<disk, records, flags, ip, at, skipped, target, loop, user>>

(* delete_all_dups, for an inode that was to go as a whole.                *)
ForgetInode ==
    /\ pc = "forget"
    /\ NewRecords(IF this_ref = "ea" THEN dup_blocks ELSE Forgotten(dup_blocks, ip))
    /\ ids' = Tail(ids) /\ pc' = "resolve"
    /\ UNCHANGED <<disk, flags, walking, target, good, left, this_ref, corrupt, user>>

-----------------------------------------------------------------------------
(* The end of handle_dup_blk.  One inode is left: its type is what the     *)
(* block becomes, once its further references are cloned.                  *)
LastId == dup_blocks[dt].list[1]
OneReferenceLeft == RefCount(dt) = 1
OneLeft == Len(ListOf(dup_blocks, dt)) = 1

ResolveLastReference ==
    /\ pc = "last" /\ OneLeft
    /\ ip' = LastId.inode
    /\ walk' = IF ~dup_blocks[dt].dupl \/ DataPlaces(ip') = << >> THEN << >>
               ELSE Tail(DataPlaces(ip'))
    /\ pc' = "clone"
    /\ UNCHANGED <<disk, records, flags, at, skipped, target, loop, user>>

(* clone_dup_ref_in_inode: all but the first, until a flag.                *)
CloneDupRef ==
    /\ pc = "clone" /\ walk # << >> /\ ~skip_this_pass /\ ~fsck_abort
    /\ \E ans \in Answers :
        /\ Query(ans)
        /\ IF ans = "yes" THEN CloneAt(Head(walk).place) ELSE UNCHANGED <<content, ptrs, bitmap>>
    /\ walk' = Tail(walk)
    /\ UNCHANGED <<fs, eattr, records, skip_this_pass, pc, ip, at, skipped, target, loop>>

SetBlockType ==
    /\ pc = "clone" /\ (walk = << >> \/ skip_this_pass \/ fsck_abort)
    /\ LET has(t) == LastId.n[t] # 0
           bad == ~has("inode") /\ ~has("data") /\ ~has("meta") /\ accept # "ea"
       IN  CASE bitmap[ip] = "free" -> UNCHANGED <<bitmap, eattr, fsck_abort, user>>
             [] bitmap[ip] # "free" /\ has("inode") -> SetBitmap(ip, "dinode") /\ UNCHANGED eattr
             [] bitmap[ip] # "free" /\ ~has("inode") /\ ~bad ->
                    SetBitmap(dt, "used") /\ UNCHANGED eattr
             [] bitmap[ip] # "free" /\ bad ->
                    \E ans \in Answers :
                        /\ Query(ans)
                        /\ IF ans # "yes" THEN UNCHANGED <<eattr, bitmap>>
                           ELSE /\ eattr' = [eattr EXCEPT ![ip] = Null]
                                /\ bitmap' = [bitmap EXCEPT ![dt] = "free"]
    /\ NewRecords(DupDelete(dup_blocks, dt))
    /\ walk' = << >> /\ pc' = "pick"
    /\ UNCHANGED <<fs, content, ptrs, skip_this_pass, ip, at, skipped, target, loop>>

(* None is left: the block is free.  Several: the record stays, and is     *)
(* handled again.                                                          *)
NoReferenceLeft ==
    /\ pc = "last" /\ ~OneLeft /\ RefCount(dt) = 0
    /\ NewRecords(DupDelete(dup_blocks, dt)) /\ SetBitmap(dt, "free")
    /\ pc' = "pick"
    /\ UNCHANGED <<fs, content, ptrs, eattr, skip_this_pass, walking, target, loop>>

ReferencesRemain ==
    /\ pc = "last" /\ ~OneLeft /\ RefCount(dt) # 0
    /\ pc' = "pick"
    /\ UNCHANGED <<disk, records, flags, walking, target, loop, user>>

-----------------------------------------------------------------------------
Pass1b ==
    \/ ScanDone \/ ScanNext \/ FindRef \/ NoRecordLeft \/ HandleDupBlk
    \/ WrongType \/ KeepOne \/ ResolveDone \/ KeepReference \/ Refused \/ CloneDataBlock
    \/ DeleteInode \/ DeleteAttribute \/ AttributesDone \/ FreeInode
    \/ DeleteReference \/ TreeDone \/ ForgetInode
    \/ ResolveLastReference \/ CloneDupRef \/ SetBlockType \/ NoReferenceLeft \/ ReferencesRemain

Next == Pass1b \/ Interrupt \/ SpinSkipped \/ (~Running /\ UNCHANGED vars)

(* The program goes on while it can: it runs alone.                        *)
Spec == Init /\ [][Next]_vars /\ WF_vars(Pass1b)

-----------------------------------------------------------------------------
(* Properties.                                                             *)
Kept == { i \in Blocks : content[i] = "DI" /\ bitmap[i] = "dinode" }
UsesOf(b) ==
    (IF b \in Kept THEN {<<b, Root>>} ELSE {})
        \union UNION { { <<i, r.place>> : r \in { x \in Range(All(i)) : x.to = b } } : i \in Kept }
Between == pc \in {"pick", "done"}

(* The blocks stay blocks, and a record counts no fewer references than    *)
(* its list has inodes (add_duplicate_ref, dup_listent_delete).            *)
TypeOK ==
    /\ content \in [Blocks -> Contents] /\ ptrs \in [Blocks -> Seq(BlockOrNull)]
    /\ eattr \in [Blocks -> BlockOrNull] /\ bitmap \in [Blocks -> MapStates]
    /\ DOMAIN dup_blocks \subseteq Blocks
    /\ \A b \in DOMAIN dup_blocks : dup_blocks[b].refs >= Len(dup_blocks[b].list)

(* The blocks the properties speak of: those pass 1 took for free although *)
(* an inode leads to them are left out, since a clone may get one.         *)
Settled == (Blocks \ fs.lost) \ fs.unsettled
Undisturbed == ~meddled /\ ~fs.tangled

(* A run of pass1b that is told yes leaves no settled block to two         *)
(* references: of two inodes, or of one, or of one and the dinode it is.   *)
Unshared ==
    pc = "done" /\ Undisturbed => \A b \in Settled : Cardinality(UsesOf(b)) <= 1

(* Deleting an inode never frees what an inode that stays refers to: its   *)
(* entries in the other records go with it (delete_all_dups), and a block  *)
(* with a reference left is not freed (delete_block_if_notdup).            *)
KeptKeepTheirBlocks ==
    Between /\ Undisturbed =>
        \A i \in Kept : \A b \in Uses(i) \intersect Settled : bitmap[b] # "free"

(* What the deleted inodes alone referred to is free at the end, the       *)
(* blocks below a shared indirect block with its last reference included.  *)
NoneLeaked ==
    pc = "done" /\ Undisturbed =>
        \A b \in Blocks \ fs.unsettled : bitmap[b] = "used" => \E i \in Kept : b \in Uses(i)

(* No system inode is deleted for sharing a block with a user's, whatever  *)
(* is answered: with the users' above it, it is the first in the list and  *)
(* is passed over.                                                         *)
SystemKept == ~fs.tangled => \A s \in fs.system \ fs.unsettled : bitmap[s] = "dinode"

(* The pass comes to an end when nobody interferes: every time round its   *)
(* loop a record goes, whatever inodes the others lose on the way.         *)
PassEnds == ~fs.tangled => <>(meddled \/ ~Running)

(* What pass1b.c says of its loop, "resolve all but the last dinode that   *)
(* has a duplicate reference": one that shared the block is kept.          *)
OneIsKept ==
    pc = "done" /\ ~meddled =>
        \A b \in DOMAIN fs.sharers : fs.sharers[b] \intersect Kept # {}
=============================================================================
