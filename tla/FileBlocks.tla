----------------------------- MODULE FileBlocks -----------------------------
(***************************************************************************)
(* The blocks of a directory that holds a hash table, as libgfs2/fs_ops.c  *)
(* maps, reads and writes them: the table is the data of the directory,    *)
(* first in the dinode itself, then in blocks of its own under a tree of   *)
(* pointers that grows in height.  A word is one pointer of the table or   *)
(* of the tree; it is the unit of offsets and sizes here.                  *)
(*                                                                         *)
(* f is a directory with its device: the content of each block, the free   *)
(* blocks of the bitmaps, and of the dinode in memory height, size,        *)
(* blocks, depth, entries and exhash (a flag).  f.end is "no" until the    *)
(* process exits ("exit") or writes to a block that is not its own         *)
(* ("stray").                                                              *)
(***************************************************************************)
EXTENDS Integers, Sequences, FiniteSets, FiniteSetsExt, SequencesExt

CONSTANTS
    LastBlock,      \* the blocks are 1 .. LastBlock
    DiPtrs,         \* words of a dinode (sd_diptrs)
    InPtrs          \* words of an indirect block, and of a block of the table (sd_inptrs)

ASSUME FileBlocksAssumption ==
    /\ {LastBlock, DiPtrs, InPtrs} \subseteq Nat \ {0} /\ DiPtrs =< InPtrs /\ InPtrs > 1

Dinode == 1
Block == 1 .. LastBlock

(* A leaf has depth, entries, next and dents, an indirect block and a      *)
(* block of the table (JD) words, a dinode dents or words.                 *)
Blank(kind) == [kind |-> kind, word |-> << >>, depth |-> 0, entries |-> 0, next |-> 0, dents |-> << >>]
Words(kind, n) == [Blank(kind) EXCEPT !.word = [i \in 0 .. n - 1 |-> 0]]
Exit(f) == [f EXCEPT !.end = "exit"]
Stray(f) == [f EXCEPT !.end = "stray"]

(* lgfs2_meta_alloc takes the first free block; there may be none.         *)
FirstFree(f) == IF f.free = {} THEN 0 ELSE Min(f.free)
Taken(f, b) == [f EXCEPT !.free = @ \ {b}]
gfs2_free_block(f, b) == [f EXCEPT !.free = @ \union {b}]

-----------------------------------------------------------------------------
(* The data of the dinode moves to block b, and the dinode points at it.   *)
(* unstuff_dinode makes b a block of the table, build_height an indirect   *)
(* block.                                                                  *)
MovedTo(f, b, kind) ==
    LET old == f.block[Dinode].word
    IN  [Taken(f, b) EXCEPT
           !.block[b] = [Words(kind, InPtrs) EXCEPT !.word = [i \in DOMAIN @ |-> IF i < DiPtrs THEN old[i] ELSE 0]],
           !.block[Dinode] = [Words("DI", DiPtrs) EXCEPT !.word[0] = b],
           !.blocks = @ + 1, !.height = @ + 1]
unstuff_dinode(f) == IF f.free = {} THEN Exit(f) ELSE MovedTo(f, FirstFree(f), "JD")

Capacity(height) == IF height = 0 THEN DiPtrs ELSE DiPtrs * (InPtrs ^ height)
calc_tree_height(f, size) ==
    CHOOSE h \in 0 .. size :
        /\ Capacity(h) >= size /\ Capacity(h) >= f.size
        /\ h = 0 \/ Capacity(h - 1) < size \/ Capacity(h - 1) < f.size

RaiseHeight(f) ==
    IF f.end # "no" THEN f
    ELSE IF \A i \in 0 .. DiPtrs - 1 : f.block[Dinode].word[i] = 0 THEN [f EXCEPT !.height = @ + 1]
    ELSE IF f.free = {} THEN Exit(f)
    ELSE MovedTo(f, FirstFree(f), "IN")
build_height(f, height) == FoldLeft(LAMBDA g, h : RaiseHeight(g), f, [i \in 1 .. height - f.height |-> i])

-----------------------------------------------------------------------------
(* find_metapath: the place of a block of the table at each height.        *)
MetaPath(f, lblock) == [i \in 1 .. f.height |-> (lblock \div (InPtrs ^ (f.height - i))) % InPtrs]

(* lookup_block: m.at is the block whose pointer is followed, 0 for none.  *)
(* A missing block is created where the walk may create one: its kind is   *)
(* given, "none" if it may not.                                            *)
lookup_block(m, index, kind) ==
    LET p == m.f.block[m.at].word[index]
        b == FirstFree(m.f)
    IN  IF p # 0 THEN [m EXCEPT !.at = p]
        ELSE IF kind = "none" \/ b = 0 THEN [m EXCEPT !.at = 0]
        ELSE [at |-> b,
              f |-> [Taken(m.f, b) EXCEPT !.block[m.at].word[index] = b, !.block[b] = Words(kind, InPtrs),
                                          !.blocks = @ + 1]]
Mapped(f, lblock, create) ==
    LET path == MetaPath(f, lblock)
    IN  FoldLeft(LAMBDA m, i : IF m.at = 0 THEN m
                               ELSE lookup_block(m, path[i], IF ~create THEN "none"
                                                             ELSE IF i = f.height THEN "JD" ELSE "IN"),
                 [f |-> f, at |-> Dinode], [i \in 1 .. f.height |-> i])
MappedIn(f, height, lblock, create) ==
    IF f.height >= height THEN Mapped(f, lblock, create)
    ELSE IF ~create THEN [f |-> f, at |-> 0]
    ELSE LET g == build_height(f, height)
         IN  IF g.end = "no" THEN Mapped(g, lblock, TRUE) ELSE [f |-> g, at |-> 0]
block_map(f, lblock, create) == MappedIn(f, calc_tree_height(f, (lblock + 1) * InPtrs), lblock, create)

-----------------------------------------------------------------------------
(* One word read or written.  When block_map cannot allocate a block,      *)
(* gfs2_writei takes its 0 for the number of a block and writes there.     *)
ReadAt(f, b, i) == IF b = 0 THEN 0 ELSE f.block[b].word[i % InPtrs]
ReadWord(f, i) ==
    IF f.height = 0 THEN f.block[Dinode].word[i] ELSE ReadAt(f, block_map(f, i \div InPtrs, FALSE).at, i)
Put(m, i, w) ==
    IF m.f.end # "no" THEN m.f
    ELSE IF m.at = 0 THEN Stray(m.f)
    ELSE [m.f EXCEPT !.block[m.at].word[i % InPtrs] = w]
WriteWord(f, i, w) ==
    IF f.end # "no" THEN f
    ELSE IF f.height = 0 THEN [f EXCEPT !.block[Dinode].word[i] = w]
    ELSE Put(block_map(f, i \div InPtrs, TRUE), i, w)

gfs2_readi(f, offset, n) ==
    [i \in 1 .. (IF offset + n > f.size THEN Max({0, f.size - offset}) ELSE n) |-> ReadWord(f, offset + i - 1)]

Resized(f, size) == IF f.end = "no" /\ f.size < size THEN [f EXCEPT !.size = size] ELSE f
gfs2_writei(f, offset, words) ==
    Resized(FoldLeft(LAMBDA g, i : WriteWord(g, offset + i - 1, words[i]),
                     IF f.height = 0 /\ offset + Len(words) > DiPtrs THEN unstuff_dinode(f) ELSE f,
                     [i \in 1 .. Len(words) |-> i]),
            offset + Len(words))
=============================================================================
