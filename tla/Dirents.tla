------------------------------- MODULE Dirents ------------------------------
(***************************************************************************)
(* The directories of libgfs2/fs_ops.c, as mkfs, fsck and gfs2_convert use *)
(* them: entries in records that fill a block, first in the dinode, then   *)
(* in leaves found through a hash table that doubles and whose leaves      *)
(* split, and in chains of leaves once the table can grow no more.         *)
(***************************************************************************)
EXTENDS FileBlocks

CONSTANTS
    Names,              \* with "." and ".."
    Hash, HashBits,     \* the hash of each name, a number of that many bits (32)
    Size,               \* the least record of each name, in units of 8 bytes
    DiRoom, LeafRoom,   \* the room for records in a dinode and in a leaf
    HashPtrs,           \* words of the first table (sd_hash_ptrs)
    MaxDepth            \* GFS2_DIR_MAX_DEPTH (17)

ASSUME DirentsAssumption ==
    /\ {".", ".."} \subseteq Names /\ "" \notin Names
    /\ Hash \in [Names -> 0 .. 2 ^ HashBits - 1] /\ MaxDepth \in 1 .. HashBits
    /\ Size \in [Names -> 1 .. LeafRoom] /\ Size["."] + Size[".."] =< DiRoom /\ DiRoom =< LeafRoom
    /\ HashPtrs \in { 2 ^ n : n \in 1 .. MaxDepth } /\ HashPtrs =< DiPtrs

Idle == [name |-> "", inum |-> 0, at |-> 0]
Free == ""          \* the name of a record that holds no entry (formal inode number 0)

-----------------------------------------------------------------------------
(* Records: sequences of [name, inum, rec, was] that fill the block.  A    *)
(* record that loses its entry keeps the name and the hash it had.         *)
Record(name, inum, rec) == [name |-> name, inum |-> inum, rec |-> rec, was |-> name]
Freed(d) == [d EXCEPT !.name = Free, !.inum = 0]
Used(dents) == SelectSeq(dents, LAMBDA d : d.name # Free)
Names_of(dents) == { dents[i].name : i \in DOMAIN dents } \ {Free}

(* dirent_alloc: the first record with room, or with room behind its name. *)
Fits(d, size) == IF d.name = Free THEN d.rec >= size ELSE d.rec >= Size[d.name] + size
HasRoom(dents, entries, size) == entries = 0 \/ \E i \in DOMAIN dents : Fits(dents[i], size)
PutAt(dents, i, name, inum) ==
    IF dents[i].name = Free THEN [dents EXCEPT ![i] = Record(name, inum, @.rec)]
    ELSE InsertAt([dents EXCEPT ![i].rec = Size[dents[i].name]], i + 1,
                  Record(name, inum, dents[i].rec - Size[dents[i].name]))
dirent_alloc(dents, entries, room, name, inum) ==
    IF entries = 0 THEN << Record(name, inum, room) >>
    ELSE PutAt(dents, Min({ i \in DOMAIN dents : Fits(dents[i], Size[name]) }), name, inum)

(* dirent2_del: the record goes to the one before it; the first stays, free.*)
dirent2_del(dents, i) ==
    IF i = 1 THEN [dents EXCEPT ![1] = Freed(@)]
    ELSE RemoveAt([dents EXCEPT ![i - 1].rec = @ + dents[i].rec], i)

(* leaf_search: the place of the name, 0 if it is not there, -1 when more  *)
(* entries are met than there should be.                                   *)
LeafSearchFull(dents, entries, name) ==
    LET places == { i \in DOMAIN dents : dents[i].name = name }
        place == IF places = {} THEN Len(dents) + 1 ELSE Min(places)
    IN  IF Len(Used(SubSeq(dents, 1, place - 1))) >= entries THEN -1
        ELSE IF places = {} THEN 0 ELSE place
leaf_search(dents, entries, name) ==
    LET places == { i \in DOMAIN dents : dents[i].name = name }
        place == IF places = {} THEN Len(dents) + 1 ELSE Min(places)
    IN  IF Len(Used(SubSeq(dents, 1, place - 1))) > entries THEN -1
        ELSE IF places = {} THEN 0 ELSE place

-----------------------------------------------------------------------------
(* The leaves of a name: lindex in the table, then along the chain.        *)
lindex(f, name) == Hash[name] \div 2 ^ (HashBits - f.depth)
Table(f) == [i \in 0 .. 2 ^ f.depth - 1 |-> ReadWord(f, i)]
IsLeaf(f, b) == b \in Block /\ f.block[b].kind = "LF"

(* get_next_leaf ends a chain at a leaf that points to itself or to no leaf.*)
NextLeaf(f, b) ==
    LET n == f.block[b].next IN IF n = b \/ ~IsLeaf(f, n) THEN 0 ELSE n
Longer(f, leaves) == IF NextLeaf(f, Last(leaves)) = 0 THEN leaves ELSE Append(leaves, NextLeaf(f, Last(leaves)))
Chain(f, first) == FoldLeft(LAMBDA leaves, k : Longer(f, leaves), << first >>, [k \in 1 .. LastBlock |-> k])

(* The first leaf of a sequence where the search finds the name or fails.  *)
Hit(f, leaves, name) ==
    LET hits == { k \in DOMAIN leaves : leaf_search(f.block[leaves[k]].dents, f.block[leaves[k]].entries, name) # 0 }
    IN  IF hits = {} THEN 0 ELSE leaves[Min(hits)]
PlaceIn(f, b, name) == leaf_search(f.block[b].dents, f.block[b].entries, name)
InodeIn(f, b, name) ==
    IF b = 0 \/ PlaceIn(f, b, name) =< 0 THEN 0 ELSE f.block[b].dents[PlaceIn(f, b, name)].inum

(* dir_search: the inode of a name, 0 if it is not found.                  *)
linked_leaf_search(f, name) ==
    IF 2 ^ f.depth # f.size \/ ~IsLeaf(f, ReadWord(f, lindex(f, name))) THEN 0
    ELSE Hit(f, Chain(f, ReadWord(f, lindex(f, name))), name)
LinearPlace(f, name) == leaf_search(f.block[Dinode].dents, f.entries, name)
dir_search(f, name) ==
    IF f.exhash THEN InodeIn(f, linked_leaf_search(f, name), name)
    ELSE IF LinearPlace(f, name) =< 0 THEN 0 ELSE f.block[Dinode].dents[LinearPlace(f, name)].inum

-----------------------------------------------------------------------------
(* dir_split_leaf: a new leaf takes the lower half of the pointers, which  *)
(* start at start, and the entries with a hash below the divider.          *)
Divider(f, start, half) == (start + half) * 2 ^ (HashBits - f.depth)
MovesAtDivider(d, divider) == d.name # Free /\ Hash[d.name] =< divider
Moves(d, divider) == d.name # Free /\ Hash[d.name] < divider
Left(dents, divider) ==
    FoldLeft(LAMBDA left, d :
                 IF ~Moves(d, divider) THEN Append(left, d)
                 ELSE IF left = << >> THEN << Freed(d) >>
                 ELSE [left EXCEPT ![Len(left)].rec = @ + d.rec],
             << >>, dents)
Packed(gone) ==
    IF gone = << >> THEN << Record(Free, 0, LeafRoom) >>
    ELSE FoldLeft(LAMBDA dents, k : dirent_alloc(dents, k - 1, LeafRoom, gone[k].name, gone[k].inum),
                  << >>, [k \in DOMAIN gone |-> k])
Split(f, leaf, bn, divider) ==
    LET old == f.block[leaf]
        gone == SelectSeq(old.dents, LAMBDA d : Moves(d, divider))
    IN  IF f.end # "no" THEN f
        ELSE [f EXCEPT
           !.block[leaf] = [old EXCEPT !.dents = Left(@, divider), !.entries = @ - Len(gone), !.depth = @ + 1],
           !.block[bn] = [Blank("LF") EXCEPT !.dents = Packed(gone), !.entries = Len(gone), !.depth = old.depth + 1],
           !.blocks = @ + 1]
SplitInto(f, start, leaf, bn, half) ==
    Split(gfs2_writei(Taken(f, bn), start, [i \in 1 .. half |-> bn]), leaf, bn, Divider(f, start, half))
HalfLen(f, leaf) == 2 ^ (f.depth - f.block[leaf].depth) \div 2
dir_split_leaf(f, start, leaf) ==
    IF f.free = {} THEN Exit(f) ELSE SplitInto(f, start, leaf, FirstFree(f), HalfLen(f, leaf))

(* dir_double_exhash: from the last block of the table to the first, each  *)
(* is read and written twice as long.                                      *)
Doubled(words) == [i \in 1 .. 2 * Len(words) |-> words[(i + 1) \div 2]]
DoublePart(f, k) ==
    IF f.end # "no" THEN f
    ELSE gfs2_writei(f, 2 * k * HashPtrs, Doubled(gfs2_readi(f, k * HashPtrs, HashPtrs)))
dir_double_exhash(f) ==
    LET parts == f.size \div HashPtrs
        g == FoldLeft(DoublePart, f, [k \in 1 .. parts |-> parts - k])
    IN  IF g.end = "no" THEN [g EXCEPT !.depth = @ + 1] ELSE g

(* dir_make_exhash: the records move to a leaf; the last of them, found by *)
(* counting the entries, grows by the room that a leaf has more.           *)
LastOf(dents, entries) ==
    Min({ i \in DOMAIN dents : Len(Used(SubSeq(dents, 1, i))) = entries } \union {Len(dents)})
FirstDepth == CHOOSE n \in 0 .. MaxDepth : 2 ^ n = HashPtrs
HashedInto(f, bn) ==
    [Taken(f, bn) EXCEPT
       !.block[bn] = [Blank("LF") EXCEPT
           !.entries = f.entries,
           !.dents = [f.block[Dinode].dents EXCEPT ![LastOf(f.block[Dinode].dents, f.entries)].rec = @ + LeafRoom - DiRoom]],
       !.block[Dinode] = [Words("DI", DiPtrs) EXCEPT !.word = [i \in DOMAIN @ |-> IF i < HashPtrs THEN bn ELSE 0]],
       !.size = HashPtrs, !.blocks = @ + 1, !.exhash = TRUE, !.depth = FirstDepth]
dir_make_exhash(f) == IF f.free = {} THEN Exit(f) ELSE HashedInto(f, FirstFree(f))

-----------------------------------------------------------------------------
(* A round of dir_l_add and dir_e_add: s is [f, add].  The entry is put    *)
(* where it fits, or room is made, or the chain followed or made longer.   *)
Then(f, s, at) == [f |-> f, add |-> [s.add EXCEPT !.at = at]]
Done(f) == [f |-> f, add |-> Idle]
PutIn(f, b, entries, room, a) ==
    [f EXCEPT !.block[b].dents = dirent_alloc(@, entries, room, a.name, a.inum),
              !.block[b].entries = IF b = Dinode THEN @ ELSE @ + 1,
              !.entries = @ + 1]
ChainedUncounted(f, leaf, bn, a) ==
    PutIn([Taken(f, bn) EXCEPT !.block[leaf].next = bn, !.block[bn] = [Blank("LF") EXCEPT !.depth = f.block[leaf].depth]],
          bn, 0, LeafRoom, a)
ChainedToHead(f, leaf, bn, a) ==
    PutIn([Taken(f, bn) EXCEPT !.block[leaf].next = bn,
                               !.block[bn] = [Blank("LF") EXCEPT !.depth = f.block[leaf].depth, !.next = leaf],
                               !.blocks = @ + 1],
          bn, 0, LeafRoom, a)
Chained(f, leaf, bn, a) ==
    PutIn([Taken(f, bn) EXCEPT !.block[leaf].next = bn, !.block[bn] = [Blank("LF") EXCEPT !.depth = f.block[leaf].depth],
                               !.blocks = @ + 1],
          bn, 0, LeafRoom, a)
SplitAt(f, name, len) == (lindex(f, name) \div len) * len

dir_l_add(s) ==
    IF HasRoom(s.f.block[Dinode].dents, s.f.entries, Size[s.add.name])
    THEN Done(PutIn(s.f, Dinode, s.f.entries, DiRoom, s.add))
    ELSE Then(dir_make_exhash(s.f), s, 0)
AddTo(s, leaf, b) ==
    IF HasRoom(b.dents, b.entries, Size[s.add.name]) THEN Done(PutIn(s.f, leaf, b.entries, LeafRoom, s.add))
    ELSE IF b.depth < s.f.depth
         THEN Then(dir_split_leaf(s.f, SplitAt(s.f, s.add.name, 2 ^ (s.f.depth - b.depth)), leaf), s, 0)
    ELSE IF s.f.depth < MaxDepth THEN Then(dir_double_exhash(s.f), s, 0)
    ELSE IF b.next # 0 THEN Then(s.f, s, b.next)
    ELSE IF s.f.free = {} THEN Then(Exit(s.f), s, 0)
    ELSE Done(Chained(s.f, leaf, FirstFree(s.f), s.add))
dir_e_add(s) ==
    LET leaf == IF s.add.at # 0 THEN s.add.at ELSE ReadWord(s.f, lindex(s.f, s.add.name))
    IN  AddTo(s, leaf, s.f.block[leaf])
dir_add(s) == IF s.f.exhash THEN dir_e_add(s) ELSE dir_l_add(s)

-----------------------------------------------------------------------------
(* dir_e_del looks in every leaf, from the end of the table.  (It checks   *)
(* neither what a leaf is nor where its chain leads: nothing is damaged.)  *)
AllLeaves(f) == FlattenSeq([k \in 1 .. 2 ^ f.depth |-> Chain(f, ReadWord(f, 2 ^ f.depth - k))])
DelFrom(f, b, place) ==
    IF b = 0 \/ place =< 0 THEN f
    ELSE [f EXCEPT !.block[b].dents = dirent2_del(@, place), !.block[b].entries = IF b = Dinode THEN @ ELSE @ - 1,
                   !.entries = @ - 1]
DelFromLeaf(f, b, name) == DelFrom(f, b, IF b = 0 THEN 0 ELSE PlaceIn(f, b, name))
gfs2_dirent_del(f, name) ==
    IF f.exhash THEN DelFromLeaf(f, Hit(f, AllLeaves(f), name), name)
    ELSE DelFrom(f, Dinode, LinearPlace(f, name))

-----------------------------------------------------------------------------
(* A new directory (init_dinode); the dinode's own record of its entries   *)
(* is never 0, and not kept here.                                          *)
NewDirectory(room) ==
    [block |-> [b \in Block |-> IF b = Dinode
                    THEN [Blank("DI") EXCEPT !.dents = << Record(".", Dinode, Size["."]),
                                                          Record("..", Dinode, DiRoom - Size["."]) >>]
                    ELSE Blank("none")],
     free |-> 2 .. room + 1, height |-> 0, size |-> DiPtrs, blocks |-> 1, depth |-> 0, entries |-> 2,
     exhash |-> FALSE, end |-> "no"]

-----------------------------------------------------------------------------
LeafBlocks(f) == { b \in Block \ f.free : IsLeaf(f, b) }
InTable(f) == IF f.exhash THEN { Table(f)[i] : i \in DOMAIN Table(f) } ELSE {}
Attached(f) == UNION { Range(Chain(f, b)) : b \in { b \in InTable(f) : IsLeaf(f, b) } }
EntriesOf(f) == IF f.exhash THEN UNION { Names_of(f.block[b].dents) : b \in Attached(f) }
                ELSE Names_of(f.block[Dinode].dents)
Found(f) == { p \in { <<n, dir_search(f, n)>> : n \in Names } : p[2] # 0 }

(* The kernel finds a leaf by the hash and the depth alone: the pointers   *)
(* to a leaf are one run of 2 ^ (i_depth - lf_depth), at a multiple of its *)
(* length, and the entries of a leaf and its chain belong to that run      *)
(* (fsck/pass2.c:1573-1580).                                               *)
Run(f, b) == { i \in DOMAIN Table(f) : Table(f)[i] = b }
InPlace(f, b) ==
    LET len == 2 ^ (f.depth - f.block[b].depth)
    IN  /\ f.block[b].depth =< f.depth
        /\ Min(Run(f, b)) % len = 0 /\ Run(f, b) = Min(Run(f, b)) .. Min(Run(f, b)) + len - 1
HashesFit(f, b, names) ==
    \A n \in names \intersect UNION { Names_of(f.block[c].dents) : c \in Range(Chain(f, b)) } : lindex(f, n) \in Run(f, b)
TableSound(f, names) ==
    f.exhash => /\ f.size = 2 ^ f.depth
                /\ \A b \in InTable(f) : IsLeaf(f, b) /\ InPlace(f, b) /\ HashesFit(f, b, names)
=============================================================================
