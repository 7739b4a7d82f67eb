----------------------------- MODULE HashTable ------------------------------
(***************************************************************************)
(* fsck's pass 2 at a directory whose hash table was damaged: the table is *)
(* checked and repaired (check_hash_tbl, fsck/pass2.c), then each leaf and *)
(* its chain, where entries of another leaf move to it (check_leaf_blks of *)
(* fsck/metawalk.c, wrong_leaf).  Questions are answered yes, that for the *)
(* depth of a leaf as fixDepth says.                                       *)
(*                                                                         *)
(* dir is the directory, tbl the table in memory, at an index, lost what   *)
(* moved to lost+found, held the entries the damage left in reach.  run is *)
(* the leaf of a chain check_leaf_blks has come to (0 for the first), how  *)
(* many pointers lead there and the depth the table had; seen are the dots *)
(* met and total the entries counted.                                      *)
(***************************************************************************)
EXTENDS Dirents

CONSTANTS
    Histories,      \* the names a directory was filled with, in their order
    Room,           \* how many blocks may be free when the damage happens
    LongNames       \* names of more than eight characters

ASSUME HashTableAssumption ==
    /\ \A h \in Histories : Range(h) \subseteq Names \ {".", ".."}
    /\ Room \subseteq Nat /\ LongNames \subseteq Names

VARIABLES dir, tbl, at, pc, fixDepth, held, lost, run, seen, total
vars == <<dir, tbl, at, pc, fixDepth, held, lost, run, seen, total>>

-----------------------------------------------------------------------------
(* A name is added in rounds (dir_add), at most so many.                   *)
MaxRounds == 2 * MaxDepth + 4
Added(f, name, inum) ==
    FoldLeft(LAMBDA s, k : IF s.add = Idle \/ s.f.end # "no" THEN s ELSE dir_add(s),
             [f |-> f, add |-> [name |-> name, inum |-> inum, at |-> 0]], [k \in 1 .. MaxRounds |-> k]).f
Filled(history) ==
    FoldLeft(LAMBDA f, k : Added(Taken(f, FirstFree(f)), history[k], FirstFree(f)),
             NewDirectory(LastBlock - 1), [k \in DOMAIN history |-> k])
LeftFree(f, room) == [f EXCEPT !.free = { b \in @ : Cardinality({ c \in f.free : c < b }) < room }]

(* Damage, as pass 1 leaves it: pointers that lead to another leaf or to   *)
(* none (pass 1 clears those), a wrong depth, an entry in the wrong leaf.  *)
Pointed(f, first, last, b) == gfs2_writei(f, first, [i \in 1 .. last - first + 1 |-> b])
Deepened(f, b, depth) == [f EXCEPT !.block[b].depth = depth]
Strayed(f, from, to, i) == PutIn(DelFrom(f, from, i), to, f.block[to].entries, LeafRoom, f.block[from].dents[i])
MayStray(f, from, to, i) ==
    LET d == f.block[from].dents[i]
    IN  from # to /\ d.name # Free /\ HasRoom(f.block[to].dents, f.block[to].entries, Size[d.name])
Damaged(f) ==
    UNION { { Pointed(f, i, j, b) : j \in i .. f.size - 1, b \in {0} \union InTable(f) } : i \in 0 .. f.size - 1 }
    \union { Deepened(f, b, depth) : b \in InTable(f), depth \in 0 .. f.depth }
    \union UNION { { Strayed(f, b, c, i) : i \in { i \in DOMAIN f.block[b].dents : MayStray(f, b, c, i) } }
                   : b \in InTable(f), c \in InTable(f) }

Runs(f) == { i \in DOMAIN Table(f) : Table(f)[i] # 0 /\ (i = 0 \/ Table(f)[i - 1] # Table(f)[i]) }
Counted(f) ==      \* what pass 1 counts: a leaf and its chain for each run of pointers
    [f EXCEPT !.blocks = Cardinality({ b \in Block \ f.free : f.block[b].kind \in {"DI", "JD", "IN"} })
                         + FoldLeft(LAMBDA sum, i : sum + IF i \in Runs(f) THEN Len(Chain(f, Table(f)[i])) ELSE 0,
                                    0, [i \in 1 .. f.size |-> i - 1])]

-----------------------------------------------------------------------------
(* New leaves for a range of the table.                                    *)
Log(n) == CHOOSE k \in 0 .. MaxDepth : 2 ^ k =< n /\ n < 2 ^ (k + 1)
write_new_leaf(f, b, start, n) ==
    gfs2_writei([Taken(f, b) EXCEPT !.block[b] = [Blank("LF") EXCEPT !.dents = << Record(Free, 0, LeafRoom) >>,
                                                                    !.depth = f.depth - Log(n)],
                                    !.blocks = @ + 1],
                start, [i \in 1 .. n |-> b])
Covered(t, start, n, b) == [i \in DOMAIN t |-> IF i \in start .. start + n - 1 THEN b ELSE t[i]]
Piece(start, n) == Max({ 2 ^ k : k \in { k \in 0 .. MaxDepth : 2 ^ k =< n /\ start % 2 ^ k = 0 } })

(* Pieces of powers of two, each at a multiple of its length.  A failed    *)
(* allocation is not noticed: the table gets what the stack held.          *)
PadPiece(p, n) ==
    IF p.f.free = {} THEN [p EXCEPT !.f.end = "stray"]
    ELSE [p EXCEPT !.f = write_new_leaf(@, FirstFree(p.f), p.at, n), !.tbl = Covered(@, p.at, n, FirstFree(p.f)),
                   !.at = @ + n, !.left = @ - n]
PadStep(p, k) == IF p.left = 0 \/ p.f.end # "no" THEN p ELSE PadPiece(p, Piece(p.at, p.left))
pad_with_leafblks(s, start, n) ==
    LET p == FoldLeft(PadStep, [f |-> s.f, tbl |-> s.tbl, at |-> start, left |-> n], [k \in 1 .. n |-> k])
    IN  [s EXCEPT !.f = p.f, !.tbl = p.tbl]

(* lost_leaf stops at the first name that is longer than a pointer.        *)
RelocatedRest(dents) ==
    { <<d.name, d.inum>> : d \in { d \in Range(SubSeq(dents, 2, Len(dents))) : d.name \notin {".", "..", Free} } }
Relocated(dents) ==
    LET stop == Min({ i \in DOMAIN dents : dents[i].was \in LongNames } \union {Len(dents) + 1})
    IN  { <<d.name, d.inum>> : d \in { d \in Range(SubSeq(dents, 1, stop - 1)) : d.name \notin {".", "..", Free} } }
lost_leaf(s, b, start, n) ==
    pad_with_leafblks([s EXCEPT !.lost = @ \union Relocated(s.f.block[b].dents),
                                !.f = [gfs2_free_block(@, b) EXCEPT !.blocks = @ - 1]], start, n)

-----------------------------------------------------------------------------
(* fix_hashtable: the leaf is checked, then it is given the place its      *)
(* first record asks for, or its entries move to lost+found.  r.len is the *)
(* proper length, r.changed whether the index is to be looked at again.    *)
check_leaf_depth(f, b, n, fix) == IF fix THEN [f EXCEPT !.block[b].depth = f.depth - Log(n)] ELSE f
Checked(f, b, n, fix) ==
    LET g == check_leaf_depth(f, b, n, fix) IN [g EXCEPT !.block[b].entries = Len(Used(g.block[b].dents))]
HashIndex(f, d) == IF d.was = Free THEN 0 ELSE lindex(f, d.was)
Redo(s) == [s |-> s, len |-> 0, changed |-> TRUE]

Extras(s, b, start, n) ==
    LET more == { i \in 0 .. n : \A j \in 0 .. i - 1 : s.tbl[start + j] = b }
    IN  IF n =< 0 THEN 0 ELSE Max(more)
NoExtras(s, b, start, n, len, changed) ==
    IF Extras(s, b, start, n) # 0 THEN Redo(pad_with_leafblks(s, start, Extras(s, b, start, n)))
    ELSE [s |-> s, len |-> len, changed |-> changed]

(* A split takes the lower half; the table in memory follows by a guess.   *)
AfterSplit(s, b, start, n, new) ==
    LET len == 2 ^ (s.f.depth - s.f.block[b].depth)
        t == [s EXCEPT !.tbl = Covered(@, start, len, new)]
    IN  IF s.f.end # "no" \/ start + len - 1 \notin DOMAIN s.tbl THEN Redo([s EXCEPT !.f.end = IF @ = "no" THEN "stray" ELSE @])
        ELSE IF len < n \div 2 THEN Redo(t)
        ELSE NoExtras(t, b, start + 2 * len, n - 2 * len, len, TRUE)
SplitRun(s, b, start, n) ==
    AfterSplit([s EXCEPT !.f = dir_split_leaf(@, start, b)], b, start, n, FirstFree(s.f))

Fitted(s, b, start, n, len, index) ==
    LET proper == (index \div len) * len
    IN  IF index < start \/ index > start + n THEN Redo(lost_leaf(s, b, start, n))
        ELSE IF start < proper THEN Redo(pad_with_leafblks(s, start, proper - start))
        ELSE IF proper < start \/ (len > n /\ len = 1) THEN Redo(lost_leaf(s, b, start, n))
        ELSE IF len > n THEN SplitRun(s, b, start, n)
        ELSE NoExtras(s, b, start + len, n - len, len, FALSE)
FixLeaf(s, b, start, n, leaf) ==
    IF leaf.depth > s.f.depth THEN Redo(lost_leaf(s, b, start, n))
    ELSE IF leaf.dents[1].rec = LeafRoom /\ leaf.dents[1].name = Free
         THEN Redo(pad_with_leafblks([s EXCEPT !.f = gfs2_free_block(@, b)], start, n))
    ELSE Fitted(s, b, start, n, 2 ^ (s.f.depth - leaf.depth), HashIndex(s.f, leaf.dents[1]))
FixChecked(s, b, start, n) == FixLeaf(s, b, start, n, s.f.block[b])
fix_hashtable(s, b, start, n, fix) == FixChecked([s EXCEPT !.f = Checked(@, b, n, fix)], b, start, n)

-----------------------------------------------------------------------------
(* check_hash_tbl_dups: other pointers to the same leaf.  Those that the   *)
(* first record does not belong to are covered with new leaves.            *)
Outside(index, start, n) == index < start \/ index > start + n
SameFrom(t, l, stop) ==
    Max({ n \in 1 .. Cardinality(DOMAIN t) - l : \A i \in l .. l + n - 1 : t[i] = t[l] /\ i # stop })
Dropped(s, start, n) == pad_with_leafblks([s EXCEPT !.f.blocks = @ - 1], start, n)
DupAt(d, start, n, l, index) ==
    LET n2 == SameFrom(d.s.tbl, l, start)
        here == IF Outside(index, l, n2) THEN Dropped(d.s, l, n2) ELSE d.s
    IN  IF Outside(index, start, n) THEN [s |-> Dropped(here, start, n), again |-> TRUE]
        ELSE [s |-> here, again |-> FALSE]
check_hash_tbl_dups(s, b, start, n) ==
    FoldLeft(LAMBDA d, l :
                 IF d.again \/ d.s.f.end # "no" \/ l - 1 \in start .. start + n - 1 \/ d.s.tbl[l - 1] # b THEN d
                 ELSE DupAt(d, start, n, l - 1, HashIndex(s.f, s.f.block[b].dents[1])),
             [s |-> s, again |-> FALSE], [l \in 1 .. Cardinality(DOMAIN s.tbl) |-> l])

(* One round of check_hash_tbl at an index: what it makes of the directory *)
(* and the index it goes on with.  (The run of n pointers holds a proper   *)
(* one of len, so cases 3 and the last loop of the code never apply.)      *)
ProperLen(t, start) ==
    Max({ 2 ^ k : k \in { k \in 0 .. MaxDepth : /\ start % 2 ^ k = 0 /\ start + 2 ^ k =< Cardinality(DOMAIN t)
                                               /\ \A i \in start .. start + 2 ^ k - 1 : t[i] = t[start] } })
RunLen(t, start) == SameFrom(t, start, -1)
Onward(r, start) == [s |-> r.s, at |-> IF r.changed THEN start ELSE start + r.len]
AfterDups(d, b, start, len, n, fix) ==
    IF d.again \/ d.s.f.end # "no" THEN [s |-> d.s, at |-> start]
    ELSE IF n = len THEN [s |-> d.s, at |-> start + len]
    ELSE Onward(fix_hashtable(d.s, b, start, n, fix), start)
Hole(s, start, len) ==
    IF s.f.free = {} THEN [s |-> [s EXCEPT !.f.end = "failed"], at |-> start]
    ELSE [s |-> [s EXCEPT !.f = write_new_leaf(@, FirstFree(s.f), start, len), !.tbl = Covered(@, start, len, FirstFree(s.f))],
          at |-> start + len]
check_hash_tbl(s, start, fix) ==
    LET b == s.tbl[start]
    IN  IF b \notin Block THEN Hole(s, start, ProperLen(s.tbl, start))
        ELSE AfterDups(check_hash_tbl_dups(s, b, start, RunLen(s.tbl, start)), b, start, ProperLen(s.tbl, start),
                       RunLen(s.tbl, start), fix)

-----------------------------------------------------------------------------
(* An entry in the wrong leaf (wrong_leaf): w is the walk through a leaf,  *)
(* w.buf the leaf as it was read, w.i the place in it, w.at the index of   *)
(* the leaf.  dir_add works on the disk below; w.buf is written last.      *)
FirstRun(f, b) ==
    LET first == Min({ i \in DOMAIN Table(f) : Table(f)[i] = b }) IN SameFrom(Table(f), first, -1)
Nuked(w) ==
    [w EXCEPT !.buf.dents = dirent2_del(@, w.i), !.buf.entries = @ - 1, !.f.entries = Max({0, @ - 1}),
              !.i = IF @ = 1 THEN 2 ELSE @]
Kept(w, name) ==
    [w EXCEPT !.kept = @ + 1, !.total = @ + 1, !.i = @ + 1,
              !.seen = IF name \in {".", ".."} THEN @ \union {name} ELSE @]
(* The table may have doubled; what moved to a leaf still to come is       *)
(* counted there.                                                          *)
MovedCounted(w, g, name) ==
    LET start == w.at * 2 ^ (g.depth - w.f.depth)
    IN  Nuked([w EXCEPT !.f = g, !.at = start, !.total = @ + 1])
Moved(w, g, name) ==
    LET start == w.at * 2 ^ (g.depth - w.f.depth)
    IN  Nuked([w EXCEPT !.f = g, !.at = start, !.total = IF lindex(g, name) > start THEN @ ELSE @ + 1])
MovedIn(w, d, g) == IF dir_search(g, d.name) # 0 THEN Nuked([w EXCEPT !.f = g]) ELSE Moved([w EXCEPT !.f = g], Added(g, d.name, d.inum), d.name)
wrong_leaf(w, d, fix) ==
    LET planned == ReadWord(w.f, lindex(w.f, d.name))
    IN  MovedIn(w, d, check_leaf_depth(w.f, planned, FirstRun(w.f, planned), fix))
BelongsToEnd(w, d) == lindex(w.f, d.name) \in w.at .. w.at + 2 ^ (w.f.depth - w.buf.depth)
Belongs(w, d) == lindex(w.f, d.name) \in w.at .. w.at + 2 ^ (w.f.depth - w.buf.depth) - 1
check_dentry(w, d, fix) ==
    IF d.name = Free THEN [w EXCEPT !.i = @ + 1]
    ELSE IF d.name \in w.seen THEN Nuked(w)
    ELSE IF d.name \in {".", ".."} \/ Belongs(w, d) THEN Kept(w, d.name)
    ELSE wrong_leaf(w, d, fix)
check_entries(w, fix) ==
    FoldLeft(LAMBDA x, k : IF x.i > Len(x.buf.dents) \/ x.f.end # "no" THEN x ELSE check_dentry(x, x.buf.dents[x.i], fix),
             w, w.buf.dents)
Walk(f, b, start) ==
    [f |-> f, buf |-> f.block[b], i |-> 1, at |-> start, kept |-> 0, total |-> total, seen |-> seen]
check_leaf(f, b, start, n, fix) == check_entries(Walk(check_leaf_depth(f, b, n, fix), b, start), fix)
WrittenBack(w, b) == [w.f EXCEPT !.block[b] = [w.buf EXCEPT !.entries = w.kept]]

-----------------------------------------------------------------------------
NoRun == [leaf |-> 0, n |-> 0, depth |-> 0]
Named(f, blocks) == { <<d.name, d.inum>> : d \in { d \in UNION { Range(f.block[b].dents) : b \in blocks } :
                                                   d.name \notin {".", "..", Free} } }
(* Leaves without a chain that one stretch of the table leads to, with no  *)
(* long name in them.                                                      *)
Plain(f) ==
    { b \in InTable(f) : /\ Cardinality({ i \in Runs(f) : Table(f)[i] = b }) = 1 /\ Chain(f, b) = <<b>>
                         /\ \A d \in Range(f.block[b].dents) : d.was \notin LongNames }
Init ==
    /\ \E h \in Histories, room \in Room :
          \E f \in {Filled(h)} : \E g \in Damaged(f) : dir = Counted(LeftFree(g, room))
    /\ tbl = Table(dir) /\ at = 0 /\ pc = "table" /\ fixDepth \in BOOLEAN
    /\ held = Named(dir, Plain(dir)) /\ lost = {} /\ run = NoRun /\ seen = {} /\ total = 0

Become(f, next) == dir' = f /\ pc' = IF f.end = "no" THEN next ELSE f.end
CheckTable ==
    /\ pc = "table" /\ at \in DOMAIN tbl
    /\ \E r \in {check_hash_tbl([f |-> dir, tbl |-> tbl, lost |-> lost], at, fixDepth)} :
          /\ Become(r.s.f, "table") /\ at' = r.at
          /\ tbl' = r.s.tbl /\ lost' = r.s.lost
    /\ UNCHANGED <<fixDepth, held, run, seen, total>>
TableChecked ==
    /\ pc = "table" /\ at \notin DOMAIN tbl
    /\ pc' = "leaves" /\ at' = 0
    /\ UNCHANGED <<dir, tbl, fixDepth, held, lost, run, seen, total>>

(* check_leaf_blks: the table is read again when the directory changed.    *)
FirstLeaf ==
    /\ pc = "leaves" /\ at < 2 ^ dir.depth /\ run = NoRun
    /\ tbl' = Table(dir) /\ run' = [leaf |-> tbl'[at], n |-> RunLen(tbl', at), depth |-> dir.depth]
    /\ UNCHANGED <<dir, at, pc, fixDepth, held, lost, seen, total>>
CheckLeaf ==
    /\ pc = "leaves" /\ run # NoRun
    /\ \E w \in {check_leaf(dir, run.leaf, at, run.n, fixDepth)} :
          LET doubled == 2 ^ (w.f.depth - run.depth)
          IN  /\ Become(WrittenBack(w, run.leaf), "leaves")
              /\ total' = w.total /\ seen' = w.seen
              /\ IF w.buf.next # 0 THEN run' = [run EXCEPT !.leaf = w.buf.next, !.n = @ * 2 ^ (w.f.depth - dir.depth)] /\ at' = at
                 ELSE run' = NoRun /\ at' = (at * doubled) + run.n * 2 ^ (w.f.depth - dir.depth)
    /\ UNCHANGED <<tbl, fixDepth, held, lost>>
LeavesChecked ==
    /\ pc = "leaves" /\ at >= 2 ^ dir.depth /\ run = NoRun
    /\ \E f \in {IF "." \in seen THEN dir ELSE Added(dir, ".", Dinode)} :
          /\ total' = IF "." \in seen THEN total ELSE total + 1
          /\ Become([f EXCEPT !.entries = total'], "done")
    /\ UNCHANGED <<tbl, at, fixDepth, held, lost, run, seen>>

Next == CheckTable \/ TableChecked \/ FirstLeaf \/ CheckLeaf \/ LeavesChecked
Spec == Init /\ [][Next]_vars

-----------------------------------------------------------------------------
(* Type correctness: the table on disk and the one in memory are as long   *)
(* as the depth says, however it was padded, split and doubled.            *)
TypeOK ==
    /\ dir.size = 2 ^ dir.depth /\ DOMAIN tbl \subseteq 0 .. dir.size - 1
    /\ pc \in {"table", "leaves", "done", "failed", "exit", "stray"} /\ at \in 0 .. 2 ^ MaxDepth
    /\ held \subseteq Names \X Nat /\ lost \subseteq Names \X Nat
    /\ run.leaf \in 0 .. LastBlock /\ seen \subseteq {".", ".."} /\ total \in 0 .. Cardinality(Names) + 2

(* Depths agreed to, and no "." to put back: dir_add then splits a leaf    *)
(* that has a chain without moving what is in the chain.                   *)
Repaired == pc = "done" /\ fixDepth /\ "." \in seen

(* "make sure the boundaries and lengths all line up properly, and if not, *)
(* to fix it" (check_hash_tbl): every name that is left is found where its *)
(* hash leads, and every stretch of pointers is as long as its leaf says.  *)
TableIsRepaired == Repaired => TableSound(dir, Names \ {".", ".."})

(* No repair of the table or of a leaf (padding, splitting, moving, freeing *)
(* lost leaves) drops a name of such a leaf: it is in the directory or in  *)
(* lost+found.                                                             *)
NoneForgotten == Repaired => held \subseteq Found(dir) \union lost

(* The entries the dinode ends with are the ones it has, however many moved *)
(* behind or ahead of the walk, and its blocks no fewer than it has: the   *)
(* chain of a lost leaf stays counted.                                     *)
CountsRepaired ==
    pc = "done" =>
        /\ dir.entries = Cardinality(EntriesOf(dir))
        /\ dir.blocks >= Cardinality({ b \in Block : dir.block[b].kind \in {"DI", "JD", "IN"} \/ b \in Attached(dir) })

=============================================================================
