--------------------------- MODULE Opening_proofs ---------------------------
(***************************************************************************)
(* fsck.gfs2 -n leaves the device alone while it opens a file system, for  *)
(* any device mkfs.gfs2 can make, any damage Opening knows, at every level *)
(* of rgrepair and with signals at any time.                               *)
(***************************************************************************)
EXTENDS Opening, TLAPS

FsFields == {"pc", "mode", "lvl", "tree", "calc", "want", "n", "e", "rg", "tries", "prev", "count", "fssize",
             "devlen", "ok", "ragged", "fixit", "abort", "meta", "root", "blk", "ji", "per_node", "journals",
             "next_inum", "todo", "fixed_sb"}

(* fetch_rgrps: the levels, until the groups are there.                    *)
Fetching == {"level", "reread", "compare", "index", "rgs", "check"}

(* What is left of the files init_system_inodes looks for, if it builds    *)
(* none.                                                                   *)
Todos == { << >>, << <<"per_node">> >>, << <<"quota">>, <<"per_node">> >>,
           << <<"statfs">>, <<"quota">>, <<"per_node">> >>, SystemInodes }

(* What a later step may write because of what an earlier one has put      *)
(* down.  A part of an entry at the end of the rindex is cut off when the  *)
(* groups are let go: fs.ragged says what was asked for.  Permission to    *)
(* reclaim is kept from group to group.  The files of a per_node directory *)
(* are built without a question, but only in one that was built.           *)
NothingAskedFor ==
    /\ fs.pc \in Fetching => fs.ragged = ragged
    /\ fs.fixit = FALSE
    /\ fs.todo \in Todos

(* The invariant.  When fsck.gfs2 runs mkfs.gfs2 has exited.               *)
IInv ==
    /\ ragged \in BOOLEAN /\ "pc" \in DOMAIN mk
    /\ fs.pc # "off" => mk.pc = "exited" /\ DOMAIN fs = FsFields /\ fs.ragged \in BOOLEAN
    /\ fs.pc # "off" /\ fs.mode.answers = "no" => NothingAskedFor

(* What a step may do.                                                     *)
LeavesAlone == fs.pc # "off" /\ fs.mode.answers = "no" => dvars' = dvars
Good == IInv' /\ LeavesAlone

-----------------------------------------------------------------------------
(* The answer to every question.                                           *)
LEMMA OnlyNo == ASSUME fs.mode.answers = "no" PROVE Answers = {FALSE}
  BY DEF Answers

(* Each step makes a new fs out of the old one.  This is what most of them *)
(* leave as it is.                                                         *)
Follows(f, g) ==
    /\ DOMAIN g = FsFields /\ g.pc # "off"
    /\ g.mode = f.mode /\ g.todo = f.todo /\ g.ragged = f.ragged /\ g.fixit \in {f.fixit, FALSE}

LEMMA FollowsOn ==
  ASSUME NEW f, NEW g, NEW h, Follows(f, g), Follows(g, h)
  PROVE  Follows(f, h)
  BY DEF Follows

LEMMA LevelFailsFollows ==
  ASSUME NEW f, DOMAIN f = FsFields
  PROVE  Follows(f, LevelFails(f))
<1>1. CASE f.abort
  BY <1>1 DEF LevelFails, Follows, FsFields
<1>2. CASE ~f.abort /\ f.lvl = 4
  BY <1>2 DEF LevelFails, Follows, FsFields
<1>3. CASE ~f.abort /\ f.lvl # 4
  BY <1>3 DEF LevelFails, Follows, FsFields
<1>4. QED
  BY <1>1, <1>2, <1>3

LEMMA DroppedFollows ==
  ASSUME NEW f, DOMAIN f = FsFields, f.pc # "off"
  PROVE  Follows(f, DropTrees(f)) /\ Follows(f, LevelFails(DropTrees(f)))
<1>1. Follows(f, DropTrees(f))
  BY DEF DropTrees, Follows, FsFields
<1>2. Follows(f, LevelFails(DropTrees(f)))
  BY <1>1, LevelFailsFollows, FollowsOn DEF Follows
<1>3. QED
  BY <1>1, <1>2

(* A step that writes nothing.                                             *)
LEMMA ToIsGood ==
  ASSUME IInv, fs.pc # "off", NEW f, To(f), Follows(fs, f), UNCHANGED damage,
         fs.pc \in Fetching \/ f.pc \notin Fetching
  PROVE  Good
  BY DEF To, Follows, Good, IInv, NothingAskedFor, LeavesAlone, dvars, Fetching

-----------------------------------------------------------------------------
(* fetch_rgrps, step by step.                                              *)
LEMMA LevelGood == ASSUME IInv, Level, UNCHANGED damage PROVE Good
<1>1. fs.pc = "level" /\ DOMAIN fs = FsFields
  BY DEF Level, IInv
<1>2. PICK next \in { CASE fs.lvl = 0 -> [fs EXCEPT !.pc = "check"]
                       [] fs.lvl = 1 -> IF fs.ok THEN expect_rindex_sanity(fs) ELSE LevelFails(fs)
                       [] fs.lvl = 2 -> EvenLayout(fs)
                       [] OTHER -> Rebuilt(fs) } : To(next)
  BY DEF Level
<1>3. Follows(fs, [fs EXCEPT !.pc = "check"])
  BY <1>1 DEF Follows, FsFields
<1>4. Follows(fs, expect_rindex_sanity(fs))
  BY <1>1 DEF Follows, FsFields, expect_rindex_sanity
<1>5. Follows(fs, LevelFails(fs)) /\ Follows(fs, LevelFails(DropTrees(fs)))
  BY <1>1, LevelFailsFollows, DroppedFollows
<1>6. \A d, c : Follows(fs, Expecting(fs, d, c))
  BY <1>1 DEF Follows, FsFields, Expecting
<1>7. Follows(fs, EvenLayout(fs))
  BY <1>6 DEF EvenLayout
<1>8. ASSUME NEW b PROVE Follows(fs, AfterRebuild(fs, b))
  <2>1. CASE b.pc \in {"crashed", "endless"}
    BY <1>1, <2>1 DEF Follows, FsFields, AfterRebuild
  <2>2. CASE b.pc = "failed"
    BY <1>5, <2>2 DEF AfterRebuild
  <2>3. CASE b.pc \notin {"crashed", "endless", "failed"}
    BY <1>1, <2>3 DEF Follows, FsFields, AfterRebuild
  <2>4. QED
    BY <2>1, <2>2, <2>3
<1>9. Follows(fs, Rebuilt(fs))
  BY <1>5, <1>8 DEF Rebuilt
<1>10. Follows(fs, next)
  BY <1>2, <1>3, <1>4, <1>5, <1>7, <1>9
<1>11. QED
  BY <1>1, <1>2, <1>10, ToIsGood DEF Fetching

(* Cutting the index is agreed to here and done by GroupsDone.             *)
LEMMA RereadGood == ASSUME IInv, Reread, UNCHANGED damage PROVE Good
<1>1. fs.pc = "reread" /\ DOMAIN fs = FsFields /\ fs.ragged \in BOOLEAN
  BY DEF Reread, IInv
<1>2. PICK r : \E cut, fewer \in Answers :
        LET f == [fs EXCEPT !.tree = r.tree, !.count = r.count, !.ok = r.ok, !.ragged = FALSE]
            fits == fs.want = r.count
        IN  To(IF fs.ragged /\ ~cut THEN LevelFails(DropTrees([f EXCEPT !.ragged = TRUE]))
               ELSE IF ~fits /\ (fs.lvl < 3 \/ ~fewer) THEN LevelFails(DropTrees(f))
               ELSE [f EXCEPT !.pc = "compare", !.want = IF fits THEN @ ELSE Min({@, Len(rindex)})])
  BY DEF Reread
<1> DEFINE f == [fs EXCEPT !.tree = r.tree, !.count = r.count, !.ok = r.ok, !.ragged = FALSE]
           g == [f EXCEPT !.ragged = TRUE]
           h == [f EXCEPT !.pc = "compare",
                          !.want = IF fs.want = r.count THEN @ ELSE Min({@, Len(rindex)})]
<1>3. PICK cut \in Answers : \/ fs.ragged /\ ~cut /\ To(LevelFails(DropTrees(g)))
                             \/ ~(fs.ragged /\ ~cut) /\ (To(LevelFails(DropTrees(f))) \/ To(h))
  BY <1>2
<1>4. /\ DOMAIN f = FsFields /\ DOMAIN g = FsFields /\ f.pc # "off" /\ g.pc # "off"
      /\ f.mode = fs.mode /\ f.todo = fs.todo /\ f.fixit = fs.fixit /\ f.ragged = FALSE
      /\ g.mode = fs.mode /\ g.todo = fs.todo /\ g.fixit = fs.fixit /\ g.ragged = TRUE
  BY <1>1 DEF FsFields
<1>5. Follows(f, LevelFails(DropTrees(f))) /\ Follows(g, LevelFails(DropTrees(g)))
  <2> HIDE DEF f, g
  <2>1. QED
    BY <1>4, DroppedFollows
<1>6. Follows(f, h)
  <2> HIDE DEF f
  <2>1. QED
    BY <1>4 DEF Follows, FsFields
<1> HIDE DEF f, g, h
<1>7. PICK next : To(next) /\ IF fs.ragged /\ ~cut THEN Follows(g, next) ELSE Follows(f, next)
  <2>1. CASE fs.ragged /\ ~cut
    BY <1>3, <1>5, <2>1
  <2>2. CASE ~(fs.ragged /\ ~cut)
    BY <1>3, <1>5, <1>6, <2>2
  <2>3. QED
    BY <2>1, <2>2
<1>8. /\ fs' = next /\ UNCHANGED <<opt, mk, dvars>>
      /\ DOMAIN next = FsFields /\ next.pc # "off" /\ next.mode = fs.mode /\ next.todo = fs.todo
      /\ next.fixit \in {fs.fixit, FALSE} /\ next.ragged \in BOOLEAN
  BY <1>4, <1>7 DEF To, Follows
<1>9. fs.mode.answers = "no" => next.ragged = fs.ragged
  <2> SUFFICES ASSUME fs.mode.answers = "no" PROVE next.ragged = fs.ragged
    OBVIOUS
  <2>1. cut = FALSE
    BY <1>3, OnlyNo
  <2>2. QED
    BY <1>1, <1>4, <1>7, <2>1 DEF Follows
<1>10. QED
  BY <1>1, <1>8, <1>9 DEF Good, IInv, NothingAskedFor, LeavesAlone, dvars, Fetching

LEMMA CompareGood == ASSUME IInv, Compare, UNCHANGED damage PROVE Good
<1>1. fs.pc = "compare" /\ DOMAIN fs = FsFields
  BY DEF Compare, IInv
<1>2. PICK d : To(IF d.rg > 0 /\ (d.bad * 100) \div d.rg > BadPercent THEN LevelFails(DropTrees(fs))
                  ELSE [fs EXCEPT !.pc = "index", !.n = 1, !.e = 1, !.rg = 0])
  BY DEF Compare
<1>3. Follows(fs, LevelFails(DropTrees(fs)))
  BY <1>1, DroppedFollows
<1>4. Follows(fs, [fs EXCEPT !.pc = "index", !.n = 1, !.e = 1, !.rg = 0])
  BY <1>1 DEF Follows, FsFields
<1>5. PICK next : To(next) /\ Follows(fs, next)
  BY <1>2, <1>3, <1>4
<1>6. QED
  BY <1>1, <1>5, ToIsGood DEF Fetching

(* The entries of the index, the headers and the bitmaps are asked about.  *)
LEMMA FixIndexGood == ASSUME IInv, FixIndex, UNCHANGED damage PROVE Good
<1>1. /\ fs.pc = "index" /\ DOMAIN fs = FsFields
      /\ UNCHANGED <<opt, mk, hdr, bits, inode, ragged, sb>>
  BY DEF FixIndex, IInv
<1>2. PICK same, tree : \E fix \in IF same THEN {FALSE} ELSE Answers :
        /\ fs' = [fs EXCEPT !.n = @ + 1, !.e = @ + 1, !.rg = @ + 1, !.tree = tree]
        /\ rindex' = IF fix THEN [rindex EXCEPT ![fs.rg + 1] = [k \in DOMAIN rindex[1] |-> fs.calc[fs.e][k]]]
                     ELSE rindex
  BY DEF FixIndex
<1>3. PICK fix \in IF same THEN {FALSE} ELSE Answers :
        fs' = [fs EXCEPT !.n = @ + 1, !.e = @ + 1, !.rg = @ + 1, !.tree = tree] /\ (~fix => rindex' = rindex)
  BY <1>2
<1>4. Follows(fs, fs') /\ fs'.pc = "index"
  BY <1>1, <1>3 DEF Follows, FsFields
<1>5. fs.mode.answers = "no" => rindex' = rindex
  BY <1>3, OnlyNo
<1>6. QED
  BY <1>1, <1>4, <1>5 DEF Follows, Good, IInv, NothingAskedFor, LeavesAlone, dvars, Fetching

LEMMA IndexDoneGood == ASSUME IInv, IndexDone, UNCHANGED damage PROVE Good
<1>1. fs.pc = "index" /\ DOMAIN fs = FsFields
  BY DEF IndexDone, IInv
<1>2. To([fs EXCEPT !.pc = "rgs", !.n = 1, !.rg = 0, !.tries = 0, !.prev = 0])
  BY DEF IndexDone
<1>3. Follows(fs, [fs EXCEPT !.pc = "rgs", !.n = 1, !.rg = 0, !.tries = 0, !.prev = 0])
  BY <1>1 DEF Follows, FsFields
<1>4. QED
  BY <1>1, <1>2, <1>3, ToIsGood DEF Fetching

LEMMA FixGroupGood == ASSUME IInv, FixGroup, UNCHANGED damage PROVE Good
<1>1. fs.pc = "rgs" /\ DOMAIN fs = FsFields /\ UNCHANGED <<opt, mk, bits, rindex, ragged, sb>>
  BY DEF FixGroup, IInv
<1>2. PICK r, err : \E fix \in IF err = 0 \/ err = fs.prev THEN {FALSE} ELSE Answers :
        /\ fs' = IF ~r.bits /\ ~Unreadable(r) THEN [fs EXCEPT !.pc = "crashed"]
                 ELSE IF err = 0 \/ err = fs.prev \/ fs.tries + 1 >= r.length THEN NextGroup
                 ELSE [fs EXCEPT !.tries = @ + 1, !.prev = err]
        /\ LET writes == fix /\ err # NoBlock /\ r.bits
           IN  /\ hdr' = IF writes THEN [hdr EXCEPT ![err] = Rewritten(r, err)] ELSE hdr
               /\ inode' = IF writes THEN [a \in DOMAIN inode \ {err} |-> inode[a]] ELSE inode
  BY DEF FixGroup
<1>3. PICK fix \in IF err = 0 \/ err = fs.prev THEN {FALSE} ELSE Answers :
        /\ fs' \in {[fs EXCEPT !.pc = "crashed"], NextGroup, [fs EXCEPT !.tries = @ + 1, !.prev = err]}
        /\ ~fix => hdr' = hdr /\ inode' = inode
  BY <1>2
<1>4. Follows(fs, fs')
  <2>1. Follows(fs, [fs EXCEPT !.pc = "crashed"])
    BY <1>1 DEF Follows, FsFields
  <2>2. Follows(fs, NextGroup)
    BY <1>1 DEF Follows, FsFields, NextGroup
  <2>3. Follows(fs, [fs EXCEPT !.tries = @ + 1, !.prev = err])
    BY <1>1 DEF Follows, FsFields
  <2>4. QED
    BY <1>3, <2>1, <2>2, <2>3
<1>5. fs.mode.answers = "no" => hdr' = hdr /\ inode' = inode
  BY <1>3, OnlyNo
<1>6. QED
  BY <1>1, <1>4, <1>5 DEF Follows, Good, IInv, NothingAskedFor, LeavesAlone, dvars, Fetching

(* Here the index is cut, if that was agreed to.                           *)
LEMMA GroupsDoneGood == ASSUME IInv, GroupsDone, UNCHANGED damage PROVE Good
<1>1. /\ fs.pc = "rgs" /\ DOMAIN fs = FsFields /\ fs.ragged \in BOOLEAN
      /\ fs' = [DropTrees(fs) EXCEPT !.pc = "check"] /\ ragged' = fs.ragged
      /\ UNCHANGED <<opt, mk, hdr, bits, inode, rindex, sb>>
  BY DEF GroupsDone, IInv
<1>2. Follows(fs, fs')
  BY <1>1 DEF Follows, FsFields, DropTrees
<1>3. fs.mode.answers = "no" => fs.ragged = ragged
  BY <1>1 DEF IInv, NothingAskedFor, Fetching
<1>4. QED
  BY <1>1, <1>2, <1>3 DEF Follows, Good, IInv, NothingAskedFor, LeavesAlone, dvars, Fetching

LEMMA CheckGood == ASSUME IInv, Check, UNCHANGED damage PROVE Good
<1>1. fs.pc = "check" /\ DOMAIN fs = FsFields
  BY DEF Check, IInv
<1> DEFINE Read(r) == [fs EXCEPT !.tree = r.tree, !.count = r.count, !.ok = r.ok]
           Sized(r) == [Read(r) EXCEPT !.fssize = LastData(r.tree)]
           Whole(r) == [Sized(r) EXCEPT !.pc = "integrity", !.n = 1, !.fixit = FALSE]
<1>2. PICK r : To(LevelFails(Read(r))) \/ To(LevelFails(DropTrees(Sized(r)))) \/ To(Whole(r))
  BY DEF Check
<1>3. Follows(fs, Read(r)) /\ Follows(fs, Sized(r)) /\ Follows(fs, Whole(r))
  BY <1>1 DEF Follows, FsFields
<1> HIDE DEF Read, Sized, Whole
<1>4. Follows(Read(r), LevelFails(Read(r))) /\ Follows(Sized(r), LevelFails(DropTrees(Sized(r))))
  BY <1>3, LevelFailsFollows, DroppedFollows DEF Follows
<1>5. Follows(fs, LevelFails(Read(r))) /\ Follows(fs, LevelFails(DropTrees(Sized(r))))
  BY <1>3, <1>4, FollowsOn
<1>6. PICK next : To(next) /\ Follows(fs, next)
  BY <1>2, <1>3, <1>5
<1>7. QED
  BY <1>1, <1>6, ToIsGood DEF Fetching

(* Nothing is reclaimed, and no count corrected.                           *)
LEMMA CheckIntegrityGood == ASSUME IInv, CheckIntegrity, UNCHANGED damage PROVE Good
<1>1. fs.pc = "integrity" /\ DOMAIN fs = FsFields /\ UNCHANGED <<opt, mk, inode, rindex, ragged, sb>>
  BY DEF CheckIntegrity, IInv
<1> DEFINE r == fs.tree[fs.n]
           unlinked == In(r, "unlinked")
<1>2. \E yes \in IF unlinked = {} THEN {FALSE} ELSE Answers :
           LET fixit == fs.fixit \/ yes
               reclaimed == Reclaimed(unlinked, fixit)
               free == hdr[r.addr].free + Cardinality(reclaimed)
               counted == FreeIn(r) + Cardinality(reclaimed)
           IN  \E fix \in IF free = counted THEN {FALSE} ELSE Answers :
                /\ bits' = IF reclaimed = {} THEN bits
                           ELSE [b \in Block |-> IF b \in reclaimed THEN "free" ELSE bits[b]]
                /\ hdr' = IF reclaimed = {} /\ ~fix THEN hdr
                          ELSE [hdr EXCEPT ![r.addr].free = IF fix THEN counted ELSE free]
                /\ fs' = [fs EXCEPT !.n = @ + 1, !.fixit = fixit]
  BY DEF CheckIntegrity
<1> HIDE DEF r, unlinked
<1>3. PICK yes \in IF unlinked = {} THEN {FALSE} ELSE Answers :
        /\ fs' = [fs EXCEPT !.n = @ + 1, !.fixit = fs.fixit \/ yes]
        /\ \E any : \E fix \in IF any THEN {FALSE} ELSE Answers :
             Reclaimed(unlinked, fs.fixit \/ yes) = {} /\ ~fix => bits' = bits /\ hdr' = hdr
  BY <1>2
<1>4. /\ DOMAIN fs' = FsFields /\ fs'.pc = "integrity" /\ fs'.mode = fs.mode /\ fs'.todo = fs.todo
      /\ fs'.ragged = fs.ragged /\ fs'.fixit = (fs.fixit \/ yes)
  BY <1>1, <1>3 DEF FsFields
<1>5. ASSUME fs.mode.answers = "no" PROVE fs'.fixit = FALSE /\ bits' = bits /\ hdr' = hdr
  <2>1. yes = FALSE /\ fs.fixit = FALSE
    BY <1>1, <1>3, <1>5, OnlyNo DEF IInv, NothingAskedFor
  <2>2. fs.fixit \/ yes <=> FALSE
    BY <2>1
  <2>3. Reclaimed(unlinked, fs.fixit \/ yes) = {}
    BY <2>2 DEF Reclaimed
  <2>4. QED
    BY <1>3, <1>4, <1>5, <2>1, <2>3, OnlyNo
<1>6. QED
  BY <1>1, <1>4, <1>5 DEF Good, IInv, NothingAskedFor, LeavesAlone, dvars, Fetching

LEMMA IntegrityDoneGood == ASSUME IInv, IntegrityDone, UNCHANGED damage PROVE Good
<1>1. fs.pc = "integrity" /\ DOMAIN fs = FsFields /\ To([fs EXCEPT !.pc = "fetched"])
  BY DEF IntegrityDone, IInv
<1>2. Follows(fs, [fs EXCEPT !.pc = "fetched"])
  BY <1>1 DEF Follows, FsFields
<1>3. [fs EXCEPT !.pc = "fetched"].pc \notin Fetching
  BY <1>1 DEF Fetching, FsFields
<1>4. QED
  BY <1>1, <1>2, <1>3, ToIsGood

LEMMA InterruptGood == ASSUME IInv, Interrupt, UNCHANGED damage PROVE Good
<1>1. fs.pc \in Fetching \union {"integrity"} /\ fs' = [fs EXCEPT !.abort = TRUE] /\ UNCHANGED <<opt, mk, dvars>>
  BY DEF Interrupt, Fetching
<1>2. fs.pc # "off" /\ DOMAIN fs = FsFields
  BY <1>1 DEF IInv, Fetching
<1>3. Follows(fs, fs') /\ fs'.pc = fs.pc
  BY <1>1, <1>2 DEF Follows, FsFields
<1>4. QED
  BY <1>1, <1>2, <1>3 DEF Follows, Good, IInv, NothingAskedFor, LeavesAlone, dvars, Fetching

LEMMA FetchGood == ASSUME IInv, NextFetch, UNCHANGED damage PROVE Good
  BY LevelGood, RereadGood, CompareGood, FixIndexGood, IndexDoneGood, FixGroupGood, GroupsDoneGood, CheckGood,
     CheckIntegrityGood, IntegrityDoneGood, InterruptGood DEF NextFetch

-----------------------------------------------------------------------------
(* The superblock, the master directory and the rindex.                    *)
LEMMA NowIsGood ==
  ASSUME IInv, fs.pc # "off", NEW f, Now(f), Follows(fs, f), f.pc \notin Fetching
  PROVE  Good
  BY ToIsGood DEF Now

LEMMA DetermineBsizeGood == ASSUME IInv, DetermineBsize PROVE Good
<1>1. fs.pc = "bsize" /\ DOMAIN fs = FsFields
  BY DEF DetermineBsize, IInv
<1>2. PICK pc \in {"peruse", "error", "crashed"} : Now([fs EXCEPT !.pc = pc])
  <2>1. PICK found : Now([fs EXCEPT !.pc = CASE found = "found" -> "peruse"
                                             [] found = "none" -> "error"
                                             [] OTHER -> "crashed"])
    BY DEF DetermineBsize
  <2>2. (CASE found = "found" -> "peruse" [] found = "none" -> "error" [] OTHER -> "crashed")
          \in {"peruse", "error", "crashed"}
    OBVIOUS
  <2>3. QED
    BY <2>1, <2>2
<1>3. Follows(fs, [fs EXCEPT !.pc = pc]) /\ [fs EXCEPT !.pc = pc].pc \notin Fetching
  BY <1>1, <1>2 DEF Follows, FsFields, Fetching
<1>4. QED
  BY <1>1, <1>2, <1>3, NowIsGood

LEMMA PeruseGood == ASSUME IInv, Peruse PROVE Good
<1>1. /\ fs.pc = "peruse" /\ DOMAIN fs = FsFields
      /\ UNCHANGED <<opt, mk, hdr, bits, rindex, ragged, sb, damage>>
  BY DEF Peruse, IInv
<1>2. PICK b :
        /\ fs' = [(IF inode[b].sys THEN peruse_system_dinode(b) ELSE peruse_user_dinode(b)) EXCEPT !.blk = b + 1]
        /\ \E yes \in IF RootCopy(b) THEN Answers ELSE {FALSE} : yes \/ inode' = inode
  BY DEF Peruse
<1>3. \A v : Follows(fs, [fs EXCEPT !.meta = v]) /\ Follows(fs, [fs EXCEPT !.ji = v])
             /\ Follows(fs, [fs EXCEPT !.root = v]) /\ Follows(fs, fs)
  BY <1>1 DEF Follows, FsFields
<1>4. \A v : [fs EXCEPT !.meta = v].pc = fs.pc /\ [fs EXCEPT !.ji = v].pc = fs.pc /\ [fs EXCEPT !.root = v].pc = fs.pc
  BY <1>1 DEF FsFields
<1>5. Follows(fs, peruse_system_dinode(b)) /\ peruse_system_dinode(b).pc = fs.pc
  <2> DEFINE ip == inode[b]
             has(name) == ip.dir /\ name \in DOMAIN ip.entries
  <2>1. CASE ip.formal = 2
    <3>1. peruse_system_dinode(b) = [fs EXCEPT !.meta = IF @ = 0 THEN ip.addr ELSE @]
      BY <2>1 DEF peruse_system_dinode
    <3>2. QED
      BY <1>3, <1>4, <3>1
  <2>2. CASE ip.formal = 3
    <3>1. peruse_system_dinode(b) = [fs EXCEPT !.ji = IF @ = 0 /\ ~is_journal_copy(b) THEN ip.addr ELSE @]
      BY <2>2 DEF peruse_system_dinode
    <3>2. QED
      BY <1>3, <1>4, <3>1
  <2>3. CASE ip.formal \notin {2, 3} /\ has(<<"jindex">>)
    <3>1. peruse_system_dinode(b) =
            IF fs.ji # 0 \/ is_journal_copy(b) THEN fs
            ELSE [fs EXCEPT !.ji = ip.entries[<<"jindex">>], !.meta = ip.addr]
      BY <2>3 DEF peruse_system_dinode
    <3>2. PICK v, w : peruse_system_dinode(b) \in {fs, [fs EXCEPT !.ji = v, !.meta = w]}
      BY <3>1
    <3>3. CASE peruse_system_dinode(b) = fs
      BY <1>3, <3>3
    <3>4. CASE peruse_system_dinode(b) = [fs EXCEPT !.ji = v, !.meta = w]
      BY <1>1, <3>4 DEF Follows, FsFields
    <3>5. QED
      BY <3>2, <3>3, <3>4
  <2>4. CASE ip.formal \notin {2, 3} /\ ~has(<<"jindex">>) /\ has(<<"statfs_change", 0>>)
    <3>1. peruse_system_dinode(b) =
            IF fs.per_node # 0 \/ is_journal_copy(b) THEN fs
            ELSE [fs EXCEPT !.per_node = ip.addr, !.meta = ip.parent]
      BY <2>4 DEF peruse_system_dinode
    <3>2. PICK v, w : peruse_system_dinode(b) \in {fs, [fs EXCEPT !.per_node = v, !.meta = w]}
      BY <3>1
    <3>3. CASE peruse_system_dinode(b) = fs
      BY <1>3, <3>3
    <3>4. CASE peruse_system_dinode(b) = [fs EXCEPT !.per_node = v, !.meta = w]
      BY <1>1, <3>4 DEF Follows, FsFields
    <3>5. QED
      BY <3>2, <3>3, <3>4
  <2>5. CASE ip.formal \notin {2, 3} /\ ~has(<<"jindex">>) /\ ~has(<<"statfs_change", 0>>)
    <3>1. peruse_system_dinode(b) = fs
      BY <2>5 DEF peruse_system_dinode
    <3>2. QED
      BY <1>3, <3>1
  <2>6. QED
    BY <2>1, <2>2, <2>3, <2>4, <2>5
<1>6. Follows(fs, peruse_user_dinode(b)) /\ peruse_user_dinode(b).pc = fs.pc
  BY <1>3, <1>4 DEF peruse_user_dinode
<1>7. PICK f : Follows(fs, f) /\ f.pc = "peruse" /\ fs' = [f EXCEPT !.blk = b + 1]
  BY <1>1, <1>2, <1>5, <1>6
<1>8. Follows(f, fs') /\ fs'.pc = "peruse"
  BY <1>7 DEF Follows, FsFields
<1>9. Follows(fs, fs')
  BY <1>7, <1>8, FollowsOn
<1>10. fs.mode.answers = "no" => inode' = inode
  BY <1>2, OnlyNo
<1>11. QED
  BY <1>1, <1>8, <1>9, <1>10 DEF Follows, Good, IInv, NothingAskedFor, LeavesAlone, dvars, Fetching

LEMMA PeruseDoneGood == ASSUME IInv, PeruseDone PROVE Good
<1>1. fs.pc = "peruse" /\ DOMAIN fs = FsFields
  BY DEF PeruseDone, IInv
<1>2. PICK pc \in {"crashed", "error", "guess", "sb"} : Now([fs EXCEPT !.pc = pc])
  BY DEF PeruseDone
<1>3. Follows(fs, [fs EXCEPT !.pc = pc]) /\ [fs EXCEPT !.pc = pc].pc \notin Fetching
  BY <1>1, <1>2 DEF Follows, FsFields, Fetching
<1>4. QED
  BY <1>1, <1>2, <1>3, NowIsGood

LEMMA GuessRootGood == ASSUME IInv, GuessRoot PROVE Good
<1>1. /\ fs.pc = "guess" /\ DOMAIN fs = FsFields
      /\ UNCHANGED <<opt, mk, hdr, bits, rindex, ragged, sb, damage>>
  BY DEF GuessRoot, IInv
<1>2. PICK guess, has : \E yes \in IF has THEN {FALSE} ELSE Answers :
        /\ fs' = [fs EXCEPT !.root = guess, !.pc = IF has \/ yes THEN "sb" ELSE "error"]
        /\ yes \/ inode' = inode
  BY DEF GuessRoot
<1>3. Follows(fs, fs') /\ fs'.pc \notin Fetching
  BY <1>1, <1>2 DEF Follows, FsFields, Fetching
<1>4. fs.mode.answers = "no" => inode' = inode
  BY <1>2, OnlyNo
<1>5. QED
  BY <1>1, <1>3, <1>4 DEF Follows, Good, IInv, NothingAskedFor, LeavesAlone, dvars

LEMMA FixSuperblockGood == ASSUME IInv, FixSuperblock PROVE Good
<1>1. /\ fs.pc = "sb" /\ DOMAIN fs = FsFields
      /\ UNCHANGED <<opt, mk, hdr, bits, inode, rindex, ragged, damage>>
  BY DEF FixSuperblock, IInv
<1>2. PICK yes \in Answers :
        /\ fs' = [fs EXCEPT !.pc = IF yes THEN "master" ELSE "error", !.fixed_sb = yes]
        /\ yes \/ sb' = sb
  BY DEF FixSuperblock
<1>3. Follows(fs, fs') /\ fs'.pc \notin Fetching
  BY <1>1, <1>2 DEF Follows, FsFields, Fetching
<1>4. fs.mode.answers = "no" => sb' = sb
  BY <1>2, OnlyNo
<1>5. QED
  BY <1>1, <1>3, <1>4 DEF Follows, Good, IInv, NothingAskedFor, LeavesAlone, dvars

LEMMA OpenMasterGood == ASSUME IInv, OpenMaster PROVE Good
<1>1. fs.pc = "master" /\ DOMAIN fs = FsFields
  BY DEF OpenMaster, IInv
<1>2. PICK pc \in {"error", "crashed", "rindex"} : Now([fs EXCEPT !.pc = pc])
  BY DEF OpenMaster
<1>3. Follows(fs, [fs EXCEPT !.pc = pc]) /\ [fs EXCEPT !.pc = pc].pc \notin Fetching
  BY <1>1, <1>2 DEF Follows, FsFields, Fetching
<1>4. QED
  BY <1>1, <1>2, <1>3, NowIsGood

(* The fetch begins, with what the end of the index looks like.            *)
LEMMA OpenRindexGood == ASSUME IInv, OpenRindex PROVE Good
<1>1. fs.pc = "rindex" /\ DOMAIN fs = FsFields /\ ragged \in BOOLEAN
  BY DEF OpenRindex, IInv
<1>2. PICK p, pc : /\ pc \in {"error", "crashed"}
                   /\ \/ Now(StartFetch([fs EXCEPT !.per_node = p]))
                      \/ Now([[fs EXCEPT !.per_node = p] EXCEPT !.pc = pc])
  <2> DEFINE f == [fs EXCEPT !.per_node = LookUp(fs.meta, <<"per_node">>)]
  <2>1. \E pc \in {"error", "crashed"} : Now(StartFetch(f)) \/ Now([f EXCEPT !.pc = pc])
    BY DEF OpenRindex
  <2>2. QED
    BY <2>1
<1>3. CASE Now(StartFetch([fs EXCEPT !.per_node = p]))
  <2>1. /\ DOMAIN fs' = FsFields /\ fs'.pc = "level" /\ fs'.mode = fs.mode /\ fs'.todo = fs.todo
        /\ fs'.ragged = ragged /\ fs'.fixit = fs.fixit /\ UNCHANGED <<opt, mk, dvars>>
    BY <1>1, <1>3 DEF Now, To, StartFetch, FsFields
  <2>2. QED
    BY <1>1, <2>1 DEF Good, IInv, NothingAskedFor, LeavesAlone, dvars
<1>4. CASE Now([[fs EXCEPT !.per_node = p] EXCEPT !.pc = pc])
  <2>1. Follows(fs, [[fs EXCEPT !.per_node = p] EXCEPT !.pc = pc])
        /\ [[fs EXCEPT !.per_node = p] EXCEPT !.pc = pc].pc \notin Fetching
    BY <1>1, <1>2 DEF Follows, FsFields, Fetching
  <2>2. QED
    BY <1>1, <1>4, <2>1, NowIsGood
<1>5. QED
  BY <1>2, <1>3, <1>4

-----------------------------------------------------------------------------
(* The system files.  A step that builds one says what it builds next.     *)
BuildsOn(f, g) ==
    /\ DOMAIN g = FsFields /\ g.pc \notin Fetching \union {"off"}
    /\ g.mode = f.mode /\ g.ragged = f.ragged /\ g.fixit = f.fixit

LEMMA BuiltIsGood ==
  ASSUME IInv, fs.pc # "off", UNCHANGED <<mk, ragged>>, NEW f, BuildsOn(fs, f), fs' = f,
         fs.mode.answers = "no" => f.todo \in Todos /\ dvars' = dvars
  PROVE  Good
  BY DEF BuildsOn, Good, IInv, NothingAskedFor, LeavesAlone

LEMMA CreatedBuildsOn ==
  ASSUME NEW name, NEW dir, NEW f, NEW next, createi(name, dir, next), BuildsOn(f, next)
  PROVE  UNCHANGED <<mk, ragged>> /\ BuildsOn(f, fs')
<1>1. fs' = [next EXCEPT !.next_inum = @ + 1] /\ UNCHANGED <<mk, ragged>>
  BY DEF createi
<1>2. QED
  BY <1>1 DEF BuildsOn, FsFields

LEMMA InodesBuildsOn ==
  ASSUME NEW v, DOMAIN fs = FsFields
  PROVE  /\ BuildsOn(fs, Inodes(fs)) /\ Inodes(fs).todo = SystemInodes
         /\ BuildsOn(fs, Inodes([fs EXCEPT !.journals = v])) /\ Inodes([fs EXCEPT !.journals = v]).todo = SystemInodes
  BY DEF BuildsOn, Inodes, FsFields, Fetching

LEMMA OpenJindexGood == ASSUME IInv, OpenJindex PROVE Good
<1>1. fs.pc = "fetched" /\ DOMAIN fs = FsFields
  BY DEF OpenJindex, IInv
<1>2. PICK v : Now(Inodes([fs EXCEPT !.journals = v]))
  BY DEF OpenJindex
<1>3. fs' = Inodes([fs EXCEPT !.journals = v]) /\ UNCHANGED <<opt, mk, dvars>>
  BY <1>2 DEF Now, To
<1>4. SystemInodes \in Todos
  BY DEF Todos
<1>5. QED
  BY <1>1, <1>3, <1>4, InodesBuildsOn, BuiltIsGood DEF dvars

LEMMA BuildJindexGood == ASSUME IInv, BuildJindex PROVE Good
<1>1. fs.pc = "fetched" /\ DOMAIN fs = FsFields
  BY DEF BuildJindex, IInv
<1>2. PICK yes \in Answers :
        CASE ~yes -> Now(Inodes(fs))
          [] yes /\ (NoRoom(<<"jindex">>) \/ fs.meta \notin DOMAIN inode) ->
                \E f \in {Inodes(fs), [fs EXCEPT !.pc = "crashed"]} : Now(f)
          [] OTHER -> createi(<<"jindex">>, fs.meta, Inodes([fs EXCEPT !.journals = ji_update(2)]))
  BY DEF BuildJindex
<1>3. SystemInodes \in Todos
  BY DEF Todos
<1>4. CASE ~yes
  <2>1. fs' = Inodes(fs) /\ UNCHANGED <<opt, mk, dvars>>
    BY <1>2, <1>4 DEF Now, To
  <2>2. QED
    BY <1>1, <1>3, <2>1, InodesBuildsOn, BuiltIsGood DEF dvars
<1>5. CASE yes
  <2>1. fs.mode.answers # "no"
    BY <1>2, <1>5, OnlyNo
  <2>2. \/ Now(Inodes(fs)) \/ Now([fs EXCEPT !.pc = "crashed"])
        \/ createi(<<"jindex">>, fs.meta, Inodes([fs EXCEPT !.journals = ji_update(2)]))
    BY <1>2, <1>5
  <2>3. BuildsOn(fs, [fs EXCEPT !.pc = "crashed"])
    BY <1>1 DEF BuildsOn, FsFields, Fetching
  <2>4. UNCHANGED <<mk, ragged>> /\ BuildsOn(fs, fs')
    <3>1. CASE Now(Inodes(fs)) \/ Now([fs EXCEPT !.pc = "crashed"])
      BY <1>1, <3>1, <2>3, InodesBuildsOn DEF Now, To, dvars
    <3>2. CASE createi(<<"jindex">>, fs.meta, Inodes([fs EXCEPT !.journals = ji_update(2)]))
      BY <1>1, <3>2, InodesBuildsOn, CreatedBuildsOn
    <3>3. QED
      BY <2>2, <3>1, <3>2
  <2>5. QED
    BY <1>1, <2>1, <2>4, BuiltIsGood
<1>6. QED
  BY <1>4, <1>5

(* The files of a per_node directory are not among what is left.           *)
LEMMA TodosAreFew ==
  ASSUME NEW t \in Todos, t # << >>
  PROVE  Tail(t) \in Todos /\ ~InPerNode(Head(t))
<1> DEFINE a == <<"inum">>
           b == <<"statfs">>
           c == <<"quota">>
           d == <<"per_node">>
<1>1. /\ Tail(<<d>>) = << >> /\ Head(<<d>>) = d
      /\ Tail(<<c, d>>) = <<d>> /\ Head(<<c, d>>) = c
      /\ Tail(<<b, c, d>>) = <<c, d>> /\ Head(<<b, c, d>>) = b
      /\ Tail(<<a, b, c, d>>) = <<b, c, d>> /\ Head(<<a, b, c, d>>) = a
  OBVIOUS
<1>2. Tail(t) \in Todos
  <2> HIDE DEF a, b, c, d
  <2>1. Todos = { << >>, <<d>>, <<c, d>>, <<b, c, d>>, <<a, b, c, d>> }
    BY DEF Todos, SystemInodes, a, b, c, d
  <2>2. QED
    BY <1>1, <2>1
<1>3. Head(t) \in {<<"inum">>, <<"statfs">>, <<"quota">>, <<"per_node">>}
  BY <1>1 DEF Todos, SystemInodes
<1>4. \A i \in 1 .. 3 : PerNodeKinds[i] \in {"inum_range", "statfs_change", "quota_change"}
  BY DEF PerNodeKinds
<1>5. Head(t)[1] \in {"inum", "statfs", "quota", "per_node"}
  BY <1>3
<1>6. ~InPerNode(Head(t))
  BY <1>4, <1>5 DEF InPerNode
<1>7. QED
  BY <1>2, <1>6

LEMMA OpenInodeGood == ASSUME IInv, OpenInode PROVE Good
<1>1. fs.pc = "inodes" /\ DOMAIN fs = FsFields /\ fs.todo # << >>
  BY DEF OpenInode, IInv
<1>2. PICK f : f \in {[Next1 EXCEPT !.next_inum = NextInum], Next1} /\ Now(f)
  BY DEF OpenInode
<1>3. BuildsOn(fs, f) /\ f.todo = Tail(fs.todo)
  BY <1>1, <1>2 DEF BuildsOn, Next1, FsFields, Fetching
<1>4. fs.mode.answers = "no" => f.todo \in Todos
  BY <1>1, <1>3, TodosAreFew DEF IInv, NothingAskedFor
<1>5. fs' = f /\ UNCHANGED <<opt, mk, dvars>>
  BY <1>2 DEF Now, To
<1>6. QED
  BY <1>1, <1>3, <1>4, <1>5, BuiltIsGood DEF dvars

LEMMA BuildInodeGood == ASSUME IInv, BuildInode PROVE Good
<1>1. fs.pc = "inodes" /\ DOMAIN fs = FsFields /\ fs.todo # << >>
  BY DEF BuildInode, IInv
<1> DEFINE name == Head(fs.todo)
<1>2. PICK dir, yes : /\ yes \in IF InPerNode(name) THEN {TRUE} ELSE Answers
                      /\ IF ~yes \/ NoRoom(name) \/ dir \notin DOMAIN inode THEN Now([fs EXCEPT !.pc = "error"])
                         ELSE createi(name, dir, AfterBuild(name))
  BY DEF BuildInode
<1>3. CASE Now([fs EXCEPT !.pc = "error"])
  <2>1. Follows(fs, [fs EXCEPT !.pc = "error"]) /\ [fs EXCEPT !.pc = "error"].pc \notin Fetching
    BY <1>1 DEF Follows, FsFields, Fetching
  <2>2. QED
    BY <1>1, <1>3, <2>1, NowIsGood
<1>4. CASE yes /\ createi(name, dir, AfterBuild(name))
  <2>1. fs.mode.answers # "no"
    <3> SUFFICES ASSUME fs.mode.answers = "no" PROVE FALSE
      OBVIOUS
    <3>1. ~InPerNode(name)
      BY <1>1, TodosAreFew DEF IInv, NothingAskedFor
    <3>2. QED
      BY <1>2, <1>4, <3>1, OnlyNo
  <2>2. BuildsOn(fs, fs) /\ BuildsOn(fs, Next1) /\ \A t : BuildsOn(fs, [Next1 EXCEPT !.todo = t])
    BY <1>1 DEF BuildsOn, Next1, FsFields, Fetching
  <2>3. BuildsOn(fs, AfterBuild(name))
    <3>1. CASE name = <<"inum">>
      BY <2>2, <3>1 DEF AfterBuild
    <3>2. CASE name # <<"inum">> /\ name = <<"per_node">>
      <4>1. AfterBuild(<<"per_node">>) = [Next1 EXCEPT !.todo = PerNode \o Next1.todo]
        <5>1. <<"per_node">> # <<"inum">>
          BY <3>2
        <5>2. QED
          BY <5>1 DEF AfterBuild
      <4>2. QED
        BY <2>2, <3>2, <4>1
    <3>3. CASE name # <<"inum">> /\ name # <<"per_node">>
      BY <2>2, <3>3 DEF AfterBuild
    <3>4. QED
      BY <3>1, <3>2, <3>3
  <2>4. UNCHANGED <<mk, ragged>> /\ BuildsOn(fs, fs')
    BY <1>4, <2>3, CreatedBuildsOn
  <2>5. QED
    BY <1>1, <2>1, <2>4, BuiltIsGood
<1>5. QED
  BY <1>2, <1>3, <1>4

LEMMA SetRangesGood == ASSUME IInv, SetRanges PROVE Good
<1>1. fs.pc = "inodes" /\ DOMAIN fs = FsFields
  BY DEF SetRanges, IInv
<1>2. PICK pc \in {"opened", "error"} : Now([fs EXCEPT !.pc = pc])
  BY DEF SetRanges
<1>3. Follows(fs, [fs EXCEPT !.pc = pc]) /\ [fs EXCEPT !.pc = pc].pc \notin Fetching
  BY <1>1, <1>2 DEF Follows, FsFields, Fetching
<1>4. QED
  BY <1>1, <1>2, <1>3, NowIsGood

LEMMA RunFsckGood == ASSUME IInv, RunFsck PROVE Good
  BY DetermineBsizeGood, PeruseGood, PeruseDoneGood, GuessRootGood, FixSuperblockGood, OpenMasterGood, OpenRindexGood,
     FetchGood, OpenJindexGood, BuildJindexGood, OpenInodeGood, BuildInodeGood, SetRangesGood DEF RunFsck

-----------------------------------------------------------------------------
(* What happens to the device before fsck.gfs2 opens it.                   *)
(* mkfs.gfs2 is over when fsck.gfs2 runs.                                  *)
Runs == mk.pc # "exited" /\ UNCHANGED ragged /\ DOMAIN mk' = DOMAIN mk
LEMMA MkfsRuns == NextMkfs => Runs
<1>1. PlaceJournalRgrp => Runs
  BY DEF PlaceJournalRgrp, Fail, MkStep, Runs
<1>2. WriteJournal => Runs
  BY DEF WriteJournal, MkStep, Runs
<1>3. PlanRgrps => Runs
  BY DEF PlanRgrps, dvars, MkStep, Runs
<1>4. PlaceRgrp => Runs
  BY DEF PlaceRgrp, MkStep, Runs
<1>5. WriteFinalRgrp => Runs
  BY DEF WriteFinalRgrp, MkStep, Runs
<1>6. BuildFile => Runs
  BY DEF BuildFile, Build, Fail, MkStep, Runs
<1>7. PutPerNode => Runs
  BY DEF PutPerNode, MkStep, Runs
<1>8. InitFiles => Runs
  BY DEF InitFiles, dvars, MkStep, Runs
<1>9. PutHeld => Runs
  BY DEF PutHeld, MkStep, Runs
<1>10. WriteSuperblock => Runs
  BY DEF WriteSuperblock, MkStep, Runs
<1>11. KillMkfs => Runs
  BY DEF KillMkfs, dvars, Runs
<1>12. QED
  BY <1>1, <1>2, <1>3, <1>4, <1>5, <1>6, <1>7, <1>8, <1>9, <1>10, <1>11 DEF NextMkfs

LEMMA MkfsGood == ASSUME IInv, NextMkfs, UNCHANGED <<fs, damage>> PROVE Good
<1>1. Runs
  BY MkfsRuns
<1>2. fs.pc = "off"
  BY <1>1 DEF IInv, Runs
<1>3. QED
  BY <1>1, <1>2 DEF Good, IInv, LeavesAlone, Runs

LEMMA DamageGood == ASSUME IInv, Damage PROVE Good
<1>1. fs.pc = "off" /\ fs' = fs /\ DOMAIN mk' = DOMAIN mk
  BY DEF Damage, LoseSuperblock, LoseDinode, LoseEntry, LoseHeader, Miscount, LeaveUnlinked, SpoilIndex, CutIndex,
         LogCopy, OlderMkfs, Hit
<1>2. ragged' \in {ragged, TRUE}
  BY DEF Damage, LoseSuperblock, LoseDinode, LoseEntry, LoseHeader, Miscount, LeaveUnlinked, SpoilIndex, CutIndex,
         LogCopy, OlderMkfs
<1>3. QED
  BY <1>1, <1>2 DEF Good, IInv, LeavesAlone

LEMMA StartFsckGood == ASSUME IInv, StartFsck PROVE Good
<1>1. fs.pc = "off" /\ UNCHANGED <<opt, dvars, damage>> /\ mk' = [mk EXCEPT !.pc = "exited"]
  BY DEF StartFsck
<1>2. mk'.pc = "exited" /\ "pc" \in DOMAIN mk' /\ UNCHANGED ragged
  BY <1>1 DEF IInv, dvars
<1>3. /\ DOMAIN fs' = FsFields /\ fs'.ragged = FALSE /\ fs'.fixit = FALSE /\ fs'.todo = << >>
      /\ fs'.pc \in {"bsize", "master"}
  BY DEF StartFsck, FsFields
<1>4. << >> \in Todos
  BY DEF Todos
<1>5. QED
  BY <1>1, <1>2, <1>3, <1>4 DEF Good, IInv, NothingAskedFor, LeavesAlone, Fetching

-----------------------------------------------------------------------------
LEMMA InitInv == Init => IInv
<1> SUFFICES ASSUME Init PROVE IInv
  OBVIOUS
<1>1. ragged = FALSE /\ fs.pc = "off"
  BY DEF Init, InitMkfs, NoFsck
<1>2. "pc" \in DOMAIN mk
  BY DEF Init, InitMkfs
<1>3. QED
  BY <1>1, <1>2 DEF IInv

LEMMA StepGood == IInv /\ [Next]_vars => Good
<1> SUFFICES ASSUME IInv, [Next]_vars PROVE Good
  OBVIOUS
<1>1. CASE UNCHANGED vars
  BY <1>1 DEF vars, rrvars, dvars, Good, IInv, NothingAskedFor, LeavesAlone
<1>2. CASE Next
  BY <1>1, <1>2, MkfsGood, DamageGood, StartFsckGood, RunFsckGood DEF Next
<1>3. QED
  BY <1>1, <1>2

(* Whatever has become of the device, if every question is answered with   *)
(* no then fsck.gfs2 writes nothing while it opens the file system.        *)
THEOREM NoMeansUntouched == Spec => OnlyAsked
<1>1. Init => IInv
  BY InitInv
<1>2. IInv /\ [Next]_vars => IInv'
  BY StepGood DEF Good
<1>3. IInv /\ [Next]_vars => [fs.pc # "off" /\ fs.mode.answers = "no" => dvars' = dvars]_vars
  BY StepGood DEF Good, LeavesAlone
<1>4. QED
  BY <1>1, <1>2, <1>3, PTL DEF Spec, OnlyAsked

=============================================================================
