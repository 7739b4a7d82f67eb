-------------------------- MODULE BlockMap_proofs --------------------------
(***************************************************************************)
(* Proofs about BlockMap, for any number of blocks, any resource groups    *)
(* and any files: what pass1 undoes of a file found corrupt is never taken *)
(* from a file it has kept.  The argument is about places, as a file may   *)
(* refer to a block several times: each place the undo may still come to   *)
(* was walked, and the record of a kept block lasts as long as there is    *)
(* such a place that leads to it.  At the last one the record may go; with *)
(* two, the file has the block twice, and the record is there to stay.     *)
(***************************************************************************)
EXTENDS BlockMap, FiniteSetTheorems, WellFoundedInduction, TLAPS

-----------------------------------------------------------------------------
(* The blocks of the files kept so far.                                    *)
Kept == UNION { Own(f) : f \in Whole }

(* The walk of a file is under way, or its undo.                           *)
Walking == pc \in {"metalist", "data"}
Undoing == pc \in {"error_undo", "remove", "undo_meta", "undo_data", "invalidate"}
AtFile == Walking \/ Undoing \/ pc \in {"rangecheck", "set_ip"}

(* The places of a file's pointers: <<0, k>> in the dinode of a file with  *)
(* indirect blocks, <<a, k>> in the a-th block with pointers to data.      *)
Holder(a) == IF a = 0 THEN ip ELSE DataLists[a]
Lead(p) == ptrs[Holder(p[1])][p[2]]
MetaPlaces == IF fs.height[ip] = 2 THEN {0} \X DOMAIN ptrs[ip] ELSE {}
IsData(p) == p[1] \in DOMAIN DataLists /\ p[2] \in DOMAIN ptrs[Holder(p[1])]
Before(p, q) == p[1] < q[1] \/ (p[1] = q[1] /\ p[2] < q[2])

(* The place of the error, and what was walked before it: all of its block *)
(* if it was not fatal.                                                    *)
ErrorIn(e) ==
    /\ e \in DOMAIN DataLists /\ error_blk[1] = DataLists[e]
    /\ error_blk[2] \in DOMAIN ptrs[DataLists[e]] /\ ptrs[DataLists[e]][error_blk[2]] # Null
WalkedTo(p) ==
    IsData(p) /\ \E e \in Nat : ErrorIn(e) /\ (Before(p, <<e, error_blk[2]>>) \/ (p[1] = e /\ error > 0))

(* The places that were walked and that the undo may still come to.        *)
IsPending(p) ==
    CASE pc = "metalist" -> p \in MetaPlaces /\ p[2] < at[2]
      [] pc = "data" -> p \in MetaPlaces \/ (IsData(p) /\ Before(p, at))
      [] pc = "error_undo" -> p \in MetaPlaces /\ p[2] >= at[2] /\ p[2] < at[1]
      [] pc = "remove" -> WalkedTo(p)
      [] pc = "undo_meta" -> WalkedTo(p) /\ ~hit_error_blk /\ p[1] >= at[1]
      [] pc = "undo_data" -> WalkedTo(p) /\ ~Before(p, at)
      [] OTHER -> FALSE
Places == Nat \X Nat
Pending == { p \in Places : IsPending(p) }

-----------------------------------------------------------------------------
(* A record counts the inodes it names and one more, and one more again    *)
(* once its first reference is taken to be found.                          *)
RecordOK(dt) ==
    /\ dt \in DupType
    /\ dt.refs >= Cardinality(dt.by) + 1 /\ (dt.ref1_found => dt.refs >= Cardinality(dt.by) + 2)

(* The locals of the walk, as far as it has come.                          *)
NoError == error = 0 /\ error_blk = <<0, 0>>
HasError == error \in {-1, 1} /\ \E e \in Nat : ErrorIn(e)
InMetadata == error = 1 /\ error_blk = <<0, 0>> /\ fs.height[ip] = 2
FileAtHand ==
    /\ ip \in Blocks \ Headers /\ fs.content[ip] = "DI"
    /\ \A k \in DOMAIN metalist : metalist[k] \in Blocks \ Headers /\ fs.content[metalist[k]] = "IN"
    /\ \A j, k \in DOMAIN metalist : metalist[j] = metalist[k] => j = k
    /\ fs.height[ip] # 2 => metalist = << >>
Locals ==
    /\ pc \in {"rangecheck", "set_ip"} => NoError /\ ~hit_error_blk /\ at = <<1, 1>> /\ metalist = << >>
    /\ pc = "metalist" => NoError /\ ~hit_error_blk /\ fs.height[ip] = 2
    /\ pc = "data" =>
          /\ ~hit_error_blk /\ (NoError \/ (error = 1 /\ ErrorIn(at[1]) /\ error_blk[2] < at[2]))
          /\ at[1] <= Len(DataLists) + 1
    /\ pc = "error_undo" => InMetadata /\ ~hit_error_blk /\ at[1] \in DOMAIN ptrs[ip] /\ at[2] <= at[1]
    /\ pc = "remove" => (InMetadata \/ HasError) /\ ~hit_error_blk /\ at = <<1, 1>>
    /\ pc = "undo_meta" => (InMetadata \/ HasError) /\ fs.height[ip] = 2 /\ at[2] = 1
    /\ pc = "undo_data" => HasError /\ ~hit_error_blk /\ at[1] \in DOMAIN DataLists

(* The values of the variables.                                            *)
FilesOK ==
    /\ fs.content \in [Blocks -> Contents] /\ fs.height \in [Blocks -> 0 .. 2]
    /\ \A b \in Headers : fs.content[b] = "RG"
    /\ ptrs \in [Blocks -> Seq(Pointers)]
MapsOK ==
    /\ bitmap \in [Blocks -> BitStates] /\ \A b \in Blocks : bitmap[b] = "none" <=> b \in Headers
    /\ bl \in [Blocks -> MapStates] /\ fsck_abort \in BOOLEAN /\ declined \subseteq Blocks
DupsOK ==
    DOMAIN dup_blocks \subseteq Blocks /\ \A b \in DOMAIN dup_blocks : RecordOK(dup_blocks[b])
WalkOK ==
    /\ skip_this_pass \in BOOLEAN
    /\ pc \in {"rgrps", "inodes", "count", "pass5", "done", "canceled"} \/ AtFile
    /\ rgd \in 0 .. Len(Rgrps) /\ ibuf \subseteq Blocks \ Headers
    /\ ip \in Blocks \union {0} /\ metalist \in Seq(Blocks) /\ error \in -1 .. 1
    /\ at \in (Nat \ {0}) \X (Nat \ {0})
    /\ error_blk \in Nat \X Nat /\ hit_error_blk \in BOOLEAN /\ found_error_blk \in BOOLEAN
    /\ walked \subseteq Blocks \X Blocks
    /\ cut \subseteq {"list", "walk", "error", "undo", "leak", "pass5"}
MarksOK ==
    /\ Walking => \A k \in DOMAIN metalist : bl[metalist[k]] # "free"
    /\ \A b \in Blocks : bl[b] = "unlinked" => b = ip /\ Undoing

(* All this holds without exception.                                       *)
Base ==
    /\ FilesOK /\ MapsOK /\ DupsOK /\ WalkOK
    /\ AtFile => FileAtHand
    /\ MarksOK /\ Locals

-----------------------------------------------------------------------------
(* What is true as long as the undo has gone no further than the walk.  A  *)
(* kept file is in walked with itself and with its indirect blocks; none   *)
(* of its blocks is free, and shared ones are on record.                   *)
WalkedOf ==
    /\ \A w \in walked : w[1] \in Whole /\ (w[2] = w[1] \/ fs.content[w[2]] = "IN")
    /\ \A f \in Whole : f \notin Headers /\ fs.content[f] = "DI"
InUse == \A f \in Whole : bl[f] = "dinode" /\ \A b \in SeenRefs(f) : bl[b] # "free"
OnRecord(b, f) == dup_blocks[b].ref1_found \/ f \in dup_blocks[b].by
Shared ==
    \A f, g \in Whole : \A b \in Own(f) \intersect Own(g) :
        f # g => Recorded(b) /\ (OnRecord(b, f) \/ OnRecord(b, g))

(* The file at hand and its indirect blocks are of no kept file; the record *)
(* of a kept block lasts while places that lead to it are pending.         *)
KeptAside == AtFile => ip \notin Kept /\ \A k \in DOMAIN metalist : metalist[k] \notin Kept
RecordLasts ==
    /\ \A p \in Pending : Lead(p) \in Kept => Recorded(Lead(p))
    /\ \A p, q \in Pending : p # q /\ Lead(p) = Lead(q) /\ Lead(p) \in Kept => dup_blocks[Lead(p)].ref1_found

(* In the walk, what was come to is marked and the file is on record.      *)
Marked ==
    Walking =>
        /\ bl[ip] = "dinode"
        /\ \A p \in Pending :
              /\ Lead(p) \in Blocks \ Headers => bl[Lead(p)] # "free"
              /\ Lead(p) \in Kept => OnRecord(Lead(p), ip)

(* The undo is at the block of the error or before it, and at the error or *)
(* before it if that was fatal.                                            *)
UndoAt ==
    /\ pc = "undo_meta" /\ HasError /\ ~hit_error_blk => \E e \in Nat : ErrorIn(e) /\ at[1] <= e
    /\ pc = "undo_data" =>
          \E e \in Nat :
              /\ ErrorIn(e) /\ at[1] <= e
              /\ at[1] = e /\ error < 0 => at[2] <= error_blk[2]
              /\ at[1] = e /\ error > 0 /\ at[2] > error_blk[2] => found_error_blk

(* pass5 leaves no kept block free that it has come to.                    *)
Reconciled ==
    /\ pc \in {"pass5", "done"} => \A b \in Kept \ declined : b < at[1] => bitmap[b] # "free"
    /\ pc = "done" /\ "pass5" \notin cut => at[1] > NBlocks

Confined ==
    /\ WalkedOf /\ InUse /\ Shared
    /\ KeptAside /\ RecordLasts /\ Marked /\ UndoAt /\ Reconciled
UndoIsConfined == UndoneAsWalked => Confined

IInv == Base /\ UndoIsConfined

-----------------------------------------------------------------------------
(* Numbers and sequences.                                                  *)
LEMMA LeastExists == ASSUME NEW S, S \subseteq Nat, S # {} PROVE \E x \in S : \A y \in S : x <= y
<1> DEFINE R == {ss \in Nat \X Nat : ss[1] < ss[2]}
<1>1. IsWellFoundedOn(R, Nat)
  BY NatLessThanWellFounded, Zenon DEF OpToRel
<1>2. PICK x \in S : \A y \in S : ~(<<y, x>> \in R)
  BY <1>1, WFMin
<1>3. ASSUME NEW y \in S PROVE x <= y
  <2>1. x \in Nat /\ y \in Nat
    OBVIOUS
  <2>2. <<y, x>> \in Nat \X Nat /\ <<y, x>>[1] = y /\ <<y, x>>[2] = x
    BY <2>1
  <2>3. ~(<<y, x>>[1] < <<y, x>>[2])
    BY <1>2, <2>2, Zenon
  <2>4. QED
    BY <2>1, <2>2, <2>3
<1>4. QED
  BY <1>3

LEMMA Sizes == NBlocks \in Nat /\ Rgrps \in Seq([header : SUBSET Blocks, data : SUBSET Blocks])
  BY BlockMapAssumption

LEMMA BlocksAre ==
    /\ Blocks \subseteq Nat \ {0} /\ Null \notin Blocks /\ Bad \notin Blocks /\ Null # Bad
    /\ IsFiniteSet(Blocks)
<1>1. Blocks \subseteq Nat \ {0} /\ Null \notin Blocks /\ Bad \notin Blocks /\ Null # Bad
  BY Sizes DEF Blocks, Null, Bad
<1>2. IsFiniteSet(Blocks)
  BY Sizes, FS_Interval DEF Blocks
<1>3. QED
  BY <1>1, <1>2

LEMMA GroupIs ==
  ASSUME NEW r \in DOMAIN Rgrps
  PROVE  Rgrps[r].header \subseteq Blocks /\ Rgrps[r].header \subseteq Headers /\ Rgrps[r].data \subseteq Blocks
<1> DEFINE Groups == [header : SUBSET Blocks, data : SUBSET Blocks]
<1> HIDE DEF Groups
<1>1. Rgrps \in Seq(Groups)
  BY Sizes DEF Groups
<1>2. Rgrps[r] \in Groups
  BY <1>1
<1>3. Rgrps[r].header \subseteq Blocks /\ Rgrps[r].data \subseteq Blocks
  BY <1>2 DEF Groups
<1>4. QED
  BY <1>3 DEF Headers

LEMMA HeadersAre == Headers \subseteq Blocks
  BY GroupIs DEF Headers

LEMMA NextIsListed == ASSUME ibuf \subseteq Blocks, ibuf # {} PROVE Min(ibuf) \in ibuf
<1>1. ibuf \subseteq Nat
  BY BlocksAre
<1>2. QED
  BY <1>1, LeastExists DEF Min

-----------------------------------------------------------------------------
(* What the maps and the records become.                                   *)
LEMMA BitmapSet ==
  ASSUME MapsOK, NEW b \in Blocks \ Headers, NEW new \in MapStates, SetBitmap(b, new)
  PROVE  /\ bitmap' \in [Blocks -> BitStates] /\ \A x \in Blocks : bitmap'[x] = "none" <=> x \in Headers
         /\ fsck_abort' \in BOOLEAN /\ declined' \subseteq Blocks
         /\ declined \subseteq declined' /\ (bitmap'[b] = new \/ b \in declined')
         /\ \A x \in Blocks \ {b} : bitmap'[x] = bitmap[x]
<1>1. new \in BitStates /\ new # "none"
  BY DEF BitStates, MapStates
<1>2. CASE bitmap[b] = new
  BY <1>2, <1>1 DEF MapsOK, SetBitmap
<1>3. CASE bitmap[b] # new
  <2>1. PICK ans \in Answers :
          /\ Query(ans)
          /\ IF ans = "yes" THEN bitmap' = [bitmap EXCEPT ![b] = new] /\ UNCHANGED declined
                            ELSE declined' = declined \union {b} /\ UNCHANGED bitmap
    BY <1>3 DEF SetBitmap
  <2>2. fsck_abort' \in BOOLEAN
    BY <2>1 DEF Query
  <2>3. CASE ans = "yes"
    BY <1>1, <2>1, <2>2, <2>3 DEF MapsOK
  <2>4. CASE ans # "yes"
    BY <1>1, <2>1, <2>2, <2>4 DEF MapsOK
  <2>5. QED
    BY <2>3, <2>4
<1>4. QED
  BY <1>2, <1>3

LEMMA BlockmapSet ==
  ASSUME MapsOK, NEW b \in Blocks, NEW new \in MapStates, SetBlockmap(b, new)
  PROVE  MapsOK' /\ (b \in Headers => bl' = bl) /\ (b \notin Headers => bl' = [bl EXCEPT ![b] = new])
<1>1. CASE b \in Headers
  BY <1>1 DEF MapsOK, SetBlockmap
<1>2. CASE b \notin Headers
  <2>1. SetBitmap(b, new) /\ bl' = [bl EXCEPT ![b] = new]
    BY <1>2 DEF SetBlockmap
  <2>2. QED
    BY <1>2, <2>1, BitmapSet DEF MapsOK
<1>3. QED
  BY <1>1, <1>2

(* Records.                                                                *)
LEMMA WithInode ==
  ASSUME NEW dt, RecordOK(dt) \/ dt = [refs |-> 1, by |-> {}, ref1_found |-> FALSE], NEW i \in Blocks
  PROVE  RecordOK([refs |-> dt.refs + 1, by |-> dt.by \union {i}, ref1_found |-> i \in dt.by])
<1>1. Cardinality({}) = 0
  BY FS_EmptySet
<1> DEFINE first == [refs |-> 1, by |-> {}, ref1_found |-> FALSE]
<1>2. first \in DupType
  BY DEF DupType
<1>3. dt \in DupType
  BY <1>2 DEF RecordOK
<1>4. dt.refs >= Cardinality(dt.by) + 1
  BY <1>1 DEF RecordOK
<1>5. IsFiniteSet(dt.by)
  BY BlocksAre, <1>3, FS_Subset DEF DupType
<1>6. Cardinality(dt.by) \in Nat
  BY <1>5, FS_CardinalityType
<1>7. Cardinality(dt.by \union {i}) = IF i \in dt.by THEN Cardinality(dt.by) ELSE Cardinality(dt.by) + 1
  BY <1>5, FS_AddElement
<1>8. QED
  BY <1>3, <1>6, <1>7, <1>4 DEF RecordOK, DupType

LEMMA WithoutIsRecord ==
  ASSUME NEW dt, RecordOK(dt), NEW i
  PROVE  LET w == WithoutInode(dt, i) IN
         /\ RecordOK(w) /\ w.by = dt.by \ {i} /\ w.ref1_found = dt.ref1_found
         /\ w.refs # 0 /\ (w.refs = 1 => w.by = {} /\ ~w.ref1_found)
<1> DEFINE w == WithoutInode(dt, i)
<1>1. IsFiniteSet(dt.by)
  BY BlocksAre, FS_Subset DEF RecordOK, DupType
<1>2. Cardinality(dt.by) \in Nat
  BY <1>1, FS_CardinalityType
<1>3. IsFiniteSet(dt.by \ {i})
      /\ Cardinality(dt.by \ {i}) = IF i \in dt.by THEN Cardinality(dt.by) - 1 ELSE Cardinality(dt.by)
  BY <1>1, FS_RemoveElement
<1>4. Cardinality(dt.by \ {i}) \in Nat
  BY <1>3, FS_CardinalityType
<1>5. dt \in DupType /\ dt.refs \in Nat
  BY DEF RecordOK, DupType
<1>6. w.by = dt.by \ {i} /\ w.ref1_found = dt.ref1_found
      /\ w.refs = IF i \in dt.by THEN dt.refs - 1 ELSE dt.refs
  BY <1>5 DEF WithoutInode, DupType
<1>7. dt.refs >= Cardinality(dt.by) + 1 /\ (i \in dt.by => dt.refs - 1 \in Nat)
  BY <1>2, <1>3, <1>4, <1>5 DEF RecordOK
<1>8. w \in DupType
  BY <1>5, <1>7 DEF WithoutInode, DupType
<1>9. RecordOK(w) /\ w.refs >= Cardinality(w.by) + 1
  BY <1>2, <1>3, <1>4, <1>5, <1>6, <1>8 DEF RecordOK
<1>10. w.refs = 1 => Cardinality(w.by) = 0 /\ ~w.ref1_found
  BY <1>3, <1>4, <1>6, <1>9 DEF RecordOK
<1>11. w.refs # 0
  BY <1>3, <1>4, <1>6, <1>9
<1>12. Cardinality(w.by) = 0 => w.by = {}
  BY <1>3, <1>6, FS_EmptySet
<1>13. QED
  BY <1>6, <1>9, <1>10, <1>11, <1>12

LEMMA StillRecorded == ASSUME DupsOK, NEW b PROVE StillReferenced(b) <=> Recorded(b)
  BY WithoutIsRecord DEF DupsOK, StillReferenced, Recorded

LEMMA RecordAdded ==
  ASSUME DupsOK, NEW b \in Blocks, NEW i \in Blocks, AddDuplicateRef(b, i)
  PROVE  /\ DupsOK' /\ DOMAIN dup_blocks' = DOMAIN dup_blocks \union {b}
         /\ \A x \in DOMAIN dup_blocks : x # b => dup_blocks'[x] = dup_blocks[x]
         /\ OnRecord(b, i)'
         /\ \A f : Recorded(b) /\ OnRecord(b, f) => OnRecord(b, f)'
         /\ Recorded(b) /\ OnRecord(b, i) => dup_blocks'[b].ref1_found
<1> DEFINE dt == IF b \in DOMAIN dup_blocks THEN dup_blocks[b]
                 ELSE [refs |-> 1, by |-> {}, ref1_found |-> FALSE]
           new == [refs |-> dt.refs + 1, by |-> dt.by \union {i}, ref1_found |-> i \in dt.by]
<1>1. RecordOK(dt) \/ dt = [refs |-> 1, by |-> {}, ref1_found |-> FALSE]
  BY DEF DupsOK
<1>2. RecordOK(new)
  BY <1>1, WithInode
<1>3. CASE dt.ref1_found
  <2>1. b \in DOMAIN dup_blocks /\ dup_blocks' = dup_blocks /\ dup_blocks[b].ref1_found
    BY <1>3 DEF AddDuplicateRef
  <2>2. QED
    BY <2>1 DEF DupsOK, OnRecord, Recorded
<1>4. CASE ~dt.ref1_found
  <2>1. dup_blocks' = [x \in DOMAIN dup_blocks \union {b} |-> IF x # b THEN dup_blocks[x] ELSE new]
    BY <1>4 DEF AddDuplicateRef
  <2>2. new.by = dt.by \union {i} /\ new.ref1_found = (i \in dt.by)
    OBVIOUS
  <2>3. DOMAIN dup_blocks' = DOMAIN dup_blocks \union {b} /\ dup_blocks'[b] = new
        /\ \A x \in DOMAIN dup_blocks : x # b => dup_blocks'[x] = dup_blocks[x]
    BY <2>1
  <2>4. Recorded(b) => dt = dup_blocks[b]
    BY DEF Recorded
  <2> HIDE DEF new, dt
  <2>5. DupsOK'
    BY <1>2, <2>3 DEF DupsOK
  <2>6. OnRecord(b, i)'
    BY <2>2, <2>3 DEF OnRecord
  <2>7. \A f : Recorded(b) /\ OnRecord(b, f) => OnRecord(b, f)'
    BY <1>4, <2>2, <2>3, <2>4 DEF OnRecord
  <2>8. Recorded(b) /\ OnRecord(b, i) => dup_blocks'[b].ref1_found
    BY <1>4, <2>2, <2>3, <2>4 DEF OnRecord
  <2>9. QED
    BY <2>3, <2>5, <2>6, <2>7, <2>8
<1>5. QED
  BY <1>3, <1>4

LEMMA RecordUndone ==
  ASSUME DupsOK, NEW b, NEW meta, UndoReference(b, meta)
  PROVE  /\ DupsOK' /\ DOMAIN dup_blocks' \subseteq DOMAIN dup_blocks
         /\ \A x \in DOMAIN dup_blocks : x # b => Recorded(x)' /\ dup_blocks'[x] = dup_blocks[x]
         /\ \A f : f # ip /\ Recorded(b) /\ OnRecord(b, f) => Recorded(b)' /\ OnRecord(b, f)'
         /\ Recorded(b) /\ dup_blocks[b].ref1_found => Recorded(b)' /\ dup_blocks'[b].ref1_found
<1>1. CASE ~Recorded(b)
  BY <1>1 DEF UndoReference, Recorded, DupsOK
<1>2. CASE Recorded(b)
  <2> DEFINE dt == WithoutInode(dup_blocks[b], ip)
  <2>1. /\ RecordOK(dt) /\ dt.by = dup_blocks[b].by \ {ip} /\ dt.ref1_found = dup_blocks[b].ref1_found
        /\ dt.refs # 0 /\ (dt.refs = 1 => dt.by = {} /\ ~dt.ref1_found)
    BY <1>2, WithoutIsRecord DEF DupsOK, Recorded
  <2>2. dup_blocks' = IF dt.refs = 1 THEN Restrict(dup_blocks, DOMAIN dup_blocks \ {b})
                      ELSE [dup_blocks EXCEPT ![b] = dt]
    BY <1>2 DEF UndoReference
  <2> HIDE DEF dt
  <2>3. CASE dt.refs = 1
    <3>1. DOMAIN dup_blocks' = DOMAIN dup_blocks \ {b} /\ \A x \in DOMAIN dup_blocks' : dup_blocks'[x] = dup_blocks[x]
      BY <2>2, <2>3 DEF Restrict
    <3>2. DupsOK'
      BY <3>1 DEF DupsOK
    <3>3. QED
      BY <2>1, <2>3, <3>1, <3>2 DEF Recorded, OnRecord
  <2>4. CASE dt.refs # 1
    <3>1. /\ DOMAIN dup_blocks' = DOMAIN dup_blocks /\ dup_blocks'[b] = dt
          /\ \A x \in DOMAIN dup_blocks : x # b => dup_blocks'[x] = dup_blocks[x]
      BY <1>2, <2>2, <2>4 DEF Recorded
    <3>2. DupsOK'
      BY <2>1, <3>1 DEF DupsOK
    <3>3. QED
      BY <1>2, <2>1, <3>1, <3>2 DEF Recorded, OnRecord
  <2>5. QED
    BY <2>3, <2>4
<1>3. QED
  BY <1>1, <1>2

LEMMA RecordsDeleted ==
  ASSUME DupsOK, NEW i, DeleteAllDups(i)
  PROVE  /\ DupsOK' /\ DOMAIN dup_blocks' = DOMAIN dup_blocks
         /\ \A b \in DOMAIN dup_blocks : \A f : f # i /\ OnRecord(b, f) => OnRecord(b, f)'
<1> DEFINE left == [b \in DOMAIN dup_blocks |-> WithoutInode(dup_blocks[b], i)]
           last == { b \in DOMAIN left : i \in dup_blocks[b].by => left[b].refs # 0 }
<1>1. \A b \in DOMAIN dup_blocks :
        /\ RecordOK(left[b]) /\ left[b].by = dup_blocks[b].by \ {i}
        /\ left[b].ref1_found = dup_blocks[b].ref1_found /\ left[b].refs # 0
  BY WithoutIsRecord DEF DupsOK
<1>2. DOMAIN left = DOMAIN dup_blocks
  OBVIOUS
<1>3. dup_blocks' = Restrict(left, last)
  BY DEF DeleteAllDups
<1> HIDE DEF left
<1>4. DOMAIN dup_blocks' = DOMAIN dup_blocks /\ \A b \in DOMAIN dup_blocks : dup_blocks'[b] = left[b]
  BY <1>1, <1>2, <1>3 DEF Restrict
<1>5. DupsOK'
  BY <1>1, <1>4 DEF DupsOK
<1>6. QED
  BY <1>1, <1>4, <1>5 DEF OnRecord

-----------------------------------------------------------------------------
(* Where the walk is.                                                      *)
LEMMA PointerIs ==
  ASSUME FilesOK, NEW b \in Blocks, NEW k \in DOMAIN ptrs[b]
  PROVE  ptrs[b][k] \in Blocks \union {Null, Bad} /\ Len(ptrs[b]) \in Nat /\ DOMAIN ptrs[b] = 1 .. Len(ptrs[b])
<1>1. ptrs[b] \in Seq(Pointers)
  BY DEF FilesOK
<1>2. QED
  BY <1>1 DEF Pointers

LEMMA BlockLength ==
  ASSUME FilesOK, NEW b \in Blocks
  PROVE  Len(ptrs[b]) \in Nat /\ DOMAIN ptrs[b] = 1 .. Len(ptrs[b])
<1>1. ptrs[b] \in Seq(Pointers)
  BY DEF FilesOK
<1>2. QED
  BY <1>1

LEMMA HoldersAre ==
  ASSUME WalkOK, FileAtHand
  PROVE  /\ Len(DataLists) \in Nat /\ DOMAIN DataLists = 1 .. Len(DataLists)
         /\ \A a \in DOMAIN DataLists : DataLists[a] \in Blocks \ Headers
         /\ \A a, c \in DOMAIN DataLists : DataLists[a] = DataLists[c] => a = c
<1>1. CASE fs.height[ip] = 1
  BY <1>1 DEF DataLists, FileAtHand
<1>2. CASE fs.height[ip] # 1
  BY <1>2 DEF DataLists, FileAtHand, WalkOK
<1>3. QED
  BY <1>1, <1>2

LEMMA AtMetaPlace ==
  ASSUME Base, AtMetaPointer
  PROVE  ip \in Blocks /\ at[2] \in DOMAIN ptrs[ip] /\ MetaPointer \in Blocks \union {Null, Bad}
<1>1. ip \in Blocks /\ at[2] \in Nat \ {0}
  BY DEF Base, WalkOK, AtMetaPointer, AtFile, Walking, FileAtHand
<1>2. at[2] \in DOMAIN ptrs[ip]
  BY <1>1, BlockLength DEF Base, AtMetaPointer
<1>3. QED
  BY <1>1, <1>2, PointerIs DEF Base, MetaPointer

LEMMA AtDataPlace ==
  ASSUME Base, AtFile, at[1] \in DOMAIN DataLists, ~EndOfBlock(DataLists)
  PROVE  /\ ip \in Blocks /\ DataLists[at[1]] \in Blocks \ Headers
         /\ at[2] \in DOMAIN ptrs[DataLists[at[1]]] /\ Pointer \in Blocks \union {Null, Bad}
<1>1. ip \in Blocks /\ at[2] \in Nat \ {0} /\ DataLists[at[1]] \in Blocks \ Headers
  BY HoldersAre DEF Base, WalkOK, FileAtHand
<1>2. at[2] \in DOMAIN ptrs[DataLists[at[1]]]
  BY <1>1, BlockLength DEF Base, EndOfBlock
<1>3. QED
  BY <1>1, <1>2, PointerIs DEF Base, Pointer

LEMMA DataHere == ASSUME Base, AtDataPointer PROVE AtFile /\ at[1] \in DOMAIN DataLists /\ ~EndOfBlock(DataLists)
<1>1. AtFile
  BY DEF AtDataPointer, AtFile, Walking
<1>2. at[1] \in Nat \ {0}
  BY DEF Base, WalkOK
<1>3. QED
  BY <1>1, <1>2, HoldersAre DEF Base, AtDataPointer, AtEnd

LEMMA UndoHere == ASSUME Base, AtUndoPointer PROVE AtFile /\ at[1] \in DOMAIN DataLists /\ ~EndOfBlock(DataLists)
  BY DEF AtUndoPointer, AtFile, Undoing, Base, Locals

LEMMA ErrorUndoHere ==
  ASSUME Base, pc = "error_undo", at[2] < at[1]
  PROVE  ip \in Blocks /\ at[2] \in DOMAIN ptrs[ip] /\ ptrs[ip][at[2]] \in Blocks \union {Null, Bad}
<1>1. ip \in Blocks /\ at[2] \in Nat \ {0} /\ at[1] \in DOMAIN ptrs[ip]
  BY DEF Base, WalkOK, AtFile, Undoing, FileAtHand, Locals
<1>2. at[2] \in DOMAIN ptrs[ip]
  BY <1>1, BlockLength DEF Base
<1>3. QED
  BY <1>1, <1>2, PointerIs DEF Base

LEMMA UndoMetaHere ==
  ASSUME Base, pc = "undo_meta", ~AtEnd(metalist)
  PROVE  /\ ip \in Blocks /\ at[1] \in DOMAIN metalist /\ metalist[at[1]] \in Blocks \ Headers
         /\ DataLists = metalist
<1>1. ip \in Blocks /\ at[1] \in Nat \ {0} /\ metalist \in Seq(Blocks) /\ FileAtHand /\ fs.height[ip] = 2
  BY DEF Base, WalkOK, AtFile, Undoing, FileAtHand, Locals
<1>2. at[1] \in DOMAIN metalist
  BY <1>1 DEF AtEnd
<1>3. QED
  BY <1>1, <1>2 DEF FileAtHand, DataLists

LEMMA ListedIs ==
  ASSUME Base, pc = "inodes", ibuf # {}
  PROVE  Min(ibuf) \in Blocks \ Headers
  BY NextIsListed DEF Base, WalkOK

-----------------------------------------------------------------------------
(* Each step keeps the kinds of values.                                    *)
LEMMA FilesStep == ASSUME Base, [Next]_vars PROVE FilesOK'
<1>1. CASE MetaInvalid
  <2>1. ip \in Blocks /\ at[2] \in DOMAIN ptrs[ip]
    BY <1>1, AtMetaPlace DEF MetaInvalid
  <2>2. fs' = fs /\ (ptrs' = ptrs \/ ptrs' = [ptrs EXCEPT ![ip][at[2]] = Null])
    BY <1>1 DEF MetaInvalid
  <2>3. ptrs[ip] \in Seq(Pointers) /\ Null \in Pointers
    BY <2>1 DEF Base, FilesOK, Pointers
  <2>4. [ptrs[ip] EXCEPT ![at[2]] = Null] \in Seq(Pointers)
    BY <2>1, <2>3
  <2>5. QED
    BY <2>1, <2>2, <2>4 DEF Base, FilesOK
<1>2. CASE fs' = fs /\ ptrs' = ptrs
  BY <1>2 DEF Base, FilesOK
<1>3. QED
  BY <1>1, <1>2 DEF Next, vars, disk, NextRgrp, EndOfList, MarkedInode, InvalidInode, HandleInode,
     Rangecheck, BadlyCorrupt, SetIpBlockmap, MetalistDone, MetalistCut, MetaNull, MetaOutOfRange,
     MetaBlock, DataBlockDone, DataCut, DataNull, DataOutOfRange, DataDuplicate, DataLooksLikeDinode,
     DataBlock, ErrorUndo, ErrorUndoDone, AskRemove, UndoMeta, UndoDataDone, UndoDataCut, UndoDataNull,
     UndoReachedError, UndoData, Invalidate, CountBlocks, Pass5Block, Pass5Done, Interrupt

LEMMA UndoMaps ==
  ASSUME MapsOK, ip \in Blocks, NEW b \in Blocks \union {Bad}, NEW meta, UndoReference(b, meta)
  PROVE  MapsOK'
<1>1. CASE UNCHANGED <<bitmap, fsck_abort, declined, ints, bl>>
  BY <1>1 DEF MapsOK
<1>2. "free" \in MapStates
  BY DEF MapStates
<1>3. CASE b = Bad /\ SetBlockmap(ip, "free")
  BY <1>2, <1>3, BlockmapSet
<1>4. CASE b \in Blocks /\ SetBlockmap(b, "free")
  BY <1>2, <1>4, BlockmapSet
<1>5. QED
  BY <1>1, <1>3, <1>4 DEF UndoReference

(* The bitmap and the block map.                                           *)
LEMMA MapsStep == ASSUME Base, [Next]_vars PROVE MapsOK'
<1> USE DEF MapStates
<1>0. MapsOK /\ FilesOK
  BY DEF Base
<1>1. CASE Interrupt
  BY <1>0, <1>1 DEF Interrupt, history, disk, MapsOK
<1>2. CASE NextRgrp
  <2>1. CASE bl' = bl
    BY <1>0, <1>2, <2>1 DEF NextRgrp, disk, flags, MapsOK
  <2>2. CASE bl' = [b \in Blocks |-> IF b \in Rgrps[rgd'].header THEN "used" ELSE bl[b]]
    <3>1. bl' \in [Blocks -> MapStates]
      BY <1>0, <2>2 DEF MapsOK
    <3>2. QED
      BY <1>0, <1>2, <3>1 DEF NextRgrp, disk, flags, MapsOK
  <2>3. QED
    BY <1>2, <2>1, <2>2 DEF NextRgrp
<1>3. CASE InvalidInode
  <2>1. Min(ibuf) \in Blocks \ Headers
    BY <1>3, ListedIs DEF InvalidInode, Polled
  <2>2. SetBitmap(Min(ibuf), "free") /\ bl' = bl
    BY <1>3 DEF InvalidInode
  <2>3. QED
    BY <1>0, <2>1, <2>2, BitmapSet DEF MapsOK
<1>4. CASE BadlyCorrupt
  <2>1. ip \in Blocks \ Headers
    BY <1>4 DEF BadlyCorrupt, Base, AtFile, FileAtHand
  <2>2. CASE SetBitmap(ip, "free")
    BY <1>0, <1>4, <2>1, <2>2, BitmapSet DEF BadlyCorrupt, MapsOK
  <2>3. CASE bitmap' = [bitmap EXCEPT ![ip] = "free"] /\ fsck_abort' = FALSE /\ declined' = declined
    BY <1>0, <1>4, <2>1, <2>3 DEF BadlyCorrupt, MapsOK, BitStates
  <2>4. QED
    BY <1>4, <2>2, <2>3 DEF BadlyCorrupt
<1>5. CASE SetIpBlockmap
  <2>1. ip \in Blocks
    BY <1>5 DEF SetIpBlockmap, Base, AtFile, FileAtHand
  <2>2. SetBlockmap(ip, "free") \/ SetBlockmap(ip, "dinode")
    BY <1>5 DEF SetIpBlockmap
  <2>3. QED
    BY <1>0, <2>1, <2>2, BlockmapSet
<1>6. CASE MetaOutOfRange
  <2>1. ip \in Blocks /\ SetBlockmap(ip, "unlinked")
    BY <1>6, AtMetaPlace DEF MetaOutOfRange
  <2>2. QED
    BY <1>0, <2>1, BlockmapSet
<1>7. CASE MetaInvalid
  BY <1>0, <1>7 DEF MetaInvalid, Query, history, MapsOK
<1>8. CASE MetaBlock
  <2>1. CASE UNCHANGED <<bitmap, fsck_abort, declined, ints, bl>>
    BY <1>0, <2>1 DEF MapsOK
  <2>2. CASE SetBlockmap(MetaPointer, "used")
    BY <1>0, <1>8, <2>2, BlockmapSet DEF MetaBlock
  <2>3. QED
    BY <1>8, <2>1, <2>2 DEF MetaBlock
<1>9. CASE DataOutOfRange
  <2>1. ip \in Blocks /\ SetBlockmap(ip, "unlinked")
    BY <1>9, DataHere, AtDataPlace DEF DataOutOfRange, AtUncut
  <2>2. QED
    BY <1>0, <2>1, BlockmapSet
<1>10. CASE DataBlock
  BY <1>0, <1>10, BlockmapSet DEF DataBlock
<1>11. CASE ErrorUndo
  <2>1. CASE UNCHANGED <<bitmap, fsck_abort, declined, ints, bl>>
    BY <1>0, <2>1 DEF MapsOK
  <2>2. CASE ptrs[ip][at[2]] # Null /\ UndoReference(ptrs[ip][at[2]], TRUE)
    BY <1>0, <1>11, <2>2, ErrorUndoHere, UndoMaps DEF ErrorUndo
  <2>3. QED
    BY <1>11, <2>1, <2>2 DEF ErrorUndo
<1>12. CASE AskRemove
  <2>1. ip \in Blocks
    BY <1>12 DEF AskRemove, Base, AtFile, Undoing, FileAtHand
  <2>2. bitmap' = bitmap /\ declined' = declined /\ (bl' = bl \/ bl' = [bl EXCEPT ![ip] = "free"]) /\ fsck_abort' \in BOOLEAN
    BY <1>12 DEF AskRemove, disk, history, Query
  <2>3. QED
    BY <1>0, <2>1, <2>2 DEF MapsOK
<1>13. CASE UndoMeta
  <2>1. metalist[at[1]] \in Blocks /\ ip \in Blocks /\ UndoReference(metalist[at[1]], TRUE)
    BY <1>13, UndoMetaHere DEF UndoMeta
  <2>2. QED
    BY <1>0, <2>1, UndoMaps
<1>14. CASE UndoData
  <2>1. Pointer \in Blocks \union {Bad} /\ ip \in Blocks /\ UndoReference(Pointer, FALSE)
    BY <1>14, UndoHere, AtDataPlace DEF UndoData
  <2>2. QED
    BY <1>0, <2>1, UndoMaps
<1>15. CASE Invalidate
  <2>1. ip \in Blocks \ Headers /\ SetBitmap(ip, "free") /\ bl' = [bl EXCEPT ![ip] = "free"]
    BY <1>15 DEF Invalidate, Base, AtFile, Undoing, FileAtHand
  <2>2. QED
    BY <1>0, <2>1, BitmapSet DEF MapsOK
<1>16. CASE CountBlocks
  BY <1>0, <1>16 DEF CountBlocks, Query, history, MapsOK
<1>17. CASE Pass5Block
  <2> DEFINE b == at[1]
  <2>1. CASE UNCHANGED <<bitmap, fsck_abort, declined, ints>>
    BY <1>0, <1>17, <2>1 DEF Pass5Block, MapsOK
  <2>2. CASE b \in Blocks \ Headers /\ SetBitmap(b, bl[b])
    <3>1. bl[b] \in MapStates /\ bl' = bl
      BY <1>0, <1>17, <2>2 DEF MapsOK, Pass5Block
    <3>2. QED
      BY <1>0, <2>2, <3>1, BitmapSet DEF MapsOK
  <2>3. CASE /\ b \in Blocks \ Headers /\ UNCHANGED <<declined, bl>> /\ fsck_abort' \in BOOLEAN
             /\ (bitmap' = bitmap \/ bitmap' = [bitmap EXCEPT ![b] = "free"])
    BY <1>0, <2>3 DEF MapsOK, BitStates
  <2>4. QED
    BY <1>17, <2>1, <2>2, <2>3 DEF Pass5Block, Query
<1>18. CASE UNCHANGED <<bitmap, fsck_abort, declined, bl>>
  BY <1>0, <1>18 DEF MapsOK
<1>19. QED
  BY <1>1, <1>2, <1>3, <1>4, <1>5, <1>6, <1>7, <1>8, <1>9, <1>10, <1>11, <1>12, <1>13, <1>14, <1>15,
     <1>16, <1>17, <1>18 DEF Next, vars, disk, flags, history, Polled,
     EndOfList, MarkedInode, HandleInode, Rangecheck, MetalistDone, MetalistCut, MetaNull,
     DataBlockDone, DataCut, DataNull, DataDuplicate, DataLooksLikeDinode, ErrorUndoDone,
     UndoDataDone, UndoDataCut, UndoDataNull, UndoReachedError, Pass5Done

(* The records.                                                            *)
LEMMA DupsStep == ASSUME Base, [Next]_vars PROVE DupsOK'
<1>0. DupsOK
  BY DEF Base
<1>1. CASE MarkedInode
  <2>1. Min(ibuf) \in Blocks
    BY <1>1, ListedIs DEF MarkedInode, Polled
  <2>2. dup_blocks' = dup_blocks \/ AddDuplicateRef(Min(ibuf), Min(ibuf))
    BY <1>1 DEF MarkedInode
  <2>3. QED
    BY <1>0, <2>1, <2>2, RecordAdded DEF DupsOK
<1>2. CASE MetaBlock
  <2>1. CASE AddDuplicateRef(MetaPointer, ip)
    BY <1>0, <1>2, <2>1, AtMetaPlace, RecordAdded DEF MetaBlock
  <2>2. CASE dup_blocks' = dup_blocks
    BY <1>0, <2>2 DEF DupsOK
  <2>3. QED
    BY <1>2, <2>1, <2>2 DEF MetaBlock
<1>3. CASE DataDuplicate
  <2>1. ip \in Blocks /\ Pointer \in Blocks /\ AddDuplicateRef(Pointer, ip)
    BY <1>3, DataHere, AtDataPlace DEF DataDuplicate, AtUncut
  <2>2. QED
    BY <1>0, <2>1, RecordAdded
<1>4. CASE ErrorUndo
  <2>1. CASE dup_blocks' = dup_blocks
    BY <1>0, <2>1 DEF DupsOK
  <2>2. CASE UndoReference(ptrs[ip][at[2]], TRUE)
    BY <1>0, <2>2, RecordUndone
  <2>3. QED
    BY <1>4, <2>1, <2>2 DEF ErrorUndo
<1>5. CASE UndoMeta
  <2>1. UndoReference(metalist[at[1]], TRUE)
    BY <1>5 DEF UndoMeta
  <2>2. QED
    BY <1>0, <2>1, RecordUndone
<1>6. CASE UndoData
  <2>1. UndoReference(Pointer, FALSE)
    BY <1>6 DEF UndoData
  <2>2. QED
    BY <1>0, <2>1, RecordUndone
<1>7. CASE Invalidate
  BY <1>0, <1>7, RecordsDeleted DEF Invalidate
<1>8. CASE dup_blocks' = dup_blocks
  BY <1>0, <1>8 DEF DupsOK
<1>9. QED
  BY <1>1, <1>2, <1>3, <1>4, <1>5, <1>6, <1>7, <1>8 DEF Next, vars,
     NextRgrp, EndOfList, InvalidInode, HandleInode, Rangecheck, BadlyCorrupt,
     SetIpBlockmap, MetalistDone, MetalistCut, MetaNull, MetaOutOfRange, MetaInvalid,
     DataBlockDone, DataCut, DataNull, DataOutOfRange, DataLooksLikeDinode, DataBlock,
     ErrorUndoDone, AskRemove, UndoDataDone, UndoDataCut, UndoDataNull, UndoReachedError,
     CountBlocks, Pass5Block, Pass5Done, Interrupt

(* The locals.                                                             *)
LEMMA FlagsStep ==
  ASSUME Base, [Next]_vars
  PROVE  skip_this_pass' \in BOOLEAN /\ hit_error_blk' \in BOOLEAN /\ found_error_blk' \in BOOLEAN
<1>0. skip_this_pass \in BOOLEAN /\ hit_error_blk \in BOOLEAN /\ found_error_blk \in BOOLEAN /\ fsck_abort \in BOOLEAN
  BY DEF Base, WalkOK, MapsOK
<1>1. QED
  BY <1>0, Zenon DEF Next, vars, flags, walk, errors, Polled, WalkDone, GiveUp, UndoBlockDone, Fatal, Nonfatal, Fine,
     NextRgrp, EndOfList, MarkedInode, InvalidInode, HandleInode, Rangecheck, BadlyCorrupt,
     SetIpBlockmap, MetalistDone, MetalistCut, MetaNull, MetaOutOfRange, MetaInvalid,
     MetaBlock, DataBlockDone, DataCut, DataNull, DataOutOfRange, DataDuplicate,
     DataLooksLikeDinode, DataBlock, ErrorUndo, ErrorUndoDone, AskRemove, UndoMeta,
     UndoDataDone, UndoDataCut, UndoDataNull, UndoReachedError, UndoData, Invalidate,
     CountBlocks, Pass5Block, Pass5Done, Interrupt

LEMMA CutStep ==
  ASSUME Base, [Next]_vars PROVE cut' \subseteq {"list", "walk", "error", "undo", "leak", "pass5"} /\ cut \subseteq cut'
<1>0. cut \subseteq {"list", "walk", "error", "undo", "leak", "pass5"}
  BY DEF Base, WalkOK
<1>1. cut' = cut \/ \E x \in {"list", "walk", "error", "undo", "leak", "pass5"} : cut' = cut \union {x}
  BY DEF Next, vars, history, Left, Polled,
     NextRgrp, EndOfList, MarkedInode, InvalidInode, HandleInode, Rangecheck, BadlyCorrupt,
     SetIpBlockmap, MetalistDone, MetalistCut, MetaNull, MetaOutOfRange, MetaInvalid,
     MetaBlock, DataBlockDone, DataCut, DataNull, DataOutOfRange, DataDuplicate,
     DataLooksLikeDinode, DataBlock, ErrorUndo, ErrorUndoDone, AskRemove, UndoMeta,
     UndoDataDone, UndoDataCut, UndoDataNull, UndoReachedError, UndoData, Invalidate,
     CountBlocks, Pass5Block, Pass5Done, Interrupt
<1>2. QED
  BY <1>0, <1>1

LEMMA PcStep ==
  ASSUME Base, [Next]_vars
  PROVE  (pc \in {"rgrps", "inodes", "count", "pass5", "done", "canceled"} \/ AtFile)'
<1>0. pc \in {"rgrps", "inodes", "count", "pass5", "done", "canceled"} \/ AtFile
  BY DEF Base, WalkOK
<1> USE DEF AtFile, Walking, Undoing
<1>1. QED
  BY <1>0 DEF Next, vars, Polled, WalkDone, GiveUp, UndoBlockDone, Fatal, Nonfatal, Fine,
     NextRgrp, EndOfList, MarkedInode, InvalidInode, HandleInode, Rangecheck, BadlyCorrupt,
     SetIpBlockmap, MetalistDone, MetalistCut, MetaNull, MetaOutOfRange, MetaInvalid,
     MetaBlock, DataBlockDone, DataCut, DataNull, DataOutOfRange, DataDuplicate,
     DataLooksLikeDinode, DataBlock, ErrorUndo, ErrorUndoDone, AskRemove, UndoMeta,
     UndoDataDone, UndoDataCut, UndoDataNull, UndoReachedError, UndoData, Invalidate,
     CountBlocks, Pass5Block, Pass5Done, Interrupt

LEMMA ListStep == ASSUME Base, [Next]_vars PROVE rgd' \in 0 .. Len(Rgrps) /\ ibuf' \subseteq Blocks \ Headers
<1>0. rgd \in 0 .. Len(Rgrps) /\ ibuf \subseteq Blocks \ Headers
  BY DEF Base, WalkOK
<1>1. CASE NextRgrp
  <2>1. CASE rgd' = rgd /\ ibuf' = ibuf
    BY <1>0, <2>1
  <2>2. CASE rgd < Len(Rgrps) /\ rgd' = rgd + 1 /\ ibuf' = { b \in Rgrps[rgd'].data : bitmap[b] = "dinode" }
    <3>1. Len(Rgrps) \in Nat /\ DOMAIN Rgrps = 1 .. Len(Rgrps)
      BY Sizes
    <3>2. rgd' \in DOMAIN Rgrps
      BY <1>0, <2>2, <3>1
    <3>3. ibuf' \subseteq Blocks
      BY <2>2, <3>2, GroupIs
    <3>4. QED
      BY <2>2, <3>1, <3>2, <3>3 DEF Base, MapsOK
  <2>3. QED
    BY <1>1, <2>1, <2>2 DEF NextRgrp, place
<1>2. CASE rgd' = rgd /\ ibuf' \subseteq ibuf
  BY <1>0, <1>2
<1>3. QED
  BY <1>1, <1>2 DEF Next, vars, place, Polled,
     EndOfList, MarkedInode, InvalidInode, HandleInode, Rangecheck, BadlyCorrupt,
     SetIpBlockmap, MetalistDone, MetalistCut, MetaNull, MetaOutOfRange, MetaInvalid,
     MetaBlock, DataBlockDone, DataCut, DataNull, DataOutOfRange, DataDuplicate,
     DataLooksLikeDinode, DataBlock, ErrorUndo, ErrorUndoDone, AskRemove, UndoMeta,
     UndoDataDone, UndoDataCut, UndoDataNull, UndoReachedError, UndoData, Invalidate,
     CountBlocks, Pass5Block, Pass5Done, Interrupt

(* Where the walk is, and what it has found.                               *)
LEMMA WalkedStep == ASSUME Base, [Next]_vars PROVE walked' \subseteq Blocks \X Blocks
<1>0. walked \subseteq Blocks \X Blocks
  BY DEF Base, WalkOK
<1>1. CASE DataBlockDone
  <2>1. ip \in Blocks /\ Range(metalist) \subseteq Blocks
    BY <1>1 DEF DataBlockDone, Base, AtFile, Walking, FileAtHand, Range
  <2>2. walked' = walked \/ walked' = walked \union {ip} \X ({ip} \union Range(metalist))
    BY <1>1 DEF DataBlockDone, GiveUp
  <2>3. QED
    BY <1>0, <2>1, <2>2
<1>2. CASE walked' = walked
  BY <1>0, <1>2
<1>3. QED
  BY <1>1, <1>2 DEF Next, vars, history, Polled, GiveUp,
     NextRgrp, EndOfList, MarkedInode, InvalidInode, HandleInode, Rangecheck, BadlyCorrupt,
     SetIpBlockmap, MetalistDone, MetalistCut, MetaNull, MetaOutOfRange, MetaInvalid,
     MetaBlock, DataCut, DataNull, DataOutOfRange, DataDuplicate, DataLooksLikeDinode,
     DataBlock, ErrorUndo, ErrorUndoDone, AskRemove, UndoMeta, UndoDataDone, UndoDataCut,
     UndoDataNull, UndoReachedError, UndoData, Invalidate, CountBlocks, Pass5Block,
     Pass5Done, Interrupt

LEMMA FileStep ==
  ASSUME Base, [Next]_vars PROVE ip' \in Blocks \union {0} /\ metalist' \in Seq(Blocks) /\ error' \in -1 .. 1
<1>0. ip \in Blocks \union {0} /\ metalist \in Seq(Blocks) /\ error \in -1 .. 1
  BY DEF Base, WalkOK
<1>1. CASE HandleInode
  <2>1. ip' = Min(ibuf) /\ Min(ibuf) \in Blocks /\ metalist' = << >> /\ error' = 0
    BY <1>1, ListedIs DEF HandleInode, Polled
  <2>2. QED
    BY <2>1
<1>2. CASE MetaBlock
  <2>1. metalist' = metalist \/ (MetaPointer \in Blocks /\ metalist' = Append(metalist, MetaPointer))
    BY <1>2 DEF MetaBlock
  <2>2. QED
    BY <1>0, <1>2, <2>1 DEF MetaBlock, errors
<1>3. CASE ip' = ip /\ metalist' = metalist /\ (error' = error \/ error' = 1 \/ error' = -1)
  BY <1>0, <1>3
<1>4. QED
  BY <1>1, <1>2, <1>3 DEF Next, vars, walk, errors, Polled, GiveUp, WalkDone, Fatal, Nonfatal, Fine, UndoBlockDone,
     NextRgrp, EndOfList, MarkedInode, InvalidInode, Rangecheck, BadlyCorrupt,
     SetIpBlockmap, MetalistDone, MetalistCut, MetaNull, MetaOutOfRange, MetaInvalid,
     DataBlockDone, DataCut, DataNull, DataOutOfRange, DataDuplicate, DataLooksLikeDinode,
     DataBlock, ErrorUndo, ErrorUndoDone, AskRemove, UndoMeta, UndoDataDone, UndoDataCut,
     UndoDataNull, UndoReachedError, UndoData, Invalidate, CountBlocks, Pass5Block,
     Pass5Done, Interrupt

LEMMA AtStep == ASSUME Base, [Next]_vars PROVE at' \in (Nat \ {0}) \X (Nat \ {0})
<1>0. at \in (Nat \ {0}) \X (Nat \ {0})
  BY DEF Base, WalkOK
<1>1. at' \in {at, <<1, 1>>, <<at[2], 1>>, NextPointer, NextBlock}
  BY DEF Next, vars, walk, errors, Polled, GiveUp, WalkDone, Fatal, Nonfatal, Fine, UndoBlockDone,
     NextRgrp, EndOfList, MarkedInode, InvalidInode, HandleInode, Rangecheck, BadlyCorrupt,
     SetIpBlockmap, MetalistDone, MetalistCut, MetaNull, MetaOutOfRange, MetaInvalid,
     MetaBlock, DataBlockDone, DataCut, DataNull, DataOutOfRange, DataDuplicate,
     DataLooksLikeDinode, DataBlock, ErrorUndo, ErrorUndoDone, AskRemove, UndoMeta,
     UndoDataDone, UndoDataCut, UndoDataNull, UndoReachedError, UndoData, Invalidate,
     CountBlocks, Pass5Block, Pass5Done, Interrupt
<1>2. QED
  BY <1>0, <1>1 DEF NextPointer, NextBlock

LEMMA ErrorBlkStep == ASSUME Base, [Next]_vars PROVE error_blk' \in Nat \X Nat
<1>0. error_blk \in Nat \X Nat /\ at[2] \in Nat
  BY DEF Base, WalkOK
<1>1. CASE error_blk' = <<DataLists[at[1]], at[2]>> /\ AtDataPointer
  BY <1>0, <1>1, DataHere, AtDataPlace, BlocksAre
<1>2. CASE error_blk' \in {error_blk, <<0, 0>>}
  BY <1>0, <1>2
<1>3. QED
  BY <1>1, <1>2 DEF Next, vars, walk, errors, Polled, GiveUp, WalkDone, Fatal, Nonfatal, Fine, UndoBlockDone, AtUncut,
     NextRgrp, EndOfList, MarkedInode, InvalidInode, HandleInode, Rangecheck, BadlyCorrupt,
     SetIpBlockmap, MetalistDone, MetalistCut, MetaNull, MetaOutOfRange, MetaInvalid,
     MetaBlock, DataBlockDone, DataCut, DataNull, DataOutOfRange, DataDuplicate,
     DataLooksLikeDinode, DataBlock, ErrorUndo, ErrorUndoDone, AskRemove, UndoMeta,
     UndoDataDone, UndoDataCut, UndoDataNull, UndoReachedError, UndoData, Invalidate,
     CountBlocks, Pass5Block, Pass5Done, Interrupt

LEMMA WalkStep == ASSUME Base, [Next]_vars PROVE WalkOK'
  BY FlagsStep, CutStep, PcStep, ListStep, WalkedStep, FileStep, AtStep, ErrorBlkStep DEF WalkOK

LEMMA FileAtHandStep == ASSUME Base, [Next]_vars PROVE (AtFile => FileAtHand)'
<1>0. AtFile => FileAtHand
  BY DEF Base
<1>1. CASE HandleInode
  BY <1>1, ListedIs DEF HandleInode, Polled, FileAtHand, disk
<1>2. CASE MetaBlock
  <2>0. FileAtHand /\ fs' = fs /\ ip' = ip /\ fs.height[ip] = 2
    BY <1>0, <1>2 DEF MetaBlock, AtMetaPointer, AtFile, Walking, Base, Locals
  <2>1. CASE metalist' = metalist
    BY <2>0, <2>1 DEF FileAtHand
  <2>2. CASE metalist' = Append(metalist, MetaPointer) /\ bl[MetaPointer] = "free"
    <3> DEFINE m == MetaPointer
    <3>1. metalist \in Seq(Blocks) /\ m \in Blocks /\ fs.content[m] = "IN"
      BY <1>2 DEF Base, WalkOK, MetaBlock
    <3>2. m \notin Headers
      BY <3>1 DEF Base, FilesOK
    <3>3. \A k \in DOMAIN metalist : metalist[k] # m
      BY <1>2, <2>2 DEF Base, MarksOK, MetaBlock, AtMetaPointer, Walking
    <3> HIDE DEF m
    <3>4. metalist' = Append(metalist, m)
      BY <2>2 DEF m
    <3>5. \A k \in DOMAIN metalist' : IF k \in DOMAIN metalist THEN metalist'[k] = metalist[k] ELSE metalist'[k] = m
      BY <3>1, <3>4
    <3>6. \A j, k \in DOMAIN metalist' : j \notin DOMAIN metalist /\ k \notin DOMAIN metalist => j = k
      BY <3>1, <3>4
    <3>7. \A k \in DOMAIN metalist' : metalist'[k] \in Blocks \ Headers /\ fs.content[metalist'[k]] = "IN"
      BY <2>0, <3>1, <3>2, <3>5 DEF FileAtHand
    <3>8. \A j, k \in DOMAIN metalist' : metalist'[j] = metalist'[k] => j = k
      BY <2>0, <3>3, <3>5, <3>6 DEF FileAtHand
    <3>9. QED
      BY <2>0, <3>7, <3>8 DEF FileAtHand
  <2>3. QED
    BY <1>2, <2>1, <2>2 DEF MetaBlock
<1>3. CASE (AtFile' => AtFile) /\ fs' = fs /\ ip' = ip /\ metalist' = metalist
  BY <1>0, <1>3 DEF FileAtHand
<1>4. QED
  BY <1>1, <1>2, <1>3 DEF AtFile, Walking, Undoing,
     Next, vars, disk, walk, errors, Polled, GiveUp, WalkDone, Fatal, Nonfatal, Fine, UndoBlockDone,
     AtMetaPointer, AtUncut, AtDataPointer, AtUndoPointer,
     NextRgrp, EndOfList, MarkedInode, InvalidInode, Rangecheck, BadlyCorrupt,
     SetIpBlockmap, MetalistDone, MetalistCut, MetaNull, MetaOutOfRange, MetaInvalid,
     DataBlockDone, DataCut, DataNull, DataOutOfRange, DataDuplicate, DataLooksLikeDinode,
     DataBlock, ErrorUndo, ErrorUndoDone, AskRemove, UndoMeta, UndoDataDone, UndoDataCut,
     UndoDataNull, UndoReachedError, UndoData, Invalidate, CountBlocks, Pass5Block,
     Pass5Done, Interrupt

-----------------------------------------------------------------------------
(* Marks: an indirect block of the file at hand is not free, and only that  *)
(* file may be marked unlinked.                                            *)
LEMMA UndoMarks ==
  ASSUME MapsOK, ip \in Blocks, NEW b \in Blocks \union {Bad}, NEW meta, UndoReference(b, meta)
  PROVE  \A x \in Blocks : bl'[x] \in {bl[x], "free"}
<1>1. CASE bl' = bl
  BY <1>1
<1>2. "free" \in MapStates
  BY DEF MapStates
<1>3. CASE b = Bad /\ SetBlockmap(ip, "free")
  BY <1>2, <1>3, BlockmapSet DEF MapsOK
<1>4. CASE b \in Blocks /\ SetBlockmap(b, "free")
  BY <1>2, <1>4, BlockmapSet DEF MapsOK
<1>5. QED
  BY <1>1, <1>3, <1>4 DEF UndoReference

LEMMA MarksInWalk ==
  ASSUME Base, Walking', metalist' = metalist, ip' = ip, Walking,
         \A x \in Blocks : bl[x] # "free" => bl'[x] # "free",
         \A x \in Blocks : bl'[x] = "unlinked" => bl[x] = "unlinked"
  PROVE  MarksOK'
  BY DEF Base, MarksOK, Walking, Undoing, WalkOK

LEMMA MarksInUndo ==
  ASSUME Base, Undoing', ip' = ip, \A x \in Blocks \ {ip} : bl'[x] \in {bl[x], "free"}
  PROVE  MarksOK'
  BY DEF Base, MarksOK, Walking, Undoing

LEMMA MarksAfter ==
  ASSUME Base, ~Walking', \A x \in Blocks : bl'[x] = "unlinked" => bl[x] = "unlinked" /\ (x = ip => bl'[ip] # "unlinked")
  PROVE  MarksOK'
  BY DEF Base, MarksOK

LEMMA MarksStep == ASSUME Base, [Next]_vars PROVE MarksOK'
<1> USE DEF MapStates
<1>0. MapsOK /\ MarksOK
  BY DEF Base
<1>1. CASE NextRgrp
  <2>1. ~Walking' /\ ~Undoing /\ (bl' = bl \/ bl' = [b \in Blocks |-> IF b \in Rgrps[rgd'].header THEN "used" ELSE bl[b]])
    BY <1>1 DEF NextRgrp, Walking, Undoing
  <2>2. \A x \in Blocks : bl'[x] # "unlinked"
    BY <1>0, <2>1 DEF MarksOK, MapsOK
  <2>3. QED
    BY <2>1, <2>2, MarksAfter
<1>2. CASE BadlyCorrupt \/ Invalidate
  <2>1. ip \in Blocks /\ ~Walking' /\ bl' = [bl EXCEPT ![ip] = "free"]
    BY <1>2 DEF BadlyCorrupt, Invalidate, Base, AtFile, Undoing, FileAtHand, Walking
  <2>2. \A x \in Blocks : bl'[x] = "unlinked" => bl[x] = "unlinked" /\ x # ip
    BY <1>0, <2>1 DEF MapsOK
  <2>3. QED
    BY <2>1, <2>2, MarksAfter
<1>3. CASE SetIpBlockmap
  <2>1. ip \in Blocks \ Headers /\ metalist = << >> /\ ~Undoing /\ metalist' = metalist
    BY <1>3 DEF SetIpBlockmap, Base, AtFile, FileAtHand, Locals, Undoing, walk
  <2>2. SetBlockmap(ip, "free") \/ SetBlockmap(ip, "dinode")
    BY <1>3 DEF SetIpBlockmap
  <2>3. bl' = [bl EXCEPT ![ip] = "free"] \/ bl' = [bl EXCEPT ![ip] = "dinode"]
    BY <1>0, <2>1, <2>2, BlockmapSet
  <2>4. \A x \in Blocks : bl'[x] # "unlinked"
    BY <1>0, <2>1, <2>3 DEF MapsOK, MarksOK
  <2>5. QED
    BY <2>1, <2>4 DEF MarksOK
<1>4. CASE MetaOutOfRange \/ DataOutOfRange
  <2>1. ip \in Blocks \ Headers /\ SetBlockmap(ip, "unlinked") /\ ip' = ip /\ Undoing'
    BY <1>4 DEF MetaOutOfRange, DataOutOfRange, AtMetaPointer, AtUncut, AtDataPointer, Fatal, Undoing, Walking,
                AtFile, Base, FileAtHand
  <2>2. bl' = [bl EXCEPT ![ip] = "unlinked"]
    BY <1>0, <2>1, BlockmapSet
  <2>3. \A x \in Blocks \ {ip} : bl'[x] = bl[x]
    BY <1>0, <2>1, <2>2 DEF MapsOK
  <2>4. QED
    BY <2>1, <2>3, MarksInUndo
<1>5. CASE MetaBlock
  <2> DEFINE m == MetaPointer
  <2>1. m \in Blocks /\ fs.content[m] = "IN" /\ Walking /\ Walking' /\ ip' = ip
    BY <1>5 DEF MetaBlock, AtMetaPointer, Walking
  <2>2. m \notin Headers
    BY <2>1 DEF Base, FilesOK
  <2>3. CASE metalist' = metalist /\ bl' = bl
    BY <2>1, <2>3, MarksInWalk
  <2>4. CASE SetBlockmap(m, "used") /\ metalist' = Append(metalist, m)
    <3>1. bl' = [bl EXCEPT ![m] = "used"]
      BY <1>0, <2>1, <2>2, <2>4, BlockmapSet
    <3>2. metalist \in Seq(Blocks) /\ \A k \in DOMAIN metalist : bl[metalist[k]] # "free"
      BY <1>0, <2>1 DEF Base, WalkOK, MarksOK
    <3> HIDE DEF m
    <3>3. \A x \in Blocks : (bl[x] # "free" => bl'[x] # "free") /\ (bl'[x] = "unlinked" => bl[x] = "unlinked")
          /\ bl'[m] # "free"
      BY <1>0, <2>1, <3>1 DEF MapsOK
    <3>4. \A k \in DOMAIN metalist' :
            metalist'[k] = m \/ (k \in DOMAIN metalist /\ metalist'[k] = metalist[k] /\ metalist[k] \in Blocks)
      BY <2>1, <2>4, <3>2
    <3>5. \A k \in DOMAIN metalist' : bl'[metalist'[k]] # "free"
      BY <2>1, <3>2, <3>3, <3>4
    <3>6. ~Undoing /\ ~Undoing'
      BY <2>1 DEF Walking, Undoing
    <3>7. QED
      BY <1>0, <2>1, <3>3, <3>5, <3>6 DEF MarksOK
  <2>5. QED
    BY <1>5, <2>3, <2>4 DEF MetaBlock
<1>6. CASE DataBlock
  <2>1. Pointer \in Blocks /\ SetBlockmap(Pointer, "used") /\ Walking /\ Walking' /\ ip' = ip /\ metalist' = metalist
    BY <1>6 DEF DataBlock, AtUncut, AtDataPointer, Walking, Fine
  <2>2. bl' = bl \/ bl' = [bl EXCEPT ![Pointer] = "used"]
    BY <1>0, <2>1, BlockmapSet
  <2>3. QED
    BY <1>0, <2>1, <2>2, MarksInWalk DEF MapsOK
<1>7. CASE ErrorUndo
  <2>1. CASE bl' = bl
    BY <1>7, <2>1, MarksInUndo DEF ErrorUndo, Undoing
  <2>2. CASE ptrs[ip][at[2]] # Null /\ UndoReference(ptrs[ip][at[2]], TRUE)
    <3>1. ip \in Blocks /\ ptrs[ip][at[2]] \in Blocks \union {Bad}
      BY <1>7, <2>2, ErrorUndoHere DEF ErrorUndo
    <3>2. \A x \in Blocks : bl'[x] \in {bl[x], "free"}
      BY <1>0, <2>2, <3>1, UndoMarks
    <3>3. QED
      BY <1>7, <3>2, MarksInUndo DEF ErrorUndo, Undoing
  <2>3. QED
    BY <1>7, <2>1, <2>2 DEF ErrorUndo
<1>8. CASE AskRemove
  <2>1. ip \in Blocks /\ ip' = ip
    BY <1>8 DEF AskRemove, Base, AtFile, Undoing, FileAtHand, walk
  <2>2. CASE bl' = bl /\ Undoing'
    BY <2>1, <2>2, MarksInUndo
  <2>3. CASE bl' = [bl EXCEPT ![ip] = "free"] /\ ~Walking'
    <3>1. \A x \in Blocks : bl'[x] = "unlinked" => bl[x] = "unlinked" /\ x # ip
      BY <1>0, <2>1, <2>3 DEF MapsOK
    <3>2. QED
      BY <2>3, <3>1, MarksAfter
  <2>4. QED
    BY <1>8, <2>2, <2>3 DEF AskRemove, Undoing, Walking
<1>9. CASE UndoMeta
  <2>1. metalist[at[1]] \in Blocks /\ ip \in Blocks /\ UndoReference(metalist[at[1]], TRUE)
    BY <1>9, UndoMetaHere DEF UndoMeta
  <2>2. \A x \in Blocks : bl'[x] \in {bl[x], "free"}
    BY <1>0, <2>1, UndoMarks
  <2>3. QED
    BY <1>9, <2>2, MarksInUndo DEF UndoMeta, Undoing
<1>10. CASE UndoData
  <2>1. Pointer \in Blocks \union {Bad} /\ ip \in Blocks /\ UndoReference(Pointer, FALSE)
    BY <1>10, UndoHere, AtDataPlace DEF UndoData
  <2>2. \A x \in Blocks : bl'[x] \in {bl[x], "free"}
    BY <1>0, <2>1, UndoMarks
  <2>3. QED
    BY <1>10, <2>2, MarksInUndo DEF UndoData, Undoing, UndoBlockDone, AtUndoPointer
<1>11. CASE bl' = bl /\ (Walking' => Walking) /\ metalist' = metalist /\ (Undoing => Undoing' /\ ip' = ip)
  BY <1>0, <1>11 DEF MarksOK, Base, WalkOK
<1>12. CASE bl' = bl /\ ~Walking' /\ ~Undoing
  BY <1>0, <1>12 DEF MarksOK
<1>13. QED
  BY <1>1, <1>2, <1>3, <1>4, <1>5, <1>6, <1>7, <1>8, <1>9, <1>10, <1>11, <1>12 DEF Walking, Undoing, 
     Next, vars, disk, walk, errors, Polled, GiveUp, WalkDone, Fatal, Nonfatal, Fine, UndoBlockDone,
     AtMetaPointer, AtUncut, AtDataPointer, AtUndoPointer,
     EndOfList, MarkedInode, InvalidInode, HandleInode, Rangecheck, MetalistDone,
     MetalistCut, MetaNull, MetaInvalid, DataBlockDone, DataCut, DataNull, DataDuplicate,
     DataLooksLikeDinode, ErrorUndoDone, UndoDataDone, UndoDataCut, UndoDataNull,
     UndoReachedError, CountBlocks, Pass5Block, Pass5Done, Interrupt

-----------------------------------------------------------------------------
(* The locals: what the error and the place can be at each step.           *)
SameFile == UNCHANGED <<fs, ptrs, ip, metalist>>
SameError == UNCHANGED <<error, error_blk>>

LEMMA HoldersSame == ASSUME fs' = fs, ip' = ip, metalist' = metalist PROVE DataLists' = DataLists
  BY DEF DataLists

LEMMA ErrorSame ==
  ASSUME SameFile, SameError
  PROVE  /\ DataLists' = DataLists /\ (\A e \in Nat : ErrorIn(e)' <=> ErrorIn(e))
         /\ (NoError' <=> NoError) /\ (HasError' <=> HasError) /\ (InMetadata' <=> InMetadata)
<1>1. DataLists' = DataLists
  BY HoldersSame DEF SameFile
<1>2. fs' = fs /\ ptrs' = ptrs /\ ip' = ip /\ error' = error /\ error_blk' = error_blk
  BY DEF SameFile, SameError
<1>3. \A e \in Nat : ErrorIn(e)' <=> ErrorIn(e)
  BY <1>1, <1>2 DEF ErrorIn
<1>4. QED
  BY <1>1, <1>2, <1>3 DEF NoError, HasError, InMetadata

LEMMA LocalsAfter == ASSUME ~AtFile' PROVE Locals'
  BY DEF AtFile, Walking, Undoing, Locals

(* The error of the data walk is at the place at hand.                     *)
LEMMA ErrorHere ==
  ASSUME Base, AtDataPointer, Pointer # Null, SameFile, error_blk' = <<DataLists[at[1]], at[2]>>, NEW e, e = at[1]
  PROVE  e \in Nat /\ ErrorIn(e)' /\ error_blk'[2] = at[2] /\ DataLists' = DataLists
<1>1. at[1] \in DOMAIN DataLists /\ at[2] \in DOMAIN ptrs[DataLists[at[1]]]
  BY DataHere, AtDataPlace
<1>2. at[1] \in Nat
  BY DEF Base, WalkOK
<1>3. DataLists' = DataLists /\ ptrs' = ptrs
  BY HoldersSame DEF SameFile
<1>4. QED
  BY <1>1, <1>2, <1>3 DEF ErrorIn, Pointer

(* A file with an error in its data has metadata blocks, or data at once.  *)
LEMMA ErrorHeight == ASSUME Base, AtFile, HasError PROVE fs.height[ip] \in {1, 2} /\ ~InMetadata
<1>1. PICK e \in Nat : ErrorIn(e)
  BY DEF HasError
<1>2. e \in DOMAIN DataLists /\ error_blk[1] = DataLists[e] /\ DataLists[e] \in Blocks
  BY <1>1, HoldersAre DEF Base, ErrorIn
<1>3. error_blk # <<0, 0>>
  BY <1>2, BlocksAre
<1>4. fs.height[ip] \in 0 .. 2
  BY DEF Base, FilesOK, FileAtHand
<1>5. fs.height[ip] = 0 => DataLists = << >>
  BY DEF Base, FileAtHand, DataLists
<1>6. QED
  BY <1>2, <1>3, <1>4, <1>5 DEF InMetadata

LEMMA LocalsInFile ==
  ASSUME Base, SameFile, SameError, hit_error_blk' = hit_error_blk, at' = at, pc' = pc
  PROVE  Locals'
<1>1. /\ DataLists' = DataLists /\ \A e \in Nat : ErrorIn(e)' <=> ErrorIn(e)
      /\ (NoError' <=> NoError) /\ (HasError' <=> HasError) /\ (InMetadata' <=> InMetadata)
  BY ErrorSame
<1>2. fs' = fs /\ ptrs' = ptrs /\ ip' = ip /\ metalist' = metalist /\ error' = error /\ error_blk' = error_blk
      /\ at[1] \in Nat
  BY DEF SameFile, SameError, Base, WalkOK
<1>3. Locals
  BY DEF Base
<1>4. ErrorIn(at[1])' <=> ErrorIn(at[1])
  <2>1. PICK e \in Nat : e = at[1]
    BY <1>2
  <2>2. ErrorIn(at[1])' <=> ErrorIn(e)'
    BY <2>1 DEF ErrorIn
  <2>3. ErrorIn(at[1]) <=> ErrorIn(e)
    BY <2>1 DEF ErrorIn
  <2>4. QED
    BY <1>1, <2>1, <2>2, <2>3
<1>5. QED
  BY <1>1, <1>2, <1>3, <1>4 DEF Locals

LEMMA LocalsInMetalist ==
  ASSUME Base, AtMetaPointer, fs' = fs, ip' = ip, SameError, hit_error_blk' = hit_error_blk, pc' = "metalist"
  PROVE  Locals'
  BY DEF Base, Locals, AtMetaPointer, SameError, NoError

LEMMA LocalsInData ==
  ASSUME Base, AtDataPointer, SameFile, SameError \/ (Pointer # Null /\ error' = 1 /\ error_blk' = <<DataLists[at[1]], at[2]>>),
         hit_error_blk' = hit_error_blk, pc' = "data", at' = NextPointer
  PROVE  Locals'
<1>1. DataLists' = DataLists
  BY HoldersSame DEF SameFile
<1>2. /\ pc = "data" /\ ~hit_error_blk /\ (NoError \/ (error = 1 /\ ErrorIn(at[1]) /\ error_blk[2] < at[2]))
      /\ at[1] <= Len(DataLists) + 1
  BY DEF Base, Locals, AtDataPointer
<1>3. PICK e \in Nat : e = at[1]
  BY DEF Base, WalkOK
<1>4. at'[1] = e /\ at'[2] = at[2] + 1 /\ at[2] \in Nat
  BY <1>3 DEF Base, WalkOK, NextPointer
<1>5. (ErrorIn(at[1]) <=> ErrorIn(e)) /\ (ErrorIn(at[1])' <=> ErrorIn(e)')
  BY <1>3, <1>4 DEF ErrorIn
<1>6. NoError' \/ (error' = 1 /\ ErrorIn(e)' /\ error_blk'[2] < at'[2])
  <2>1. CASE SameError
    <3>1. (NoError' <=> NoError) /\ (ErrorIn(e)' <=> ErrorIn(e)) /\ error' = error /\ error_blk' = error_blk
      BY <2>1, ErrorSame DEF SameError
    <3>2. CASE NoError
      BY <3>1, <3>2
    <3>3. CASE error = 1 /\ ErrorIn(e) /\ error_blk[2] < at[2]
      <4>1. error_blk[2] \in Nat
        <5>1. DataLists[e] \in Blocks /\ error_blk[2] \in DOMAIN ptrs[DataLists[e]]
          BY <1>3, <3>3, DataHere, AtDataPlace DEF ErrorIn
        <5>2. QED
          BY <5>1, BlockLength DEF Base
      <4>2. QED
        BY <1>4, <3>1, <3>3, <4>1
    <3>4. QED
      BY <1>2, <1>5, <3>2, <3>3
  <2>2. CASE Pointer # Null /\ error' = 1 /\ error_blk' = <<DataLists[at[1]], at[2]>>
    BY <1>3, <1>4, <2>2, ErrorHere
  <2>3. QED
    BY <2>1, <2>2
<1>7. QED
  BY <1>1, <1>2, <1>3, <1>4, <1>5, <1>6 DEF Locals

LEMMA LocalsAtRemove ==
  ASSUME (InMetadata \/ HasError)', ~hit_error_blk', pc' = "remove", at' = <<1, 1>> PROVE Locals'
  BY DEF Locals

LEMMA LocalsAtErrorUndo ==
  ASSUME InMetadata', ~hit_error_blk', pc' = "error_undo", (at[1] \in DOMAIN ptrs[ip] /\ at[2] <= at[1])'
  PROVE  Locals'
  BY DEF Locals

LEMMA LocalsInUndo ==
  ASSUME Base, pc \in {"undo_data", "undo_meta"}, SameFile, SameError,
         \/ pc' = "undo_data" /\ at'[1] = at[1] /\ ~hit_error_blk' /\ (pc = "undo_meta" => HasError /\ ~AtEnd(metalist))
         \/ pc' = "undo_meta" /\ at' = NextBlock /\ fs.height[ip] # 1
         \/ pc' = "invalidate"
  PROVE  Locals'
<1>1. DataLists' = DataLists /\ (HasError' <=> HasError) /\ (InMetadata' <=> InMetadata) /\ fs' = fs /\ ip' = ip
  BY ErrorSame DEF SameFile
<1>2. AtFile /\ Locals
  BY DEF AtFile, Undoing, Base
<1>3. CASE pc' = "invalidate"
  BY <1>3 DEF Locals
<1>4. CASE pc' = "undo_meta" /\ at' = NextBlock /\ fs.height[ip] # 1
  <2>1. InMetadata \/ HasError
    BY <1>2 DEF Locals
  <2>2. fs.height[ip] = 2
    BY <1>2, <1>4, <2>1, ErrorHeight DEF InMetadata
  <2>3. at'[2] = 1
    BY <1>4 DEF NextBlock
  <2>4. QED
    BY <1>1, <1>4, <2>1, <2>2, <2>3 DEF Locals
<1>5. CASE pc' = "undo_data" /\ at'[1] = at[1] /\ ~hit_error_blk' /\ (pc = "undo_meta" => HasError /\ ~AtEnd(metalist))
  <2>1. HasError /\ at[1] \in DOMAIN DataLists
    BY <1>2, <1>5, UndoMetaHere DEF Locals
  <2>2. QED
    BY <1>1, <1>5, <2>1 DEF Locals
<1>6. QED
  BY <1>3, <1>4, <1>5

LEMMA LocalsStep == ASSUME Base, [Next]_vars PROVE Locals'
<1>0. Locals /\ at \in (Nat \ {0}) \X (Nat \ {0})
  BY DEF Base, WalkOK
<1>1. CASE HandleInode
  BY <1>1 DEF HandleInode, Polled, Locals, NoError
<1>2. CASE Rangecheck
  BY <1>0, <1>2 DEF Rangecheck, Locals, NoError, walk, errors
<1>3. CASE SetIpBlockmap
  <2>1. NoError /\ ~hit_error_blk /\ at = <<1, 1>> /\ metalist = << >> /\ FileAtHand /\ WalkOK
    BY <1>3 DEF SetIpBlockmap, Base, Locals, AtFile
  <2>2. UNCHANGED <<fs, ip, metalist, at, error, error_blk, hit_error_blk>>
    BY <1>3 DEF SetIpBlockmap, walk, errors
  <2>3. pc' = "inodes" \/ (pc' = "metalist" /\ fs.height[ip] = 2) \/ pc' = "data"
    BY <1>3 DEF SetIpBlockmap
  <2>4. DataLists' = DataLists /\ Len(DataLists) \in Nat
    BY <2>1, <2>2, HoldersAre, HoldersSame
  <2>5. QED
    BY <2>1, <2>2, <2>3, <2>4 DEF Locals, NoError
<1>4. CASE MetalistDone
  <2>1. NoError /\ ~hit_error_blk /\ FileAtHand /\ WalkOK
    BY <1>4 DEF MetalistDone, Base, Locals, AtFile, Walking
  <2>2. UNCHANGED <<fs, ip, metalist, error, error_blk, hit_error_blk>> /\ pc' = "data" /\ at' = <<1, 1>>
    BY <1>4 DEF MetalistDone, disk, errors
  <2>3. DataLists' = DataLists /\ Len(DataLists) \in Nat
    BY <2>1, <2>2, HoldersAre, HoldersSame
  <2>4. QED
    BY <2>1, <2>2, <2>3 DEF Locals, NoError
<1>5. CASE MetaNull \/ MetaBlock \/ (MetaInvalid /\ pc' = pc)
  BY <1>5, LocalsInMetalist DEF MetaNull, MetaBlock, MetaInvalid, AtMetaPointer, disk, errors, SameError
<1>6. CASE MetaOutOfRange \/ (MetaInvalid /\ ptrs' = ptrs /\ error' = 1 /\ pc' = "error_undo" /\ at' = <<at[2], 1>>)
  <2>1. AtMetaPointer /\ UNCHANGED <<fs, ptrs, ip, error_blk, hit_error_blk>>
        /\ error' = 1 /\ pc' = "error_undo" /\ at' = <<at[2], 1>>
    BY <1>6 DEF MetaOutOfRange, MetaInvalid
  <2>2. NoError /\ ~hit_error_blk /\ fs.height[ip] = 2 /\ at[2] \in DOMAIN ptrs[ip]
    BY <1>0, <2>1, AtMetaPlace DEF AtMetaPointer, Locals
  <2>3. InMetadata' /\ ~hit_error_blk'
    BY <2>1, <2>2 DEF InMetadata, NoError
  <2>4. (at[1] \in DOMAIN ptrs[ip] /\ at[2] <= at[1])'
    BY <1>0, <2>1, <2>2
  <2>5. QED
    BY <2>1, <2>3, <2>4, LocalsAtErrorUndo
<1>7. CASE DataNull \/ DataDuplicate \/ DataBlock
  <2>1. AtDataPointer /\ SameFile /\ hit_error_blk' = hit_error_blk /\ pc' = "data" /\ at' = NextPointer
    BY <1>7 DEF DataNull, DataDuplicate, DataBlock, AtUncut, AtDataPointer, Fine, Nonfatal, SameFile, disk, errors
  <2>2. SameError \/ (Pointer # Null /\ error' = 1 /\ error_blk' = <<DataLists[at[1]], at[2]>>)
    BY <1>7, BlocksAre DEF DataNull, DataDuplicate, DataBlock, Fine, Nonfatal, SameError, errors
  <2>3. QED
    BY <2>1, <2>2, LocalsInData
<1>8. CASE DataBlockDone
  <2>1. pc = "data" /\ SameFile /\ SameError /\ hit_error_blk' = hit_error_blk
        /\ UNCHANGED <<fs, ip, metalist, error, error_blk, hit_error_blk>>
    BY <1>8 DEF DataBlockDone, WalkDone, GiveUp, SameFile, SameError, disk, errors
  <2>2. /\ DataLists' = DataLists /\ (NoError' <=> NoError) /\ (HasError' <=> HasError)
    BY <2>1, ErrorSame
  <2>3. /\ ~hit_error_blk /\ (NoError \/ (error = 1 /\ ErrorIn(at[1]) /\ error_blk[2] < at[2]))
    BY <1>0, <2>1 DEF Locals
  <2>4. CASE pc' = "count"
    BY <2>4, LocalsAfter DEF AtFile, Walking, Undoing
  <2>5. CASE error # 0 /\ GiveUp
    <3>1. error = 1 /\ ErrorIn(at[1]) /\ at[1] \in Nat
      BY <1>0, <2>3, <2>5 DEF NoError
    <3>2. HasError
      BY <3>1 DEF HasError
    <3>3. QED
      BY <2>1, <2>2, <2>3, <2>5, <3>2, LocalsAtRemove DEF GiveUp
  <2>6. CASE error = 0 /\ ~AtEnd(DataLists) /\ at' = NextBlock /\ pc' = pc
    <3>1. NoError' /\ ~hit_error_blk'
      BY <2>1, <2>2, <2>3, <2>6
    <3>2. FileAtHand /\ WalkOK
      BY <2>1 DEF Base, AtFile, Walking
    <3>3. at'[1] <= Len(DataLists) + 1
      BY <1>0, <2>6, <3>2, HoldersAre DEF AtEnd, NextBlock
    <3>4. QED
      BY <2>1, <2>2, <2>6, <3>1, <3>3 DEF Locals
  <2>7. QED
    BY <1>8, <2>4, <2>5, <2>6 DEF DataBlockDone, WalkDone
<1>9. CASE DataCut
  <2>1. CASE WalkDone
    BY <2>1, LocalsAfter DEF WalkDone, AtFile, Walking, Undoing
  <2>2. CASE error # 0 /\ GiveUp
    <3>1. SameFile /\ SameError /\ hit_error_blk' = hit_error_blk /\ pc = "data"
      BY <1>9, <2>2 DEF DataCut, GiveUp, SameFile, SameError, disk, errors, AtDataPointer
    <3>2. ~hit_error_blk /\ error = 1 /\ ErrorIn(at[1]) /\ at[1] \in Nat
      BY <1>0, <2>2, <3>1 DEF NoError, Locals
    <3>3. HasError
      BY <3>2 DEF HasError
    <3>4. HasError'
      BY <3>1, <3>3, ErrorSame
    <3>5. QED
      BY <2>2, <3>1, <3>2, <3>4, LocalsAtRemove DEF GiveUp
  <2>3. QED
    BY <1>9, <2>1, <2>2 DEF DataCut
<1>10. CASE DataOutOfRange \/ DataLooksLikeDinode
  <2>1. /\ AtDataPointer /\ Pointer # Null /\ SameFile /\ hit_error_blk' = hit_error_blk /\ pc' = "remove"
        /\ at' = <<1, 1>> /\ error' = -1 /\ error_blk' = <<DataLists[at[1]], at[2]>>
    BY <1>10, BlocksAre DEF DataOutOfRange, DataLooksLikeDinode, AtUncut, Fatal, SameFile, disk
  <2>2. PICK e \in Nat : e = at[1]
    BY <1>0
  <2>3. HasError'
    BY <2>1, <2>2, ErrorHere DEF HasError
  <2>4. ~hit_error_blk'
    BY <1>0, <2>1 DEF AtDataPointer, Locals
  <2>5. QED
    BY <2>1, <2>3, <2>4, LocalsAtRemove
<1>11. CASE ErrorUndo
  <2>1. UNCHANGED <<fs, ptrs, ip, error, error_blk, hit_error_blk>> /\ pc = "error_undo" /\ pc' = pc
        /\ at' = NextPointer /\ at[2] < at[1]
    BY <1>11 DEF ErrorUndo, errors
  <2>2. InMetadata' /\ ~hit_error_blk'
    BY <1>0, <2>1 DEF Locals, InMetadata
  <2>3. (at[1] \in DOMAIN ptrs[ip] /\ at[2] <= at[1])'
    <3>1. at'[1] = at[1] /\ at'[2] = at[2] + 1 /\ at[1] \in DOMAIN ptrs[ip]
      BY <1>0, <2>1 DEF NextPointer, Locals
    <3>2. at'[2] <= at'[1]
      BY <1>0, <2>1, <3>1
    <3>3. QED
      BY <2>1, <3>1, <3>2
  <2>4. QED
    BY <2>1, <2>2, <2>3, LocalsAtErrorUndo
<1>12. CASE ErrorUndoDone
  <2>1. UNCHANGED <<fs, ptrs, ip, error, error_blk, hit_error_blk>> /\ pc = "error_undo" /\ pc' = "remove" /\ at' = <<1, 1>>
    BY <1>12 DEF ErrorUndoDone, disk, errors
  <2>2. InMetadata' /\ ~hit_error_blk'
    BY <1>0, <2>1 DEF Locals, InMetadata
  <2>3. QED
    BY <2>1, <2>2, LocalsAtRemove
<1>13. CASE AskRemove
  <2>1. /\ SameFile /\ SameError /\ hit_error_blk' = hit_error_blk /\ pc = "remove" /\ at' = at
        /\ UNCHANGED <<fs, ip, metalist>>
    BY <1>13 DEF AskRemove, disk, walk, errors, SameFile, SameError
  <2>2. (InMetadata \/ HasError) /\ ~hit_error_blk /\ at = <<1, 1>> /\ FileAtHand /\ AtFile /\ WalkOK
    BY <1>0, <2>1 DEF Locals, Base, AtFile, Undoing
  <2>3. DataLists' = DataLists /\ (HasError' <=> HasError) /\ (InMetadata' <=> InMetadata)
    BY <2>1, ErrorSame
  <2>4. CASE pc' = "count"
    BY <2>4, LocalsAfter DEF AtFile, Walking, Undoing
  <2>5. CASE pc' = "undo_data" /\ fs.height[ip] = 1
    <3>1. HasError /\ 1 \in DOMAIN DataLists
      BY <2>2, <2>5 DEF InMetadata, DataLists
    <3>2. QED
      BY <2>1, <2>2, <2>3, <2>5, <3>1 DEF Locals
  <2>6. CASE pc' = "undo_meta" /\ fs.height[ip] # 1
    <3>1. fs.height[ip] = 2
      BY <2>2, <2>6, ErrorHeight DEF InMetadata
    <3>2. QED
      BY <2>1, <2>2, <2>3, <2>6, <3>1 DEF Locals
  <2>7. QED
    BY <1>13, <2>4, <2>5, <2>6 DEF AskRemove
<1>14. CASE UndoMeta
  <2>1. pc = "undo_meta" /\ ~AtEnd(metalist) /\ SameFile /\ SameError /\ hit_error_blk' = hit_error_blk
    BY <1>14 DEF UndoMeta, SameFile, SameError, errors
  <2>2. fs.height[ip] = 2
    BY <1>0, <2>1 DEF Locals
  <2>3. CASE pc' = "undo_data" /\ MetadataClean /\ ~hit_error_blk /\ at' = at
    <3>1. HasError
      BY <1>0, <2>1, <2>3 DEF Locals, MetadataClean, InMetadata
    <3>2. QED
      BY <2>1, <2>3, <3>1, LocalsInUndo
  <2>4. CASE pc' = "undo_meta" /\ at' = NextBlock
    BY <2>1, <2>2, <2>4, LocalsInUndo
  <2>5. QED
    BY <1>14, <2>3, <2>4 DEF UndoMeta
<1>15. CASE (UndoDataDone \/ UndoDataCut \/ UndoReachedError \/ UndoData) /\ at' = NextBlock
            /\ pc' = (IF fs.height[ip] = 1 THEN "invalidate" ELSE "undo_meta")
  <2>1. pc = "undo_data" /\ SameFile /\ SameError
    BY <1>15 DEF UndoDataDone, UndoDataCut, UndoReachedError, UndoData, AtUndoPointer, SameFile, SameError, disk
  <2>2. QED
    BY <1>15, <2>1, LocalsInUndo
<1>16. CASE (UndoDataNull \/ UndoData) /\ at' = NextPointer /\ pc' = pc /\ hit_error_blk' = hit_error_blk
  <2>1. pc = "undo_data" /\ SameFile /\ SameError
    BY <1>16 DEF UndoDataNull, UndoData, AtUndoPointer, SameFile, SameError, disk, errors
  <2>2. ~hit_error_blk' /\ at'[1] = at[1]
    BY <1>0, <1>16, <2>1 DEF Locals, NextPointer
  <2>3. QED
    BY <1>16, <2>1, <2>2, LocalsInUndo
<1>17. CASE SameFile /\ SameError /\ hit_error_blk' = hit_error_blk /\ at' = at /\ pc' = pc
  BY <1>17, LocalsInFile
<1>18. CASE ~AtFile'
  BY <1>18, LocalsAfter
<1>19. CASE MetaInvalid
  BY <1>5, <1>6, <1>19 DEF MetaInvalid
<1>20. CASE UndoDataDone \/ UndoDataCut \/ UndoReachedError \/ UndoDataNull \/ UndoData
  BY <1>15, <1>16, <1>20 DEF UndoDataDone, UndoDataCut, UndoReachedError, UndoDataNull, UndoData, UndoBlockDone, errors
<1>21. QED
  BY <1>1, <1>2, <1>3, <1>4, <1>5, <1>6, <1>7, <1>8, <1>9, <1>10, <1>11, <1>12, <1>13, <1>14, <1>17, <1>18, <1>19, <1>20
  DEF Next, vars, disk, walk, errors, SameFile, SameError, AtFile, Walking, Undoing, Polled,
     NextRgrp, EndOfList, MarkedInode, InvalidInode, BadlyCorrupt, MetalistCut, Invalidate,
     CountBlocks, Pass5Block, Pass5Done, Interrupt

-----------------------------------------------------------------------------
LEMMA InitBase == ASSUME Init PROVE Base
<1>1. PICK i \in Images :
        /\ fs = [content |-> i.content, height |-> i.height, badmode |-> i.badmode]
        /\ ptrs = i.ptrs /\ bitmap = i.bitmap
  BY DEF Init
<1>2. i \in ImageType /\ \A b \in Blocks : (i.bitmap[b] = "none" <=> b \in Headers) /\ (b \in Headers => i.content[b] = "RG")
  BY BlockMapAssumption
<1>3. FilesOK
  BY <1>1, <1>2, HeadersAre DEF FilesOK, ImageType
<1>4. MapsOK
  BY <1>1, <1>2 DEF Init, MapsOK, ImageType, MapStates
<1>5. DupsOK
  BY DEF Init, DupsOK
<1>6. 0 \in 0 .. Len(Rgrps)
  BY Sizes
<1>7. WalkOK
  <2>1. at \in (Nat \ {0}) \X (Nat \ {0}) /\ metalist \in Seq(Blocks) /\ error \in -1 .. 1
        /\ error_blk \in Nat \X Nat
    BY DEF Init
  <2>2. QED
    BY <1>6, <2>1 DEF Init, WalkOK
<1>8. ~AtFile /\ MarksOK /\ Locals
  BY DEF Init, MarksOK, Locals, AtFile, Walking, Undoing
<1>9. QED
  BY <1>3, <1>4, <1>5, <1>7, <1>8 DEF Base

LEMMA BaseStep == ASSUME Base, [Next]_vars PROVE Base'
  BY FilesStep, MapsStep, DupsStep, WalkStep, FileAtHandStep, MarksStep, LocalsStep DEF Base

(* Every variable has a value of its kind, at every step of pass1 and      *)
(* pass5 and whatever is answered.                                         *)
THEOREM TypeCorrect == Spec => []TypeOK
<1>1. Base => TypeOK
  BY DEF Base, FilesOK, MapsOK, DupsOK, RecordOK, WalkOK, AtFile, Walking, Undoing, TypeOK
<1>2. Base /\ [Next]_vars => Base'
  BY BaseStep
<1>3. QED
  BY InitBase, <1>1, <1>2, PTL DEF Spec

-----------------------------------------------------------------------------
(* The files kept so far and what they have.                               *)
LEMMA SeenAre == \A f : SeenRefs(f) \subseteq Blocks \ Headers
<1>1. ASSUME NEW f, NEW b \in Indirect(f) PROVE b \in Blocks
  BY <1>1 DEF Indirect, Metadata
<1>2. ASSUME NEW f, NEW q \in DataPlaces(f) PROVE ptrs[q[1]][q[2]] \in Blocks
  BY <1>2 DEF DataPlaces
<1>3. QED
  BY <1>1, <1>2 DEF SeenRefs

LEMMA KeptIs == \A x : x \in Kept <=> \E f \in Whole : x = f \/ x \in SeenRefs(f)
  BY DEF Kept, Own

LEMMA KeptInBlocks == Kept \subseteq Blocks
  BY KeptIs, SeenAre DEF Whole

LEMMA KeptAre ==
  ASSUME WalkedOf, InUse PROVE Kept \subseteq Blocks \ Headers /\ \A x \in Kept : bl[x] # "free"
<1>1. Whole \subseteq Blocks \ Headers
  BY DEF Whole, WalkedOf
<1>2. QED
  BY <1>1, KeptIs, SeenAre DEF InUse

(* What is seen of a file depends on its pointers and those of indirect    *)
(* blocks alone.                                                           *)
LEMMA SeenSame ==
  ASSUME fs' = fs, NEW f \in Blocks,
         \A m \in Blocks : m = f \/ fs.content[m] = "IN" => ptrs'[m] = ptrs[m],
         \A m \in Blocks : <<f, m>> \in walked' <=> <<f, m>> \in walked
  PROVE  SeenRefs(f)' = SeenRefs(f)
<1>1. ptrs'[f] = ptrs[f]
  OBVIOUS
<1>2. Metadata(f)' = Metadata(f)
  BY <1>1 DEF Metadata
<1>3. Indirect(f)' = Indirect(f)
  BY <1>1, <1>2 DEF Indirect
<1>4. DataHolders(f)' = DataHolders(f)
  BY <1>3 DEF DataHolders
<1>5. \A m \in DataHolders(f) : m \in Blocks /\ (m = f \/ fs.content[m] = "IN")
  BY DEF DataHolders, Indirect, Metadata
<1>6. \A m \in DataHolders(f) : ptrs'[m] = ptrs[m] /\ (<<f, m>> \in walked' <=> <<f, m>> \in walked)
  BY <1>5
<1>7. \A q : q \in DataPlaces(f) =>
         q[1] \in DataHolders(f) /\ q[2] \in DOMAIN ptrs[q[1]] /\ q = <<q[1], q[2]>> /\ ptrs[q[1]][q[2]] \in Blocks
  BY DEF DataPlaces
<1>8. ASSUME NEW q PROVE q \in DataPlaces(f)' <=> q \in DataPlaces(f)
  <2>1. q \in DataPlaces(f) <=>
          /\ fs.height[f] # 0
          /\ \E m \in DataHolders(f) : \E k \in DOMAIN ptrs[m] : q = <<m, k>> /\ ptrs[m][k] \in Blocks
    BY DEF DataPlaces
  <2>2. q \in DataPlaces(f)' <=>
          /\ fs'.height[f] # 0
          /\ \E m \in DataHolders(f)' : \E k \in DOMAIN ptrs'[m] : q = <<m, k>> /\ ptrs'[m][k] \in Blocks
    BY DEF DataPlaces
  <2>3. QED
    BY <1>4, <1>6, <2>1, <2>2
<1>9. \A q \in DataPlaces(f) : ptrs'[q[1]][q[2]] = ptrs[q[1]][q[2]] /\ (<<f, q[1]>> \in walked' <=> <<f, q[1]>> \in walked)
  BY <1>6, <1>7
<1> DEFINE seen == { ptrs[p[1]][p[2]] : p \in { q \in DataPlaces(f) : <<f, q[1]>> \in walked } }
<1>10. \A x : x \in seen' <=> x \in seen
  BY <1>8, <1>9
<1>11. seen' = seen
  BY <1>10
<1> HIDE DEF seen
<1>12. SeenRefs(f) = (Indirect(f) \union seen) \ Headers /\ SeenRefs(f)' = (Indirect(f)' \union seen') \ Headers
  BY DEF SeenRefs, seen
<1>13. QED
  BY <1>3, <1>11, <1>12

FilesSame ==
    /\ fs' = fs /\ walked' = walked /\ Whole' = Whole /\ Kept' = Kept
    /\ \A f \in Whole : SeenRefs(f)' = SeenRefs(f) /\ Own(f)' = Own(f)

LEMMA FilesAreSame ==
  ASSUME fs' = fs, walked' = walked,
         \A f \in Whole : \A m \in Blocks : m = f \/ fs.content[m] = "IN" => ptrs'[m] = ptrs[m]
  PROVE  FilesSame
<1>1. Whole' = Whole /\ Whole \subseteq Blocks
  BY DEF Whole
<1>2. \A f \in Whole : SeenRefs(f)' = SeenRefs(f)
  BY <1>1, SeenSame
<1>3. \A f \in Whole : Own(f)' = Own(f)
  BY <1>2 DEF Own
<1>4. Kept' = Kept
  BY <1>1, <1>3 DEF Kept
<1>5. QED
  BY <1>1, <1>2, <1>3, <1>4 DEF FilesSame

LEMMA FilesSameStep ==
  ASSUME Base, Confined, [Next]_vars, DataBlockDone => walked' = walked
  PROVE  FilesSame
<1>1. CASE MetaInvalid
  <2>1. fs' = fs /\ walked' = walked /\ (ptrs' = ptrs \/ ptrs' = [ptrs EXCEPT ![ip][at[2]] = Null])
    BY <1>1 DEF MetaInvalid, history
  <2>2. ip \notin Kept /\ fs.content[ip] = "DI"
    BY <1>1 DEF MetaInvalid, AtMetaPointer, AtFile, Walking, Base, FileAtHand, Confined, KeptAside
  <2>3. ip \notin Whole
    BY <2>2, KeptIs
  <2>4. ASSUME NEW f \in Whole, NEW m \in Blocks, m = f \/ fs.content[m] = "IN" PROVE ptrs'[m] = ptrs[m]
    BY <2>1, <2>2, <2>3, <2>4 DEF Base, FilesOK
  <2>5. QED
    BY <2>1, <2>4, FilesAreSame
<1>2. CASE fs' = fs /\ ptrs' = ptrs /\ walked' = walked
  BY <1>2, FilesAreSame
<1>3. QED
  BY <1>1, <1>2 DEF Next, vars, disk, history, Polled, GiveUp, WalkDone,
     NextRgrp, EndOfList, MarkedInode, InvalidInode, HandleInode, Rangecheck, BadlyCorrupt,
     SetIpBlockmap, MetalistDone, MetalistCut, MetaNull, MetaOutOfRange, MetaBlock,
     DataBlockDone, DataCut, DataNull, DataOutOfRange, DataDuplicate, DataLooksLikeDinode,
     DataBlock, ErrorUndo, ErrorUndoDone, AskRemove, UndoMeta, UndoDataDone, UndoDataCut,
     UndoDataNull, UndoReachedError, UndoData, Invalidate, CountBlocks, Pass5Block,
     Pass5Done, Interrupt

-----------------------------------------------------------------------------
(* What lasts when the kept files stay the same.                           *)
LEMMA WalkedOfLasts == ASSUME WalkedOf, FilesSame PROVE WalkedOf'
  BY DEF WalkedOf, FilesSame

LEMMA InUseLasts == ASSUME InUse, FilesSame, \A x \in Kept : bl'[x] = bl[x] PROVE InUse'
  BY KeptIs DEF InUse, FilesSame

Lasting == \A b : \A f \in Whole : Recorded(b) /\ OnRecord(b, f) => Recorded(b)' /\ OnRecord(b, f)'

LEMMA SharedLasts == ASSUME Shared, FilesSame, Lasting PROVE Shared'
<1>1. ASSUME NEW f \in Whole', NEW g \in Whole', NEW b \in Own(f)' \intersect Own(g)', f # g
      PROVE  Recorded(b)' /\ (OnRecord(b, f)' \/ OnRecord(b, g)')
  <2>1. f \in Whole /\ g \in Whole /\ b \in Own(f) /\ b \in Own(g)
    BY <1>1 DEF FilesSame
  <2>2. Recorded(b) /\ (OnRecord(b, f) \/ OnRecord(b, g))
    BY <1>1, <2>1 DEF Shared
  <2>3. QED
    BY <2>1, <2>2 DEF Lasting
<1>2. QED
  BY <1>1 DEF Shared

-----------------------------------------------------------------------------
(* The file at hand is none of those kept, and the place at hand in its    *)
(* undo is pending.                                                        *)
LEMMA IpIsAside == ASSUME Confined, AtFile PROVE ip \notin Kept /\ ip \notin Whole
  BY KeptIs DEF Confined, KeptAside

LEMMA ErrorUndoPending ==
  ASSUME Base, pc = "error_undo", at[2] < at[1]
  PROVE  <<0, at[2]>> \in Pending /\ Lead(<<0, at[2]>>) = ptrs[ip][at[2]]
<1>1. at[2] \in Nat /\ at[2] \in DOMAIN ptrs[ip] /\ fs.height[ip] = 2
  BY ErrorUndoHere DEF Base, WalkOK, Locals, InMetadata
<1>2. <<0, at[2]>> \in Places /\ <<0, at[2]>> \in MetaPlaces
  BY <1>1 DEF Places, MetaPlaces
<1>3. IsPending(<<0, at[2]>>)
  BY <1>1, <1>2 DEF IsPending
<1>4. QED
  BY <1>2, <1>3 DEF Pending, Lead, Holder

LEMMA ErrorNatural ==
  ASSUME Base, AtFile, NEW e, ErrorIn(e) PROVE error_blk[2] \in Nat \ {0} /\ DataLists[e] \in Blocks \ Headers
<1>1. DataLists[e] \in Blocks \ Headers
  BY HoldersAre DEF Base, ErrorIn
<1>2. QED
  BY <1>1, BlockLength DEF Base, ErrorIn

LEMMA ErrorUnique ==
  ASSUME Base, AtFile, NEW e, NEW g, ErrorIn(e), ErrorIn(g) PROVE e = g
  BY HoldersAre DEF Base, ErrorIn

LEMMA UndoDataPending ==
  ASSUME Base, UndoAt, AtUndoPointer, Pointer # Null, ~(AtErrorBlk /\ error < 0)
  PROVE  at \in Pending /\ Lead(at) = Pointer
<1>1. /\ AtFile /\ at[1] \in DOMAIN DataLists /\ at[2] \in DOMAIN ptrs[DataLists[at[1]]] /\ pc = "undo_data"
      /\ at \in (Nat \ {0}) \X (Nat \ {0})
  BY UndoHere, AtDataPlace DEF AtUndoPointer, Base, WalkOK
<1>2. Holder(at[1]) = DataLists[at[1]] /\ at \in Places /\ at[1] \in Nat /\ at[2] \in Nat
  BY <1>1 DEF Holder, Places
<1>3. IsData(at) /\ Lead(at) = Pointer
  BY <1>1, <1>2 DEF IsData, Lead, Pointer
<1>4. PICK e \in Nat : /\ ErrorIn(e) /\ at[1] <= e
                       /\ at[1] = e /\ error < 0 => at[2] <= error_blk[2]
  BY <1>1 DEF UndoAt
<1>5. error_blk[2] \in Nat /\ error \in {-1, 1}
  BY <1>1, <1>4, ErrorNatural DEF Base, Locals, HasError
<1>6. Before(at, <<e, error_blk[2]>>) \/ (at[1] = e /\ error > 0)
  <2>1. CASE at[1] # e
    BY <1>2, <1>4, <2>1 DEF Before
  <2>2. CASE at[1] = e /\ error < 0
    <3>1. error_blk[1] = DataLists[at[1]] /\ error_blk = <<error_blk[1], error_blk[2]>>
      BY <1>4, <2>2 DEF ErrorIn, Base, WalkOK
    <3>2. at[2] # error_blk[2]
      BY <2>2, <3>1 DEF AtErrorBlk
    <3>3. QED
      BY <1>2, <1>4, <1>5, <2>2, <3>2 DEF Before
  <2>3. QED
    BY <1>5, <2>1, <2>2
<1>7. WalkedTo(at)
  BY <1>3, <1>4, <1>6 DEF WalkedTo
<1>8. ~Before(at, at)
  BY <1>2 DEF Before
<1>9. IsPending(at)
  BY <1>1, <1>7, <1>8 DEF IsPending
<1>10. QED
  BY <1>2, <1>3, <1>9 DEF Pending

-----------------------------------------------------------------------------
(* No step changes the mark of a kept block.                               *)
LEMMA UndoKeepsMarks ==
  ASSUME DupsOK, MapsOK, ip \in Blocks \ Kept, NEW b \in Blocks \union {Bad}, NEW meta, UndoReference(b, meta),
         b \in Kept => Recorded(b)
  PROVE  \A x \in Kept : bl'[x] = bl[x]
<1>1. "free" \in MapStates
  BY DEF MapStates
<1>2. CASE bl' = bl
  BY <1>2
<1>3. CASE b = Bad /\ SetBlockmap(ip, "free")
  <2>1. bl' = bl \/ bl' = [bl EXCEPT ![ip] = "free"]
    BY <1>1, <1>3, BlockmapSet
  <2>2. QED
    BY <2>1, KeptInBlocks DEF MapsOK
<1>4. CASE b # Bad /\ Undone(b, meta) = 0 /\ SetBlockmap(b, "free")
  <2>1. ~Recorded(b)
    BY <1>4, StillRecorded DEF Undone
  <2>2. bl' = bl \/ bl' = [bl EXCEPT ![b] = "free"]
    BY <1>1, <1>4, BlockmapSet
  <2>3. QED
    BY <2>1, <2>2, KeptInBlocks DEF MapsOK
<1>5. QED
  BY <1>2, <1>3, <1>4 DEF UndoReference

LEMMA MarkedOthers ==
  ASSUME MapsOK, NEW b \in Blocks, NEW new \in MapStates, SetBlockmap(b, new), b \notin Kept
  PROVE  \A x \in Kept : bl'[x] = bl[x]
<1>1. bl' = bl \/ bl' = [bl EXCEPT ![b] = new]
  BY BlockmapSet
<1>2. QED
  BY <1>1, KeptInBlocks DEF MapsOK

LEMMA KeptMarksStep ==
  ASSUME Base, Confined, [Next]_vars PROVE \A x \in Kept : bl'[x] = bl[x]
<1> USE DEF MapStates
<1>0. MapsOK /\ DupsOK /\ Kept \subseteq Blocks \ Headers /\ \A x \in Kept : bl[x] # "free"
  BY KeptAre DEF Base, Confined
<1>1. CASE NextRgrp
  <2>1. CASE bl' = bl
    BY <2>1
  <2>2. CASE rgd < Len(Rgrps) /\ rgd' = rgd + 1
             /\ bl' = [b \in Blocks |-> IF b \in Rgrps[rgd'].header THEN "used" ELSE bl[b]]
    <3>1. rgd' \in DOMAIN Rgrps
      BY <2>2, Sizes DEF Base, WalkOK
    <3>2. Rgrps[rgd'].header \subseteq Headers
      BY <3>1, GroupIs
    <3>3. QED
      BY <1>0, <2>2, <3>2
  <2>3. QED
    BY <1>1, <2>1, <2>2 DEF NextRgrp
<1>2. CASE BadlyCorrupt \/ Invalidate \/ AskRemove
  <2>1. AtFile /\ (bl' = bl \/ bl' = [bl EXCEPT ![ip] = "free"])
    BY <1>2 DEF BadlyCorrupt, Invalidate, AskRemove, AtFile, Undoing
  <2>2. ip \notin Kept
    BY <2>1, IpIsAside
  <2>3. QED
    BY <1>0, <2>1, <2>2 DEF MapsOK
<1>3. CASE SetIpBlockmap
  <2>1. AtFile /\ ip \in Blocks /\ (SetBlockmap(ip, "free") \/ SetBlockmap(ip, "dinode"))
    BY <1>3 DEF SetIpBlockmap, AtFile, Base, FileAtHand
  <2>2. QED
    BY <1>0, <2>1, IpIsAside, MarkedOthers
<1>4. CASE MetaOutOfRange \/ DataOutOfRange
  <2>1. AtFile /\ ip \in Blocks /\ SetBlockmap(ip, "unlinked")
    BY <1>4 DEF MetaOutOfRange, DataOutOfRange, AtMetaPointer, AtUncut, AtDataPointer, Walking, AtFile, Base, FileAtHand
  <2>2. QED
    BY <1>0, <2>1, IpIsAside, MarkedOthers
<1>5. CASE MetaBlock
  <2>1. CASE bl' = bl
    BY <2>1
  <2>2. CASE MetaPointer \in Blocks /\ bl[MetaPointer] = "free" /\ SetBlockmap(MetaPointer, "used")
    BY <1>0, <2>2, MarkedOthers
  <2>3. QED
    BY <1>5, <2>1, <2>2 DEF MetaBlock
<1>6. CASE DataBlock
  <2>1. Pointer \in Blocks /\ bl[Pointer] = "free" /\ SetBlockmap(Pointer, "used")
    BY <1>6 DEF DataBlock
  <2>2. QED
    BY <1>0, <2>1, MarkedOthers
<1>7. CASE ErrorUndo
  <2>1. CASE bl' = bl
    BY <2>1
  <2>2. CASE ptrs[ip][at[2]] # Null /\ UndoReference(ptrs[ip][at[2]], TRUE)
    <3>1. AtFile /\ ip \in Blocks /\ ptrs[ip][at[2]] \in Blocks \union {Bad}
      BY <1>7, <2>2, ErrorUndoHere DEF ErrorUndo, AtFile, Undoing
    <3>2. ptrs[ip][at[2]] \in Kept => Recorded(ptrs[ip][at[2]])
      BY <1>7, ErrorUndoPending DEF ErrorUndo, Confined, RecordLasts
    <3>3. ip \notin Kept
      BY <3>1, IpIsAside
    <3>4. QED
      BY <1>0, <2>2, <3>1, <3>2, <3>3, UndoKeepsMarks
  <2>3. QED
    BY <1>7, <2>1, <2>2 DEF ErrorUndo
<1>8. CASE UndoMeta
  <2>1. metalist[at[1]] \in Blocks /\ at[1] \in DOMAIN metalist /\ ip \in Blocks /\ UndoReference(metalist[at[1]], TRUE) /\ AtFile
    BY <1>8, UndoMetaHere DEF UndoMeta, AtFile, Undoing
  <2>2. metalist[at[1]] \notin Kept /\ ip \notin Kept
    BY <2>1 DEF Confined, KeptAside
  <2>3. QED
    BY <1>0, <2>1, <2>2, UndoKeepsMarks
<1>9. CASE UndoData
  <2>1. Pointer \in Blocks \union {Bad} /\ ip \in Blocks /\ UndoReference(Pointer, FALSE) /\ AtFile
    BY <1>9, UndoHere, AtDataPlace DEF UndoData
  <2>2. Pointer \in Kept => Recorded(Pointer)
    BY <1>9, UndoDataPending DEF UndoData, Confined, RecordLasts
  <2>3. ip \notin Kept
    BY <2>1, IpIsAside
  <2>4. QED
    BY <1>0, <2>1, <2>2, <2>3, UndoKeepsMarks
<1>10. CASE bl' = bl
  BY <1>10
<1>11. QED
  BY <1>1, <1>2, <1>3, <1>4, <1>5, <1>6, <1>7, <1>8, <1>9, <1>10 DEF Next, vars, Polled,
     EndOfList, MarkedInode, InvalidInode, HandleInode, Rangecheck, MetalistDone,
     MetalistCut, MetaNull, MetaInvalid, DataBlockDone, DataCut, DataNull, DataDuplicate,
     DataLooksLikeDinode, ErrorUndoDone, UndoDataDone, UndoDataCut, UndoDataNull,
     UndoReachedError, CountBlocks, Pass5Block, Pass5Done, Interrupt

-----------------------------------------------------------------------------
(* Records that name a kept file last.                                     *)
LEMMA AddLasts ==
  ASSUME DupsOK, NEW b \in Blocks, NEW i \in Blocks, AddDuplicateRef(b, i) PROVE Lasting
<1>1. ASSUME NEW x, NEW f, Recorded(x), OnRecord(x, f) PROVE Recorded(x)' /\ OnRecord(x, f)'
  <2>1. CASE x = b
    BY <1>1, <2>1, RecordAdded DEF Recorded
  <2>2. CASE x # b
    BY <1>1, <2>2, RecordAdded DEF Recorded, OnRecord
  <2>3. QED
    BY <2>1, <2>2
<1>2. QED
  BY <1>1 DEF Lasting

LEMMA UndoLasts ==
  ASSUME DupsOK, ip \notin Whole, NEW b, NEW meta, UndoReference(b, meta) PROVE Lasting
<1>1. ASSUME NEW x, NEW f \in Whole, Recorded(x), OnRecord(x, f) PROVE Recorded(x)' /\ OnRecord(x, f)'
  <2>1. CASE x = b
    BY <1>1, <2>1, RecordUndone
  <2>2. CASE x # b
    BY <1>1, <2>2, RecordUndone DEF Recorded, OnRecord
  <2>3. QED
    BY <2>1, <2>2
<1>2. QED
  BY <1>1 DEF Lasting

LEMMA LastingStep == ASSUME Base, Confined, [Next]_vars PROVE Lasting
<1>0. DupsOK
  BY DEF Base
<1>1. CASE MarkedInode
  <2>1. Min(ibuf) \in Blocks /\ (dup_blocks' = dup_blocks \/ AddDuplicateRef(Min(ibuf), Min(ibuf)))
    BY <1>1, ListedIs DEF MarkedInode, Polled
  <2>2. QED
    BY <1>0, <2>1, AddLasts DEF Lasting, Recorded, OnRecord
<1>2. CASE MetaBlock
  <2>1. CASE dup_blocks' = dup_blocks
    BY <2>1 DEF Lasting, Recorded, OnRecord
  <2>2. CASE MetaPointer \in Blocks /\ AddDuplicateRef(MetaPointer, ip)
    BY <1>0, <1>2, <2>2, AtMetaPlace, AddLasts DEF MetaBlock
  <2>3. QED
    BY <1>2, <2>1, <2>2 DEF MetaBlock
<1>3. CASE DataDuplicate
  <2>1. ip \in Blocks /\ Pointer \in Blocks /\ AddDuplicateRef(Pointer, ip)
    BY <1>3, DataHere, AtDataPlace DEF DataDuplicate, AtUncut
  <2>2. QED
    BY <1>0, <2>1, AddLasts
<1>4. CASE ErrorUndo
  <2>1. CASE dup_blocks' = dup_blocks
    BY <2>1 DEF Lasting, Recorded, OnRecord
  <2>2. CASE UndoReference(ptrs[ip][at[2]], TRUE)
    BY <1>0, <1>4, <2>2, UndoLasts, IpIsAside DEF ErrorUndo, AtFile, Undoing
  <2>3. QED
    BY <1>4, <2>1, <2>2 DEF ErrorUndo
<1>5. CASE UndoMeta
  <2>1. UndoReference(metalist[at[1]], TRUE) /\ AtFile
    BY <1>5 DEF UndoMeta, AtFile, Undoing
  <2>2. QED
    BY <1>0, <2>1, UndoLasts, IpIsAside
<1>6. CASE UndoData
  <2>1. UndoReference(Pointer, FALSE) /\ AtFile
    BY <1>6, UndoHere DEF UndoData
  <2>2. QED
    BY <1>0, <2>1, UndoLasts, IpIsAside
<1>7. CASE Invalidate
  <2>1. DeleteAllDups(ip) /\ AtFile
    BY <1>7 DEF Invalidate, AtFile, Undoing
  <2>2. ip \notin Whole
    BY <2>1, IpIsAside
  <2>3. QED
    BY <1>0, <2>1, <2>2, RecordsDeleted DEF Lasting, Recorded
<1>8. CASE dup_blocks' = dup_blocks
  BY <1>8 DEF Lasting, Recorded, OnRecord
<1>9. QED
  BY <1>1, <1>2, <1>3, <1>4, <1>5, <1>6, <1>7, <1>8 DEF Next, vars,
     NextRgrp, EndOfList, InvalidInode, HandleInode, Rangecheck, BadlyCorrupt,
     SetIpBlockmap, MetalistDone, MetalistCut, MetaNull, MetaOutOfRange, MetaInvalid,
     DataBlockDone, DataCut, DataNull, DataOutOfRange, DataLooksLikeDinode, DataBlock,
     ErrorUndoDone, AskRemove, UndoDataDone, UndoDataCut, UndoDataNull, UndoReachedError,
     CountBlocks, Pass5Block, Pass5Done, Interrupt

-----------------------------------------------------------------------------
(* The file at hand stays aside.                                           *)
LEMMA KeptAsideStep == ASSUME Base, Confined, FilesSame, [Next]_vars PROVE KeptAside'
<1>0. KeptAside /\ Kept' = Kept /\ \A x \in Kept : bl[x] # "free"
  BY KeptAre DEF Confined, FilesSame
<1>1. CASE HandleInode
  BY <1>0, <1>1 DEF HandleInode, KeptAside
<1>2. CASE MetaBlock
  <2>1. ip \notin Kept /\ ip' = ip /\ \A k \in DOMAIN metalist : metalist[k] \notin Kept
    BY <1>0, <1>2 DEF MetaBlock, AtMetaPointer, AtFile, Walking, KeptAside
  <2>2. CASE metalist' = metalist
    BY <1>0, <2>1, <2>2 DEF KeptAside
  <2>3. CASE metalist' = Append(metalist, MetaPointer) /\ bl[MetaPointer] = "free"
    <3>1. metalist \in Seq(Blocks)
      BY DEF Base, WalkOK
    <3>2. \A k \in DOMAIN metalist' : metalist'[k] = MetaPointer \/ (k \in DOMAIN metalist /\ metalist'[k] = metalist[k])
      BY <2>3, <3>1
    <3>3. QED
      BY <1>0, <2>1, <2>3, <3>2 DEF KeptAside
  <2>4. QED
    BY <1>2, <2>2, <2>3 DEF MetaBlock
<1>3. CASE (AtFile' => AtFile) /\ ip' = ip /\ metalist' = metalist
  BY <1>0, <1>3 DEF KeptAside
<1>4. QED
  BY <1>1, <1>2, <1>3 DEF AtFile, Walking, Undoing, AtMetaPointer, AtUncut, AtDataPointer, AtUndoPointer,
     Next, vars, disk, walk, errors, Polled, GiveUp, WalkDone, Fatal, Nonfatal, Fine, UndoBlockDone,
     NextRgrp, EndOfList, MarkedInode, InvalidInode, Rangecheck, BadlyCorrupt,
     SetIpBlockmap, MetalistDone, MetalistCut, MetaNull, MetaOutOfRange, MetaInvalid,
     DataBlockDone, DataCut, DataNull, DataOutOfRange, DataDuplicate, DataLooksLikeDinode,
     DataBlock, ErrorUndo, ErrorUndoDone, AskRemove, UndoMeta, UndoDataDone, UndoDataCut,
     UndoDataNull, UndoReachedError, UndoData, Invalidate, CountBlocks, Pass5Block,
     Pass5Done, Interrupt

-----------------------------------------------------------------------------
(* The undo does not miss the error.                                       *)
LEMMA NotMissed == ASSUME UndoneAsWalked', NEW hit, cut' = cut \union {Left(hit)}
                   PROVE  DataLists[at[1]] = error_blk[1] => hit
  BY DEF UndoneAsWalked, Left

LEMMA UndoneBefore == ASSUME Base, [Next]_vars, UndoneAsWalked' PROVE UndoneAsWalked
  BY CutStep DEF UndoneAsWalked

(* What the undo comes to next, at the block at hand or at the next.       *)
LEMMA UndoAtNext ==
  ASSUME Base, AtFile, SameFile, SameError, UndoneAsWalked', pc' = "undo_meta", at'[1] = at[1] + 1,
         \A e \in Nat : ErrorIn(e) /\ HasError /\ ~hit_error_blk' => at[1] < e
  PROVE  UndoAt'
<1>1. CASE HasError' /\ ~hit_error_blk'
  <2>1. HasError /\ \A e \in Nat : ErrorIn(e)' <=> ErrorIn(e)
    BY <1>1, ErrorSame
  <2>2. PICK e \in Nat : ErrorIn(e)
    BY <2>1 DEF HasError
  <2>3. at'[1] <= e
    BY <1>1, <2>1, <2>2 DEF Base, WalkOK
  <2>4. QED
    BY <2>1, <2>2, <2>3 DEF UndoAt
<1>2. CASE ~(HasError' /\ ~hit_error_blk')
  BY <1>2 DEF UndoAt
<1>3. QED
  BY <1>1, <1>2

LEMMA UndoAtData ==
  ASSUME Base, AtFile, SameFile, SameError, pc' = "undo_data", NEW e \in Nat, ErrorIn(e), at'[1] <= e,
         at'[1] = e /\ error < 0 => at'[2] <= error_blk[2],
         at'[1] = e /\ error > 0 /\ at'[2] > error_blk[2] => found_error_blk'
  PROVE  UndoAt'
<1>1. ErrorIn(e)' /\ error' = error /\ error_blk' = error_blk
  BY ErrorSame DEF SameError
<1>2. QED
  BY <1>1 DEF UndoAt

LEMMA UndoAtSame ==
  ASSUME UndoAt, SameFile, SameError, UNCHANGED <<pc, at, hit_error_blk, found_error_blk>> PROVE UndoAt'
<1>1. (HasError' <=> HasError) /\ \A e \in Nat : ErrorIn(e)' <=> ErrorIn(e)
  BY ErrorSame
<1>2. error' = error /\ error_blk' = error_blk
  BY DEF SameError
<1>3. QED
  BY <1>1, <1>2 DEF UndoAt

LEMMA UndoAtStep == ASSUME Base, Base', Confined, [Next]_vars, UndoneAsWalked' PROVE UndoAt'
<1>0. at \in (Nat \ {0}) \X (Nat \ {0}) /\ UndoAt /\ Locals
  BY DEF Base, WalkOK, Confined
<1>1. CASE AskRemove
  <2>1. /\ SameFile /\ SameError /\ AtFile /\ at' = at /\ at = <<1, 1>> /\ hit_error_blk' = hit_error_blk
        /\ pc' \in {"undo_data", "undo_meta", "count"} /\ ~hit_error_blk
    BY <1>0, <1>1 DEF AskRemove, disk, walk, errors, SameFile, SameError, AtFile, Undoing, Locals
  <2>2. ASSUME NEW e \in Nat, ErrorIn(e) PROVE 1 <= e /\ error_blk[2] \in Nat \ {0}
    <3>1. e \in DOMAIN DataLists /\ DOMAIN DataLists = 1 .. Len(DataLists) /\ Len(DataLists) \in Nat
      BY <2>1, <2>2, HoldersAre DEF Base, ErrorIn
    <3>2. QED
      BY <2>1, <2>2, <3>1, ErrorNatural
  <2>3. CASE pc' = "undo_data"
    <3>1. HasError'
      BY <2>3 DEF Base, Locals
    <3>2. HasError
      BY <2>1, <3>1, ErrorSame
    <3>3. PICK e \in Nat : ErrorIn(e)
      BY <3>2 DEF HasError
    <3>4. 1 <= e /\ error_blk[2] \in Nat \ {0} /\ at'[1] = 1 /\ at'[2] = 1
      BY <2>1, <2>2, <3>3
    <3>5. QED
      BY <2>1, <2>3, <3>3, <3>4, UndoAtData
  <2>4. CASE pc' = "undo_meta"
    <3>1. (HasError' <=> HasError) /\ \A e \in Nat : ErrorIn(e)' <=> ErrorIn(e)
      BY <2>1, ErrorSame
    <3>2. HasError => \E e \in Nat : ErrorIn(e) /\ 1 <= e
      BY <2>2 DEF HasError
    <3>3. at'[1] = 1
      BY <2>1
    <3>4. QED
      BY <2>4, <3>1, <3>2, <3>3 DEF UndoAt
  <2>5. CASE pc' = "count"
    BY <2>5 DEF UndoAt
  <2>6. QED
    BY <2>1, <2>3, <2>4, <2>5
<1>2. CASE UndoMeta
  <2>1. pc = "undo_meta" /\ SameFile /\ SameError /\ AtFile /\ hit_error_blk' = hit_error_blk /\ at[2] = 1
        /\ DataLists = metalist /\ at[1] \in DOMAIN metalist
    BY <1>0, <1>2, UndoMetaHere DEF UndoMeta, errors, SameFile, SameError, AtFile, Undoing, Locals
  <2>2. CASE pc' = "undo_data" /\ ~hit_error_blk /\ at' = at
    <3>1. HasError'
      BY <2>2 DEF Base, Locals
    <3>2. HasError
      BY <2>1, <3>1, ErrorSame
    <3>3. PICK e \in Nat : ErrorIn(e) /\ at[1] <= e
      BY <1>0, <2>1, <2>2, <3>2 DEF UndoAt
    <3>4. error_blk[2] \in Nat \ {0}
      BY <2>1, <3>3, ErrorNatural
    <3>5. QED
      BY <2>1, <2>2, <3>3, <3>4, UndoAtData
  <2>3. CASE pc' = "undo_meta" /\ at' = NextBlock
             /\ (MetadataClean /\ ~hit_error_blk => cut' = cut \union {Left(FALSE)})
    <3>1. ASSUME NEW e \in Nat, ErrorIn(e), HasError, ~hit_error_blk' PROVE at[1] < e
      <4>1. PICK g \in Nat : ErrorIn(g) /\ at[1] <= g
        BY <1>0, <2>1, <3>1 DEF UndoAt
      <4>2. e = g
        BY <2>1, <3>1, <4>1, ErrorUnique
      <4>3. error_blk[1] = DataLists[e] /\ DataLists[e] \in Blocks
        BY <2>1, <3>1, ErrorNatural DEF ErrorIn
      <4>4. MetadataClean
        BY <4>3, BlocksAre DEF MetadataClean
      <4>5. DataLists[at[1]] # error_blk[1]
        BY <2>1, <2>3, <3>1, <4>4, NotMissed
      <4>6. at[1] # e
        BY <4>3, <4>5
      <4>7. QED
        BY <1>0, <4>1, <4>2, <4>6
    <3>2. at'[1] = at[1] + 1
      BY <2>3 DEF NextBlock
    <3>3. QED
      BY <2>1, <2>3, <3>1, <3>2, UndoAtNext
  <2>4. QED
    BY <1>2, <2>2, <2>3 DEF UndoMeta
<1>3. CASE (UndoDataDone \/ UndoDataCut \/ UndoReachedError \/ UndoData) /\ at' = NextBlock
            /\ pc' = (IF fs.height[ip] = 1 THEN "invalidate" ELSE "undo_meta")
  <2>1. pc = "undo_data" /\ SameFile /\ SameError /\ AtFile /\ ~hit_error_blk
    BY <1>0, <1>3 DEF UndoDataDone, UndoDataCut, UndoReachedError, UndoData, AtUndoPointer, SameFile, SameError, disk,
                  AtFile, Undoing, Locals
  <2>2. ASSUME NEW e \in Nat, ErrorIn(e), HasError, ~hit_error_blk' PROVE at[1] < e
    <3>1. PICK g \in Nat : /\ ErrorIn(g) /\ at[1] <= g
                           /\ at[1] = g /\ error < 0 => at[2] <= error_blk[2]
                           /\ at[1] = g /\ error > 0 /\ at[2] > error_blk[2] => found_error_blk
      BY <1>0, <2>1 DEF UndoAt
    <3>2. e = g
      BY <2>1, <2>2, <3>1, ErrorUnique
    <3>3. CASE UndoDataDone
      <4>1. ~found_error_blk /\ at[2] > Len(ptrs[DataLists[at[1]]])
        BY <1>3, <2>2, <3>3 DEF UndoDataDone, UndoBlockDone, EndOfBlock
      <4>2. at[1] # e
        <5>1. SUFFICES ASSUME at[1] = e PROVE FALSE
          OBVIOUS
        <5>2. DataLists[e] \in Blocks /\ error_blk[2] \in DOMAIN ptrs[DataLists[e]]
          BY <2>1, <2>2, ErrorNatural DEF ErrorIn
        <5>3. error_blk[2] \in Nat /\ error_blk[2] < at[2]
          BY <1>0, <4>1, <5>1, <5>2, BlockLength DEF Base
        <5>4. error \in {-1, 1}
          BY <2>2 DEF HasError
        <5>5. QED
          BY <1>0, <3>1, <3>2, <4>1, <5>1, <5>3, <5>4
      <4>3. QED
        BY <1>0, <3>1, <3>2, <4>2
    <3>4. CASE UndoDataCut \/ UndoData
      <4>1. PICK hit \in BOOLEAN : hit_error_blk' = hit /\ cut' = cut \union {Left(hit)}
        BY <1>3, <3>4, <2>1 DEF UndoDataCut, UndoData, UndoBlockDone, Base, WalkOK, NextPointer, NextBlock
      <4>2. DataLists[at[1]] # error_blk[1]
        BY <2>2, <4>1, NotMissed
      <4>3. at[1] # e
        BY <2>2, <4>2 DEF ErrorIn
      <4>4. QED
        BY <1>0, <3>1, <3>2, <4>3
    <3>5. CASE UndoReachedError
      BY <2>2, <3>5 DEF UndoReachedError, UndoBlockDone
    <3>6. QED
      BY <1>3, <3>3, <3>4, <3>5
  <2>3. at'[1] = at[1] + 1
    BY <1>3 DEF NextBlock
  <2>4. CASE pc' = "undo_meta"
    BY <2>1, <2>2, <2>3, <2>4, UndoAtNext
  <2>5. CASE pc' = "invalidate"
    BY <2>5 DEF UndoAt
  <2>6. QED
    BY <1>3, <2>4, <2>5
<1>4. CASE (UndoDataNull \/ UndoData) /\ at' = NextPointer /\ pc' = pc
  <2>1. pc = "undo_data" /\ SameFile /\ SameError /\ AtFile /\ AtUndoPointer /\ at'[1] = at[1] /\ at'[2] = at[2] + 1
    BY <1>4 DEF UndoDataNull, UndoData, AtUndoPointer, SameFile, SameError, disk, errors, AtFile, Undoing, NextPointer
  <2>2. PICK e \in Nat : /\ ErrorIn(e) /\ at[1] <= e
                         /\ at[1] = e /\ error < 0 => at[2] <= error_blk[2]
                         /\ at[1] = e /\ error > 0 /\ at[2] > error_blk[2] => found_error_blk
    BY <1>0, <2>1 DEF UndoAt
  <2>3. error_blk[2] \in Nat /\ error_blk = <<error_blk[1], error_blk[2]>> /\ error_blk[1] = DataLists[e]
    BY <2>1, <2>2, ErrorNatural DEF Base, WalkOK, ErrorIn
  <2>4. at[1] = e /\ at[2] = error_blk[2] => AtErrorBlk /\ Pointer # Null
    BY <2>2, <2>3 DEF AtErrorBlk, ErrorIn, Pointer
  <2>5. UndoData => (found_error_blk' <=> found_error_blk \/ AtErrorBlk)
    BY <1>4, <2>1 DEF UndoData, UndoBlockDone
  <2>6. at[1] = e /\ at[2] = error_blk[2] => UndoData /\ ~(error < 0) /\ found_error_blk'
    BY <1>4, <2>4, <2>5 DEF UndoDataNull, UndoData
  <2>7. found_error_blk => found_error_blk'
    BY <1>4, <2>5 DEF UndoDataNull, errors
  <2>8. QED
    BY <1>0, <1>4, <2>1, <2>2, <2>3, <2>6, <2>7, UndoAtData
<1>5. CASE pc' \notin {"undo_meta", "undo_data"}
  BY <1>5 DEF UndoAt
<1>6. CASE SameFile /\ SameError /\ UNCHANGED <<pc, at, hit_error_blk, found_error_blk>>
  BY <1>0, <1>6, UndoAtSame
<1>7. CASE UndoDataDone \/ UndoDataCut \/ UndoReachedError \/ UndoDataNull \/ UndoData
  BY <1>3, <1>4, <1>7 DEF UndoDataDone, UndoDataCut, UndoReachedError, UndoDataNull, UndoData, UndoBlockDone, errors
<1>8. QED
  BY <1>1, <1>2, <1>5, <1>6, <1>7 DEF Next, vars, disk, walk, errors, SameFile, SameError, Polled, GiveUp, WalkDone,
     Fatal, Nonfatal, Fine, AtMetaPointer, AtUncut, AtDataPointer,
     NextRgrp, EndOfList, MarkedInode, InvalidInode, HandleInode, Rangecheck, BadlyCorrupt,
     SetIpBlockmap, MetalistDone, MetalistCut, MetaNull, MetaOutOfRange, MetaInvalid,
     MetaBlock, DataBlockDone, DataCut, DataNull, DataOutOfRange, DataDuplicate,
     DataLooksLikeDinode, DataBlock, ErrorUndo, ErrorUndoDone, Invalidate, CountBlocks,
     Pass5Block, Pass5Done, Interrupt

-----------------------------------------------------------------------------
(* pass5 frees no kept block.                                              *)
LEMMA ReconciledStep == ASSUME Base, Confined, FilesSame, [Next]_vars PROVE Reconciled'
<1>0. /\ Reconciled /\ Kept' = Kept /\ Kept \subseteq Blocks \ Headers /\ \A x \in Kept : bl[x] # "free"
      /\ at \in (Nat \ {0}) \X (Nat \ {0})
  BY KeptAre DEF Confined, FilesSame, Base, WalkOK
<1>1. CASE pc' = "pass5" /\ at' = <<1, 1>>
  <2>1. \A b \in Kept' : ~(b < at'[1])
    BY <1>0, <1>1, BlocksAre
  <2>2. QED
    BY <1>1, <2>1 DEF Reconciled
<1>2. CASE Pass5Block
  <2> DEFINE c == at[1]
  <2>1. pc = "pass5" /\ pc' = "pass5" /\ c \in Blocks /\ at' = NextBlock /\ bl' = bl
    BY <1>2 DEF Pass5Block
  <2>2. ASSUME NEW b \in Kept' \ declined', b < at'[1] PROVE bitmap'[b] # "free"
    <3>1. b \in Kept /\ b \in Blocks \ Headers /\ bl[b] # "free" /\ bl[b] # "unlinked" /\ bl[b] \in MapStates
      BY <1>0, <2>1, <2>2 DEF Base, MapsOK, MarksOK, Undoing
    <3>2. b <= c
      BY <1>0, <2>1, <2>2, <3>1, BlocksAre DEF NextBlock
    <3>3. CASE b # c
      <4>1. bitmap'[b] = bitmap[b] /\ declined \subseteq declined'
        <5>1. CASE UNCHANGED <<bitmap, fsck_abort, declined, ints>>
          BY <5>1
        <5>2. CASE c \notin Headers /\ SetBitmap(c, bl[c])
          <6>1. bl[c] \in MapStates
            BY <2>1 DEF Base, MapsOK
          <6>2. QED
            BY <2>1, <3>1, <3>3, <5>2, <6>1, BitmapSet DEF Base
        <5>3. CASE declined' = declined /\ (bitmap' = bitmap \/ bitmap' = [bitmap EXCEPT ![c] = "free"])
          BY <3>1, <3>3, <5>3 DEF Base, MapsOK
        <5>4. QED
          BY <1>2, <5>1, <5>2, <5>3 DEF Pass5Block
      <4>2. b \notin declined
        BY <2>2, <4>1
      <4>3. b \in Nat /\ at[1] \in Nat
        BY <1>0, <3>1, BlocksAre
      <4>4. b < at[1]
        BY <3>2, <3>3, <4>3
      <4>5. QED
        BY <1>0, <2>1, <3>1, <4>1, <4>2, <4>4 DEF Reconciled
    <3>4. CASE b = c
      <4>1. SetBitmap(b, bl[b])
        BY <1>2, <3>1, <3>4 DEF Pass5Block
      <4>2. bitmap'[b] = bl[b] \/ b \in declined'
        BY <3>1, <4>1, BitmapSet DEF Base
      <4>3. QED
        BY <2>2, <3>1, <4>2
    <3>5. QED
      BY <3>3, <3>4
  <2>3. QED
    BY <2>1, <2>2 DEF Reconciled
<1>3. CASE Pass5Done
  <2>1. /\ pc = "pass5" /\ pc' = "done" /\ UNCHANGED <<bitmap, at, declined>>
        /\ at[1] \notin Blocks \/ cut' = cut \union {"pass5"}
    BY <1>3 DEF Pass5Done, disk, walk
  <2>2. "pass5" \notin cut' => at'[1] > NBlocks
    BY <1>0, <2>1, Sizes DEF Blocks
  <2>3. QED
    BY <1>0, <2>1, <2>2 DEF Reconciled
<1>4. CASE UNCHANGED <<pc, bitmap, at, declined, cut>>
  BY <1>0, <1>4 DEF Reconciled
<1>5. CASE pc' \notin {"pass5", "done"}
  BY <1>5 DEF Reconciled
<1>6. QED
  BY <1>1, <1>2, <1>3, <1>4, <1>5 DEF Next, vars, disk, walk, errors, history, Polled, GiveUp, WalkDone,
     Fatal, Nonfatal, Fine, AtMetaPointer, AtUncut, AtDataPointer, AtUndoPointer, UndoBlockDone,
     NextRgrp, EndOfList, MarkedInode, InvalidInode, HandleInode, Rangecheck, BadlyCorrupt,
     SetIpBlockmap, MetalistDone, MetalistCut, MetaNull, MetaOutOfRange, MetaInvalid,
     MetaBlock, DataBlockDone, DataCut, DataNull, DataOutOfRange, DataDuplicate,
     DataLooksLikeDinode, DataBlock, ErrorUndo, ErrorUndoDone, AskRemove, UndoMeta,
     UndoDataDone, UndoDataCut, UndoDataNull, UndoReachedError, UndoData, Invalidate,
     CountBlocks, Interrupt

-----------------------------------------------------------------------------
(* Pending places: where they lead to does not change.                     *)
LEMMA PlaceSame ==
  ASSUME SameFile, NEW p
  PROVE  Lead(p)' = Lead(p) /\ (p \in MetaPlaces)' = (p \in MetaPlaces) /\ (IsData(p)' <=> IsData(p))
<1>1. DataLists' = DataLists /\ fs' = fs /\ ptrs' = ptrs /\ ip' = ip
  BY HoldersSame DEF SameFile
<1>2. Holder(p[1])' = Holder(p[1])
  BY <1>1 DEF Holder
<1>3. QED
  BY <1>1, <1>2 DEF Lead, MetaPlaces, IsData

LEMMA WalkedToSame == ASSUME SameFile, SameError, NEW p PROVE WalkedTo(p)' <=> WalkedTo(p)
<1>1. (IsData(p)' <=> IsData(p)) /\ \A e \in Nat : ErrorIn(e)' <=> ErrorIn(e)
  BY PlaceSame, ErrorSame
<1>2. error' = error /\ error_blk' = error_blk
  BY DEF SameError
<1>3. \A e \in Nat : Before(p, <<e, error_blk[2]>>)' <=> Before(p, <<e, error_blk[2]>>)
  BY <1>2 DEF Before
<1>4. QED
  BY <1>1, <1>2, <1>3 DEF WalkedTo

(* The places left do not increase in the undo.                            *)
Fewer == Pending' \subseteq Pending /\ \A p \in Pending' : Lead(p)' = Lead(p)

LEMMA NonePending == ASSUME ~Walking', pc' \notin {"error_undo", "remove", "undo_meta", "undo_data"} PROVE Fewer
<1>1. ASSUME NEW p PROVE ~IsPending(p)'
  BY DEF IsPending, Walking
<1>2. QED
  BY <1>1 DEF Fewer, Pending

LEMMA FewerIf ==
  ASSUME SameFile, \A p \in Places : IsPending(p)' => IsPending(p) PROVE Fewer
  BY PlaceSame DEF Fewer, Pending, Places

(* No error below the metadata: nothing is pending.                        *)
LEMMA NoneWalkedTo == ASSUME Base, AtFile, InMetadata, NEW p PROVE ~WalkedTo(p)
<1>1. ASSUME NEW e, ErrorIn(e) PROVE FALSE
  BY <1>1, ErrorNatural, BlocksAre DEF ErrorIn, InMetadata
<1>2. QED
  BY <1>1 DEF WalkedTo

-----------------------------------------------------------------------------
(* Records of kept blocks last while places that lead to them are pending. *)
LEMMA LastsFewer == ASSUME RecordLasts, FilesSame, Fewer, dup_blocks' = dup_blocks PROVE RecordLasts'
<1>1. \A p \in Pending' : p \in Pending /\ Lead(p)' = Lead(p)
  BY DEF Fewer
<1>2. Kept' = Kept
  BY DEF FilesSame
<1>3. QED
  BY <1>1, <1>2 DEF RecordLasts, Recorded

LEMMA LastsUndone ==
  ASSUME DupsOK, RecordLasts, FilesSame, Fewer, NEW b, NEW meta, UndoReference(b, meta),
         b \in Kept => \E p \in Pending \ Pending' : Lead(p) = b
  PROVE  RecordLasts'
<1>1. \A p \in Pending' : p \in Pending /\ Lead(p)' = Lead(p)
  BY DEF Fewer
<1>2. Kept' = Kept
  BY DEF FilesSame
<1>3. ASSUME NEW p \in Pending', Lead(p)' \in Kept' PROVE Lead(p)' \in DOMAIN dup_blocks'
  <2>1. PICK x : x = Lead(p)
    OBVIOUS
  <2>2. p \in Pending /\ x \in Kept /\ Lead(p)' = x
    BY <1>1, <1>2, <1>3, <2>1
  <2>3. Recorded(x)
    BY <2>1, <2>2 DEF RecordLasts
  <2>4. CASE x # b
    BY <2>2, <2>3, <2>4, RecordUndone DEF Recorded
  <2>5. CASE x = b
    <3>1. PICK q \in Pending \ Pending' : Lead(q) = x
      BY <2>2, <2>5
    <3>2. dup_blocks[x].ref1_found
      BY <2>1, <2>2, <3>1, <1>3 DEF RecordLasts
    <3>3. QED
      BY <2>2, <2>3, <2>5, <3>2, RecordUndone DEF Recorded
  <2>6. QED
    BY <2>4, <2>5
<1>4. ASSUME NEW p \in Pending', NEW q \in Pending', p # q, Lead(p)' = Lead(q)', Lead(p)' \in Kept'
      PROVE  dup_blocks'[Lead(p)'].ref1_found
  <2>1. PICK x : x = Lead(p)
    OBVIOUS
  <2>2. p \in Pending /\ q \in Pending /\ x \in Kept /\ Lead(p)' = x /\ Lead(q) = x
    BY <1>1, <1>2, <1>4, <2>1
  <2>3. Recorded(x) /\ dup_blocks[x].ref1_found
    BY <1>4, <2>1, <2>2 DEF RecordLasts
  <2>4. CASE x # b
    BY <2>2, <2>3, <2>4, RecordUndone DEF Recorded
  <2>5. CASE x = b
    BY <2>2, <2>3, <2>5, RecordUndone
  <2>6. QED
    BY <2>4, <2>5
<1>5. QED
  BY <1>3, <1>4 DEF RecordLasts, Recorded

(* In the walk a place is added, and with it the reference if its block is *)
(* of a kept file.                                                         *)
Onto(q, x) ==
    /\ \A p \in Pending' : p # q => p \in Pending /\ Lead(p)' = Lead(p)
    /\ q \in Pending' => Lead(q)' = x
FileOnRecord == \A p \in Pending : Lead(p) \in Kept => OnRecord(Lead(p), ip)

LEMMA LastsUnrecorded ==
  ASSUME RecordLasts, FileOnRecord, FilesSame, NEW q, NEW x, Onto(q, x), x \notin Kept,
         dup_blocks' = dup_blocks, ip' = ip
  PROVE  RecordLasts' /\ FileOnRecord'
<1>1. \A p \in Pending' : Lead(p)' \in Kept' => p \in Pending /\ Lead(p)' = Lead(p) /\ Lead(p) \in Kept
  BY DEF FilesSame, Onto
<1>2. RecordLasts'
  BY <1>1 DEF RecordLasts, Recorded
<1>3. FileOnRecord'
  BY <1>1 DEF FileOnRecord, OnRecord
<1>4. QED
  BY <1>2, <1>3

LEMMA LastsRecorded ==
  ASSUME DupsOK, RecordLasts, FileOnRecord, FilesSame, NEW q, NEW x \in Blocks, Onto(q, x),
         ip \in Blocks, ip' = ip, AddDuplicateRef(x, ip)
  PROVE  RecordLasts' /\ FileOnRecord'
<1>1. Kept' = Kept
  BY DEF FilesSame
<1>2. PICK i : i = ip
  OBVIOUS
<1>3. /\ x \in DOMAIN dup_blocks' /\ OnRecord(x, i)'
      /\ \A y \in DOMAIN dup_blocks : y \in DOMAIN dup_blocks' /\ (y # x => dup_blocks'[y] = dup_blocks[y])
      /\ Recorded(x) /\ OnRecord(x, i) => OnRecord(x, i)' /\ dup_blocks'[x].ref1_found
  BY <1>2, RecordAdded
<1>4. ASSUME NEW y, Recorded(y), OnRecord(y, i) PROVE y \in DOMAIN dup_blocks' /\ OnRecord(y, i)'
  BY <1>3, <1>4 DEF Recorded, OnRecord
<1>5. ASSUME NEW y, Recorded(y), dup_blocks[y].ref1_found PROVE dup_blocks'[y].ref1_found
  BY <1>3, <1>5 DEF Recorded, OnRecord
<1>6. ASSUME NEW p \in Pending', Lead(p)' \in Kept'
      PROVE  Lead(p)' \in DOMAIN dup_blocks' /\ (Lead(p)' = x \/ p # q)
             /\ \E y : y = Lead(p)' /\ OnRecord(y, i)' /\ (p # q => p \in Pending /\ Lead(p) = y /\ Recorded(y) /\ OnRecord(y, i))
  <2>1. PICK y : y = Lead(p)'
    OBVIOUS
  <2>2. CASE p = q
    BY <1>3, <1>6, <2>1, <2>2 DEF Onto
  <2>3. CASE p # q
    <3>1. p \in Pending /\ Lead(p) = y /\ y \in Kept
      BY <1>1, <1>6, <2>1, <2>3 DEF Onto
    <3>2. Recorded(y) /\ OnRecord(y, i)
      BY <1>2, <3>1 DEF RecordLasts, FileOnRecord
    <3>3. QED
      BY <1>4, <2>1, <2>3, <3>1, <3>2
  <2>4. QED
    BY <2>2, <2>3
<1>7. ASSUME NEW p \in Pending', NEW r \in Pending', p # r, Lead(p)' = Lead(r)', Lead(p)' \in Kept'
      PROVE  dup_blocks'[Lead(p)'].ref1_found
  <2>1. PICK y : y = Lead(p)' /\ (p # q => p \in Pending /\ Lead(p) = y /\ Recorded(y) /\ OnRecord(y, i))
    BY <1>6, <1>7
  <2>2. r # q => r \in Pending /\ Lead(r) = y /\ Recorded(y) /\ OnRecord(y, i)
    BY <1>6, <1>7, <2>1
  <2>3. CASE p # q /\ r # q
    <3>1. dup_blocks[y].ref1_found
      BY <1>1, <1>7, <2>1, <2>2, <2>3 DEF RecordLasts
    <3>2. QED
      BY <1>5, <2>1, <2>3, <3>1
  <2>4. CASE p = q \/ r = q
    <3>1. y = x
      BY <1>7, <2>1, <2>4 DEF Onto
    <3>2. Recorded(x) /\ OnRecord(x, i)
      BY <1>7, <2>1, <2>2, <2>4, <3>1
    <3>3. QED
      BY <1>3, <2>1, <3>1, <3>2
  <2>5. QED
    BY <2>3, <2>4
<1>8. RecordLasts'
  BY <1>6, <1>7 DEF RecordLasts, Recorded
<1>9. FileOnRecord'
  <2>1. ASSUME NEW p \in Pending', Lead(p)' \in Kept' PROVE OnRecord(Lead(p), ip)'
    <3>1. PICK y : y = Lead(p)' /\ OnRecord(y, i)'
      BY <1>6, <2>1
    <3>2. QED
      BY <1>2, <3>1 DEF OnRecord
  <2>2. QED
    BY <2>1 DEF FileOnRecord
<1>10. QED
  BY <1>8, <1>9

(* What was come to is marked.                                             *)
CameToMarked == bl[ip] = "dinode" /\ \A p \in Pending : Lead(p) \in Blocks \ Headers => bl[Lead(p)] # "free"

LEMMA MarkedIs == Walking => (Marked <=> CameToMarked /\ FileOnRecord)
  BY DEF Marked, CameToMarked, FileOnRecord

LEMMA CameToNext ==
  ASSUME CameToMarked, NEW q, NEW x, Onto(q, x), ip' = ip, bl'[ip] = bl[ip],
         \A y \in Blocks : bl[y] # "free" => bl'[y] # "free", x \in Blocks \ Headers => bl'[x] # "free"
  PROVE  CameToMarked'
  BY DEF CameToMarked, Onto

LEMMA MarkedFewer ==
  ASSUME Marked, Walking' => Walking, FilesSame, Fewer, dup_blocks' = dup_blocks, bl' = bl, ip' = ip PROVE Marked'
  BY DEF Marked, FilesSame, Fewer, OnRecord

-----------------------------------------------------------------------------
(* What each step does to the pending places: a step of the walk adds the  *)
(* place at hand, others add none.                                         *)
LEMMA DataPlaceIs ==
  ASSUME Base, AtFile, NEW p, IsData(p)
  PROVE  /\ p[1] \in Nat \ {0} /\ p[2] \in Nat \ {0}
         /\ DataLists[p[1]] \in Blocks \ Headers /\ p[2] \in DOMAIN ptrs[DataLists[p[1]]]
         /\ p[2] <= Len(ptrs[DataLists[p[1]]]) /\ Lead(p) = ptrs[DataLists[p[1]]][p[2]]
<1>1. p[1] \in Nat \ {0} /\ DataLists[p[1]] \in Blocks \ Headers /\ p[1] \in DOMAIN DataLists
  BY HoldersAre DEF Base, IsData
<1>2. Holder(p[1]) = DataLists[p[1]]
  BY <1>1 DEF Holder
<1>3. p[2] \in DOMAIN ptrs[DataLists[p[1]]]
  BY <1>2 DEF IsData
<1>4. QED
  BY <1>1, <1>2, <1>3, BlockLength DEF Base, Lead

LEMMA MetaPlaceIs ==
  ASSUME Base, AtFile, NEW p \in MetaPlaces
  PROVE  /\ p = <<0, p[2]>> /\ p[2] \in Nat \ {0} /\ p[2] \in DOMAIN ptrs[ip] /\ p[2] <= Len(ptrs[ip])
         /\ Lead(p) = ptrs[ip][p[2]] /\ fs.height[ip] = 2
<1>1. p = <<0, p[2]>> /\ p[2] \in DOMAIN ptrs[ip] /\ fs.height[ip] = 2
  BY DEF MetaPlaces
<1>2. ip \in Blocks
  BY DEF Base, FileAtHand
<1>3. p[1] = 0
  BY <1>1
<1>4. QED
  BY <1>1, <1>2, <1>3, BlockLength DEF Base, Lead, Holder

LEMMA OntoMeta ==
  ASSUME Base, AtMetaPointer, fs' = fs, ip' = ip, pc' = pc, at' = NextPointer,
         ptrs' = ptrs \/ ptrs' = [ptrs EXCEPT ![ip][at[2]] = Null], NEW x, x = ptrs'[ip][at[2]],
         NEW q, q = <<0, at[2]>>
  PROVE  Onto(q, x)
<1>1. pc = "metalist" /\ AtFile /\ ip \in Blocks /\ at[2] \in Nat /\ at[2] \in DOMAIN ptrs[ip]
  BY AtMetaPlace DEF AtMetaPointer, AtFile, Walking, Base, WalkOK
<1>2. DOMAIN ptrs'[ip] = DOMAIN ptrs[ip] /\ \A k \in DOMAIN ptrs[ip] : k # at[2] => ptrs'[ip][k] = ptrs[ip][k]
  BY <1>1 DEF Base, FilesOK
<1>3. ASSUME NEW p \in Pending'
      PROVE  p \in Places /\ p \in MetaPlaces /\ p[2] < at[2] + 1 /\ Lead(p)' = ptrs'[ip][p[2]]
  <2>1. p \in Places /\ IsPending(p)' /\ pc' = "metalist" /\ at'[2] = at[2] + 1
    BY <1>1, <1>3 DEF Pending, Places, NextPointer
  <2>2. p \in MetaPlaces' /\ p[2] < at[2] + 1
    BY <2>1 DEF IsPending
  <2>3. p \in MetaPlaces
    BY <1>2, <2>2 DEF MetaPlaces
  <2>4. p[1] = 0
    BY <2>3 DEF MetaPlaces
  <2>5. Lead(p)' = ptrs'[ip][p[2]]
    BY <2>4 DEF Lead, Holder
  <2>6. QED
    BY <2>1, <2>2, <2>3, <2>5
<1>4. ASSUME NEW p \in Pending', p # q PROVE p \in Pending /\ Lead(p)' = Lead(p)
  <2>1. /\ p \in Places /\ p \in MetaPlaces /\ p[2] < at[2] + 1 /\ Lead(p)' = ptrs'[ip][p[2]]
        /\ p = <<0, p[2]>> /\ p[2] \in Nat /\ p[2] \in DOMAIN ptrs[ip] /\ Lead(p) = ptrs[ip][p[2]]
    BY <1>1, <1>3, <1>4, MetaPlaceIs
  <2>2. p[2] # at[2]
    BY <1>4, <2>1
  <2>3. p[2] < at[2]
    BY <1>1, <2>1, <2>2
  <2>4. IsPending(p)
    BY <1>1, <2>1, <2>3 DEF IsPending
  <2>5. QED
    BY <1>2, <2>1, <2>2, <2>4 DEF Pending
<1>5. ASSUME q \in Pending' PROVE Lead(q)' = x
  <2>1. q[2] = at[2]
    OBVIOUS
  <2>2. QED
    BY <1>3, <1>5, <2>1
<1>6. QED
  BY <1>4, <1>5 DEF Onto

LEMMA OntoData ==
  ASSUME Base, AtDataPointer, SameFile, pc' = pc, at' = NextPointer, NEW q, q = at PROVE Onto(q, Pointer)
<1>1. pc = "data" /\ AtFile /\ at[1] \in DOMAIN DataLists /\ at \in (Nat \ {0}) \X (Nat \ {0})
  BY DataHere DEF AtDataPointer, Base, WalkOK
<1>2. at'[1] = at[1] /\ at'[2] = at[2] + 1 /\ at = <<at[1], at[2]>> /\ at[1] \in Nat \ {0} /\ at[2] \in Nat \ {0}
  BY <1>1 DEF NextPointer
<1>3. \A p : Lead(p)' = Lead(p) /\ (p \in MetaPlaces)' = (p \in MetaPlaces) /\ (IsData(p)' <=> IsData(p))
  BY PlaceSame
<1>4. ASSUME NEW p \in Pending', p # q PROVE p \in Pending
  <2>1. p \in Places /\ IsPending(p)' /\ pc' = "data" /\ p = <<p[1], p[2]>> /\ p[1] \in Nat /\ p[2] \in Nat
    BY <1>1, <1>4 DEF Pending, Places
  <2>2. p \in MetaPlaces \/ (IsData(p) /\ Before(p, at)')
    BY <1>3, <2>1 DEF IsPending
  <2>3. Before(p, at)' => Before(p, at)
    BY <1>2, <1>4, <2>1 DEF Before
  <2>4. IsPending(p)
    BY <1>1, <2>2, <2>3 DEF IsPending
  <2>5. QED
    BY <2>1, <2>4 DEF Pending
<1>5. Lead(q)' = Pointer
  <2>1. Lead(q) = Pointer
    BY <1>2 DEF Lead, Holder, Pointer
  <2>2. QED
    BY <1>3, <2>1
<1>6. QED
  BY <1>3, <1>4, <1>5 DEF Onto

(* The end of a block in the walk, and the walk given up at an error.      *)
LEMMA FewerAtEnd ==
  ASSUME Base, pc = "data", SameFile, EndOfBlock(DataLists), pc' = "data", at' = NextBlock
  PROVE  Fewer
<1>1. AtFile /\ at[1] \in Nat \ {0} /\ at[2] \in Nat \ {0}
  BY DEF AtFile, Walking, Base, WalkOK
<1>2. ASSUME NEW p \in Places, IsPending(p)' PROVE IsPending(p)
  <2>1. (p \in MetaPlaces \/ (IsData(p) /\ Before(p, at)')) /\ p[1] \in Nat /\ p[2] \in Nat
    BY <1>2, PlaceSame DEF IsPending, Places
  <2>2. ASSUME IsData(p), Before(p, at)' PROVE Before(p, at)
    <3>1. p[1] \in Nat \ {0} /\ p[2] \in Nat \ {0} /\ p[2] <= Len(ptrs[DataLists[p[1]]]) /\ DataLists[p[1]] \in Blocks
      BY <1>1, <2>2, DataPlaceIs
    <3>2. p[1] <= at[1]
      BY <1>1, <2>2, <3>1 DEF Before, NextBlock
    <3>3. p[1] = at[1] => p[2] < at[2]
      BY <1>1, <3>1, BlockLength DEF EndOfBlock, Base
    <3>4. QED
      BY <1>1, <3>1, <3>2, <3>3 DEF Before
  <2>3. QED
    BY <2>1, <2>2 DEF IsPending
<1>3. QED
  BY <1>2, FewerIf

LEMMA FewerAtRemove ==
  ASSUME Base, pc = "data", SameFile, at[1] \in DOMAIN DataLists, pc' = "remove",
         NEW e \in Nat, e = at[1], ErrorIn(e)',
         \/ error' = -1 /\ error_blk'[2] = at[2]
         \/ error_blk'[2] <= at[2] /\ EndOfBlock(DataLists)
  PROVE  Fewer
<1>1. AtFile /\ at[1] \in Nat \ {0} /\ at[2] \in Nat \ {0}
  BY DEF AtFile, Walking, Base, WalkOK
<1>2. DataLists' = DataLists
  BY HoldersSame DEF SameFile
<1>3. ASSUME NEW g \in Nat, ErrorIn(g)' PROVE g = e
  <2>1. g \in DOMAIN DataLists /\ DataLists[g] = DataLists[e]
    BY <1>2, <1>3 DEF ErrorIn
  <2>2. QED
    BY <1>1, <2>1, HoldersAre DEF Base
<1>4. error_blk'[2] \in Nat
  <2>1. DataLists[e] \in Blocks /\ error_blk'[2] \in DOMAIN ptrs[DataLists[e]]
    BY <1>1, <1>2, HoldersAre DEF ErrorIn, SameFile, Base
  <2>2. QED
    BY <2>1, BlockLength DEF Base
<1>5. ASSUME NEW p \in Places, IsPending(p)' PROVE IsPending(p)
  <2>1. IsData(p) /\ p[1] \in Nat /\ p[2] \in Nat
    BY <1>5, PlaceSame DEF IsPending, WalkedTo, Places
  <2>2. Before(p, <<e, error_blk[2]>>)' \/ (p[1] = e /\ error' > 0)
    BY <1>3, <1>5 DEF IsPending, WalkedTo
  <2>3. p[1] \in Nat \ {0} /\ p[2] \in Nat \ {0} /\ p[2] <= Len(ptrs[DataLists[p[1]]]) /\ DataLists[p[1]] \in Blocks
    BY <1>1, <2>1, DataPlaceIs
  <2>4. EndOfBlock(DataLists) /\ p[1] = e => p[2] < at[2]
    BY <1>1, <2>3, BlockLength DEF EndOfBlock, Base
  <2>5. Before(p, at)
    BY <1>1, <1>4, <2>1, <2>2, <2>4 DEF Before
  <2>6. QED
    BY <2>1, <2>5 DEF IsPending
<1>6. QED
  BY <1>5, FewerIf

(* In the undo.                                                            *)
LEMMA FewerSame ==
  ASSUME SameFile, SameError, UNCHANGED <<pc, at, hit_error_blk>> PROVE Fewer
<1>1. ASSUME NEW p \in Places, IsPending(p)' PROVE IsPending(p)
  <2>1. (p \in MetaPlaces)' = (p \in MetaPlaces) /\ (IsData(p)' <=> IsData(p)) /\ (WalkedTo(p)' <=> WalkedTo(p))
    BY PlaceSame, WalkedToSame
  <2>2. Before(p, at)' <=> Before(p, at)
    BY DEF Before
  <2>3. QED
    BY <1>1, <2>1, <2>2 DEF IsPending
<1>2. QED
  BY <1>1, FewerIf

LEMMA FewerUndone ==
  ASSUME Base, SameFile, SameError,
         \/ pc = "remove" /\ pc' \in {"undo_meta", "undo_data"}
         \/ pc = "undo_meta" /\ pc' = "undo_data" /\ at' = at /\ ~hit_error_blk
         \/ pc = "undo_meta" /\ pc' = "undo_meta" /\ at' = NextBlock /\ hit_error_blk' = hit_error_blk
         \/ pc = "undo_data" /\ pc' = "undo_meta" /\ at' = NextBlock
         \/ pc = "undo_data" /\ pc' = "undo_data" /\ at' = NextPointer
  PROVE  Fewer
<1>1. at[1] \in Nat \ {0} /\ at[2] \in Nat \ {0}
  BY DEF Base, WalkOK
<1>2. ASSUME NEW p \in Places, IsPending(p)' PROVE IsPending(p)
  <2>1. WalkedTo(p) /\ p[1] \in Nat /\ p[2] \in Nat
    BY <1>2, WalkedToSame DEF IsPending, Places
  <2>2. CASE pc = "remove"
    BY <2>1, <2>2 DEF IsPending
  <2>3. CASE pc = "undo_meta" /\ pc' = "undo_data" /\ at' = at /\ ~hit_error_blk
    <3>1. ~Before(p, at)'
      BY <1>2, <2>3 DEF IsPending
    <3>2. p[1] >= at[1]
      BY <1>1, <2>1, <2>3, <3>1 DEF Before
    <3>3. QED
      BY <2>1, <2>3, <3>2 DEF IsPending
  <2>4. CASE pc = "undo_meta" /\ pc' = "undo_meta" /\ at' = NextBlock /\ hit_error_blk' = hit_error_blk
    <3>1. p[1] >= at[1] + 1 /\ ~hit_error_blk
      BY <1>2, <2>4 DEF IsPending, NextBlock
    <3>2. QED
      BY <1>1, <2>1, <2>4, <3>1 DEF IsPending
  <2>5. CASE pc = "undo_data" /\ pc' = "undo_meta" /\ at' = NextBlock
    <3>1. p[1] >= at[1] + 1
      BY <1>2, <2>5 DEF IsPending, NextBlock
    <3>2. ~Before(p, at)
      BY <1>1, <2>1, <3>1 DEF Before
    <3>3. QED
      BY <2>1, <2>5, <3>2 DEF IsPending
  <2>6. CASE pc = "undo_data" /\ pc' = "undo_data" /\ at' = NextPointer
    <3>1. ~Before(p, at)'
      BY <1>2, <2>6 DEF IsPending
    <3>2. ~Before(p, at)
      BY <1>1, <2>1, <2>6, <3>1 DEF Before, NextPointer
    <3>3. QED
      BY <2>1, <2>6, <3>2 DEF IsPending
  <2>7. QED
    BY <2>2, <2>3, <2>4, <2>5, <2>6
<1>3. QED
  BY <1>2, FewerIf

(* The place at hand is done with.                                         *)
LEMMA UndoLeaves ==
  ASSUME Base, pc = "undo_data", NEW q, q = at,
         (at' = NextPointer /\ pc' = "undo_data") \/ (at' = NextBlock /\ pc' \in {"undo_meta", "invalidate"})
  PROVE  q \notin Pending'
<1>1. at[1] \in Nat \ {0} /\ at[2] \in Nat \ {0}
  BY DEF Base, WalkOK
<1>2. ASSUME IsPending(q)' PROVE FALSE
  <2>1. CASE at' = NextPointer /\ pc' = "undo_data"
    BY <1>1, <1>2, <2>1 DEF IsPending, Before, NextPointer
  <2>2. CASE at' = NextBlock /\ pc' \in {"undo_meta", "invalidate"}
    BY <1>1, <1>2, <2>2 DEF IsPending, NextBlock
  <2>3. QED
    BY <2>1, <2>2
<1>3. QED
  BY <1>2 DEF Pending

(* The steps that add a place.                                             *)
Grows == MetaNull \/ MetaBlock \/ (MetaInvalid /\ pc' = pc) \/ DataNull \/ DataDuplicate \/ DataBlock

LEMMA FewerAtStart ==
  ASSUME Base, pc \in {"set_ip", "metalist"}, fs' = fs, ip' = ip, ptrs' = ptrs, metalist' = metalist,
         \/ SetIpBlockmap /\ (fs.height[ip] = 2 => pc' # "data")
         \/ MetalistDone
  PROVE  Fewer
<1>1. AtFile /\ at \in (Nat \ {0}) \X (Nat \ {0}) /\ (pc = "set_ip" => at = <<1, 1>>) /\ SameFile
  BY DEF AtFile, Walking, Base, WalkOK, Locals, SameFile
<1>2. ASSUME NEW p \in Places, IsPending(p)' PROVE IsPending(p)
  <2>1. /\ (p \in MetaPlaces)' = (p \in MetaPlaces) /\ (IsData(p)' <=> IsData(p))
    BY <1>1, PlaceSame
  <2>2. ASSUME IsData(p), at' = <<1, 1>> PROVE ~Before(p, at)'
    BY <1>1, <2>2, DataPlaceIs DEF Before
  <2>3. CASE SetIpBlockmap
    <3>1. at' = <<1, 1>> /\ pc' \in {"inodes", "metalist", "data"}
      BY <1>1, <2>3 DEF SetIpBlockmap, walk
    <3>2. CASE pc' = "metalist"
      <4>1. p \in MetaPlaces /\ p[2] < 1
        BY <1>2, <2>1, <3>1, <3>2 DEF IsPending
      <4>2. QED
        BY <1>1, <4>1, MetaPlaceIs
    <3>3. CASE pc' = "data"
      <4>1. p \in MetaPlaces /\ fs.height[ip] = 2
        BY <1>2, <2>1, <2>2, <3>1, <3>3 DEF IsPending, MetaPlaces
      <4>2. QED
        BY <2>3, <3>3, <4>1 DEF SetIpBlockmap
    <3>4. CASE pc' = "inodes"
      BY <1>2, <3>4 DEF IsPending
    <3>5. QED
      BY <3>1, <3>2, <3>3, <3>4
  <2>4. CASE MetalistDone
    <3>1. pc = "metalist" /\ pc' = "data" /\ at' = <<1, 1>> /\ at[2] > Len(ptrs[ip])
      BY <2>4 DEF MetalistDone
    <3>2. p \in MetaPlaces
      BY <1>2, <2>1, <2>2, <3>1 DEF IsPending
    <3>3. p[2] \in Nat /\ p[2] <= Len(ptrs[ip]) /\ ip \in Blocks
      BY <1>1, <3>2, MetaPlaceIs DEF Base, FileAtHand
    <3>4. p[2] < at[2]
      BY <1>1, <3>1, <3>3, BlockLength DEF Base
    <3>5. QED
      BY <3>1, <3>2, <3>4 DEF IsPending
  <2>5. QED
    BY <2>3, <2>4
<1>3. QED
  BY <1>1, <1>2, FewerIf

LEMMA FewerToErrorUndo ==
  ASSUME Base, AtMetaPointer, SameFile, pc' = "error_undo", at' = <<at[2], 1>> PROVE Fewer
<1>1. AtFile /\ pc = "metalist"
  BY DEF AtMetaPointer, AtFile, Walking
<1>2. ASSUME NEW p \in Places, IsPending(p)' PROVE IsPending(p)
  BY <1>1, <1>2, PlaceSame DEF IsPending
<1>3. QED
  BY <1>2, FewerIf

LEMMA FewerInErrorUndo ==
  ASSUME Base, ErrorUndo, NEW q, q = <<0, at[2]>> PROVE Fewer /\ q \notin Pending'
<1>1. AtFile /\ pc = "error_undo" /\ pc' = "error_undo" /\ at' = NextPointer /\ at \in (Nat \ {0}) \X (Nat \ {0}) /\ SameFile
  BY DEF ErrorUndo, AtFile, Undoing, Base, WalkOK, SameFile
<1>2. ASSUME NEW p \in Places, IsPending(p)' PROVE IsPending(p) /\ p # q
  <2>1. p \in MetaPlaces /\ p[2] >= at[2] + 1 /\ p[2] < at[1]
    BY <1>1, <1>2, PlaceSame DEF IsPending, NextPointer
  <2>2. p[2] >= at[2] /\ p[2] # at[2]
    BY <1>1, <2>1 DEF Places
  <2>3. q[2] = at[2]
    OBVIOUS
  <2>4. QED
    BY <1>1, <2>1, <2>2, <2>3 DEF IsPending
<1>3. QED
  BY <1>1, <1>2, FewerIf DEF Pending

LEMMA FewerStep == ASSUME Base, [Next]_vars, UndoneAsWalked', ~Grows PROVE Fewer
<1>0. Locals /\ at \in (Nat \ {0}) \X (Nat \ {0}) /\ error \in -1 .. 1
  BY DEF Base, WalkOK
<1>1. CASE SetIpBlockmap \/ MetalistDone
  <2>1. pc \in {"set_ip", "metalist"} /\ UNCHANGED <<fs, ip, ptrs, metalist>>
    BY <1>1 DEF SetIpBlockmap, MetalistDone, disk, walk
  <2>2. SetIpBlockmap /\ fs.height[ip] = 2 => pc' # "data"
    BY DEF SetIpBlockmap
  <2>3. QED
    BY <1>1, <2>1, <2>2, FewerAtStart
<1>2. CASE MetaOutOfRange \/ (MetaInvalid /\ pc' # pc)
  <2>1. AtMetaPointer /\ SameFile /\ pc' = "error_undo" /\ at' = <<at[2], 1>>
    BY <1>2 DEF MetaOutOfRange, MetaInvalid, SameFile
  <2>2. QED
    BY <2>1, FewerToErrorUndo
<1>3. CASE DataBlockDone
  <2>1. pc = "data" /\ SameFile /\ SameError /\ AtFile
    BY <1>3 DEF DataBlockDone, WalkDone, GiveUp, SameFile, SameError, disk, errors, AtFile, Walking
  <2>2. CASE pc' = "count"
    BY <2>2, NonePending DEF Walking
  <2>3. CASE ~AtEnd(DataLists) /\ EndOfBlock(DataLists) /\ error # 0 /\ GiveUp
    <3>1. PICK e \in Nat : e = at[1]
      BY <1>0
    <3>2. ErrorIn(at[1]) /\ error_blk[2] < at[2]
      BY <1>0, <2>1, <2>3 DEF Locals, NoError
    <3>3. ErrorIn(e) /\ e \in DOMAIN DataLists
      BY <3>1, <3>2 DEF ErrorIn
    <3>4. ErrorIn(e)' /\ error_blk' = error_blk
      BY <2>1, <3>3, ErrorSame DEF SameError
    <3>5. error_blk'[2] <= at[2]
      BY <1>0, <2>1, <3>2, <3>3, <3>4, ErrorNatural
    <3>6. QED
      BY <2>1, <2>3, <3>1, <3>3, <3>4, <3>5, FewerAtRemove DEF GiveUp
  <2>4. CASE EndOfBlock(DataLists) /\ at' = NextBlock /\ pc' = pc
    BY <2>1, <2>4, FewerAtEnd
  <2>5. QED
    BY <1>3, <2>2, <2>3, <2>4 DEF DataBlockDone, WalkDone
<1>4. CASE DataCut
  <2>1. error = 0 /\ pc' = "count"
    BY <1>4 DEF DataCut, WalkDone, UndoneAsWalked
  <2>2. QED
    BY <2>1, NonePending DEF Walking
<1>5. CASE DataOutOfRange \/ DataLooksLikeDinode
  <2>1. /\ AtDataPointer /\ Pointer # Null /\ SameFile /\ pc' = "remove" /\ pc = "data"
        /\ error' = -1 /\ error_blk' = <<DataLists[at[1]], at[2]>>
    BY <1>5, BlocksAre DEF DataOutOfRange, DataLooksLikeDinode, AtUncut, AtDataPointer, Fatal, SameFile, disk
  <2>2. PICK e \in Nat : e = at[1]
    BY <1>0
  <2>3. ErrorIn(e)' /\ error_blk'[2] = at[2] /\ at[1] \in DOMAIN DataLists
    BY <2>1, <2>2, ErrorHere, DataHere
  <2>4. QED
    BY <2>1, <2>2, <2>3, FewerAtRemove
<1>6. CASE ErrorUndo
  <2>1. PICK q : q = <<0, at[2]>>
    OBVIOUS
  <2>2. QED
    BY <1>6, <2>1, FewerInErrorUndo
<1>7. CASE ErrorUndoDone
  <2>1. InMetadata /\ AtFile /\ SameFile /\ SameError /\ pc' = "remove"
    BY <1>0, <1>7 DEF ErrorUndoDone, Locals, AtFile, Undoing, SameFile, SameError, disk, errors
  <2>2. ASSUME NEW p \in Places, IsPending(p)' PROVE IsPending(p)
    BY <2>1, <2>2, WalkedToSame, NoneWalkedTo DEF IsPending
  <2>3. QED
    BY <2>1, <2>2, FewerIf
<1>8. CASE AskRemove
  <2>1. SameFile /\ SameError /\ pc = "remove" /\ pc' \in {"undo_meta", "undo_data", "count"}
    BY <1>8 DEF AskRemove, SameFile, SameError, disk, walk, errors
  <2>2. CASE pc' = "count"
    BY <2>2, NonePending DEF Walking
  <2>3. QED
    BY <2>1, <2>2, FewerUndone
<1>9. CASE UndoMeta
  <2>1. SameFile /\ SameError /\ hit_error_blk' = hit_error_blk /\ pc = "undo_meta"
    BY <1>9 DEF UndoMeta, SameFile, SameError, errors
  <2>2. (pc' = "undo_data" /\ at' = at /\ ~hit_error_blk) \/ (pc' = pc /\ at' = NextBlock)
    BY <1>9 DEF UndoMeta
  <2>3. QED
    BY <2>1, <2>2, FewerUndone
<1>10. CASE UndoDataDone \/ UndoDataCut \/ UndoDataNull \/ UndoReachedError \/ UndoData
  <2>1. SameFile /\ SameError /\ pc = "undo_data"
    BY <1>10 DEF UndoDataDone, UndoDataCut, UndoDataNull, UndoReachedError, UndoData, AtUndoPointer,
                 SameFile, SameError, disk, errors
  <2>2. \/ pc' = "invalidate" \/ (pc' = "undo_meta" /\ at' = NextBlock) \/ (pc' = pc /\ at' = NextPointer)
    BY <1>10 DEF UndoDataDone, UndoDataCut, UndoDataNull, UndoReachedError, UndoData, UndoBlockDone
  <2>3. CASE pc' = "invalidate"
    BY <2>3, NonePending DEF Walking
  <2>4. QED
    BY <2>1, <2>2, <2>3, FewerUndone
<1>11. CASE ~Walking' /\ pc' \notin {"error_undo", "remove", "undo_meta", "undo_data"}
  BY <1>11, NonePending
<1>12. CASE SameFile /\ SameError /\ UNCHANGED <<pc, at, hit_error_blk>>
  BY <1>12, FewerSame
<1>13. CASE Interrupt \/ UNCHANGED vars
  BY <1>12, <1>13 DEF Interrupt, vars, disk, walk, errors, SameFile, SameError
<1>14. CASE NextRgrp \/ EndOfList \/ MarkedInode \/ InvalidInode \/ HandleInode \/ Rangecheck \/ BadlyCorrupt
         \/ MetalistCut \/ Invalidate \/ CountBlocks \/ Pass5Block \/ Pass5Done
  <2>1. pc' \in {"rgrps", "inodes", "rangecheck", "set_ip", "count", "pass5", "done", "canceled"}
    BY <1>14 DEF NextRgrp, EndOfList, MarkedInode, InvalidInode, HandleInode, Rangecheck, BadlyCorrupt,
       MetalistCut, Invalidate, CountBlocks, Pass5Block, Pass5Done, Polled
  <2>2. QED
    BY <1>11, <2>1 DEF Walking
<1>15. QED
  BY <1>1, <1>2, <1>3, <1>4, <1>5, <1>6, <1>7, <1>8, <1>9, <1>10, <1>13, <1>14 DEF Next, Grows

-----------------------------------------------------------------------------
(* A step of the walk leaves its place marked and on record.               *)
LEMMA GrownWith ==
  ASSUME Base, Confined, FilesSame, Walking, ip' = ip, NEW q, NEW x, Onto(q, x),
         \/ x \notin Blocks /\ dup_blocks' = dup_blocks /\ bl' = bl
         \/ x \in Blocks /\ bl[x] # "free" /\ AddDuplicateRef(x, ip) /\ bl' = bl
         \/ x \in Blocks /\ bl[x] = "free" /\ SetBlockmap(x, "used") /\ dup_blocks' = dup_blocks
  PROVE  RecordLasts' /\ FileOnRecord' /\ CameToMarked'
<1>0. /\ RecordLasts /\ FileOnRecord /\ CameToMarked /\ DupsOK /\ MapsOK /\ ip \in Blocks
      /\ Kept \subseteq Blocks /\ \A y \in Kept : bl[y] # "free"
  BY KeptAre, MarkedIs DEF Confined, Base, AtFile, FileAtHand
<1>1. CASE x \notin Blocks /\ dup_blocks' = dup_blocks /\ bl' = bl
  BY <1>0, <1>1, LastsUnrecorded, CameToNext
<1>2. CASE x \in Blocks /\ bl[x] # "free" /\ AddDuplicateRef(x, ip) /\ bl' = bl
  BY <1>0, <1>2, LastsRecorded, CameToNext
<1>3. CASE x \in Blocks /\ bl[x] = "free" /\ SetBlockmap(x, "used") /\ dup_blocks' = dup_blocks
  <2>1. "used" \in MapStates
    BY DEF MapStates
  <2>2. bl' = bl \/ (bl' = [bl EXCEPT ![x] = "used"] /\ x \notin Headers)
    BY <1>0, <1>3, <2>1, BlockmapSet
  <2>3. x \in Headers => bl' = bl
    BY <1>0, <1>3, <2>1, BlockmapSet
  <2>4. x \in Blocks \ Headers => bl' = [bl EXCEPT ![x] = "used"]
    BY <1>0, <1>3, <2>1, BlockmapSet
  <2>5. bl[ip] = "dinode"
    BY <1>0 DEF CameToMarked
  <2>6. bl'[ip] = bl[ip] /\ (\A y \in Blocks : bl[y] # "free" => bl'[y] # "free")
        /\ (x \in Blocks \ Headers => bl'[x] # "free")
    BY <1>0, <1>3, <2>2, <2>4, <2>5 DEF MapsOK
  <2>7. CameToMarked'
    BY <1>0, <2>6, CameToNext
  <2>8. x \notin Kept
    BY <1>0, <1>3
  <2>9. QED
    BY <1>0, <1>3, <2>7, <2>8, LastsUnrecorded
<1>4. QED
  BY <1>1, <1>2, <1>3

LEMMA GrownStep ==
  ASSUME Base, Confined, FilesSame, Grows PROVE RecordLasts' /\ FileOnRecord' /\ CameToMarked'
<1>0. Null \notin Blocks
  BY BlocksAre
<1>1. CASE MetaNull \/ MetaBlock \/ (MetaInvalid /\ pc' = pc)
  <2>1. AtMetaPointer /\ Walking /\ fs' = fs /\ ip' = ip /\ pc' = pc /\ at' = NextPointer
    BY <1>1 DEF MetaNull, MetaBlock, MetaInvalid, disk, AtMetaPointer, Walking
  <2>2. PICK q : q = <<0, at[2]>>
    OBVIOUS
  <2>3. CASE MetaInvalid
    <3>1. ptrs' = [ptrs EXCEPT ![ip][at[2]] = Null] /\ dup_blocks' = dup_blocks /\ bl' = bl
      BY <1>1, <2>1, <2>3 DEF MetaInvalid, AtMetaPointer
    <3>2. ptrs'[ip][at[2]] = Null
      BY <2>1, <3>1, AtMetaPlace DEF Base, FilesOK
    <3>3. Onto(q, Null)
      BY <2>1, <2>2, <3>1, <3>2, OntoMeta
    <3>4. QED
      BY <1>0, <2>1, <3>1, <3>3, GrownWith
  <2>4. CASE MetaNull \/ MetaBlock
    <3>1. PICK x : x = MetaPointer
      OBVIOUS
    <3>2. ptrs' = ptrs /\ x = ptrs'[ip][at[2]]
      BY <2>4, <3>1 DEF MetaNull, MetaBlock, disk, MetaPointer
    <3>3. Onto(q, x)
      BY <2>1, <2>2, <3>2, OntoMeta
    <3>4. \/ x \notin Blocks /\ dup_blocks' = dup_blocks /\ bl' = bl
          \/ x \in Blocks /\ bl[x] # "free" /\ AddDuplicateRef(x, ip) /\ bl' = bl
          \/ x \in Blocks /\ bl[x] = "free" /\ SetBlockmap(x, "used") /\ dup_blocks' = dup_blocks
      BY <1>0, <2>4, <3>1 DEF MetaNull, MetaBlock
    <3>5. QED
      BY <2>1, <3>3, <3>4, GrownWith
  <2>5. QED
    BY <1>1, <2>3, <2>4
<1>2. CASE DataNull \/ DataDuplicate \/ DataBlock
  <2>1. AtDataPointer /\ Walking /\ SameFile /\ ip' = ip /\ pc' = pc /\ at' = NextPointer
    BY <1>2 DEF DataNull, DataDuplicate, DataBlock, AtUncut, AtDataPointer, Fine, Nonfatal, SameFile, disk, Walking
  <2>2. PICK q : q = at
    OBVIOUS
  <2>3. PICK x : x = Pointer
    OBVIOUS
  <2>4. Onto(q, x)
    BY <2>1, <2>2, <2>3, OntoData
  <2>5. \/ x \notin Blocks /\ dup_blocks' = dup_blocks /\ bl' = bl
        \/ x \in Blocks /\ bl[x] # "free" /\ AddDuplicateRef(x, ip) /\ bl' = bl
        \/ x \in Blocks /\ bl[x] = "free" /\ SetBlockmap(x, "used") /\ dup_blocks' = dup_blocks
    BY <1>0, <1>2, <2>3 DEF DataNull, DataDuplicate, DataBlock
  <2>6. QED
    BY <2>1, <2>4, <2>5, GrownWith
<1>3. QED
  BY <1>1, <1>2 DEF Grows

(* The record of a kept block lasts while places lead to it.               *)
LEMMA RecordLastsStep ==
  ASSUME Base, Confined, FilesSame, [Next]_vars, UndoneAsWalked' PROVE RecordLasts'
<1>0. DupsOK /\ RecordLasts
  BY DEF Base, Confined
<1>1. CASE Grows
  BY <1>1, GrownStep
<1>2. CASE ~Grows
  <2>1. Fewer
    BY <1>2, FewerStep
  <2>2. CASE dup_blocks' = dup_blocks
    BY <1>0, <2>1, <2>2, LastsFewer
  <2>3. CASE ErrorUndo /\ dup_blocks' # dup_blocks
    <3>1. PICK q : q = <<0, at[2]>>
      OBVIOUS
    <3>2. PICK b : b = ptrs[ip][at[2]]
      OBVIOUS
    <3>3. UndoReference(b, TRUE)
      BY <2>3, <3>2 DEF ErrorUndo
    <3>4. q \in Pending /\ Lead(q) = b /\ q \notin Pending'
      BY <2>3, <3>1, <3>2, ErrorUndoPending, FewerInErrorUndo DEF ErrorUndo
    <3>5. QED
      BY <1>0, <2>1, <3>3, <3>4, LastsUndone
  <2>4. CASE UndoMeta
    <3>1. PICK b : b = metalist[at[1]]
      OBVIOUS
    <3>2. UndoReference(b, TRUE) /\ at[1] \in DOMAIN metalist /\ AtFile
      BY <2>4, <3>1, UndoMetaHere DEF UndoMeta, AtFile, Undoing
    <3>3. b \notin Kept
      BY <3>1, <3>2 DEF Confined, KeptAside
    <3>4. QED
      BY <1>0, <2>1, <3>2, <3>3, LastsUndone
  <2>5. CASE UndoData
    <3>1. PICK q : q = at
      OBVIOUS
    <3>2. PICK b : b = Pointer
      OBVIOUS
    <3>3. UndoReference(b, FALSE)
      BY <2>5, <3>2 DEF UndoData
    <3>4. q \in Pending /\ Lead(q) = b
      BY <2>5, <3>1, <3>2, UndoDataPending DEF UndoData, Confined
    <3>5. q \notin Pending'
      BY <2>5, <3>1, UndoLeaves DEF UndoData, AtUndoPointer, UndoBlockDone
    <3>6. QED
      BY <1>0, <2>1, <3>3, <3>4, <3>5, LastsUndone
  <2>6. CASE pc' \in {"inodes", "count"}
    <3>1. Pending' = {}
      BY <2>6 DEF Pending, IsPending
    <3>2. QED
      BY <3>1 DEF RecordLasts
  <2>7. QED
    BY <1>2, <2>2, <2>3, <2>4, <2>5, <2>6 DEF Grows, Next, vars, Polled,
     NextRgrp, EndOfList, MarkedInode, InvalidInode, HandleInode, Rangecheck, BadlyCorrupt,
     SetIpBlockmap, MetalistDone, MetalistCut, MetaOutOfRange, MetaInvalid,
     DataBlockDone, DataCut, DataOutOfRange, DataLooksLikeDinode,
     ErrorUndoDone, AskRemove, UndoDataDone, UndoDataCut, UndoDataNull, UndoReachedError,
     Invalidate, CountBlocks, Pass5Block, Pass5Done, Interrupt
<1>3. QED
  BY <1>1, <1>2

(* What the walk has come to is marked.                                    *)
LEMMA MarkedStep ==
  ASSUME Base, Confined, FilesSame, [Next]_vars, UndoneAsWalked' PROVE Marked'
<1>1. CASE Grows
  BY <1>1, GrownStep DEF Marked, CameToMarked, FileOnRecord
<1>2. CASE ~Grows /\ SetIpBlockmap
  <2>1. pc = "set_ip" /\ ip' = ip /\ ip \in Blocks \ Headers /\ MapsOK
    BY <1>2 DEF SetIpBlockmap, walk, Base, AtFile, FileAtHand
  <2>2. Pending' = {}
    BY <1>2, <2>1, FewerStep DEF Fewer, Pending, IsPending
  <2>3. CASE ip \in fs.badmode
    BY <1>2, <2>3 DEF SetIpBlockmap, Marked, Walking
  <2>4. CASE SetBlockmap(ip, "dinode")
    <3>1. "dinode" \in MapStates
      BY DEF MapStates
    <3>2. bl' = [bl EXCEPT ![ip] = "dinode"]
      BY <2>1, <2>4, <3>1, BlockmapSet
    <3>3. bl'[ip'] = "dinode"
      BY <2>1, <3>2 DEF MapsOK
    <3>4. QED
      BY <2>2, <3>3 DEF Marked
  <2>5. QED
    BY <1>2, <2>3, <2>4 DEF SetIpBlockmap
<1>3. CASE ~Walking'
  BY <1>3 DEF Marked
<1>4. CASE ~Grows /\ (Walking' => Walking) /\ UNCHANGED <<dup_blocks, bl, ip>>
  BY <1>4, FewerStep, MarkedFewer DEF Confined
<1>5. QED
  BY <1>1, <1>2, <1>3, <1>4 DEF Grows, Next, vars, disk, walk, Polled, Walking, GiveUp, WalkDone, Fatal,
     AtMetaPointer, AtUncut, AtDataPointer, AtUndoPointer, UndoBlockDone,
     NextRgrp, EndOfList, MarkedInode, InvalidInode, HandleInode, Rangecheck, BadlyCorrupt,
     MetalistDone, MetalistCut, MetaOutOfRange, MetaInvalid,
     DataBlockDone, DataCut, DataOutOfRange, DataLooksLikeDinode,
     ErrorUndo, ErrorUndoDone, AskRemove, UndoMeta, UndoDataDone, UndoDataCut, UndoDataNull,
     UndoReachedError, UndoData, Invalidate, CountBlocks, Pass5Block, Pass5Done, Interrupt

-----------------------------------------------------------------------------
(* A file walked to its end joins those kept.                              *)
Finished ==
    DataBlockDone /\ AtEnd(DataLists) /\ WalkDone /\ walked' = walked \union {ip} \X ({ip} \union Range(metalist))

LEMMA SeenWasWalked ==
  ASSUME Base, Confined, Finished, NEW i, i = ip, NEW b \in SeenRefs(i)'
  PROVE  b \in Blocks \ Headers /\ \E p \in Pending : Lead(p) = b
<1>0. /\ fs' = fs /\ ptrs' = ptrs /\ ip' = ip /\ pc = "data" /\ AtFile /\ FileAtHand /\ i \notin Whole
      /\ i \in Blocks /\ fs.height[i] \in 0 .. 2 /\ fs.content[i] = "DI"
      /\ at \in (Nat \ {0}) \X (Nat \ {0}) /\ metalist \in Seq(Blocks)
  BY IpIsAside DEF Finished, DataBlockDone, disk, AtFile, Walking, Base, WalkOK, FilesOK, FileAtHand
<1>1. Indirect(i)' = Indirect(i) /\ DataPlaces(i)' = DataPlaces(i)
  <2>1. Metadata(i)' = Metadata(i)
    BY <1>0 DEF Metadata
  <2>2. Indirect(i)' = Indirect(i)
    BY <1>0, <2>1 DEF Indirect
  <2>3. DataHolders(i)' = DataHolders(i)
    BY <1>0, <2>2 DEF DataHolders
  <2>4. QED
    BY <1>0, <2>2, <2>3 DEF DataPlaces
<1>2. ASSUME NEW m, <<i, m>> \in walked' PROVE m = i \/ \E a \in DOMAIN metalist : metalist[a] = m
  <2>1. <<i, m>> \notin walked
    BY <1>0 DEF Confined, WalkedOf
  <2>2. m \in {ip} \union Range(metalist)
    BY <1>2, <2>1 DEF Finished
  <2>3. QED
    BY <2>2 DEF Range
<1>3. ASSUME NEW k \in Metadata(i), b = ptrs[i][k] PROVE \E p \in Pending : Lead(p) = b
  <2>1. k \in DOMAIN ptrs[i] /\ fs.height[i] = 2 /\ k \in Nat
    BY <1>0, <1>3, BlockLength DEF Metadata, Base
  <2>2. <<0, k>> \in MetaPlaces /\ <<0, k>> \in Places
    BY <2>1 DEF MetaPlaces, Places
  <2>3. <<0, k>> \in Pending
    BY <1>0, <2>2 DEF Pending, IsPending
  <2>4. Lead(<<0, k>>) = b
    BY <1>3 DEF Lead, Holder
  <2>5. QED
    BY <2>3, <2>4
<1>4. ASSUME NEW q \in DataPlaces(i), <<i, q[1]>> \in walked', b = ptrs[q[1]][q[2]]
      PROVE  \E p \in Pending : Lead(p) = b
  <2>1. fs.height[i] # 0 /\ q[1] \in DataHolders(i) /\ q[2] \in DOMAIN ptrs[q[1]]
    BY <1>4 DEF DataPlaces
  <2>2. PICK a \in DOMAIN DataLists : DataLists[a] = q[1]
    <3>1. CASE fs.height[i] = 1
      <4>1. q[1] = i /\ DataLists = <<i>>
        BY <2>1, <3>1 DEF DataHolders, DataLists
      <4>2. QED
        BY <4>1
    <3>2. CASE fs.height[i] = 2
      <4>1. fs.content[q[1]] = "IN" /\ DataLists = metalist
        BY <2>1, <3>2 DEF DataHolders, DataLists
      <4>2. QED
        BY <1>0, <1>2, <1>4, <4>1
    <3>3. QED
      BY <1>0, <2>1, <3>1, <3>2
  <2>3. /\ a \in Nat \ {0} /\ Len(DataLists) \in Nat /\ a <= Len(DataLists)
        /\ DataLists[a] \in Blocks
    BY <1>0, <2>2, HoldersAre DEF Base
  <2>4. a < at[1] /\ q[2] \in Nat
    BY <1>0, <2>1, <2>2, <2>3, BlockLength DEF Finished, AtEnd, Base
  <2>5. Holder(a) = q[1]
    BY <2>2, <2>3 DEF Holder
  <2>6. PICK p : p = <<a, q[2]>>
    OBVIOUS
  <2>7. p \in Places /\ p[1] = a /\ p[2] = q[2]
    BY <2>3, <2>4, <2>6 DEF Places
  <2>8. IsData(p) /\ Before(p, at)
    BY <2>1, <2>2, <2>4, <2>5, <2>7 DEF IsData, Before
  <2>9. p \in Pending /\ Lead(p) = b
    BY <1>0, <1>4, <2>5, <2>7, <2>8 DEF Pending, IsPending, Lead
  <2>10. QED
    BY <2>9
<1>5. b \in (Indirect(i) \union { ptrs[q[1]][q[2]] : q \in { r \in DataPlaces(i) : <<i, r[1]>> \in walked' } }) \ Headers
  BY <1>0, <1>1 DEF SeenRefs
<1>6. CASE b \in Indirect(i)
  <2>1. PICK k \in Metadata(i) : b = ptrs[i][k]
    BY <1>6 DEF Indirect
  <2>2. b \in Blocks
    BY <2>1 DEF Metadata
  <2>3. QED
    BY <1>3, <1>5, <2>1, <2>2
<1>7. CASE b \notin Indirect(i)
  <2>1. PICK q \in DataPlaces(i) : <<i, q[1]>> \in walked' /\ b = ptrs[q[1]][q[2]]
    BY <1>5, <1>7
  <2>2. b \in Blocks
    BY <2>1 DEF DataPlaces
  <2>3. QED
    BY <1>4, <1>5, <2>1, <2>2
<1>8. QED
  BY <1>6, <1>7

LEMMA FinishStep == ASSUME Base, Confined, Finished PROVE Confined'
<1>0. /\ UNCHANGED <<fs, ptrs, bl, dup_blocks, ip, metalist>> /\ pc = "data" /\ pc' = "count"
      /\ AtFile /\ Walking /\ FileAtHand /\ ip \notin Kept /\ ip \notin Whole /\ ip \in Blocks
  BY IpIsAside DEF Finished, DataBlockDone, WalkDone, disk, AtFile, Walking, Base, FileAtHand
<1>1. PICK i : i = ip
  OBVIOUS
<1>2. Whole' = Whole \union {i}
  <2>1. \A f : <<f, f>> \in walked' <=> <<f, f>> \in walked \/ f = ip
    BY DEF Finished
  <2>2. QED
    BY <1>0, <1>1, <2>1 DEF Whole
<1>3. ASSUME NEW f \in Whole PROVE SeenRefs(f)' = SeenRefs(f) /\ Own(f)' = Own(f) /\ Own(f) \subseteq Kept
  <2>1. f \in Blocks /\ f # ip
    BY <1>0 DEF Whole
  <2>2. \A m \in Blocks : <<f, m>> \in walked' <=> <<f, m>> \in walked
    BY <2>1 DEF Finished
  <2>3. SeenRefs(f)' = SeenRefs(f)
    BY <1>0, <2>1, <2>2, SeenSame
  <2>4. QED
    BY <2>3 DEF Own, Kept
<1>4. ASSUME NEW b \in SeenRefs(i)'
      PROVE  bl[b] # "free" /\ (b \in Kept => Recorded(b) /\ OnRecord(b, i))
  <2>1. b \in Blocks \ Headers
    BY <1>1, SeenWasWalked
  <2>2. PICK p \in Pending : Lead(p) = b
    BY <1>1, SeenWasWalked
  <2>3. QED
    BY <1>0, <1>1, <2>1, <2>2 DEF Confined, Marked, RecordLasts
<1>5. WalkedOf'
  <2>1. ASSUME NEW w \in walked' PROVE w[1] \in Whole' /\ (w[2] = w[1] \/ fs.content[w[2]] = "IN")
    <3>1. CASE w \in walked
      BY <1>2, <3>1 DEF Confined, WalkedOf
    <3>2. CASE w \in {ip} \X ({ip} \union Range(metalist))
      <4>1. w[1] = i /\ (w[2] = i \/ \E k \in DOMAIN metalist : w[2] = metalist[k])
        BY <1>1, <3>2 DEF Range
      <4>2. QED
        BY <1>0, <1>2, <4>1 DEF FileAtHand
    <3>3. QED
      BY <3>1, <3>2 DEF Finished
  <2>2. \A f \in Whole' : f \notin Headers /\ fs.content[f] = "DI"
    BY <1>0, <1>1, <1>2 DEF Confined, WalkedOf, FileAtHand
  <2>3. QED
    BY <1>0, <2>1, <2>2 DEF WalkedOf
<1>6. InUse'
  <2>1. \A f \in Whole : bl[f] = "dinode" /\ \A b \in SeenRefs(f)' : bl[b] # "free"
    BY <1>3 DEF Confined, InUse
  <2>2. bl[i] = "dinode"
    BY <1>0, <1>1 DEF Confined, Marked
  <2>3. QED
    BY <1>0, <1>2, <1>4, <2>1, <2>2 DEF InUse
<1>7. Shared'
  <2>1. ASSUME NEW g \in Whole, NEW b \in Own(i)', b \in Own(g)' PROVE Recorded(b) /\ OnRecord(b, i)
    <3>1. b \in Kept
      BY <1>3, <2>1
    <3>2. b \in SeenRefs(i)'
      BY <1>0, <1>1, <2>1, <3>1 DEF Own
    <3>3. QED
      BY <1>4, <3>1, <3>2
  <2>2. ASSUME NEW f \in Whole', NEW g \in Whole', NEW b \in Own(f)' \intersect Own(g)', f # g
        PROVE  Recorded(b) /\ (OnRecord(b, f) \/ OnRecord(b, g))
    <3>1. CASE f = i
      BY <1>2, <2>1, <2>2, <3>1
    <3>2. CASE g = i
      BY <1>2, <2>1, <2>2, <3>2
    <3>3. CASE f # i /\ g # i
      BY <1>2, <1>3, <2>2, <3>3 DEF Confined, Shared
    <3>4. QED
      BY <3>1, <3>2, <3>3
  <2>3. QED
    BY <1>0, <2>2 DEF Shared, Recorded, OnRecord
<1>8. KeptAside' /\ Marked' /\ UndoAt' /\ Reconciled'
  BY <1>0 DEF KeptAside, Marked, UndoAt, Reconciled, AtFile, Walking, Undoing
<1>9. RecordLasts'
  <2>1. Pending' = {}
    BY <1>0 DEF Pending, IsPending
  <2>2. QED
    BY <2>1 DEF RecordLasts
<1>10. QED
  BY <1>5, <1>6, <1>7, <1>8, <1>9 DEF Confined

-----------------------------------------------------------------------------
(* The undo stays confined to what was walked.                             *)
LEMMA ConfinedStep == ASSUME Base, Base', Confined, [Next]_vars, UndoneAsWalked' PROVE Confined'
<1>1. CASE Finished
  BY <1>1, FinishStep
<1>2. CASE ~Finished
  <2>1. DataBlockDone => walked' = walked
    BY <1>2 DEF Finished, DataBlockDone, GiveUp
  <2>2. FilesSame
    BY <2>1, FilesSameStep
  <2>3. WalkedOf'
    BY <2>2, WalkedOfLasts DEF Confined
  <2>4. InUse'
    BY <2>2, KeptMarksStep, InUseLasts DEF Confined
  <2>5. Shared'
    BY <2>2, LastingStep, SharedLasts DEF Confined
  <2>6. KeptAside' /\ Reconciled'
    BY <2>2, KeptAsideStep, ReconciledStep
  <2>7. RecordLasts' /\ Marked' /\ UndoAt'
    BY <2>2, RecordLastsStep, MarkedStep, UndoAtStep
  <2>8. QED
    BY <2>3, <2>4, <2>5, <2>6, <2>7 DEF Confined
<1>3. QED
  BY <1>1, <1>2

LEMMA InitConfined == ASSUME Init PROVE Confined
<1>1. Whole = {} /\ Kept = {} /\ pc = "rgrps" /\ walked = {}
  BY DEF Init, Whole, Kept
<1>2. Pending = {}
  BY <1>1 DEF Pending, IsPending
<1>3. QED
  BY <1>1, <1>2 DEF Confined, WalkedOf, InUse, Shared, KeptAside, RecordLasts, Marked, UndoAt, Reconciled,
     AtFile, Walking, Undoing

LEMMA Inductive == Spec => []IInv
<1>1. Init => IInv
  BY InitBase, InitConfined DEF IInv, UndoIsConfined
<1>2. IInv /\ [Next]_vars => IInv'
  <2>1. SUFFICES ASSUME IInv, [Next]_vars PROVE IInv'
    OBVIOUS
  <2>2. Base'
    BY <2>1, BaseStep DEF IInv
  <2>3. UndoneAsWalked' => Confined'
    BY <2>1, <2>2, UndoneBefore, ConfinedStep DEF IInv, UndoIsConfined
  <2>4. QED
    BY <2>2, <2>3 DEF IInv, UndoIsConfined
<1>3. QED
  BY <1>1, <1>2, PTL DEF Spec

(* No file that was walked to its end and kept ever loses a block to what  *)
(* is undone for a later one (undo_reference of metawalk.c with the        *)
(* records add_duplicate_ref keeps), as long as the undo is of what was    *)
(* walked.                                                                 *)
THEOREM KeptFilesStayInUse == Spec => []KeptStayInUse
<1>1. IInv => KeptStayInUse
  BY DEF IInv, UndoIsConfined, Confined, InUse, KeptStayInUse
<1>2. QED
  BY <1>1, Inductive, PTL

(* When pass5 is through, no block of a kept file is free in the bitmap,   *)
(* except where the user declined the repair.                              *)
THEOREM KeptFilesAreAllocated == Spec => []KeptAreAllocated
<1>1. IInv => KeptAreAllocated
  <2>1. SUFFICES ASSUME IInv, pc = "done", UndoneAsWalked, "pass5" \notin cut,
                        NEW f \in Whole, NEW b \in Own(f) \ declined
                 PROVE  bitmap[b] # "free"
    BY DEF KeptAreAllocated
  <2>2. Reconciled /\ at[1] \in Nat
    BY <2>1 DEF IInv, Base, WalkOK, UndoIsConfined, Confined
  <2>3. b \in Kept \ declined
    BY <2>1 DEF Kept
  <2>4. b \in Nat /\ b <= NBlocks
    BY <2>3, KeptInBlocks, Sizes DEF Blocks
  <2>5. b < at[1]
    BY <2>1, <2>2, <2>4, Sizes DEF Reconciled
  <2>6. QED
    BY <2>1, <2>2, <2>3, <2>5 DEF Reconciled
<1>2. QED
  BY <1>1, Inductive, PTL

(* Two kept files that have a block in common are left to pass1b: the      *)
(* block has a duplicate record, and it names all that have the block but  *)
(* the first.                                                              *)
THEOREM SharedBlocksAreRecorded == Spec => []SharedIsRecorded
<1>1. IInv => SharedIsRecorded
  BY DEF IInv, UndoIsConfined, Confined, Shared, OnRecord, SharedIsRecorded
<1>2. QED
  BY <1>1, Inductive, PTL

=============================================================================
