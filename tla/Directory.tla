----------------------------- MODULE Directory ------------------------------
(***************************************************************************)
(* A directory in use: files are created in it and removed from it.        *)
(*                                                                         *)
(* dir is the directory in memory (FileBlocks).  An addition takes several *)
(* steps, one per round of dir_e_add: add is its name, its inode and the   *)
(* leaf of the chain it has come to (0 to start from the table).  found    *)
(* observes the directory: what a search finds, after every step.          *)
(***************************************************************************)
EXTENDS Dirents

CONSTANTS
    Room,       \* how many blocks may be free on the device
    MaxOps      \* bound: additions and deletions

ASSUME DirectoryAssumption == Room \subseteq 0 .. LastBlock - 1 /\ MaxOps \in Nat

VARIABLES dir, add, ops, found
vars == <<dir, add, ops, found>>

Become(f) == dir' = f /\ found' = Found(f)

Init == dir \in { NewDirectory(n) : n \in Room } /\ found = Found(dir) /\ add = Idle /\ ops = 0

Resting == dir.end = "no" /\ add = Idle
Adding == add # Idle /\ dir.end = "no"

(* __createi: looked up, then a dinode, then its entry.                    *)
Create(name) ==
    /\ Resting /\ ops < MaxOps
    /\ dir_search(dir, name) = 0 /\ dir.free # {}
    /\ Become(Taken(dir, FirstFree(dir)))
    /\ add' = [name |-> name, inum |-> FirstFree(dir), at |-> 0]
    /\ ops' = ops + 1

(* What the process had in memory is lost when it exits.                   *)
AddStep ==
    /\ Adding
    /\ \E s \in {dir_add([f |-> dir, add |-> add])} :
          /\ Become(IF s.f.end = "no" THEN s.f ELSE [dir EXCEPT !.end = s.f.end])
          /\ add' = s.add
    /\ UNCHANGED ops

Delete(name) ==
    /\ Resting /\ ops < MaxOps
    /\ \E f \in {gfs2_dirent_del(dir, name)} : f # dir /\ Become(f)
    /\ ops' = ops + 1 /\ UNCHANGED add

Next == AddStep \/ \E name \in Names \ {".", ".."} : Create(name) \/ Delete(name)

(* The process goes on: the weak fairness of AddStep, written out.  It can *)
(* take place whenever an addition is under way, and it alone is a step    *)
(* that leaves ops as it is.                                               *)
AddGoesOn == []<>~Adding \/ []<><<ops' = ops>>_vars
Spec == Init /\ [][Next]_vars /\ AddGoesOn

-----------------------------------------------------------------------------
RoomOf(b) == IF b = Dinode THEN DiRoom ELSE LeafRoom
RecordBlocks(f) == IF f.exhash THEN LeafBlocks(f) ELSE {Dinode}
Filled(dents) == FoldLeft(LAMBDA sum, d : sum + d.rec, 0, dents)

TypeOK ==
    /\ dir.free \subseteq Block /\ dir.end \in {"no", "exit", "stray"} /\ ops \in 0 .. MaxOps
    /\ add.name \in Names \union {Free} /\ add.at \in {0} \union Block

(* Every record of a block has room for its name, and the records fill the *)
(* block to its end, whatever was split, merged and moved (dirent_alloc,   *)
(* dirent2_del, dir_make_exhash).                                          *)
RecordsFillBlocks ==
    \A b \in RecordBlocks(dir) :
        LET dents == dir.block[b].dents
        IN  /\ Filled(dents) = RoomOf(b)
            /\ \A i \in DOMAIN dents : dents[i].name # Free => dents[i].rec >= Size[dents[i].name]
            /\ \A i \in DOMAIN dents : dents[i].name = Free => i = 1

(* What fsck's passes 1 and 2 compare: the entries a leaf and the dinode   *)
(* count are there, and the blocks counted are the blocks held: leaves,    *)
(* table and the tree above it.                                            *)
CountsAgree ==
    /\ dir.entries = Cardinality(EntriesOf(dir))
    /\ \A b \in LeafBlocks(dir) : dir.block[b].entries = Len(Used(dir.block[b].dents))
    /\ dir.blocks = Cardinality({ b \in Block \ dir.free : dir.block[b].kind # "none" })
    /\ LeafBlocks(dir) = Attached(dir)

(* The table of the directory is as the kernel needs it at every moment.   *)
TableIsSound == TableSound(dir, Names)

(* The directory on disk is sound after every step of an addition and      *)
(* every removal: its records, its counts and its table.                   *)
DirectoryIsSound == RecordsFillBlocks /\ CountsAgree /\ TableIsSound

(* What a directory promises: a set of names with their inodes, to which   *)
(* each addition and each removal adds or takes exactly its own, however   *)
(* often leaves split, the table doubles or a chain grows in between; and  *)
(* what a search finds is that set.                                        *)
NameMap == INSTANCE NameMap WITH held <- found, adding <- <<add.name, add.inum>>
ImplementsNameMap == NameMap!Spec

(* Every addition ends, also when many names share the highest bits of     *)
(* their hash and no split tells them apart.                               *)
AddEnds == []<>~Adding
=============================================================================
